--------------------------- MODULE CaptureSession ---------------------------
(* One speaker's session (Receive/Session.go): the worker goroutine, the   *)
(* goroutines it starts to open, finish and close transcribers, what the   *)
(* guild's Cleanup does to it while it holds StreamerMutex, and the voice  *)
(* connection, which closes it when the speaker leaves or the connection   *)
(* does.  The worker serves five channels in one select; two of its steps  *)
(* call back into the guild, which takes that mutex.                       *)
(*                                                                         *)
(* A transcriber is named after the capture it was opened for.  What was   *)
(* said is abstracted to how the worker treats it (Update), and time to    *)
(* the choice of when a limit is passed.                                   *)
EXTENDS CaptureDuck, FiniteSets

CONSTANTS NoTranscriber, MaxCaptures, MaxDucks, Closers

\* MaxCaptures bounds the captures, MaxDucks captures and responses together; Closers are
\* those of the guild and the connection that may close the session.
ASSUME CaptureAssumption ==
  /\ MaxCaptures \in Nat \ {0}
  /\ MaxDucks \in Nat \ {0}
  /\ Capture = 1 .. MaxCaptures
  /\ NoTranscriber \notin Capture

VARIABLES
  worker,           \* where the goroutine of run is
  state,            \* listening or capturing
  captureID,
  finalizing, dispatched, awaitingCommandTail,
  transcriber,      \* S.transcriber
  wakeCh,           \* a channel with room for one
  transcriberReady, \* the same: what it holds, as a sequence
  sttUpdates,       \* the updates waiting, as a sequence
  opener,           \* openTranscriber, by capture
  conn,             \* the transcriber of each capture
  closers,          \* the goroutines of abortCapture
  finalizer,        \* the goroutine of finalizeCapture, by transcriber
  sent,             \* commands dispatched, by the capture that decided it
  stored,           \* the guild is in GuildStore
  mixer,            \* the guild has its VoiceMixer
  cleanup,          \* where Cleanup is; it has StreamerMutex between its ends
  leaving,          \* where the connection is that closes the session
  cancelled         \* the session's context, and its closed flag

sessionVars == <<worker, state, captureID, finalizing, dispatched,
                 awaitingCommandTail, transcriber, wakeCh, transcriberReady,
                 sttUpdates, opener, conn, closers, finalizer, sent, stored,
                 mixer, cleanup, leaving, cancelled>>

vars == <<duckVars, sessionVars>>

-----------------------------------------------------------------------------
(* Types                                                                   *)

Idle == [at |-> "select", of |-> "start"]

\* The callbacks of a capture's start and of its end, step by step.
Callbacks == {"cueLookup", "cueLock", "duckLookup", "duckLock"}

Worker == [at : Callbacks \cup {"select", "duckStore", "ensure", "gone"},
           of : {"start", "end"}]

Result == [id : Capture, ok : BOOLEAN]

\* How handleTranscriptUpdate takes a text: as a command with arguments still
\* to come, as one to dispatch at once, or as the end of an utterance, with a
\* command or without.  Any other update changes nothing.
Update == {"needsArgs", "immediate", "end"}

\* What a channel with room for one may hold.
Buffered(S) == {<<>>} \cup {<<x>> : x \in S}

MutexFree == cleanup \in {"none", "done"}

CaptureTypeOK ==
  /\ worker \in Worker
  /\ state \in {"listening", "capturing"}
  /\ captureID \in 0 .. MaxCaptures
  /\ finalizing \in BOOLEAN /\ dispatched \in BOOLEAN
  /\ awaitingCommandTail \in BOOLEAN
  /\ transcriber \in Capture \cup {NoTranscriber}

ChannelTypeOK ==
  /\ wakeCh \in BOOLEAN
  /\ transcriberReady \in Buffered(Result)
  /\ sttUpdates \in Buffered(Update)

HelperTypeOK ==
  /\ opener \in [Capture -> {"none", "dialing", "opened", "failed", "over"}]
  /\ conn \in [Capture -> {"none", "open", "done"}]
  /\ closers \subseteq Capture
  /\ finalizer \in [Capture -> {"none", "finalizing", "skipping"}]
  /\ sent \in [Capture -> 0 .. 2]

GuildTypeOK ==
  /\ stored \in BOOLEAN /\ mixer \in BOOLEAN
  /\ cleanup \in {"none", "receiver", "joining", "mixer", "done"}
  /\ leaving \in {"none", "closing", "joining", "done"}
  /\ cancelled \in BOOLEAN

TypeOK ==
  DuckTypeOK /\ CaptureTypeOK /\ ChannelTypeOK /\ HelperTypeOK /\ GuildTypeOK

Init ==
  /\ DuckInit
  /\ worker = Idle
  /\ state = "listening" /\ captureID = 0
  /\ finalizing = FALSE /\ dispatched = FALSE /\ awaitingCommandTail = FALSE
  /\ transcriber = NoTranscriber
  /\ wakeCh = FALSE
  /\ transcriberReady = <<>> /\ sttUpdates = <<>>
  /\ opener = [c \in Capture |-> "none"]
  /\ conn = [c \in Capture |-> "none"]
  /\ closers = {}
  /\ finalizer = [c \in Capture |-> "none"]
  /\ sent = [c \in Capture |-> 0]
  /\ stored = TRUE /\ mixer = TRUE
  /\ cleanup = "none" /\ leaving = "none" /\ cancelled = FALSE

-----------------------------------------------------------------------------
(* What the worker does with a capture                                     *)

captureVars == <<state, captureID, finalizing, dispatched,
                 awaitingCommandTail, transcriber>>
channelVars == <<wakeCh, transcriberReady, sttUpdates>>
helperVars  == <<opener, conn, closers, finalizer>>
guildVars   == <<stored, mixer, cleanup, leaving, cancelled>>

Done(t) == conn[t] = "done"

(* Close of a transcriber, as of a connection that ends, closes its done   *)
(* channel.                                                                *)
CloseConn(t) == conn' = [conn EXCEPT ![t] = "done"]

(* endCapture, up to its two callbacks; every caller has already taken the *)
(* transcriber away.                                                       *)
EndCapture ==
  /\ state' = "listening"
  /\ finalizing' = FALSE
  /\ awaitingCommandTail' = FALSE
  /\ worker' = [at |-> "cueLookup", of |-> "end"]

(* The end of finalizeCapture with a transcriber: a goroutine gets it, and *)
(* only closes it if a command was dispatched before.                      *)
HandOver(t) ==
  /\ finalizer' = [finalizer EXCEPT ![t] = IF dispatched THEN "skipping"
                                           ELSE "finalizing"]
  /\ transcriber' = NoTranscriber
  /\ EndCapture

(* finalizeCapture: a transcriber that is gone or done is dropped, and the *)
(* worker waits for another one in ensureTranscriber.                      *)
FinalizeCapture ==
  IF finalizing
    THEN UNCHANGED <<worker, state, finalizing, awaitingCommandTail,
                     transcriber, finalizer>>
    ELSE IF transcriber # NoTranscriber /\ ~Done(transcriber)
    THEN HandOver(transcriber)
    ELSE /\ finalizing' = TRUE
         /\ transcriber' = NoTranscriber
         /\ worker' = [at |-> "ensure", of |-> "end"]
         /\ UNCHANGED <<state, awaitingCommandTail, finalizer>>

\* Slip: the goroutine is started without looking for a transcriber.
AbortUnchecked ==
  /\ closers' = closers \cup {transcriber}
  /\ transcriber' = NoTranscriber
  /\ EndCapture

(* abortCapture: a goroutine closes the transcriber.                       *)
AbortCapture ==
  IF finalizing
    THEN UNCHANGED <<worker, state, finalizing, awaitingCommandTail,
                     transcriber, closers>>
    ELSE /\ closers' = closers \cup ({transcriber} \ {NoTranscriber})
         /\ transcriber' = NoTranscriber
         /\ EndCapture

\* The commands of a capture, counted up to two.
CountDispatch(c) ==
  sent' = [sent EXCEPT ![c] = IF @ = 2 THEN 2 ELSE @ + 1]

-----------------------------------------------------------------------------
(* The select of run                                                       *)

Served == worker = Idle

BeginCapture ==
  /\ Served /\ wakeCh /\ state = "listening"
  /\ wakeCh' = FALSE
  /\ state' = "capturing"
  /\ captureID' = captureID + 1
  /\ finalizing' = FALSE /\ dispatched' = FALSE /\ awaitingCommandTail' = FALSE
  /\ worker' = [at |-> "cueLookup", of |-> "start"]
  /\ UNCHANGED <<transcriber, transcriberReady, sttUpdates, helperVars,
                 sent, guildVars, duckVars>>

(* A wake word during a capture.                                           *)
WakeIgnored ==
  /\ Served /\ wakeCh /\ state = "capturing"
  /\ wakeCh' = FALSE
  /\ UNCHANGED <<worker, captureVars, transcriberReady, sttUpdates,
                 helperVars, sent, guildVars, duckVars>>

\* Slip: whatever arrives during a capture is taken to be its own.
CurrentOfAny(r) == state = "capturing"

Current(r) == state = "capturing" /\ r.id = captureID

(* handleTranscriberReady: a failure aborts the capture it is of, and a    *)
(* transcriber of an earlier capture is closed.                            *)
HandleFailure(r) ==
  /\ ~r.ok
  /\ IF Current(r)
       THEN AbortCapture
       ELSE UNCHANGED <<worker, state, finalizing, awaitingCommandTail,
                        transcriber, closers>>
  /\ UNCHANGED conn

\* Slip: a transcriber of an earlier capture is dropped.
DropStale(r) ==
  /\ r.ok /\ ~Current(r)
  /\ UNCHANGED <<worker, state, finalizing, awaitingCommandTail, transcriber,
                 conn, closers>>

HandleStale(r) ==
  /\ r.ok /\ ~Current(r)
  /\ CloseConn(r.id)
  /\ UNCHANGED <<worker, state, finalizing, awaitingCommandTail, transcriber,
                  closers>>

AttachTranscriber(r) ==
  /\ r.ok /\ Current(r)
  /\ transcriber' = IF Done(r.id) THEN NoTranscriber ELSE r.id
  /\ UNCHANGED <<worker, state, finalizing, awaitingCommandTail, conn,
                 closers>>

HandleTranscriberReady ==
  /\ Served
  /\ \E r \in Result :
       /\ transcriberReady = <<r>>
       /\ HandleFailure(r) \/ HandleStale(r) \/ AttachTranscriber(r)
  /\ transcriberReady' = <<>>
  /\ UNCHANGED <<captureID, dispatched, wakeCh, sttUpdates, opener,
                 finalizer, sent, guildVars, duckVars>>

(* ensureTranscriber takes one result, whichever it is, and finalizeCapture *)
(* goes on with what that left in the session.                             *)
EnsureTakesResult ==
  /\ worker.at = "ensure"
  /\ \E r \in Result :
       /\ transcriberReady = <<r>>
       /\ \/ /\ r.ok /\ Current(r) /\ ~Done(r.id)
             /\ HandOver(r.id)
             /\ UNCHANGED conn
          \/ /\ r.ok /\ ~Current(r)
             /\ CloseConn(r.id)
             /\ EndCapture /\ UNCHANGED <<transcriber, finalizer>>
          \/ /\ ~r.ok \/ (Current(r) /\ Done(r.id))
             /\ EndCapture /\ UNCHANGED <<transcriber, finalizer, conn>>
  /\ transcriberReady' = <<>>
  /\ UNCHANGED <<captureID, dispatched, wakeCh, sttUpdates, opener, closers,
                 sent, guildVars, duckVars>>

\* Slip: ensureTranscriber without its timeout.
EnsureWaits == FALSE

EnsureTimesOut ==
  /\ worker.at = "ensure"
  /\ EndCapture
  /\ UNCHANGED <<captureID, dispatched, transcriber, channelVars, helperVars,
                 sent, guildVars, duckVars>>

(* handleTranscriptUpdate.                                                 *)
UpdateIgnored(u) ==
  /\ \/ state # "capturing" \/ dispatched
     \/ u = "end" /\ ~awaitingCommandTail  \* and no command
  /\ UNCHANGED <<worker, captureVars, closers, finalizer, sent>>

UpdateAwaitsArguments(u) ==
  /\ state = "capturing" /\ ~dispatched
  /\ u = "needsArgs"
  /\ awaitingCommandTail' = TRUE
  /\ UNCHANGED <<worker, state, captureID, finalizing, dispatched, transcriber,
                 closers, finalizer, sent>>

UpdateFinalizes(u) ==
  /\ state = "capturing" /\ ~dispatched
  /\ u = "end"  \* of a command, or of the arguments that were awaited
  /\ FinalizeCapture
  /\ UNCHANGED <<captureID, dispatched, closers, sent>>

\* Slip: the capture is finalized as any other, and does not know.
DispatchAndFinalize(u) ==
  /\ state = "capturing" /\ ~dispatched
  /\ u = "immediate"
  /\ CountDispatch(captureID)
  /\ FinalizeCapture
  /\ UNCHANGED <<captureID, dispatched, closers>>

UpdateDispatches(u) ==
  /\ state = "capturing" /\ ~dispatched
  /\ u = "immediate"
  /\ dispatched' = TRUE
  /\ CountDispatch(captureID)
  /\ AbortCapture
  /\ UNCHANGED <<captureID, finalizer>>

HandleTranscriptUpdate ==
  /\ Served
  /\ \E u \in Update :
       /\ sttUpdates = <<u>>
       /\ \/ UpdateIgnored(u) \/ UpdateAwaitsArguments(u)
          \/ UpdateFinalizes(u) \/ UpdateDispatches(u)
  /\ sttUpdates' = <<>>
  /\ UNCHANGED <<wakeCh, transcriberReady, opener, conn,
                 guildVars, duckVars>>

(* checkTimeouts at a tick, and runCapturing at a frame of sound: the user  *)
(* has been heard or silent for long enough, or the capture has lasted ten *)
(* seconds, or the sound cannot be sent.                                   *)
LimitPasses ==
  /\ Served /\ state = "capturing"
  /\ FinalizeCapture
  /\ UNCHANGED <<captureID, dispatched, channelVars, opener, conn, closers,
                 sent, guildVars, duckVars>>

(* The select may choose the context's end, and any other channel that has *)
(* something as well.                                                      *)
WorkerEnds ==
  /\ Served /\ cancelled
  /\ worker' = [Idle EXCEPT !.at = "gone"]
  /\ UNCHANGED <<captureVars, channelVars, helperVars, sent, guildVars, duckVars>>

-----------------------------------------------------------------------------
(* The callbacks into the guild: the cue of a capture's start or end, then *)
(* the music lowered or raised.  Each looks the guild up, then locks its   *)
(* mutex to read the mixer.                                                *)

(* Back in the select; beginCapture first starts openTranscriber.          *)
CallbacksReturn ==
  /\ worker' = Idle
  /\ opener' = IF worker.of = "start"
                 THEN [opener EXCEPT ![captureID] = "dialing"] ELSE opener

Goes(to) == worker' = [worker EXCEPT !.at = to] /\ UNCHANGED opener

callbackUnchanged == <<captureVars, channelVars, conn, closers,
                       finalizer, sent, guildVars, responses>>

CueLookup ==
  /\ worker.at = "cueLookup"
  /\ Goes(IF stored THEN "cueLock" ELSE "duckLookup")
  /\ UNCHANGED <<callbackUnchanged, captureDuckActive, captureDuckEpoch, timers>>

PlayFeedbackCue ==
  /\ worker.at = "cueLock" /\ MutexFree
  /\ Goes("duckLookup")
  /\ UNCHANGED <<callbackUnchanged, captureDuckActive, captureDuckEpoch, timers>>

DuckLookup ==
  /\ worker.at = "duckLookup"
  /\ IF stored THEN Goes("duckLock") ELSE CallbacksReturn
  /\ UNCHANGED <<callbackUnchanged, captureDuckActive, captureDuckEpoch, timers>>

SetVoiceCaptureDucked ==
  /\ worker.at = "duckLock" /\ MutexFree
  /\ \/ /\ ~mixer
        /\ CallbacksReturn
        /\ UNCHANGED <<captureDuckActive, captureDuckEpoch, timers>>
     \/ /\ mixer /\ worker.of = "start"
        /\ AdvanceEpoch
        /\ Goes("duckStore")
     \/ /\ mixer /\ worker.of = "end"
        /\ EndCaptureDuckAfter(captureID)
        /\ CallbacksReturn
  /\ UNCHANGED callbackUnchanged

StoreDuck ==
  /\ worker.at = "duckStore"
  /\ LowerMusic
  /\ CallbacksReturn
  /\ UNCHANGED callbackUnchanged

-----------------------------------------------------------------------------
(* The goroutines a capture starts                                         *)

workerVars == <<worker, captureVars, wakeCh, guildVars, duckVars>>

(* NewTranscriber dials and waits to be greeted.                           *)
OpenerDials(c) ==
  /\ opener[c] = "dialing"
  /\ \/ /\ opener' = [opener EXCEPT ![c] = "opened"]
        /\ conn' = [conn EXCEPT ![c] = "open"]
     \/ /\ opener' = [opener EXCEPT ![c] = "failed"]
        /\ UNCHANGED conn
  /\ UNCHANGED <<workerVars, transcriberReady, sttUpdates, closers,
                 finalizer, sent>>

OpenerDelivers(c) ==
  /\ opener[c] \in {"opened", "failed"} /\ transcriberReady = <<>>
  /\ transcriberReady' = <<[id |-> c, ok |-> opener[c] = "opened"]>>
  /\ opener' = [opener EXCEPT ![c] = "over"]
  /\ UNCHANGED <<workerVars, sttUpdates, conn, closers, finalizer,
                 sent>>

OpenerGivesUp(c) ==
  /\ opener[c] \in {"opened", "failed"} /\ cancelled
  /\ opener' = [opener EXCEPT ![c] = "over"]
  /\ IF opener[c] = "opened" THEN CloseConn(c) ELSE UNCHANGED conn
  /\ UNCHANGED <<workerVars, transcriberReady, sttUpdates, closers,
                 finalizer, sent>>

(* The goroutine of abortCapture.                                          *)
CloserCloses(c) ==
  /\ c \in closers
  /\ closers' = closers \ {c}
  /\ CloseConn(c)
  /\ UNCHANGED <<workerVars, transcriberReady, sttUpdates, opener,
                 finalizer, sent>>

(* The goroutine of finalizeCapture: the transcript, once it is complete or *)
(* five seconds have passed, holds a command or not.                       *)
FinalizerEnds(c) ==
  /\ finalizer[c] \in {"finalizing", "skipping"}
  /\ \/ finalizer[c] = "finalizing" /\ CountDispatch(c)
     \/ UNCHANGED sent
  /\ finalizer' = [finalizer EXCEPT ![c] = "none"]
  /\ CloseConn(c)
  /\ UNCHANGED <<workerVars, transcriberReady, sttUpdates, opener,
                 closers>>

-----------------------------------------------------------------------------
(* What reaches the session from outside                                   *)

\* Captures begun or about to, and responses begun.
DucksUsed == captureID + (IF wakeCh THEN 1 ELSE 0)
             + Cardinality({r \in Response : responses[r] # "none"})

(* NotifyWake; captures are bounded by MaxCaptures.  One that has passed   *)
(* its check of the closed flag still reaches a session that was closed.   *)
Wake ==
  /\ worker.at # "gone" /\ ~wakeCh
  /\ captureID < MaxCaptures /\ DucksUsed < MaxDucks
  /\ wakeCh' = TRUE
  /\ UNCHANGED <<worker, captureVars, transcriberReady, sttUpdates,
                 helperVars, sent, guildVars, duckVars>>

\* SetOnUpdate was called when the session took it.
Attached(c) == transcriber = c \/ c \in closers
               \/ finalizer[c] \in {"finalizing", "skipping"}

(* The read loop of a transcriber: an update, dropped when there is no room *)
(* (for one here), or the end of the transcript or of the connection.      *)
TranscriptUpdate(c) ==
  /\ conn[c] = "open" /\ Attached(c)
  /\ sttUpdates = <<>>
  /\ \E u \in Update : sttUpdates' = <<u>>
  /\ UNCHANGED <<workerVars, transcriberReady, helperVars, sent>>

TranscriptEnds(c) ==
  /\ conn[c] = "open"
  /\ conn' = [conn EXCEPT ![c] = "done"]
  /\ UNCHANGED <<workerVars, transcriberReady, sttUpdates, opener,
                 closers, finalizer, sent>>

-----------------------------------------------------------------------------
(* Who closes the session: the one that takes it out of the receiver's map *)

sessionUnchanged == <<captureID, dispatched, state, finalizing,
                      awaitingCommandTail, channelVars, opener,
                      closers, finalizer, sent, duckVars>>

(* Cleanup of the guild, with StreamerMutex from its first step to its     *)
(* last.                                                                   *)
CleanupStarts ==
  /\ "guild" \in Closers /\ cleanup = "none"
  /\ cleanup' = "receiver"
  /\ stored' = FALSE
  /\ UNCHANGED <<sessionUnchanged, worker, transcriber, conn, mixer, leaving, cancelled>>

(* Receiver.Close, and Session.Close up to its wait, if the session is     *)
(* still in the map.                                                       *)
CloseCancels ==
  /\ cleanup = "receiver"
  /\ IF leaving = "none" THEN cleanup' = "joining" /\ cancelled' = TRUE
     ELSE cleanup' = "mixer" /\ UNCHANGED cancelled
  /\ UNCHANGED <<sessionUnchanged, worker, transcriber, conn, stored, mixer, leaving>>

(* wg.Wait, then the transcriber the worker left is closed.                *)
Joins ==
  /\ worker.at = "gone"
  /\ transcriber' = NoTranscriber
  /\ IF transcriber = NoTranscriber THEN UNCHANGED conn
     ELSE CloseConn(transcriber)
  /\ UNCHANGED <<sessionUnchanged, worker, stored, mixer, cancelled>>

CloseJoins ==
  /\ cleanup = "joining" /\ cleanup' = "mixer" /\ Joins /\ UNCHANGED leaving

CleanupEnds ==
  /\ cleanup = "mixer"
  /\ cleanup' = "done"
  /\ mixer' = FALSE
  /\ UNCHANGED <<sessionUnchanged, worker, transcriber, conn, stored, leaving, cancelled>>

(* CleanupUser, when Discord says that the speaker has left, or Close of   *)
(* the receiver, when the connection ends: the guild stays in the store,   *)
(* and nobody holds its mutex.                                             *)
SpeakerLeaves ==
  /\ "connection" \in Closers /\ leaving = "none" /\ cleanup \in {"none", "receiver"}
  /\ leaving' = "closing"
  /\ UNCHANGED <<sessionUnchanged, worker, transcriber, conn, stored, mixer, cleanup, cancelled>>

LeaverCancels ==
  /\ leaving = "closing" /\ leaving' = "joining"
  /\ cancelled' = TRUE
  /\ UNCHANGED <<sessionUnchanged, worker, transcriber, conn, stored, mixer, cleanup>>

LeaverJoins ==
  /\ leaving = "joining" /\ leaving' = "done" /\ Joins /\ UNCHANGED cleanup

-----------------------------------------------------------------------------
Select ==
  \/ BeginCapture \/ WakeIgnored \/ HandleTranscriberReady
  \/ HandleTranscriptUpdate \/ LimitPasses \/ WorkerEnds

Busy ==
  \/ EnsureTakesResult \/ EnsureTimesOut
  \/ CueLookup \/ PlayFeedbackCue \/ DuckLookup \/ SetVoiceCaptureDucked
  \/ StoreDuck

Helper(c) ==
  OpenerDials(c) \/ OpenerDelivers(c) \/ OpenerGivesUp(c) \/ CloserCloses(c)
  \/ FinalizerEnds(c)

Cleanup == CleanupStarts \/ CloseCancels \/ CloseJoins \/ CleanupEnds
Leaving == SpeakerLeaves \/ LeaverCancels \/ LeaverJoins

Next ==
  \/ Select \/ Busy
  \/ Wake
  \/ \E c \in Capture : Helper(c) \/ TranscriptUpdate(c) \/ TranscriptEnds(c)
  \/ Cleanup \/ Leaving
  \/ /\ \/ \E o \in Owner : TimerWakes(o) \/ TimerClears(o)
        \/ \E r \in Response :
             \/ ResponseTakesMixer(r, stored /\ MutexFree /\ DucksUsed < MaxDucks)
             \/ ResponsePlays(r)
     /\ UNCHANGED sessionVars

Spec == Init /\ [][Next]_vars

(* What goes on of itself: the worker outside its select, whoever closes   *)
(* the session and has begun to, sleepers, and the sound of a response.    *)
GoesOn ==
  \/ Busy \/ CloseCancels \/ CloseJoins \/ CleanupEnds
  \/ LeaverCancels \/ LeaverJoins
  \/ /\ \/ \E o \in Owner : TimerWakes(o) \/ TimerClears(o)
        \/ \E r \in Response : ResponsePlays(r)
     /\ UNCHANGED sessionVars

(* These steps are finitely many in a behaviour, so one condition for all  *)
(* of them says that none is put off for ever.  A capture passes ten       *)
(* seconds, which the ticker shows; a select chooses at random among what  *)
(* is ready, so what stays or comes back is chosen in the end.  Nobody has *)
(* to speak, leave or clean up, and the transcribers may be silent.        *)
FairSpec ==
  Spec /\ WF_vars(GoesOn) /\ SF_vars(LimitPasses) /\ SF_vars(WorkerEnds)

-----------------------------------------------------------------------------
(* Properties                                                              *)

(* The transcriber a session sends sound to was opened for the capture in  *)
(* progress, however late the openers of earlier ones delivered: nobody's  *)
(* words are taken for an earlier command's.                               *)
TranscriberOfThisCapture ==
  transcriber # NoTranscriber =>
    state = "capturing" /\ transcriber = captureID

(* An open transcriber always has somebody who will close it: its opener,  *)
(* the channel, the session, or the goroutine of an abort or a finalize.   *)
(* What the channel holds when the worker has gone is the exception the    *)
(* README names.                                                           *)
OpenTranscriberHasOwner ==
  \A c \in Capture : conn[c] = "open" =>
    \/ opener[c] = "opened"
    \/ transcriberReady = <<[id |-> c, ok |-> TRUE]>>
    \/ transcriber = c
    \/ c \in closers
    \/ finalizer[c] \in {"finalizing", "skipping"}

(* A capture dispatches at most one command, although both its updates and *)
(* its final transcript may hold one.                                      *)
OneDispatchPerCapture == \A c \in Capture : sent[c] <= 1

(* Whatever is said, lost or late, a capture ends: the session listens for *)
(* the wake word again, or is being closed; and the connection that closes *)
(* it for a speaker who leaves gets through, as it does not hold the mutex *)
(* for which the worker may wait.  (Captures, responses and who closes are *)
(* bounded, so what holds again each time holds for good.)                 *)
CaptureEnds ==
  <>[](/\ state = "listening" \/ cancelled
       /\ leaving \in {"none", "done"})

\* The worker was told to end in the middle of a capture, and has.
CutOff == worker.at = "gone" /\ state = "capturing"

(* The music comes back after it was lowered, in whatever order captures,  *)
(* responses and sleepers change the flag and the epoch, unless the        *)
(* session was closed in the middle of a capture.                          *)
MusicComesBack == <>[](~captureDuckActive \/ ~stored \/ CutOff)

(* "SetVoiceCaptureDucked lowers or restores music for the full            *)
(* voice-command capture window." (Structs/Guild.go:343): a guild that     *)
(* stays hears its music again, also after the speaker has left.           *)
DuckIsRestored == captureDuckActive ~> (~captureDuckActive \/ ~stored)

(* Receiver.go:185 says that Close tears down all sessions: a Cleanup that *)
(* waits for a session's worker goes on in the end.                        *)
TeardownEnds == cleanup = "joining" ~> cleanup = "done"

=============================================================================
