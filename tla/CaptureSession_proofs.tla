----------------------- MODULE CaptureSession_proofs ------------------------
(***************************************************************************)
(* What a capture session keeps, for any number of captures and of spoken  *)
(* responses: its type, the transcriber of the capture in progress, and at *)
(* most one command per capture.                                           *)
(***************************************************************************)
EXTENDS CaptureSession, TLAPS

(* A wake word is let in only while there is room for its capture, so that *)
(* the capture has a number.                                               *)
Numbered ==
  /\ wakeCh => captureID < MaxCaptures
  /\ state = "capturing" => captureID \in Capture

(* The session holds a transcriber only between the capture's beginning    *)
(* and its end, and none while it waits for one.                           *)
OwnTranscriber ==
  /\ TranscriberOfThisCapture
  /\ worker.at = "ensure" => transcriber = NoTranscriber

(* Who has yet to dispatch has not: a capture to come, the capture in      *)
(* progress unless it is marked, and a finalizer that will look at its     *)
(* transcript.                                                             *)
Undispatched ==
  /\ \A c \in Capture : c > captureID => sent[c] = 0 /\ finalizer[c] = "none"
  /\ state = "capturing" => /\ finalizer[captureID] = "none"
                            /\ dispatched \/ sent[captureID] = 0
  /\ \A c \in Capture : finalizer[c] = "finalizing" => sent[c] = 0
  /\ OneDispatchPerCapture

IInv == TypeOK /\ Numbered /\ OwnTranscriber /\ Undispatched

\* The cue and the duck of a capture's start, before beginCapture starts its opener.
Starting == worker.of = "start" /\ worker.at \in Callbacks \cup {"duckStore"}

(* What a capture has yet to open is not open: of the captures to come, and *)
(* of the one that begins.  Otherwise the opener that CallbacksReturn       *)
(* starts could take the place of one whose transcriber is open.            *)
NotYetOpened ==
  \A c \in Capture :
    c > captureID \/ (c = captureID /\ Starting) => opener[c] = "none" /\ conn[c] # "open"

OwnerInv == NotYetOpened /\ OpenTranscriberHasOwner

-----------------------------------------------------------------------------
\* A channel with room for one is empty or holds one value.
LEMMA BufferedFacts ==
  ASSUME NEW S
  PROVE  <<>> \in Buffered(S) /\ \A x \in S : <<x>> \in Buffered(S)
BY Zenon DEF Buffered


\* Where the worker may go.
LEMMA WorkerFacts ==
  /\ Idle \in Worker
  /\ \A at \in Callbacks \cup {"select", "duckStore", "ensure", "gone"},
        of \in {"start", "end"} : [at |-> at, of |-> of] \in Worker
  /\ \A w \in Worker, at \in Callbacks \cup {"select", "duckStore", "ensure", "gone"} :
        [w EXCEPT !.at = at] \in Worker
BY DEF Worker, Idle

\* A new session keeps everything.
LEMMA InitIInv == Init => IInv
<1> SUFFICES ASSUME Init PROVE IInv
  OBVIOUS
<1> USE CaptureAssumption
<1>1. TypeOK
  <2>1. DuckTypeOK
    BY DEF Init, DuckInit, DuckTypeOK, NoTimer, Timer, ResponseSteps
  <2>2. CaptureTypeOK
    <3>1. worker \in Worker
      BY WorkerFacts DEF Init
    <3>2. captureID \in 0 .. MaxCaptures
      BY DEF Init
    <3> QED
      BY <3>1, <3>2 DEF Init, CaptureTypeOK
  <2>3. ChannelTypeOK
    BY BufferedFacts, Zenon DEF Init, ChannelTypeOK
  <2>4. HelperTypeOK
    BY DEF Init, HelperTypeOK
  <2>5. GuildTypeOK
    BY DEF Init, GuildTypeOK
  <2> QED
    BY <2>1, <2>2, <2>3, <2>4, <2>5 DEF TypeOK
<1>2. Numbered /\ OwnTranscriber /\ Undispatched
  BY DEF Init, Numbered, OwnTranscriber, TranscriberOfThisCapture, Undispatched, OneDispatchPerCapture, Idle
<1> QED
  BY <1>1, <1>2 DEF IInv

\* A step that leaves a group of variables alone keeps the group's type.
LEMMA TypeFrames ==
  ASSUME TypeOK
  PROVE  /\ UNCHANGED duckVars => DuckTypeOK'
         /\ UNCHANGED <<worker, captureVars>> => CaptureTypeOK'
         /\ UNCHANGED channelVars => ChannelTypeOK'
         /\ UNCHANGED <<helperVars, sent>> => HelperTypeOK'
         /\ UNCHANGED guildVars => GuildTypeOK'
<1>1. UNCHANGED duckVars => DuckTypeOK'
  BY DEF TypeOK, DuckTypeOK, duckVars
<1>2. UNCHANGED <<worker, captureVars>> => CaptureTypeOK'
  BY DEF TypeOK, CaptureTypeOK, captureVars
<1>3. UNCHANGED channelVars => ChannelTypeOK'
  BY DEF TypeOK, ChannelTypeOK, channelVars
<1>4. UNCHANGED <<helperVars, sent>> => HelperTypeOK'
  BY DEF TypeOK, HelperTypeOK, helperVars
<1>5. UNCHANGED guildVars => GuildTypeOK'
  BY DEF TypeOK, GuildTypeOK, guildVars
<1> QED
  BY <1>1, <1>2, <1>3, <1>4, <1>5

\* endCapture leads from types to types, whichever caller runs it.
LEMMA EndCaptureType ==
  ASSUME TypeOK, EndCapture, UNCHANGED captureID,
         dispatched' \in BOOLEAN, transcriber' \in Capture \cup {NoTranscriber}
  PROVE  CaptureTypeOK'
<1>1. worker' \in Worker
  BY WorkerFacts DEF EndCapture, Callbacks
<1> QED
  BY <1>1 DEF TypeOK, CaptureTypeOK, EndCapture

\* A finalizer is started with the session's end of the capture.
LEMMA HandOverType ==
  ASSUME TypeOK, UNCHANGED <<captureID, dispatched>>,
         NEW t \in Capture, HandOver(t)
  PROVE  /\ CaptureTypeOK'
         /\ finalizer' \in [Capture -> {"none", "finalizing", "skipping"}]
<1>1. CaptureTypeOK'
  <2>1. /\ dispatched' \in BOOLEAN /\ transcriber' \in Capture \cup {NoTranscriber}
        /\ EndCapture /\ UNCHANGED captureID
    BY DEF HandOver, TypeOK, CaptureTypeOK
  <2> QED
    BY <2>1, EndCaptureType
<1>2. finalizer' \in [Capture -> {"none", "finalizing", "skipping"}]
  BY DEF HandOver, TypeOK, HelperTypeOK
<1> QED
  BY <1>1, <1>2

\* finalizeCapture hands over, or sends the worker to wait.
LEMMA FinalizeType ==
  ASSUME TypeOK, UNCHANGED <<captureID, dispatched>>, FinalizeCapture
  PROVE  /\ CaptureTypeOK'
         /\ finalizer' \in [Capture -> {"none", "finalizing", "skipping"}]
<1>1. CASE finalizing
  BY <1>1 DEF FinalizeCapture, TypeOK, CaptureTypeOK, HelperTypeOK
<1>2. CASE ~finalizing /\ transcriber # NoTranscriber /\ ~Done(transcriber)
  <2>1. transcriber \in Capture /\ HandOver(transcriber)
    BY <1>2 DEF FinalizeCapture, TypeOK, CaptureTypeOK
  <2> QED
    BY <2>1, HandOverType
<1>3. CASE ~finalizing /\ ~(transcriber # NoTranscriber /\ ~Done(transcriber))
  <2>1. worker' \in Worker
    BY <1>3, WorkerFacts DEF FinalizeCapture
  <2> QED
    BY <1>3, <2>1 DEF FinalizeCapture, TypeOK, CaptureTypeOK, HelperTypeOK
<1> QED
  BY <1>1, <1>2, <1>3

\* abortCapture closes a transcriber or none.
LEMMA AbortType ==
  ASSUME TypeOK, UNCHANGED captureID, dispatched' \in BOOLEAN, AbortCapture
  PROVE  CaptureTypeOK' /\ closers' \subseteq Capture
<1>1. CASE finalizing
  BY <1>1 DEF AbortCapture, TypeOK, CaptureTypeOK, HelperTypeOK
<1>2. CASE ~finalizing
  <2>1. /\ EndCapture
        /\ transcriber' \in Capture \cup {NoTranscriber}
        /\ closers' \subseteq Capture
    BY <1>2 DEF AbortCapture, TypeOK, CaptureTypeOK, HelperTypeOK
  <2> QED
    BY <2>1, EndCaptureType
<1> QED
  BY <1>1, <1>2

\* A command is counted where counts are kept.
LEMMA CountType ==
  ASSUME TypeOK, NEW c \in Capture, CountDispatch(c)
  PROVE  sent' \in [Capture -> 0 .. 2]
BY DEF CountDispatch, TypeOK, HelperTypeOK

-----------------------------------------------------------------------------
(* Every step keeps the type                                               *)

\* The worker takes something from one of its channels.
LEMMA SelectType ==
  ASSUME IInv, Select
  PROVE  TypeOK'
<1> USE TypeFrames DEF IInv, TypeOK
<1>1. CASE BeginCapture
  <2>1. CaptureTypeOK'
    <3>1. worker' \in Worker
      BY <1>1, WorkerFacts DEF BeginCapture, Callbacks
    <3>2. captureID' \in 0 .. MaxCaptures
      BY <1>1, CaptureAssumption DEF BeginCapture, Numbered, CaptureTypeOK
    <3> QED
      BY <1>1, <3>1, <3>2 DEF BeginCapture, CaptureTypeOK
  <2>2. ChannelTypeOK'
    BY <1>1 DEF BeginCapture, ChannelTypeOK
  <2> QED
    BY <1>1, <2>1, <2>2 DEF BeginCapture
<1>2. CASE WakeIgnored
  <2>1. ChannelTypeOK'
    BY <1>2 DEF WakeIgnored, ChannelTypeOK
  <2> QED
    BY <1>2, <2>1 DEF WakeIgnored
<1>3. CASE HandleTranscriberReady
  <2> PICK r \in Result : HandleFailure(r) \/ HandleStale(r) \/ AttachTranscriber(r)
    BY <1>3 DEF HandleTranscriberReady
  <2>1. UNCHANGED <<captureID, dispatched, opener, finalizer, sent>>
    BY <1>3 DEF HandleTranscriberReady
  <2>2. CaptureTypeOK' /\ HelperTypeOK'
    <3>1. CASE HandleFailure(r) /\ Current(r)
      <4>1. CaptureTypeOK' /\ closers' \subseteq Capture
        <5>1. AbortCapture /\ dispatched' \in BOOLEAN
          BY <2>1, <3>1 DEF HandleFailure, CaptureTypeOK
        <5> QED
          BY <5>1, <2>1, AbortType
      <4> QED
        BY <2>1, <3>1, <4>1 DEF HandleFailure, HelperTypeOK
    <3>2. CASE HandleFailure(r) /\ ~Current(r)
      BY <2>1, <3>2 DEF HandleFailure, HelperTypeOK, CaptureTypeOK
    <3>3. CASE HandleStale(r)
      BY <2>1, <3>3 DEF HandleStale, CloseConn, HelperTypeOK, CaptureTypeOK
    <3>4. CASE AttachTranscriber(r)
      BY <2>1, <3>4 DEF AttachTranscriber, HelperTypeOK, CaptureTypeOK, Result
    <3> QED
      BY <3>1, <3>2, <3>3, <3>4
  <2>3. ChannelTypeOK'
    BY <1>3, BufferedFacts DEF HandleTranscriberReady, ChannelTypeOK
  <2> QED
    BY <1>3, <2>2, <2>3 DEF HandleTranscriberReady
<1>4. CASE HandleTranscriptUpdate
  <2> PICK u \in Update : \/ UpdateIgnored(u) \/ UpdateAwaitsArguments(u)
                          \/ UpdateFinalizes(u) \/ UpdateDispatches(u)
    BY <1>4 DEF HandleTranscriptUpdate
  <2>1. UNCHANGED <<opener, conn>>
    BY <1>4 DEF HandleTranscriptUpdate
  <2>2. CaptureTypeOK' /\ HelperTypeOK'
    <3>1. CASE UpdateIgnored(u)
      BY <2>1, <3>1 DEF UpdateIgnored, helperVars
    <3>2. CASE UpdateAwaitsArguments(u)
      BY <2>1, <3>2 DEF UpdateAwaitsArguments, CaptureTypeOK, HelperTypeOK
    <3>3. CASE UpdateFinalizes(u)
      <4>1. FinalizeCapture /\ UNCHANGED <<captureID, dispatched, closers, sent>>
        BY <3>3 DEF UpdateFinalizes
      <4> QED
        BY <2>1, <4>1, FinalizeType DEF HelperTypeOK
    <3>4. CASE UpdateDispatches(u)
      <4>1. /\ AbortCapture /\ dispatched' \in BOOLEAN
            /\ UNCHANGED <<captureID, finalizer>>
            /\ captureID \in Capture /\ CountDispatch(captureID)
        BY <3>4 DEF UpdateDispatches, Numbered
      <4>2. CaptureTypeOK' /\ closers' \subseteq Capture
        BY <4>1, AbortType
      <4>3. sent' \in [Capture -> 0 .. 2]
        BY <4>1, CountType
      <4> QED
        BY <2>1, <4>1, <4>2, <4>3 DEF HelperTypeOK
    <3> QED
      BY <3>1, <3>2, <3>3, <3>4
  <2>3. ChannelTypeOK'
    BY <1>4, BufferedFacts DEF HandleTranscriptUpdate, ChannelTypeOK
  <2> QED
    BY <1>4, <2>2, <2>3 DEF HandleTranscriptUpdate
<1>5. CASE LimitPasses
  <2>1. FinalizeCapture /\ UNCHANGED <<captureID, dispatched, closers, sent, opener, conn>>
    BY <1>5 DEF LimitPasses
  <2>2. CaptureTypeOK' /\ HelperTypeOK'
    BY <2>1, FinalizeType DEF HelperTypeOK
  <2> QED
    BY <1>5, <2>2 DEF LimitPasses
<1>6. CASE WorkerEnds
  <2>1. worker' \in Worker
    BY <1>6, WorkerFacts DEF WorkerEnds
  <2>2. CaptureTypeOK'
    BY <1>6, <2>1 DEF WorkerEnds, CaptureTypeOK, captureVars
  <2> QED
    BY <1>6, <2>2 DEF WorkerEnds
<1> QED
  BY <1>1, <1>2, <1>3, <1>4, <1>5, <1>6 DEF Select

\* The mixer's part of a step keeps its type.
LEMMA DuckSteps ==
  ASSUME DuckTypeOK
  PROVE  /\ AdvanceEpoch /\ UNCHANGED responses => DuckTypeOK'
         /\ LowerMusic /\ UNCHANGED responses => DuckTypeOK'
         /\ \A o : EndCaptureDuckAfter(o) /\ UNCHANGED responses => DuckTypeOK'
         /\ \A o \in Owner : TimerWakes(o) \/ TimerClears(o) => DuckTypeOK'
         /\ \A r, b : ResponseTakesMixer(r, b) => DuckTypeOK'
         /\ \A r : ResponsePlays(r) => DuckTypeOK'
<1> USE DEF DuckTypeOK, ResponseSteps
<1>1. AdvanceEpoch /\ UNCHANGED responses => DuckTypeOK'
  BY DEF AdvanceEpoch
<1>2. LowerMusic /\ UNCHANGED responses => DuckTypeOK'
  BY DEF LowerMusic
<1>3. ASSUME NEW o, EndCaptureDuckAfter(o) PROVE timers' \in [Owner -> Timer]
  <2>1. [at |-> "sleeping", expected |-> captureDuckEpoch] \in Timer
    BY DEF Timer
  <2> QED
    BY <1>3, <2>1 DEF EndCaptureDuckAfter
<1>4. \A o : EndCaptureDuckAfter(o) /\ UNCHANGED responses => DuckTypeOK'
  BY <1>3 DEF EndCaptureDuckAfter
<1>5. ASSUME NEW o \in Owner, TimerWakes(o) PROVE DuckTypeOK'
  <2>1. NoTimer \in Timer /\ [timers[o] EXCEPT !.at = "clearing"] \in Timer
    BY DEF NoTimer, Timer
  <2>2. timers' \in [Owner -> Timer]
    BY <1>5, <2>1 DEF TimerWakes
  <2> QED
    BY <1>5, <2>2 DEF TimerWakes
<1>6. ASSUME NEW o \in Owner, TimerClears(o) PROVE DuckTypeOK'
  <2>1. NoTimer \in Timer
    BY DEF NoTimer, Timer
  <2> QED
    BY <1>6, <2>1 DEF TimerClears
<1>7. \A r, b : ResponseTakesMixer(r, b) => DuckTypeOK'
  BY DEF ResponseTakesMixer
<1>8. ASSUME NEW r, ResponsePlays(r) PROVE DuckTypeOK'
  <2>1. CASE responses[r] = "advancing"
    BY <1>8, <2>1 DEF ResponsePlays, AdvanceEpoch
  <2>2. CASE responses[r] = "storing"
    BY <1>8, <2>2 DEF ResponsePlays, LowerMusic
  <2>3. CASE responses[r] = "ending"
    <3>1. timers' \in [Owner -> Timer]
      BY <1>3, <1>8, <2>3 DEF ResponsePlays
    <3> QED
      BY <1>8, <2>3, <3>1 DEF ResponsePlays, EndCaptureDuckAfter
  <2> QED
    BY <1>8, <2>1, <2>2, <2>3 DEF ResponsePlays
<1> QED
  BY <1>1, <1>2, <1>4, <1>5, <1>6, <1>7, <1>8

\* The worker, busy with a transcriber that is not there or with the guild.
LEMMA BusyType ==
  ASSUME IInv, Busy
  PROVE  TypeOK'
<1> USE TypeFrames DEF IInv, TypeOK
<1>1. CASE EnsureTakesResult
  <2> DEFINE Waited(r) ==
        \/ r.ok /\ Current(r) /\ ~Done(r.id) /\ HandOver(r.id) /\ UNCHANGED conn
        \/ CloseConn(r.id) /\ EndCapture /\ UNCHANGED <<transcriber, finalizer>>
        \/ EndCapture /\ UNCHANGED <<transcriber, finalizer, conn>>
  <2>1. UNCHANGED <<captureID, dispatched, opener, closers, sent>>
    BY <1>1 DEF EnsureTakesResult
  <2>2. PICK r \in Result : Waited(r)
    BY <1>1, Zenon DEF EnsureTakesResult
  <2>3. r.id \in Capture
    BY DEF Result
  <2>4. CaptureTypeOK' /\ HelperTypeOK'
    <3>1. CASE HandOver(r.id) /\ UNCHANGED conn
      <4>1. /\ CaptureTypeOK'
            /\ finalizer' \in [Capture -> {"none", "finalizing", "skipping"}]
        BY <2>1, <2>3, <3>1, HandOverType
      <4> QED
        BY <2>1, <3>1, <4>1 DEF HelperTypeOK
    <3>2. CASE EndCapture /\ UNCHANGED <<transcriber, finalizer>> /\ (CloseConn(r.id) \/ UNCHANGED conn)
      <4>1. dispatched' \in BOOLEAN /\ transcriber' \in Capture \cup {NoTranscriber}
        BY <2>1, <3>2 DEF CaptureTypeOK
      <4>2. CaptureTypeOK'
        BY <2>1, <3>2, <4>1, EndCaptureType
      <4> QED
        BY <2>1, <3>2, <4>2 DEF HelperTypeOK, CloseConn
    <3> QED
      BY <2>2, <3>1, <3>2
  <2>5. ChannelTypeOK'
    BY <1>1, BufferedFacts DEF EnsureTakesResult, ChannelTypeOK
  <2> QED
    BY <1>1, <2>4, <2>5 DEF EnsureTakesResult
<1>2. CASE EnsureTimesOut
  <2>1. CaptureTypeOK'
    <3>1. /\ dispatched' \in BOOLEAN /\ transcriber' \in Capture \cup {NoTranscriber}
          /\ EndCapture /\ UNCHANGED captureID
      BY <1>2 DEF EnsureTimesOut, CaptureTypeOK
    <3> QED
      BY <3>1, EndCaptureType
  <2> QED
    BY <1>2, <2>1 DEF EnsureTimesOut
<1>3. ASSUME UNCHANGED callbackUnchanged,
             \/ CallbacksReturn
             \/ \E at \in Callbacks \cup {"duckStore"} : Goes(at)
      PROVE  CaptureTypeOK' /\ ChannelTypeOK' /\ HelperTypeOK' /\ GuildTypeOK'
  <2>1. worker' \in Worker
    BY <1>3, WorkerFacts DEF CallbacksReturn, Goes, CaptureTypeOK
  <2>2. opener' \in [Capture -> {"none", "dialing", "opened", "failed", "over"}]
    BY <1>3 DEF CallbacksReturn, Goes, HelperTypeOK
  <2>3. CaptureTypeOK'
    BY <1>3, <2>1 DEF callbackUnchanged, captureVars, CaptureTypeOK
  <2>4. HelperTypeOK'
    BY <1>3, <2>2 DEF callbackUnchanged, HelperTypeOK
  <2> QED
    BY <1>3, <2>3, <2>4 DEF callbackUnchanged
<1>4. CASE CueLookup
  BY <1>3, <1>4 DEF CueLookup, Callbacks, callbackUnchanged, duckVars
<1>5. CASE PlayFeedbackCue
  BY <1>3, <1>5 DEF PlayFeedbackCue, Callbacks, callbackUnchanged, duckVars
<1>6. CASE DuckLookup
  BY <1>3, <1>6 DEF DuckLookup, Callbacks, callbackUnchanged, duckVars
<1>7. CASE SetVoiceCaptureDucked
  <2>1. DuckTypeOK'
    BY <1>7, DuckSteps DEF SetVoiceCaptureDucked, callbackUnchanged, duckVars
  <2> QED
    BY <1>3, <1>7, <2>1 DEF SetVoiceCaptureDucked
<1>8. CASE StoreDuck
  <2>1. DuckTypeOK'
    BY <1>8, DuckSteps DEF StoreDuck, callbackUnchanged
  <2> QED
    BY <1>3, <1>8, <2>1 DEF StoreDuck
<1> QED
  BY <1>1, <1>2, <1>4, <1>5, <1>6, <1>7, <1>8 DEF Busy

\* The goroutines of a capture.
LEMMA HelperType ==
  ASSUME IInv, NEW c \in Capture, Helper(c)
  PROVE  TypeOK'
<1> USE TypeFrames DEF IInv, TypeOK, workerVars
<1>1. CASE OpenerDials(c)
  BY <1>1 DEF OpenerDials, HelperTypeOK, ChannelTypeOK
<1>2. CASE OpenerDelivers(c)
  <2>1. [id |-> c, ok |-> opener[c] = "opened"] \in Result
    BY DEF Result
  <2>2. ChannelTypeOK'
    BY <1>2, <2>1, BufferedFacts DEF OpenerDelivers, ChannelTypeOK
  <2> QED
    BY <1>2, <2>2 DEF OpenerDelivers, HelperTypeOK
<1>3. CASE OpenerGivesUp(c)
  BY <1>3 DEF OpenerGivesUp, CloseConn, HelperTypeOK, ChannelTypeOK
<1>4. CASE CloserCloses(c)
  BY <1>4 DEF CloserCloses, CloseConn, HelperTypeOK, ChannelTypeOK
<1>5. CASE FinalizerEnds(c)
  <2>1. sent' \in [Capture -> 0 .. 2]
    BY <1>5, CountType DEF FinalizerEnds, HelperTypeOK
  <2> QED
    BY <1>5, <2>1 DEF FinalizerEnds, CloseConn, HelperTypeOK, ChannelTypeOK
<1> QED
  BY <1>1, <1>2, <1>3, <1>4, <1>5 DEF Helper

\* What comes from outside, and who closes the session.
LEMMA OutsideType ==
  ASSUME IInv,
         \/ Wake \/ Cleanup \/ Leaving
         \/ \E c \in Capture : TranscriptUpdate(c) \/ TranscriptEnds(c)
  PROVE  TypeOK'
<1> USE TypeFrames DEF IInv, TypeOK
<1>1. CASE Wake
  BY <1>1 DEF Wake, ChannelTypeOK
<1>2. ASSUME NEW c \in Capture, TranscriptUpdate(c) PROVE TypeOK'
  <2>1. ChannelTypeOK'
    BY <1>2, BufferedFacts DEF TranscriptUpdate, ChannelTypeOK, workerVars
  <2> QED
    BY <1>2, <2>1 DEF TranscriptUpdate, workerVars
<1>3. ASSUME NEW c \in Capture, TranscriptEnds(c) PROVE TypeOK'
  BY <1>3 DEF TranscriptEnds, workerVars, HelperTypeOK, ChannelTypeOK
<1>4. CASE Cleanup \/ Leaving
  <2> USE DEF sessionUnchanged, CaptureTypeOK, HelperTypeOK, GuildTypeOK
  <2>1. CASE CleanupStarts \/ CleanupEnds
    BY <2>1 DEF CleanupStarts, CleanupEnds
  <2>2. CASE CloseCancels
    BY <2>2 DEF CloseCancels
  <2>3. CASE CloseJoins \/ LeaverJoins
    BY <2>3 DEF CloseJoins, LeaverJoins, Joins, CloseConn
  <2>4. CASE SpeakerLeaves
    BY <2>4 DEF SpeakerLeaves
  <2>5. CASE LeaverCancels
    BY <2>5 DEF LeaverCancels
  <2> QED
    BY <1>4, <2>1, <2>2, <2>3, <2>4, <2>5 DEF Cleanup, Leaving
<1> QED
  BY <1>1, <1>2, <1>3, <1>4

\* The sleepers of the duck, and spoken responses.
LEMMA DuckType ==
  ASSUME IInv, UNCHANGED sessionVars,
         \/ \E o \in Owner : TimerWakes(o) \/ TimerClears(o)
         \/ \E r \in Response :
              \/ ResponseTakesMixer(r, stored /\ MutexFree /\ DucksUsed < MaxDucks)
              \/ ResponsePlays(r)
  PROVE  TypeOK'
<1>1. DuckTypeOK'
  BY DuckSteps, Zenon DEF IInv, TypeOK
<1>2. /\ UNCHANGED <<worker, captureVars>> /\ UNCHANGED channelVars
      /\ UNCHANGED <<helperVars, sent>> /\ UNCHANGED guildVars
  BY DEF sessionVars, captureVars, channelVars, helperVars, guildVars
<1> QED
  BY <1>1, <1>2, TypeFrames DEF IInv, TypeOK

\* The steps of the specification, in the groups of the lemmas.
LEMMA NextGroups ==
  ASSUME Next
  PROVE  \/ Select \/ Busy
         \/ \E c \in Capture : Helper(c)
         \/ Wake \/ Cleanup \/ Leaving \/ \E c \in Capture : TranscriptUpdate(c) \/ TranscriptEnds(c)
         \/ /\ UNCHANGED sessionVars
            /\ \/ \E o \in Owner : TimerWakes(o) \/ TimerClears(o)
               \/ \E r \in Response :
                    \/ ResponseTakesMixer(r, stored /\ MutexFree /\ DucksUsed < MaxDucks)
                    \/ ResponsePlays(r)
BY Zenon DEF Next

-----------------------------------------------------------------------------
(* Every step keeps the rest of the invariant                              *)

Kept == Numbered' /\ OwnTranscriber' /\ Undispatched'

\* A step that begins, ends and dispatches nothing, except that a capture may end.
LEMMA QuietStep ==
  ASSUME IInv, UNCHANGED <<captureID, dispatched, sent, finalizer>>,
         state' \in {state, "listening"},
         wakeCh' => captureID < MaxCaptures
  PROVE  Numbered' /\ Undispatched'
BY DEF IInv, Numbered, Undispatched, OneDispatchPerCapture

\* The session's transcriber stays, in a capture that stays, or goes.
LEMMA OwnStep ==
  ASSUME IInv,
         \/ transcriber' = NoTranscriber
         \/ /\ UNCHANGED <<transcriber, state, captureID>>
            /\ worker' = worker \/ worker'.at # "ensure"
  PROVE  OwnTranscriber'
BY DEF IInv, OwnTranscriber, TranscriberOfThisCapture

\* The transcriber of the capture in progress is handed to a finalizer that has not
\* dispatched for it yet.
LEMMA HandOverStep ==
  ASSUME IInv, state = "capturing", HandOver(captureID),
         UNCHANGED <<captureID, dispatched, sent>>,
         wakeCh' => captureID < MaxCaptures
  PROVE  Kept
<1>1. OwnTranscriber'
  BY OwnStep DEF HandOver
<1>2. Numbered'
  BY DEF HandOver, EndCapture, IInv, Numbered
<1>3. Undispatched'
  <2>1. /\ state' = "listening"
        /\ \A c \in Capture \ {captureID} : finalizer'[c] = finalizer[c]
        /\ finalizer'[captureID] = IF dispatched THEN "skipping" ELSE "finalizing"
    BY DEF HandOver, EndCapture, IInv, Numbered, TypeOK, HelperTypeOK
  <2>2. /\ captureID \in Nat /\ Capture \subseteq Nat
        /\ dispatched \/ sent[captureID] = 0
    BY CaptureAssumption DEF IInv, TypeOK, CaptureTypeOK, Undispatched
  <2> QED
    BY <2>1, <2>2 DEF IInv, Undispatched, OneDispatchPerCapture
<1> QED
  BY <1>1, <1>2, <1>3 DEF Kept

\* finalizeCapture.
LEMMA FinalizeStep ==
  ASSUME IInv, state = "capturing", FinalizeCapture,
         UNCHANGED <<captureID, dispatched, sent, wakeCh>>
  PROVE  Kept
<1>1. wakeCh' => captureID < MaxCaptures
  BY DEF IInv, Numbered
<1>2. CASE finalizing
  <2>1. UNCHANGED <<worker, state, transcriber, finalizer>>
    BY <1>2 DEF FinalizeCapture
  <2> QED
    BY <1>1, <2>1, QuietStep, OwnStep DEF Kept
<1>3. CASE ~finalizing /\ transcriber # NoTranscriber /\ ~Done(transcriber)
  <2>1. HandOver(captureID)
    BY <1>3 DEF FinalizeCapture, IInv, OwnTranscriber, TranscriberOfThisCapture
  <2> QED
    BY <1>1, <2>1, HandOverStep
<1>4. CASE ~finalizing /\ ~(transcriber # NoTranscriber /\ ~Done(transcriber))
  <2>1. transcriber' = NoTranscriber /\ UNCHANGED <<state, finalizer>>
    BY <1>4 DEF FinalizeCapture
  <2> QED
    BY <1>1, <2>1, QuietStep, OwnStep DEF Kept
<1> QED
  BY <1>2, <1>3, <1>4

\* What abortCapture leaves behind.
LEMMA AbortFacts ==
  ASSUME AbortCapture
  PROVE  /\ state' \in {state, "listening"}
         /\ \/ transcriber' = NoTranscriber
            \/ UNCHANGED <<transcriber, state, worker>>
BY DEF AbortCapture, EndCapture

\* The worker takes something from one of its channels.
LEMMA SelectStep ==
  ASSUME IInv, Select
  PROVE  Kept
<1>1. CASE BeginCapture
  <2>1. transcriber' = NoTranscriber
    BY <1>1 DEF BeginCapture, IInv, OwnTranscriber, TranscriberOfThisCapture
  <2>2. captureID \in Nat /\ captureID + 1 \in Capture
    BY <1>1, CaptureAssumption DEF BeginCapture, IInv, Numbered, TypeOK, CaptureTypeOK
  <2>3. Numbered'
    BY <1>1, <2>2 DEF BeginCapture, Numbered
  <2>4. Undispatched'
    BY <1>1, <2>2, CaptureAssumption
       DEF BeginCapture, helperVars, IInv, Undispatched, OneDispatchPerCapture
  <2> QED
    BY <2>1, <2>3, <2>4, OwnStep DEF Kept
<1>2. CASE WakeIgnored
  BY <1>2, QuietStep, OwnStep DEF WakeIgnored, captureVars, helperVars, Kept
<1>3. CASE HandleTranscriberReady
  <2> PICK r \in Result : HandleFailure(r) \/ HandleStale(r) \/ AttachTranscriber(r)
    BY <1>3 DEF HandleTranscriberReady
  <2>1. /\ UNCHANGED <<captureID, dispatched, sent, finalizer, wakeCh>>
        /\ worker = Idle
        /\ wakeCh' => captureID < MaxCaptures
    BY <1>3 DEF HandleTranscriberReady, Served, IInv, Numbered
  <2>2. CASE HandleFailure(r)
    BY <2>1, <2>2, AbortFacts, QuietStep, OwnStep DEF HandleFailure, Kept
  <2>3. CASE HandleStale(r)
    BY <2>1, <2>3, QuietStep, OwnStep DEF HandleStale, Kept
  <2>4. CASE AttachTranscriber(r)
    <3>1. OwnTranscriber'
      BY <2>1, <2>4 DEF AttachTranscriber, Current, OwnTranscriber,
                        TranscriberOfThisCapture, Idle
    <3> QED
      BY <2>1, <2>4, <3>1, QuietStep DEF AttachTranscriber, Kept
  <2> QED
    BY <2>2, <2>3, <2>4
<1>4. CASE HandleTranscriptUpdate
  <2> PICK u \in Update : \/ UpdateIgnored(u) \/ UpdateAwaitsArguments(u)
                          \/ UpdateFinalizes(u) \/ UpdateDispatches(u)
    BY <1>4 DEF HandleTranscriptUpdate
  <2>1. UNCHANGED wakeCh /\ (wakeCh' => captureID' < MaxCaptures \/ captureID' # captureID)
    BY <1>4 DEF HandleTranscriptUpdate, IInv, Numbered
  <2>2. CASE UpdateIgnored(u)
    BY <2>1, <2>2, QuietStep, OwnStep DEF UpdateIgnored, captureVars, Kept
  <2>3. CASE UpdateAwaitsArguments(u)
    BY <2>1, <2>3, QuietStep, OwnStep DEF UpdateAwaitsArguments, Kept
  <2>4. CASE UpdateFinalizes(u)
    BY <2>1, <2>4, FinalizeStep DEF UpdateFinalizes
  <2>5. CASE UpdateDispatches(u)
    <3>1. /\ state = "capturing" /\ ~dispatched /\ dispatched'
          /\ UNCHANGED <<captureID, finalizer>>
          /\ captureID \in Capture
          /\ sent[captureID] = 0 /\ finalizer[captureID] = "none"
      BY <2>5 DEF UpdateDispatches, IInv, Numbered, Undispatched
    <3>2. /\ state' \in {state, "listening"}
          /\ transcriber' = NoTranscriber \/ UNCHANGED <<transcriber, state, worker>>
      BY <2>5, AbortFacts DEF UpdateDispatches
    <3>3. sent' = [sent EXCEPT ![captureID] = 1]
      BY <2>5, <3>1 DEF UpdateDispatches, CountDispatch, IInv, TypeOK, HelperTypeOK
    <3>4. Numbered' /\ OwnTranscriber'
      BY <2>1, <3>1, <3>2, OwnStep DEF IInv, Numbered
    <3>5. Undispatched'
      BY <3>1, <3>2, <3>3, CaptureAssumption
         DEF IInv, TypeOK, HelperTypeOK, Undispatched, OneDispatchPerCapture
    <3> QED
      BY <3>4, <3>5 DEF Kept
  <2> QED
    BY <2>2, <2>3, <2>4, <2>5
<1>5. CASE LimitPasses
  BY <1>5, FinalizeStep DEF LimitPasses, channelVars
<1>6. CASE WorkerEnds
  <2>1. worker'.at # "ensure" /\ UNCHANGED <<transcriber, state, captureID>>
    BY <1>6 DEF WorkerEnds, Idle, captureVars
  <2>2. OwnTranscriber'
    BY <2>1, OwnStep
  <2>3. Numbered' /\ Undispatched'
    BY <1>6, QuietStep DEF WorkerEnds, captureVars, channelVars, helperVars, IInv, Numbered
  <2> QED
    BY <2>2, <2>3 DEF Kept
<1> QED
  BY <1>1, <1>2, <1>3, <1>4, <1>5, <1>6 DEF Select

\* The worker, busy with a transcriber that is not there or with the guild.
LEMMA BusyStep ==
  ASSUME IInv, Busy
  PROVE  Kept
<1>1. CASE EnsureTakesResult
  <2>1. /\ UNCHANGED <<captureID, dispatched, sent, wakeCh>>
        /\ wakeCh' => captureID < MaxCaptures
        /\ transcriber = NoTranscriber
    BY <1>1 DEF EnsureTakesResult, IInv, Numbered, OwnTranscriber
  <2>2. \/ \E r \in Result : Current(r) /\ HandOver(r.id)
        \/ EndCapture /\ UNCHANGED <<transcriber, finalizer>>
    BY <1>1, Zenon DEF EnsureTakesResult
  <2>3. CASE \E r \in Result : Current(r) /\ HandOver(r.id)
    BY <2>1, <2>3, HandOverStep DEF Current
  <2>4. CASE EndCapture /\ UNCHANGED <<transcriber, finalizer>>
    BY <2>1, <2>4, QuietStep, OwnStep DEF EndCapture, Kept
  <2> QED
    BY <2>2, <2>3, <2>4
<1>2. CASE EnsureTimesOut
  <2>1. /\ UNCHANGED <<captureID, dispatched, sent, wakeCh, finalizer>>
        /\ state' = "listening"
        /\ transcriber' = NoTranscriber
    BY <1>2 DEF EnsureTimesOut, EndCapture, channelVars, helperVars, IInv, OwnTranscriber
  <2> QED
    BY <2>1, QuietStep, OwnStep DEF Kept, IInv, Numbered
<1>3. ASSUME UNCHANGED callbackUnchanged,
             \/ CallbacksReturn
             \/ \E at \in Callbacks \cup {"duckStore"} : Goes(at)
      PROVE  Kept
  <2>1. /\ UNCHANGED <<captureID, dispatched, sent, wakeCh, finalizer, state, transcriber>>
    BY <1>3 DEF callbackUnchanged, captureVars, channelVars
  <2>2. OwnTranscriber'
    <3>1. CASE CallbacksReturn
      BY <2>1, <3>1, OwnStep DEF CallbacksReturn, Idle
    <3>2. ASSUME NEW at \in Callbacks \cup {"duckStore"}, Goes(at)
          PROVE  OwnTranscriber'
      BY <2>1, <3>2, OwnStep DEF Goes, Callbacks, IInv, TypeOK, CaptureTypeOK, Worker
    <3> QED
      BY <1>3, <3>1, <3>2
  <2> QED
    BY <2>1, <2>2, QuietStep DEF Kept, IInv, Numbered
<1>4. CASE CueLookup
  BY <1>3, <1>4 DEF CueLookup, Callbacks
<1>5. CASE PlayFeedbackCue
  BY <1>3, <1>5 DEF PlayFeedbackCue, Callbacks
<1>6. CASE DuckLookup
  BY <1>3, <1>6 DEF DuckLookup, Callbacks
<1>7. CASE SetVoiceCaptureDucked
  BY <1>3, <1>7 DEF SetVoiceCaptureDucked
<1>8. CASE StoreDuck
  BY <1>3, <1>8 DEF StoreDuck
<1> QED
  BY <1>1, <1>2, <1>4, <1>5, <1>6, <1>7, <1>8 DEF Busy

\* The goroutines of a capture: only a finalizer dispatches, once.
LEMMA HelperStep ==
  ASSUME IInv, NEW c \in Capture, Helper(c)
  PROVE  Kept
<1>1. UNCHANGED <<worker, captureVars, wakeCh>>
  BY DEF Helper, OpenerDials, OpenerDelivers, OpenerGivesUp, CloserCloses, FinalizerEnds,
         workerVars
<1>2. /\ UNCHANGED <<worker, state, captureID, dispatched, transcriber, wakeCh>>
      /\ wakeCh' => captureID < MaxCaptures
  BY <1>1 DEF captureVars, IInv, Numbered
<1>3. OwnTranscriber'
  BY <1>2, OwnStep
<1>4. CASE UNCHANGED <<sent, finalizer>>
  BY <1>2, <1>3, <1>4, QuietStep DEF Kept
<1>5. CASE FinalizerEnds(c)
  <2>1. /\ finalizer[c] \in {"finalizing", "skipping"}
        /\ finalizer' = [finalizer EXCEPT ![c] = "none"]
        /\ sent' = sent \/ (finalizer[c] = "finalizing" /\ CountDispatch(c))
    BY <1>5 DEF FinalizerEnds
  <2>2. CASE sent' = sent
    BY <1>2, <2>1, <2>2 DEF IInv, TypeOK, HelperTypeOK, Undispatched, OneDispatchPerCapture,
                            Numbered, OwnTranscriber, Kept, TranscriberOfThisCapture
  <2>3. CASE finalizer[c] = "finalizing" /\ CountDispatch(c)
    <3> sent[c] = 0
      BY <2>3 DEF IInv, Undispatched
    <3>1. sent' = [sent EXCEPT ![c] = 1]
      BY <2>3 DEF CountDispatch
    <3>2. /\ \A d \in Capture \ {c} : sent'[d] = sent[d] /\ finalizer'[d] = finalizer[d]
          /\ sent'[c] = 1 /\ finalizer'[c] = "none"
      BY <2>1, <3>1 DEF IInv, TypeOK, HelperTypeOK
    <3>3. /\ ~(c > captureID)
          /\ state = "capturing" => captureID # c
      BY <2>3 DEF IInv, Undispatched
    <3>4. Undispatched'
      BY <1>2, <2>3, <3>2, <3>3 DEF IInv, Undispatched, OneDispatchPerCapture, Numbered
    <3> QED
      BY <1>2, <1>3, <3>4 DEF IInv, Numbered, Kept
  <2> QED
    BY <2>1, <2>2, <2>3
<1> QED
  BY <1>4, <1>5 DEF Helper, OpenerDials, OpenerDelivers, OpenerGivesUp, CloserCloses

\* What comes from outside, who closes the session, and the mixer.
LEMMA OutsideStep ==
  ASSUME IInv,
         \/ Wake \/ Cleanup \/ Leaving \/ UNCHANGED sessionVars
         \/ \E c \in Capture : TranscriptUpdate(c) \/ TranscriptEnds(c)
  PROVE  Kept
<1>1. CASE Wake
  BY <1>1, QuietStep, OwnStep DEF Wake, captureVars, helperVars, Kept
<1>2. ASSUME NEW c \in Capture, TranscriptUpdate(c) \/ TranscriptEnds(c)
      PROVE  Kept
  BY <1>2, QuietStep, OwnStep
     DEF TranscriptUpdate, TranscriptEnds, workerVars, captureVars, helperVars, Kept,
         IInv, Numbered
<1>3. CASE Cleanup \/ Leaving
  <2>1. /\ UNCHANGED <<captureID, dispatched, sent, finalizer, state, wakeCh, worker>>
        /\ transcriber' \in {transcriber, NoTranscriber}
    BY <1>3 DEF Cleanup, CleanupStarts, CloseCancels, CloseJoins, CleanupEnds, Leaving,
                SpeakerLeaves, LeaverCancels, LeaverJoins, Joins, sessionUnchanged, channelVars
  <2> QED
    BY <2>1, QuietStep, OwnStep DEF Kept, IInv, Numbered
<1>4. CASE UNCHANGED sessionVars
  BY <1>4, QuietStep, OwnStep DEF sessionVars, Kept, IInv, Numbered
<1> QED
  BY <1>1, <1>2, <1>3, <1>4

-----------------------------------------------------------------------------
(* Who closes what was opened                                              *)

\* A step that starts no opener and opens nothing.
LEMMA NothingOpens ==
  ASSUME NotYetOpened, UNCHANGED <<captureID, opener>>, Starting' => Starting,
         \A c \in Capture : conn'[c] = "open" => conn[c] = "open"
  PROVE  NotYetOpened'
BY DEF NotYetOpened

\* A connection is closed, whoever does it: no other is touched.
LEMMA ClosedFacts ==
  ASSUME IInv, NEW t \in Capture, CloseConn(t)
  PROVE  /\ conn'[t] = "done"
         /\ \A c \in Capture : conn'[c] = "open" => conn[c] = "open" /\ c # t
BY DEF CloseConn, IInv, TypeOK, HelperTypeOK

\* What has an owner keeps it while nobody lets go.
LEMMA OwnersStay ==
  ASSUME OpenTranscriberHasOwner,
         UNCHANGED <<transcriber, finalizer, opener, transcriberReady>>,
         closers \subseteq closers',
         \A c \in Capture : conn'[c] = "open" => conn[c] = "open"
  PROVE  OpenTranscriberHasOwner'
BY DEF OpenTranscriberHasOwner

\* The end of a capture is not the beginning of one.
LEMMA EndingFacts == EndCapture => ~Starting'
BY DEF EndCapture, Starting

\* finalizeCapture hands the session's transcriber over, or drops one that is done.
LEMMA FinalizeOwner ==
  ASSUME IInv, OwnerInv, FinalizeCapture, Served,
         UNCHANGED <<captureID, opener, conn, closers, transcriberReady>>
  PROVE  OwnerInv'
<1>1. ~Starting
  BY DEF Served, Idle, Starting, Callbacks
<1>2. CASE finalizing
  <2>1. UNCHANGED <<worker, transcriber, finalizer>>
    BY <1>2 DEF FinalizeCapture
  <2> QED
    BY <2>1, <1>1, NothingOpens, OwnersStay DEF OwnerInv, Starting
<1>3. CASE ~finalizing /\ transcriber # NoTranscriber /\ ~Done(transcriber)
  <2>1. HandOver(transcriber) /\ transcriber \in Capture
    BY <1>3 DEF FinalizeCapture, IInv, TypeOK, CaptureTypeOK
  <2>2. NotYetOpened'
    BY <2>1, EndingFacts, NothingOpens DEF OwnerInv, HandOver
  <2>3. /\ finalizer'[transcriber] \in {"finalizing", "skipping"}
        /\ \A c \in Capture \ {transcriber} : finalizer'[c] = finalizer[c]
    BY <2>1 DEF HandOver, IInv, TypeOK, HelperTypeOK
  <2> QED
    BY <2>2, <2>3 DEF OwnerInv, OpenTranscriberHasOwner
<1>4. CASE ~finalizing /\ ~(transcriber # NoTranscriber /\ ~Done(transcriber))
  <2>1. worker' = [at |-> "ensure", of |-> "end"] /\ UNCHANGED finalizer
    BY <1>4 DEF FinalizeCapture
  <2>2. NotYetOpened'
    BY <2>1, NothingOpens DEF OwnerInv, Starting
  <2>3. \A c \in Capture : conn[c] = "open" => transcriber # c
    BY <1>4, CaptureAssumption DEF Done
  <2> QED
    BY <2>1, <2>2, <2>3 DEF OwnerInv, OpenTranscriberHasOwner
<1> QED
  BY <1>2, <1>3, <1>4

\* abortCapture leaves the transcriber to a goroutine that closes it.
LEMMA AbortOwner ==
  ASSUME IInv, AbortCapture, Served
  PROVE  /\ ~Starting'
         /\ closers \subseteq closers'
         /\ transcriber' # transcriber => transcriber \in closers'
<1>1. CASE finalizing
  BY <1>1 DEF AbortCapture, Served, Idle, Starting, Callbacks
<1>2. CASE ~finalizing
  BY <1>2, EndingFacts DEF AbortCapture
<1> QED
  BY <1>1, <1>2

\* The select: a result goes from the channel to the session, or is closed.
LEMMA SelectOwner ==
  ASSUME IInv, OwnerInv, Select
  PROVE  OwnerInv'
<1>0. Served => ~Starting
  BY DEF Served, Idle, Starting, Callbacks
<1>1. CASE BeginCapture
  <2>1. /\ UNCHANGED <<transcriber, transcriberReady, opener, conn, closers, finalizer>>
        /\ captureID \in Nat /\ captureID' = captureID + 1
    BY <1>1, CaptureAssumption DEF BeginCapture, helperVars, IInv, TypeOK, CaptureTypeOK
  <2>2. NotYetOpened'
    BY <2>1, CaptureAssumption DEF OwnerInv, NotYetOpened
  <2> QED
    BY <2>1, <2>2, OwnersStay DEF OwnerInv
<1>2. CASE WakeIgnored
  BY <1>2, NothingOpens, OwnersStay
     DEF WakeIgnored, captureVars, helperVars, OwnerInv, Starting
<1>3. CASE HandleTranscriberReady
  <2> PICK r \in Result : /\ transcriberReady = <<r>>
                          /\ HandleFailure(r) \/ HandleStale(r) \/ AttachTranscriber(r)
    BY <1>3 DEF HandleTranscriberReady
  <2>1. /\ UNCHANGED <<captureID, opener, finalizer>>
        /\ transcriberReady' = <<>>
        /\ Served /\ r.id \in Capture /\ r.ok \in BOOLEAN
        /\ \A c \in Capture : transcriberReady = <<[id |-> c, ok |-> TRUE]>> => r.id = c /\ r.ok
    BY <1>3 DEF HandleTranscriberReady, Result
  <2>2. CASE HandleFailure(r)
    <3>1. UNCHANGED <<worker, transcriber, closers>> \/ AbortCapture
      BY <2>2 DEF HandleFailure
    <3>2. /\ ~Starting' /\ closers \subseteq closers'
          /\ transcriber' # transcriber => transcriber \in closers'
      BY <1>0, <2>1, <3>1, AbortOwner DEF Starting
    <3>3. ~r.ok /\ UNCHANGED conn
      BY <2>2 DEF HandleFailure
    <3>4. NotYetOpened'
      BY <2>1, <3>2, <3>3, NothingOpens DEF OwnerInv
    <3> QED
      BY <2>1, <3>2, <3>3, <3>4 DEF OwnerInv, OpenTranscriberHasOwner
  <2>3. CASE HandleStale(r)
    <3>1. /\ \A c \in Capture : conn'[c] = "open" => conn[c] = "open" /\ c # r.id
          /\ UNCHANGED <<worker, transcriber, closers>>
      BY <2>1, <2>3, ClosedFacts DEF HandleStale
    <3>2. NotYetOpened'
      BY <2>1, <3>1, NothingOpens DEF OwnerInv, Starting
    <3> QED
      BY <2>1, <3>1, <3>2 DEF OwnerInv, OpenTranscriberHasOwner
  <2>4. CASE AttachTranscriber(r)
    <3>1. /\ r.id = captureID /\ r.ok
          /\ transcriber' = IF Done(r.id) THEN NoTranscriber ELSE r.id
          /\ UNCHANGED <<worker, conn, closers>>
      BY <2>4 DEF AttachTranscriber, Current
    <3>2. transcriber # NoTranscriber => transcriber = r.id
      BY <3>1 DEF IInv, OwnTranscriber, TranscriberOfThisCapture
    <3>3. NotYetOpened'
      BY <2>1, <3>1, NothingOpens DEF OwnerInv, Starting
    <3>4. \A c \in Capture : c # NoTranscriber
      BY CaptureAssumption
    <3> QED
      BY <2>1, <3>1, <3>2, <3>3, <3>4 DEF OwnerInv, OpenTranscriberHasOwner, Done
  <2> QED
    BY <2>2, <2>3, <2>4
<1>4. CASE HandleTranscriptUpdate
  <2> PICK u \in Update : \/ UpdateIgnored(u) \/ UpdateAwaitsArguments(u)
                          \/ UpdateFinalizes(u) \/ UpdateDispatches(u)
    BY <1>4 DEF HandleTranscriptUpdate
  <2>1. Served /\ UNCHANGED <<transcriberReady, opener, conn>>
    BY <1>4 DEF HandleTranscriptUpdate
  <2>2. CASE UpdateIgnored(u) \/ UpdateAwaitsArguments(u)
    <3>1. UNCHANGED <<worker, captureID, transcriber, closers, finalizer>>
      BY <2>2 DEF UpdateIgnored, UpdateAwaitsArguments, captureVars
    <3> QED
      BY <2>1, <3>1, NothingOpens, OwnersStay DEF OwnerInv, Starting
  <2>3. CASE UpdateFinalizes(u)
    BY <2>1, <2>3, FinalizeOwner DEF UpdateFinalizes
  <2>4. CASE UpdateDispatches(u)
    <3>1. AbortCapture /\ UNCHANGED <<captureID, finalizer>>
      BY <2>4 DEF UpdateDispatches
    <3>2. /\ ~Starting' /\ closers \subseteq closers'
          /\ transcriber' # transcriber => transcriber \in closers'
      BY <2>1, <3>1, AbortOwner
    <3>3. NotYetOpened'
      BY <2>1, <3>1, <3>2, NothingOpens DEF OwnerInv
    <3> QED
      BY <2>1, <3>1, <3>2, <3>3 DEF OwnerInv, OpenTranscriberHasOwner
  <2> QED
    BY <2>2, <2>3, <2>4
<1>5. CASE LimitPasses
  BY <1>5, FinalizeOwner DEF LimitPasses, channelVars
<1>6. CASE WorkerEnds
  <2>1. /\ ~Starting'
        /\ UNCHANGED <<captureID, transcriber, transcriberReady, opener, conn, closers, finalizer>>
    BY <1>6 DEF WorkerEnds, Idle, Starting, Callbacks, captureVars, channelVars, helperVars
  <2> QED
    BY <2>1, NothingOpens, OwnersStay DEF OwnerInv
<1> QED
  BY <1>1, <1>2, <1>3, <1>4, <1>5, <1>6 DEF Select

\* The worker: a result it waited for is handed over or closed, and an opener is
\* started once per capture.
LEMMA BusyOwner ==
  ASSUME IInv, OwnerInv, Busy
  PROVE  OwnerInv'
<1>1. CASE EnsureTakesResult
  <2> PICK r \in Result :
        /\ transcriberReady = <<r>>
        /\ \/ r.ok /\ HandOver(r.id) /\ UNCHANGED conn
           \/ CloseConn(r.id) /\ EndCapture /\ UNCHANGED <<transcriber, finalizer>>
           \/ /\ ~r.ok \/ Done(r.id)
              /\ EndCapture /\ UNCHANGED <<transcriber, finalizer, conn>>
    BY <1>1 DEF EnsureTakesResult
  <2>1. /\ UNCHANGED <<captureID, opener, closers>>
        /\ transcriber = NoTranscriber /\ r.id \in Capture /\ r.id # NoTranscriber
        /\ \A c \in Capture : c # NoTranscriber
        /\ transcriberReady' = <<>>
        /\ \A c \in Capture : transcriberReady = <<[id |-> c, ok |-> TRUE]>> => r.id = c /\ r.ok
    BY <1>1, CaptureAssumption DEF EnsureTakesResult, IInv, OwnTranscriber, Result
  <2>2. CASE HandOver(r.id) /\ UNCHANGED conn
    <3>1. NotYetOpened'
      BY <2>1, <2>2, EndingFacts, NothingOpens DEF OwnerInv, HandOver
    <3>2. /\ finalizer'[r.id] \in {"finalizing", "skipping"}
          /\ \A c \in Capture \ {r.id} : finalizer'[c] = finalizer[c]
      BY <2>1, <2>2 DEF HandOver, IInv, TypeOK, HelperTypeOK
    <3> QED
      BY <2>1, <2>2, <3>1, <3>2 DEF OwnerInv, OpenTranscriberHasOwner
  <2>3. CASE CloseConn(r.id) /\ EndCapture /\ UNCHANGED <<transcriber, finalizer>>
    <3>1. \A c \in Capture : conn'[c] = "open" => conn[c] = "open" /\ c # r.id
      BY <2>1, <2>3, ClosedFacts
    <3>2. NotYetOpened'
      BY <2>1, <2>3, <3>1, EndingFacts, NothingOpens DEF OwnerInv
    <3> QED
      BY <2>1, <2>3, <3>1, <3>2 DEF OwnerInv, OpenTranscriberHasOwner
  <2>4. CASE /\ ~r.ok \/ Done(r.id)
             /\ EndCapture /\ UNCHANGED <<transcriber, finalizer, conn>>
    <3>1. NotYetOpened'
      BY <2>1, <2>4, EndingFacts, NothingOpens DEF OwnerInv
    <3> QED
      BY <2>1, <2>4, <3>1 DEF OwnerInv, OpenTranscriberHasOwner, Done
  <2> QED
    BY <2>2, <2>3, <2>4
<1>2. CASE EnsureTimesOut
  <2>1. /\ EndCapture
        /\ UNCHANGED <<captureID, transcriber, transcriberReady, opener, conn, closers, finalizer>>
    BY <1>2 DEF EnsureTimesOut, channelVars, helperVars
  <2> QED
    BY <2>1, EndingFacts, NothingOpens, OwnersStay DEF OwnerInv
<1>3. ASSUME UNCHANGED callbackUnchanged, worker.at \in Callbacks \cup {"duckStore"},
             \/ CallbacksReturn
             \/ \E at \in Callbacks \cup {"duckStore"} : Goes(at)
      PROVE  OwnerInv'
  <2>1. UNCHANGED <<captureID, transcriber, transcriberReady, conn, closers, finalizer>>
    BY <1>3 DEF callbackUnchanged, captureVars, channelVars
  <2>2. CASE CallbacksReturn /\ worker.of = "start"
    <3>1. /\ opener' = [opener EXCEPT ![captureID] = "dialing"]
          /\ ~Starting' /\ Starting
      BY <1>3, <2>2 DEF CallbacksReturn, Idle, Starting, Callbacks
    <3>2. /\ \A c \in Capture : c # captureID => opener'[c] = opener[c]
          /\ captureID \in Nat
      BY <3>1, CaptureAssumption DEF IInv, TypeOK, HelperTypeOK, CaptureTypeOK
    <3>3. NotYetOpened'
      BY <2>1, <3>1, <3>2, CaptureAssumption DEF OwnerInv, NotYetOpened
    <3>4. \A c \in Capture : conn[c] = "open" => c # captureID
      BY <3>1 DEF OwnerInv, NotYetOpened
    <3> QED
      BY <2>1, <3>2, <3>3, <3>4 DEF OwnerInv, OpenTranscriberHasOwner
  <2>3. CASE CallbacksReturn /\ worker.of # "start"
    BY <2>1, <2>3, NothingOpens, OwnersStay
       DEF CallbacksReturn, OwnerInv, Idle, Starting, Callbacks
  <2>4. ASSUME NEW at \in Callbacks \cup {"duckStore"}, Goes(at)
        PROVE  OwnerInv'
    <3>1. worker'.of = worker.of /\ UNCHANGED opener
      BY <2>4 DEF Goes, IInv, TypeOK, CaptureTypeOK, Worker
    <3>2. Starting' => Starting
      BY <1>3, <3>1 DEF Starting
    <3> QED
      BY <2>1, <3>1, <3>2, NothingOpens, OwnersStay DEF OwnerInv
  <2> QED
    BY <1>3, <2>2, <2>3, <2>4
<1>4. CASE CueLookup
  BY <1>3, <1>4 DEF CueLookup, Callbacks
<1>5. CASE PlayFeedbackCue
  BY <1>3, <1>5 DEF PlayFeedbackCue, Callbacks
<1>6. CASE DuckLookup
  BY <1>3, <1>6 DEF DuckLookup, Callbacks
<1>7. CASE SetVoiceCaptureDucked
  BY <1>3, <1>7 DEF SetVoiceCaptureDucked, Callbacks
<1>8. CASE StoreDuck
  BY <1>3, <1>8 DEF StoreDuck
<1> QED
  BY <1>1, <1>2, <1>4, <1>5, <1>6, <1>7, <1>8 DEF Busy

\* The goroutines of a capture: an opener delivers or closes, and the others end with
\* the connection closed.
LEMMA HelperOwner ==
  ASSUME IInv, OwnerInv, NEW c \in Capture, Helper(c)
  PROVE  OwnerInv'
<1>1. UNCHANGED <<worker, captureID, transcriber>>
  BY DEF Helper, OpenerDials, OpenerDelivers, OpenerGivesUp, CloserCloses, FinalizerEnds,
         workerVars, captureVars
<1>2. /\ opener \in [Capture -> {"none", "dialing", "opened", "failed", "over"}]
      /\ conn \in [Capture -> {"none", "open", "done"}]
      /\ finalizer \in [Capture -> {"none", "finalizing", "skipping"}]
  BY DEF IInv, TypeOK, HelperTypeOK
<1>3. ASSUME opener[c] # "none",
             \A d \in Capture \ {c} : opener'[d] = opener[d] /\ conn'[d] = conn[d]
      PROVE  NotYetOpened'
  BY <1>1, <1>3 DEF OwnerInv, NotYetOpened, Starting
<1>4. CASE OpenerDials(c)
  <2>1. /\ opener[c] # "none" /\ opener[c] # "opened"
        /\ \A d \in Capture \ {c} : opener'[d] = opener[d] /\ conn'[d] = conn[d]
        /\ opener'[c] = "opened" \/ conn'[c] = conn[c]
        /\ UNCHANGED <<transcriberReady, closers, finalizer>>
    BY <1>2, <1>4 DEF OpenerDials
  <2> QED
    BY <1>1, <1>3, <2>1 DEF OwnerInv, OpenTranscriberHasOwner
<1>5. CASE OpenerDelivers(c)
  <2>1. /\ opener[c] # "none" /\ transcriberReady = <<>>
        /\ opener[c] = "opened" => transcriberReady' = <<[id |-> c, ok |-> TRUE]>>
        /\ \A d \in Capture \ {c} : opener'[d] = opener[d]
        /\ UNCHANGED <<conn, closers, finalizer>>
    BY <1>2, <1>5 DEF OpenerDelivers
  <2> QED
    BY <1>1, <1>3, <2>1 DEF OwnerInv, OpenTranscriberHasOwner
<1>6. CASE OpenerGivesUp(c)
  <2>1. /\ opener[c] # "none"
        /\ \A d \in Capture \ {c} : opener'[d] = opener[d] /\ conn'[d] = conn[d]
        /\ opener[c] = "opened" => conn'[c] = "done"
        /\ conn'[c] = "open" => conn[c] = "open"
        /\ UNCHANGED <<transcriberReady, closers, finalizer>>
    BY <1>2, <1>6 DEF OpenerGivesUp, CloseConn
  <2> QED
    BY <1>1, <1>3, <2>1 DEF OwnerInv, OpenTranscriberHasOwner
<1>7. CASE CloserCloses(c) \/ FinalizerEnds(c)
  <2>1. /\ CloseConn(c)
        /\ \A d \in Capture \ {c} : /\ d \in closers => d \in closers'
                                   /\ finalizer'[d] = finalizer[d]
        /\ UNCHANGED <<transcriberReady, opener>>
    BY <1>2, <1>7 DEF CloserCloses, FinalizerEnds
  <2>2. \A d \in Capture : conn'[d] = "open" => conn[d] = "open" /\ d # c
    BY <2>1, ClosedFacts
  <2>3. NotYetOpened'
    BY <1>1, <2>1, <2>2, NothingOpens DEF OwnerInv, Starting
  <2> QED
    BY <1>1, <2>1, <2>2, <2>3 DEF OwnerInv, OpenTranscriberHasOwner
<1> QED
  BY <1>4, <1>5, <1>6, <1>7 DEF Helper

\* What comes from outside, who closes the session and with it the transcriber the worker
\* left, and the mixer.
LEMMA OutsideOwner ==
  ASSUME IInv, OwnerInv,
         \/ Wake \/ Cleanup \/ Leaving \/ UNCHANGED sessionVars
         \/ \E c \in Capture : TranscriptUpdate(c) \/ TranscriptEnds(c)
  PROVE  OwnerInv'
<1>1. CASE \/ Wake \/ CleanupStarts \/ CloseCancels \/ CleanupEnds \/ SpeakerLeaves
           \/ LeaverCancels \/ UNCHANGED sessionVars
           \/ \E c \in Capture : TranscriptUpdate(c)
  <2>1. UNCHANGED <<worker, captureID, transcriber, transcriberReady, opener, conn, closers, finalizer>>
    BY <1>1 DEF Wake, CleanupStarts, CloseCancels, CleanupEnds, SpeakerLeaves, LeaverCancels,
                sessionVars, TranscriptUpdate, workerVars, captureVars, channelVars, helperVars, sessionUnchanged
  <2> QED
    BY <2>1, NothingOpens, OwnersStay DEF OwnerInv, Starting
<1>2. ASSUME NEW c \in Capture, TranscriptEnds(c)
      PROVE  OwnerInv'
  <2>1. UNCHANGED <<worker, captureID, transcriber, transcriberReady, opener, closers, finalizer>>
    BY <1>2 DEF TranscriptEnds, workerVars, captureVars
  <2>2. \A d \in Capture : conn'[d] = "open" => conn[d] = "open"
    BY <1>2, ClosedFacts DEF TranscriptEnds, CloseConn
  <2> QED
    BY <2>1, <2>2, NothingOpens, OwnersStay DEF OwnerInv, Starting
<1>3. CASE CloseJoins \/ LeaverJoins
  <2>1. /\ UNCHANGED <<worker, captureID, transcriberReady, opener, closers, finalizer>>
        /\ transcriber \in Capture \cup {NoTranscriber}
        /\ IF transcriber = NoTranscriber THEN UNCHANGED conn ELSE CloseConn(transcriber)
    BY <1>3 DEF CloseJoins, LeaverJoins, Joins, sessionUnchanged, channelVars, IInv, TypeOK, CaptureTypeOK
  <2>2. /\ \A d \in Capture : conn'[d] = "open" => conn[d] = "open" /\ d # transcriber
    BY <2>1, ClosedFacts, CaptureAssumption
  <2>3. NotYetOpened'
    BY <2>1, <2>2, NothingOpens DEF OwnerInv, Starting
  <2> QED
    BY <2>1, <2>2, <2>3 DEF OwnerInv, OpenTranscriberHasOwner
<1> QED
  BY <1>1, <1>2, <1>3 DEF Cleanup, Leaving

\* Nothing is open in the beginning, and every step leaves what is open with an owner.
LEMMA StepOwner == IInv /\ OwnerInv /\ [Next]_vars => OwnerInv'
<1> SUFFICES ASSUME IInv, OwnerInv, [Next]_vars PROVE OwnerInv'
  OBVIOUS
<1>1. CASE UNCHANGED vars
  <2>1. UNCHANGED sessionVars
    BY <1>1 DEF vars
  <2> QED
    BY <2>1, OutsideOwner
<1> QED
  BY <1>1, NextGroups, SelectOwner, BusyOwner, HelperOwner, OutsideOwner, Zenon

-----------------------------------------------------------------------------
(* The theorems                                                            *)

\* Every step of the session, of its goroutines and of the guild keeps the invariant.
LEMMA StepIInv == IInv /\ [Next]_vars => IInv'
<1> SUFFICES ASSUME IInv, [Next]_vars PROVE IInv'
  OBVIOUS
<1>1. CASE Select
  BY <1>1, SelectType, SelectStep DEF IInv, Kept
<1>2. CASE Busy
  BY <1>2, BusyType, BusyStep DEF IInv, Kept
<1>3. ASSUME NEW c \in Capture, Helper(c) PROVE IInv'
  BY <1>3, HelperType, HelperStep DEF IInv, Kept
<1>4. CASE Wake \/ Cleanup \/ Leaving \/ \E c \in Capture : TranscriptUpdate(c) \/ TranscriptEnds(c)
  BY <1>4, OutsideType, OutsideStep, Zenon DEF IInv, Kept
<1>5. CASE /\ UNCHANGED sessionVars
           /\ \/ \E o \in Owner : TimerWakes(o) \/ TimerClears(o)
              \/ \E r \in Response :
                   \/ ResponseTakesMixer(r, stored /\ MutexFree /\ DucksUsed < MaxDucks)
                   \/ ResponsePlays(r)
  BY <1>5, DuckType, OutsideStep, Zenon DEF IInv, Kept
<1>6. CASE UNCHANGED vars
  <2>1. UNCHANGED duckVars /\ UNCHANGED sessionVars
    BY <1>6 DEF vars
  <2>2. TypeOK'
    BY <2>1, TypeFrames
       DEF IInv, TypeOK, sessionVars, captureVars, channelVars, helperVars, guildVars
  <2> QED
    BY <2>1, <2>2, OutsideStep DEF IInv, Kept
<1> QED
  BY <1>1, <1>2, <1>3, <1>4, <1>5, <1>6, NextGroups, Zenon

\* The invariant holds in every state of every behaviour.
THEOREM Invariance == Spec => []IInv
<1> QED
  BY InitIInv, StepIInv, PTL DEF Spec

\* The session, its goroutines and the guild's Cleanup keep their type, for any number
\* of captures and of spoken responses.
THEOREM TypeCorrect == Spec => []TypeOK
<1>1. IInv => TypeOK
  BY DEF IInv
<1> QED
  BY <1>1, Invariance, PTL

\* However late the openers of earlier captures deliver, the session never sends sound to
\* a transcriber of another capture than the one in progress (handleTranscriberReady).
THEOREM OwnTranscriberOnly == Spec => []TranscriberOfThisCapture
<1>1. IInv => TranscriberOfThisCapture
  BY DEF IInv, OwnTranscriber
<1> QED
  BY <1>1, Invariance, PTL

\* A capture dispatches at most one command, from an update or from the final transcript
\* (dispatchCommand, finalizeCapture).
THEOREM OneDispatch == Spec => []OneDispatchPerCapture
<1>1. IInv => OneDispatchPerCapture
  BY DEF IInv, Undispatched
<1> QED
  BY <1>1, Invariance, PTL

\* A transcriber that was opened is closed by somebody: whatever is delivered late, aborted,
\* finalized or given up, it always has an owner (openTranscriber, handleTranscriberReady).
THEOREM OpenHasOwner == Spec => []OpenTranscriberHasOwner
<1>1. Init => OwnerInv
  BY DEF Init, Idle, OwnerInv, NotYetOpened, OpenTranscriberHasOwner
<1>2. OwnerInv => OpenTranscriberHasOwner
  BY DEF OwnerInv
<1> QED
  BY <1>1, <1>2, StepOwner, Invariance, PTL DEF Spec

=============================================================================
