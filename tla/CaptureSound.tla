---------------------------- MODULE CaptureSound ----------------------------
(* The sound of one speaker (Receive/Session.go, Buffer.go, Preroll.go): of *)
(* the frames that arrive, a capture gets the last ones before the wake     *)
(* word and all that follow.  They wait in the inbox of the session, until  *)
(* the service is connected in preCapture, and until there are enough for a *)
(* chunk in the pcmBuf of the transcriber.                                  *)
(*                                                                          *)
(* A frame is a number, and every buffer a sequence of them.  When a        *)
(* capture begins and ends, what is said in it and who closes what is the   *)
(* subject of CaptureSession; here a wake word, a limit, a failure of the   *)
(* service may come at any time, and the decoding of a frame succeeds.      *)
EXTENDS Lists, FiniteSetsExt

CONSTANTS
  InboxSize, PrerollSize, PreCaptureSize, PcmBufSize,  \* all in frames
  ChunkSize,
  MaxHeard,  \* bounds: frames, and captures
  MaxWakes

ASSUME SoundAssumption ==
  /\ {InboxSize, PrerollSize, PreCaptureSize, ChunkSize} \subseteq Nat \ {0}
  /\ PcmBufSize \in Nat /\ PcmBufSize >= 2 * ChunkSize - 1
  /\ MaxHeard \in Nat /\ MaxWakes \in Nat

Wakes == 1 .. MaxWakes

VARIABLES
  arrived,     \* frames so far (bound)
  quiet,       \* the silent ones, of those to come too
  inbox,
  preroll,     \* opusPreroll
  capturing,   \* the state of the session,
  ensuring,    \* the worker waits in ensureTranscriber,
  wake,        \* and captureID
  preCapture,
  due,         \* the frames of the capture in progress
  transcribers \* of each capture

soundVars == <<arrived, quiet, inbox, preroll, capturing, ensuring, wake, preCapture,
               due, transcribers>>

\* pcm: its pcmBuf, taken: the frames that have left it in chunks, told: those of them
\* that were sent, due: what it ought to get.
NoTranscriber == [at |-> "none", pcm |-> <<>>, taken |-> <<>>, told |-> <<>>, due |-> <<>>]

FrameSeq == Seq(1 .. MaxHeard)

CaptureState ==
  [at : {"none", "opening", "attached", "finalizing", "finished", "closed"},
   pcm : FrameSeq, taken : FrameSeq, told : FrameSeq, due : FrameSeq]

SoundTypeOK ==
  /\ arrived \in 0 .. MaxHeard /\ quiet \subseteq 1 .. MaxHeard
  /\ inbox \in FrameSeq /\ Len(inbox) <= InboxSize
  /\ preroll \in FrameSeq /\ Len(preroll) <= PrerollSize
  /\ capturing \in BOOLEAN /\ ensuring \in BOOLEAN /\ (ensuring => capturing)
  /\ wake \in 0 .. MaxWakes /\ due \in FrameSeq
  /\ preCapture \in FrameSeq /\ Len(preCapture) <= PreCaptureSize
  /\ transcribers \in [Wakes -> CaptureState]

SoundInit ==
  /\ arrived = 0 /\ quiet \in SUBSET (1 .. MaxHeard) /\ inbox = <<>> /\ preroll = <<>>
  /\ capturing = FALSE /\ ensuring = FALSE /\ wake = 0 /\ preCapture = <<>> /\ due = <<>>
  /\ transcribers = [w \in Wakes |-> NoTranscriber]

-----------------------------------------------------------------------------
(* Buffers                                                                  *)

\* What stays of a sequence that may have so many elements: the last ones.
KeepLast(s, n) == IF Len(s) > n THEN SubSeq(s, Len(s) - n + 1, Len(s)) ELSE s

\* Slip: a frame that finds the buffer full is not taken.
AppendIfRoom(pcm, frames, cap) == IF Len(pcm) + Len(frames) > cap THEN pcm ELSE pcm \o frames

\* PCMBuffer.Append and opusPreroll.Push: the oldest make room.
AppendPCM(pcm, frames, cap) == KeepLast(pcm \o frames, cap)

\* The places of the chunk that place i belongs to, when the first n places leave a buffer.
ChunkAround(i, n) == {k \in 1 .. n : (k - 1) \div ChunkSize = (i - 1) \div ChunkSize}

\* Slip: only how a chunk begins is looked at.
SilentAtStart(pcm, chunk) ==
  \A i \in chunk : (\A k \in chunk : i <= k) => pcm[i] \in quiet

\* isPCMSilent: a chunk without any sound.
Silent(pcm, chunk) == \A i \in chunk : pcm[i] \in quiet

\* PCMBuffer.DrainChunks: how much of a buffer is whole chunks; the rest stays.
WholeChunks(pcm) == ChunkSize * (Len(pcm) \div ChunkSize)

\* The first n frames leave the buffer, which was pcm; of them the chunks that are not
\* silent are sent.
WriteChunks(t, pcm, n) ==
  [t EXCEPT !.pcm   = SubSeq(pcm, n + 1, Len(pcm)),
            !.taken = @ \o SubSeq(pcm, 1, n),
            !.told  = @ \o AtPlaces(pcm, {i \in 1 .. n : ~ Silent(pcm, ChunkAround(i, n))})]

\* Send: a transcriber takes frames, and writes them as soon as they make a chunk.
SendFrames(t, frames) ==
  LET pcm == AppendPCM(t.pcm, frames, PcmBufSize)
  IN  WriteChunks(t, pcm, WholeChunks(pcm))

-----------------------------------------------------------------------------
(* The worker: frames                                                       *)

\* Push: a frame arrives, and is dropped if the inbox is full.
PushFrame ==
  /\ arrived < MaxHeard /\ arrived' = arrived + 1
  /\ inbox' = IF Len(inbox) < InboxSize THEN Append(inbox, arrived + 1) ELSE inbox
  /\ UNCHANGED <<quiet, preroll, capturing, ensuring, wake, preCapture, due, transcribers>>

\* endCapture: what is left of the capture is thrown away.
EndSound ==
  /\ capturing' = FALSE /\ ensuring' = FALSE
  /\ preroll' = <<>> /\ preCapture' = <<>> /\ due' = <<>>

\* handleFrame while the session listens.
HearFrame ==
  /\ ~ capturing /\ inbox # <<>> /\ inbox' = Tail(inbox)
  /\ preroll' = AppendPCM(preroll, <<Head(inbox)>>, PrerollSize)
  /\ UNCHANGED <<arrived, quiet, capturing, ensuring, wake, preCapture, due, transcribers>>

\* runCapturing: a frame goes to the transcriber, or waits for it.
CaptureFrame ==
  /\ capturing /\ ~ ensuring /\ inbox # <<>> /\ inbox' = Tail(inbox)
  /\ due' = Append(due, Head(inbox))
  /\ IF transcribers[wake].at = "attached"
       THEN /\ transcribers' = [transcribers EXCEPT ![wake] = SendFrames(@, <<Head(inbox)>>)]
            /\ UNCHANGED preCapture
       ELSE /\ preCapture' = AppendPCM(preCapture, <<Head(inbox)>>, PreCaptureSize)
            /\ UNCHANGED transcribers
  /\ UNCHANGED <<arrived, quiet, preroll, capturing, ensuring, wake>>

\* beginCapture: the preroll is the beginning of the capture.
BeginSound ==
  /\ ~ capturing /\ wake < MaxWakes
  /\ capturing' = TRUE /\ wake' = wake + 1
  /\ due' = preroll /\ preCapture' = AppendPCM(<<>>, preroll, PreCaptureSize)
  /\ preroll' = <<>>
  /\ transcribers' = [transcribers EXCEPT ![wake + 1].at = "opening"]
  /\ UNCHANGED <<arrived, quiet, inbox, ensuring>>

-----------------------------------------------------------------------------
(* The worker: transcribers                                                 *)

\* The rest of finalizeCapture: the transcriber is finished by a goroutine, or only closed if a
\* command was found before.
HandOver(t) ==
  /\ \E at \in {"finalizing", "closed"} :
       transcribers' = [transcribers EXCEPT ![wake] = [t EXCEPT !.at = at, !.due = due]]
  /\ EndSound

\* Slip: what has waited is sent at once, and not in chunks.
AttachAtOnce(t) == [SendFrames(t, preCapture) EXCEPT !.at = "attached"]

\* What has waited is cut into so many whole chunks and a remainder.
Waited == Len(preCapture) \div ChunkSize
Part(n) ==
  SubSeq(preCapture, (n - 1) * ChunkSize + 1,
         IF n <= Waited THEN n * ChunkSize ELSE Len(preCapture))

\* attachTranscriber: what has waited is sent in chunks, the remainder too.
Attach(t) ==
  LET sent[n \in 0 .. Waited + 1] == IF n = 0 THEN t ELSE SendFrames(sent[n - 1], Part(n))
  IN  [sent[Waited + 1] EXCEPT !.at = "attached"]

\* handleTranscriberReady, for the capture in progress or, in ensureTranscriber, the one
\* that waits to be finalized; any other transcriber is closed, and one that is done
\* already is not attached.
TranscriberOpens(w) ==
  /\ transcribers[w].at = "opening"
  /\ \/ /\ capturing /\ w = wake /\ ~ ensuring
        /\ transcribers' = [transcribers EXCEPT ![w] = Attach(@)]
        /\ preCapture' = <<>>
        /\ UNCHANGED <<preroll, capturing, ensuring, due>>
     \/ ensuring /\ w = wake /\ HandOver(Attach(transcribers[w]))
     \/ /\ ~ (capturing /\ w = wake /\ ensuring)
        /\ transcribers' = [transcribers EXCEPT ![w].at = "closed"]
        /\ UNCHANGED <<preroll, capturing, ensuring, preCapture, due>>
  /\ UNCHANGED <<arrived, quiet, inbox, wake>>

\* It cannot be opened: a capture that is waiting for it is over.
OpeningFails(w) ==
  /\ transcribers[w].at = "opening"
  /\ transcribers' = [transcribers EXCEPT ![w].at = "closed"]
  /\ IF capturing /\ w = wake THEN EndSound
     ELSE UNCHANGED <<preroll, capturing, ensuring, preCapture, due>>
  /\ UNCHANGED <<arrived, quiet, inbox, wake>>

\* finalizeCapture, at the end of a command or at a limit; the frame at which runCapturing
\* sees that a limit is reached goes nowhere.
FinalizeSound ==
  /\ capturing /\ ~ ensuring
  /\ UNCHANGED inbox \/ (inbox # <<>> /\ inbox' = Tail(inbox))
  /\ IF transcribers[wake].at = "attached" THEN HandOver(transcribers[wake])
     ELSE ensuring' = TRUE /\ UNCHANGED <<preroll, capturing, preCapture, due, transcribers>>
  /\ UNCHANGED <<arrived, quiet, wake>>

\* ensureTranscriber waits no longer, or the service has closed the connection.
NoTranscriberLeft ==
  /\ capturing /\ (ensuring \/ transcribers[wake].at = "attached")
  /\ transcribers' = [transcribers EXCEPT ![wake].at = IF ensuring THEN @ ELSE "closed"]
  /\ EndSound
  /\ UNCHANGED <<arrived, quiet, inbox, wake>>

\* Slip: what is too short for a chunk stays behind.
FlushWhole(w) ==
  /\ transcribers[w].at = "finalizing"
  /\ transcribers' = [transcribers EXCEPT ![w] =
       [WriteChunks(@, @.pcm, WholeChunks(@.pcm)) EXCEPT !.at = "finished"]]
  /\ UNCHANGED <<arrived, quiet, inbox, preroll, capturing, ensuring, wake, preCapture, due>>

\* Finalize: what is still in the buffer is written, then the end of the sound.
FlushSound(w) ==
  /\ transcribers[w].at = "finalizing"
  /\ transcribers' = [transcribers EXCEPT ![w] =
       [WriteChunks(@, @.pcm, Len(@.pcm)) EXCEPT !.at = "finished"]]
  /\ UNCHANGED <<arrived, quiet, inbox, preroll, capturing, ensuring, wake, preCapture, due>>

SoundNext ==
  \/ PushFrame \/ HearFrame \/ CaptureFrame \/ BeginSound \/ FinalizeSound \/ NoTranscriberLeft
  \/ \E w \in Wakes : TranscriberOpens(w) \/ OpeningFails(w) \/ FlushSound(w)

SoundSpec == SoundInit /\ [][SoundNext]_soundVars

-----------------------------------------------------------------------------
(* Properties                                                               *)

\* What is due to a transcriber it has, in that order, or lost the oldest of it while it
\* was not there.
Holds(has, all) == IsSuffix(has, all) /\ Len(has) >= Min({Len(all), PreCaptureSize})

\* A capture has its preroll and every frame since up to its limit, each once and in order,
\* wherever they wait, and the transcriber that finishes has been given all of them (Receive/Session.go:438).
CaptureSoundWhole ==
  /\ capturing => LET t == transcribers[wake] IN Holds(t.taken \o t.pcm \o preCapture, due)
  /\ \A w \in Wakes :
       LET t == transcribers[w]
       IN  /\ t.at = "finalizing" => Holds(t.taken \o t.pcm, t.due)
           /\ t.at = "finished" => Holds(t.taken, t.due)

\* A frame is of one capture only, and the service hears every one that is not silent, in
\* the order in which they were said (Receive/Transcribe.go:220).
FramesHeardOnce ==
  /\ \A v, w \in Wakes : v # w =>
       Range(transcribers[v].taken) \cap Range(transcribers[w].taken) = {}
  /\ \A w \in Wakes :
       LET t == transcribers[w]
       IN  /\ Range(t.told) \subseteq Range(t.taken)
           /\ Range(t.taken) \subseteq Range(t.told) \cup quiet
           /\ \A i, j \in DOMAIN t.told : i < j => t.told[i] < t.told[j]
=============================================================================
