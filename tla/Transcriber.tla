---------------------------- MODULE Transcriber ----------------------------
(* One transcriber (Receive/Transcribe.go): a websocket to a service that  *)
(* turns speech into text, the goroutine that reads it, the one that opens *)
(* it, its owner, who sends sound and then finalizes or closes it, and the *)
(* hard timeout, which finalizes it too.  CaptureSession has the owner; to *)
(* it a transcriber is a name, whose done channel gets closed.             *)
(*                                                                         *)
(* Sound is the words in it, and a chunk that is sent or kept for later is *)
(* some of them; silent chunks have none.  The service is external: it     *)
(* hears words and tells them, in order and as late as it likes, so that a *)
(* message on its way is one not told yet.                                 *)
EXTENDS Naturals, Sequences

CONSTANTS Word, MaxWords  \* MaxWords bounds what is said

ASSUME TranscriberAssumption == MaxWords \in Nat

Finalizer == {"owner", "timeout"}

VARIABLES
  opener,    \* NewTranscriber
  conn,      \* the connection
  done,      \* the done channel is closed
  ready,     \* and the ready channel
  loop,      \* the read loop, and
  reading,   \* the message it has read and not absorbed
  said,      \* the words the owner has sent before the end of the sound
  pcmBuf,    \* those of them that have not been written
  asked,     \* audio.done has been written
  finalizer, \* the calls of Finalize
  gaveUp,    \* one of them has not waited for the end
  result,    \* what the owner took for the transcript
  text, utterance, interim,  \* the transcript
  upto,      \* how many of the words were told by the messages absorbed
  dropped,   \* an utterance was taken for a repetition of the last one
  heard,     \* what the service has heard,
  ended,     \* how much of it was in utterances that have ended,
  chunked,   \* in chunks that are final,
  told       \* and in any message

transcript   == <<text, utterance, interim, upto, dropped>>
speechVars   == <<heard, ended, chunked, told>>
connection   == <<conn, done, ready, loop, reading>>
calls        == <<opener, said, pcmBuf, asked, finalizer, gaveUp, result>>
transcriberVars == <<connection, calls, transcript, speechVars>>

Text == Seq(Word)
Message == [kind : {"created", "interim", "chunk", "speech", "done"},
            text : Text, upto : 0 .. MaxWords]

TranscriberTypeOK ==
  /\ opener \in {"idle", "waiting", "returned", "failed"}
  /\ conn \in {"none", "open", "closed"} /\ ready \in BOOLEAN
  /\ done = (conn = "closed" \/ loop \in {"told", "failed"})
  /\ loop \in {"none", "reading", "absorbing", "told", "failed"}
  /\ reading \in Seq(Message) /\ Len(reading) <= 1
  /\ said \in Text /\ pcmBuf \in Text /\ asked \in BOOLEAN
  /\ finalizer \in [Finalizer ->
       {"none", "armed", "begun", "waiting", "closing", "closed", "over",
        "aborted"}]
  /\ gaveUp \in BOOLEAN /\ result \in Text
  /\ {text, utterance, interim, heard} \subseteq Text /\ dropped \in BOOLEAN
  /\ {upto, ended, chunked, told} \subseteq 0 .. MaxWords
  /\ ended <= chunked /\ chunked <= told /\ told <= Len(heard)

TranscriberInit ==
  /\ opener = "idle" /\ conn = "none" /\ done = FALSE /\ ready = FALSE
  /\ loop = "none" /\ reading = <<>>
  /\ said = <<>> /\ pcmBuf = <<>> /\ asked = FALSE
  /\ finalizer = [f \in Finalizer |-> "none"]
  /\ gaveUp = FALSE /\ result = <<>>
  /\ text = <<>> /\ utterance = <<>> /\ interim = <<>>
  /\ upto = 0 /\ dropped = FALSE
  /\ heard = <<>> /\ ended = 0 /\ chunked = 0 /\ told = 0

-----------------------------------------------------------------------------
(* NewTranscriber                                                          *)

Dial ==
  /\ opener = "idle"
  /\ \/ /\ opener' = "waiting" /\ conn' = "open" /\ loop' = "reading"
     \/ /\ opener' = "failed" /\ UNCHANGED <<conn, loop>>
  /\ UNCHANGED <<done, ready, reading, said, pcmBuf, asked, finalizer, gaveUp,
                 result, transcript, speechVars>>

OpenReturns ==
  /\ opener = "waiting" /\ ready
  /\ opener' = "returned"
  /\ UNCHANGED <<connection, said, pcmBuf, asked, finalizer, gaveUp, result,
                 transcript, speechVars>>

(* Close, which is done once: the connection, then the done channel.       *)
Close == conn' = "closed" /\ done' = TRUE

\* Slip: the error is returned and the connection stays.
OpenFails ==
  /\ opener = "waiting"
  /\ opener' = "failed"
  /\ UNCHANGED <<connection, said, pcmBuf, asked, finalizer, gaveUp,
                 result, transcript, speechVars>>

(* Five seconds have passed, or the session is being closed.               *)
OpenGivesUp ==
  /\ opener = "waiting"
  /\ Close
  /\ opener' = "failed"
  /\ UNCHANGED <<ready, loop, reading, said, pcmBuf, asked, finalizer, gaveUp,
                 result, transcript, speechVars>>

-----------------------------------------------------------------------------
(* The owner, and the hard timeout                                         *)

Using == opener = "returned" /\ finalizer["owner"] = "none"

(* Send: full chunks are written, the rest is kept; the first write starts  *)
(* the hard timeout.  Words that come after audio.done are lost, which     *)
(* changes nothing here.                                                   *)
Send(w) ==
  /\ Using /\ ~done /\ conn = "open" /\ ~asked /\ Len(said) < MaxWords
  /\ said' = Append(said, w)
  /\ \/ /\ pcmBuf' = Append(pcmBuf, w)
        /\ UNCHANGED <<finalizer, heard>>
     \/ /\ pcmBuf' = <<>> /\ heard' = heard \o pcmBuf \o <<w>>
        /\ finalizer' = [finalizer EXCEPT !["timeout"] =
                           IF @ = "none" THEN "armed" ELSE @]
  /\ UNCHANGED <<opener, asked, gaveUp, result, connection, transcript,
                 ended, chunked, told>>

(* An owner who has no use for the transcript closes the transcriber.      *)
Abort ==
  /\ Using
  /\ Close
  /\ finalizer' = [finalizer EXCEPT !["owner"] = "aborted"]
  /\ UNCHANGED <<ready, loop, reading, opener, said, pcmBuf, asked, gaveUp,
                 result, transcript, speechVars>>

Finalize ==
  /\ Using
  /\ finalizer' = [finalizer EXCEPT !["owner"] = "begun"]
  /\ UNCHANGED <<connection, opener, said, pcmBuf, asked, gaveUp, result,
                 transcript, speechVars>>

HardTimeout ==
  /\ finalizer["timeout"] = "armed"
  /\ finalizer' = [finalizer EXCEPT !["timeout"] =
                     IF done THEN "over" ELSE "begun"]
  /\ UNCHANGED <<connection, opener, said, pcmBuf, asked, gaveUp, result,
                 transcript, speechVars>>

(* The first Finalize writes what is left and asks for the end, both under *)
(* writeMu; a connection that is closed takes nothing.                     *)
FlushAndAsk(f) ==
  /\ finalizer[f] = "begun"
  /\ finalizer' = [finalizer EXCEPT ![f] = "waiting"]
  /\ asked' = TRUE
  /\ IF ~asked /\ conn = "open"
     THEN heard' = heard \o pcmBuf /\ pcmBuf' = <<>>
     ELSE UNCHANGED <<heard, pcmBuf>>
  /\ UNCHANGED <<connection, opener, said, gaveUp, result, transcript,
                 ended, chunked, told>>

\* Slip: the end is not waited for.
WaitForNothing(f) ==
  /\ finalizer[f] = "waiting"
  /\ finalizer' = [finalizer EXCEPT ![f] = "closing"]
  /\ UNCHANGED <<connection, opener, said, pcmBuf, asked, gaveUp, result,
                 transcript, speechVars>>

(* The done channel is closed, or five seconds have passed.                *)
WaitForEnd(f) ==
  /\ finalizer[f] = "waiting"
  /\ gaveUp' \in {gaveUp, TRUE} /\ (done \/ gaveUp')
  /\ finalizer' = [finalizer EXCEPT ![f] = "closing"]
  /\ UNCHANGED <<connection, opener, said, pcmBuf, asked, result,
                 transcript, speechVars>>

FinalizeCloses(f) ==
  /\ finalizer[f] = "closing"
  /\ Close
  /\ finalizer' = [finalizer EXCEPT ![f] = IF f = "owner" THEN "closed" ELSE "over"]
  /\ UNCHANGED <<ready, loop, reading, opener, said, pcmBuf, asked, gaveUp,
                 result, transcript, speechVars>>

Best == text \o utterance \o interim

TakeResult ==
  /\ finalizer["owner"] = "closed"
  /\ finalizer' = [finalizer EXCEPT !["owner"] = "over"]
  /\ result' = Best
  /\ UNCHANGED <<connection, opener, said, pcmBuf, asked, gaveUp, transcript,
                 speechVars>>

-----------------------------------------------------------------------------
(* The read loop                                                           *)

\* Slip: no read deadline: only a connection that is closed ends the loop.
ReadUntilClosed ==
  /\ loop = "reading" /\ conn = "closed"
  /\ loop' = "failed" /\ done' = TRUE
  /\ UNCHANGED <<conn, ready, reading, calls, transcript, speechVars>>

\* Slip: a loop that fails does not say that it has ended.
ReadFailsQuietly ==
  /\ loop = "reading"
  /\ loop' = "failed"
  /\ UNCHANGED <<conn, done, ready, reading, calls, transcript, speechVars>>

(* The connection is closed or broken, the service reports an error, the   *)
(* deadline passes, or the context is cancelled.                           *)
ReadFails ==
  /\ loop = "reading"
  /\ loop' = "failed" /\ done' = TRUE
  /\ UNCHANGED <<conn, ready, reading, calls, transcript, speechVars>>

Created(m) ==
  /\ m.kind = "created"
  /\ ready' = TRUE /\ loop' = "reading"
  /\ UNCHANGED <<done, transcript>>

EndsWith(s, t) ==
  Len(t) <= Len(s) /\ SubSeq(s, Len(s) - Len(t) + 1, Len(s)) = t

\* appendFinal: an addition the text ends with already is left out.
AppendFinal(addition) ==
  IF EndsWith(text, addition)
  THEN dropped' = (dropped \/ addition # <<>>) /\ UNCHANGED text
  ELSE text' = text \o addition /\ UNCHANGED dropped

\* Slip: a chunk that is final is taken for a part of the final text.
AbsorbIntoText(m) ==
  /\ m.kind \in {"interim", "chunk", "speech"}
  /\ \/ /\ m.kind = "speech"
        /\ AppendFinal(IF m.text = <<>> THEN utterance \o interim ELSE m.text)
        /\ utterance' = <<>> /\ interim' = <<>>
     \/ /\ m.kind = "chunk"
        /\ AppendFinal(m.text)
        /\ utterance' = <<>> /\ interim' = <<>>
     \/ /\ m.kind = "interim"
        /\ interim' = m.text
        /\ UNCHANGED <<text, utterance, dropped>>
  /\ loop' = "reading"
  /\ UNCHANGED <<done, ready>>

(* absorbPartial: the end of an utterance brings the whole of it, or else   *)
(* what was told of it before is taken; a chunk is kept for previews.      *)
AbsorbPartial(m) ==
  /\ m.kind \in {"interim", "chunk", "speech"}
  /\ \/ /\ m.kind = "speech"
        /\ AppendFinal(IF m.text = <<>> THEN utterance \o interim ELSE m.text)
        /\ utterance' = <<>> /\ interim' = <<>>
     \/ /\ m.kind = "chunk"
        /\ utterance' = utterance \o m.text /\ interim' = <<>>
        /\ UNCHANGED <<text, dropped>>
     \/ /\ m.kind = "interim"
        /\ interim' = m.text
        /\ UNCHANGED <<text, utterance, dropped>>
  /\ loop' = "reading"
  /\ UNCHANGED <<done, ready>>

(* transcript.done: the service's text replaces ours, or ours is folded.   *)
AbsorbDone(m) ==
  /\ m.kind = "done"
  /\ text' = IF m.text = <<>> THEN Best ELSE m.text
  /\ dropped' = (dropped /\ m.text = <<>>)
  /\ utterance' = <<>> /\ interim' = <<>>
  /\ loop' = "told" /\ done' = TRUE
  /\ UNCHANGED ready

Absorb ==
  /\ loop = "absorbing"
  /\ LET m == Head(reading) IN
       /\ Created(m) \/ AbsorbPartial(m) \/ AbsorbDone(m)
       /\ upto' = m.upto
  /\ reading' = <<>>
  /\ UNCHANGED <<conn, calls, speechVars>>

-----------------------------------------------------------------------------
(* The service, and the read loop that gets its message: what is new is     *)
(* told up to some word, and a text that is left out is one told before.   *)

Words(from, to) == SubSeq(heard, from + 1, to)

Tells(kind, words, to) ==
  /\ loop = "reading" /\ conn = "open"
  /\ loop' = "absorbing"
  /\ reading' = <<[kind |-> kind, text |-> words, upto |-> to]>>
  /\ told' = to
  /\ UNCHANGED <<conn, done, ready, calls, transcript, heard>>

\* Once, before anything else.
TellsCreated ==
  /\ ~ready
  /\ Tells("created", <<>>, 0) /\ UNCHANGED <<ended, chunked>>

TellsInterim(to) ==
  /\ told < to
  /\ Tells("interim", Words(chunked, to), to) /\ UNCHANGED <<ended, chunked>>

TellsChunk(to) ==
  /\ chunked < to
  /\ Tells("chunk", Words(chunked, to), to)
  /\ chunked' = to /\ UNCHANGED ended

TellsSpeech(to) ==
  /\ ended < to
  /\ \/ Tells("speech", Words(ended, to), to)
     \/ told = to /\ Tells("speech", <<>>, to)
  /\ chunked' = to /\ ended' = to

\* The last message, when the end was asked for.
TellsDone ==
  /\ asked
  /\ \/ Tells("done", heard, Len(heard))
     \/ told = Len(heard) /\ Tells("done", <<>>, told)
  /\ UNCHANGED <<ended, chunked>>

-----------------------------------------------------------------------------

TranscriberGoesOn ==
  \/ OpenReturns \/ OpenGivesUp \/ HardTimeout
  \/ \E f \in Finalizer : FlushAndAsk(f) \/ WaitForEnd(f) \/ FinalizeCloses(f)
  \/ TakeResult \/ ReadFails \/ Absorb

TranscriberNext ==
  \/ TranscriberGoesOn
  \/ Dial \/ Abort \/ Finalize \/ \E w \in Word : Send(w)
  \/ TellsCreated \/ TellsDone
  \/ \E to \in told .. Len(heard) :
       TellsInterim(to) \/ TellsChunk(to) \/ TellsSpeech(to)

-----------------------------------------------------------------------------
(* Properties                                                              *)

(* The transcript is what the messages absorbed so far tell, each word     *)
(* once: chunks are not counted twice when their utterance ends            *)
(* (Transcribe.go:510), unless an utterance was taken for a repetition.    *)
TranscriptTrue == ~dropped => Best = SubSeq(heard, 1, upto)

(* What the owner takes for the result of a Finalize is all that was said, *)
(* unless the wait was given up or the connection failed: the rest of the  *)
(* sound was flushed, and the last message has been absorbed before        *)
(* (Transcribe.go:301).                                                    *)
ResultIsWhole ==
  finalizer["owner"] = "over" /\ ~gaveUp /\ loop = "told" /\ ~dropped
    => result = said

(* An open that fails leaves no connection behind (Transcribe.go:161).     *)
FailedIsClosed == opener = "failed" => conn # "open"

(* The read loop does not read, and no Finalize waits, whatever the service *)
(* does and though nobody may ever close the transcriber: its deadline ends *)
(* it.                                                                     *)
TranscriberOver ==
  /\ loop # "reading"
  /\ \A f \in Finalizer : finalizer[f] \in {"none", "over", "aborted"}
=============================================================================
