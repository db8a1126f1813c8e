--------------------------- MODULE Streamer_proofs ---------------------------
(***************************************************************************)
(* What the goroutine of a playback keeps, for media of any length, a      *)
(* channel of any capacity and any number of pauses: frames in order,      *)
(* OnFinished only when all were heard, and the contract of                *)
(* PlaybackSession, step by step.                                          *)
(***************************************************************************)
EXTENDS Streamer, TLAPS, SequenceTheorems

\* How far the goroutine has read and sent where it is; the rest of a padded
\* medium is sent after the loop.
BeforeRest == {"opening", "looping", "reading", "cutting", "sending", "resting", "sendingRest"}

Progress ==
  /\ decoded <= Whole
  /\ pc \in BeforeRest => sent <= decoded
  /\ pc = "opening" => sent = 0 /\ decoded = 0
  /\ pc = "sending" => sent < decoded
  /\ pc = "sendingRest" => padded
  /\ pc \in {"closing", "draining", "finished"} => sent > 0

\* A streamer that nobody stops sends every frame that it has read before it goes
\* on, and the whole medium before it returns.
Complete ==
  ~stopped =>
    /\ pc \in {"looping", "reading"} => sent = decoded
    /\ pc \in {"resting", "sendingRest"} => sent = Whole
    /\ pc \in {"returning", "closing", "draining", "finished"} => sent = media

\* Stop marks the streamer first, then cancels and closes with the lock held; an
\* open channel is closed by a stopper or when the goroutine has sent everything.
StopOrder ==
  /\ \A k \in Stoppers : stop[k] \in {"locking", "closing"} => stopped
  /\ \A k \in Stoppers : lock = k <=> stop[k] = "closing"
  /\ ctx => stopped
  /\ \A k \in Stoppers : stop[k] = "closing" => ctx
  /\ closed => stopped \/ pc \in {"draining", "finished", "over"}
  /\ pc \in {"draining", "finished"} => closed
  /\ stop["self"] \notin {"idle", "playback"} => pstopped
  /\ pc = "finished" /\ ~stopped => chan = <<>>

IInv == TypeOK /\ FramesInOrder /\ Progress /\ Complete /\ StopOrder

-----------------------------------------------------------------------------
(* Sequences of frames                                                     *)

\* One more frame at the end of the channel is one more of all frames sent.
LEMMA OneMoreSent ==
  ASSUME NEW S, NEW h \in Seq(S), NEW c \in Seq(S), NEW e \in S
  PROVE  h \o Append(c, e) = Append(h \o c, e)
<1>1. <<e>> \in Seq(S) /\ h \o c \in Seq(S)
  BY ConcatProperties
<1>2. h \o Append(c, e) = h \o (c \o <<e>>)
  BY AppendIsConcat
<1>3. h \o (c \o <<e>>) = (h \o c) \o <<e>>
  BY <1>1, ConcatAssociative
<1>4. (h \o c) \o <<e>> = Append(h \o c, e)
  BY <1>1, AppendIsConcat
<1> QED
  BY <1>2, <1>3, <1>4

\* A frame that the mixer takes moves from the head of the channel to the end of
\* what it has heard.
LEMMA OneMoreHeard ==
  ASSUME NEW S, NEW h \in Seq(S), NEW c \in Seq(S), c # <<>>
  PROVE  /\ Append(h, Head(c)) \in Seq(S) /\ Tail(c) \in Seq(S)
         /\ Len(Tail(c)) = Len(c) - 1
         /\ Append(h, Head(c)) \o Tail(c) = h \o c
<1>1. Head(c) \in S /\ Tail(c) \in Seq(S) /\ Len(Tail(c)) = Len(c) - 1
      /\ <<Head(c)>> \in Seq(S)
  BY HeadTailProperties
<1>2. Append(h, Head(c)) \in Seq(S) /\ Append(h, Head(c)) = h \o <<Head(c)>>
  BY <1>1, AppendProperties, AppendIsConcat
<1>3. (h \o <<Head(c)>>) \o Tail(c) = h \o (<<Head(c)>> \o Tail(c))
  BY <1>1, ConcatAssociative
<1>4. <<Head(c)>> \o Tail(c) = c
  <2>1. /\ <<Head(c)>> \o Tail(c) \in Seq(S)
        /\ Len(<<Head(c)>> \o Tail(c)) = 1 + Len(Tail(c))
        /\ \A i \in 1 .. 1 + Len(Tail(c)) : (<<Head(c)>> \o Tail(c))[i] =
             IF i <= 1 THEN <<Head(c)>>[i] ELSE Tail(c)[i - 1]
    BY <1>1, ConcatProperties
  <2>2. Len(c) \in Nat /\ Len(c) > 0 /\ Head(c) = c[1]
        /\ \A i \in 1 .. Len(Tail(c)) : Tail(c)[i] = c[i + 1]
    BY HeadTailProperties, EmptySeq
  <2>3. \A i \in 1 .. Len(c) : (<<Head(c)>> \o Tail(c))[i] = c[i]
    BY <1>1, <2>1, <2>2
  <2> QED
    BY <1>1, <2>1, <2>2, <2>3, SeqEqual
<1> QED
  BY <1>1, <1>2, <1>3, <1>4

\* The next frame of the medium continues its opening.
LEMMA OpeningGrows ==
  ASSUME NEW n \in Nat
  PROVE  Append(Opening(n), n + 1) = Opening(n + 1)
<1>1. Opening(n) \in Seq(Nat) /\ Len(Opening(n)) = n
      /\ Opening(n + 1) \in Seq(Nat) /\ Len(Opening(n + 1)) = n + 1
  BY DEF Opening
<1>2. /\ Append(Opening(n), n + 1) \in Seq(Nat)
      /\ Len(Append(Opening(n), n + 1)) = n + 1
      /\ \A i \in 1 .. n : Append(Opening(n), n + 1)[i] = Opening(n)[i]
      /\ Append(Opening(n), n + 1)[n + 1] = n + 1
  BY <1>1, AppendProperties
<1>3. \A i \in 1 .. n + 1 : Append(Opening(n), n + 1)[i] = Opening(n + 1)[i]
  BY <1>2 DEF Opening
<1> QED
  BY <1>1, <1>2, <1>3, SeqEqual

\* The opening of a medium is made of its frames.
LEMMA HeardOpening ==
  ASSUME NEW n \in Nat
  PROVE  Opening(n) \in Seq(1 .. n) /\ Opening(0) = <<>> /\ Len(Opening(n)) = n
BY DEF Opening

-----------------------------------------------------------------------------
(* Initial states and steps                                                *)

\* A playback that has not begun satisfies the invariant.
LEMMA InitInv == Init => IInv
<1> SUFFICES ASSUME Init PROVE IInv
  OBVIOUS
<1> USE DEF Init
<1>1. TypeOK
  <2>1. chan \in Seq(1 .. media) /\ heard \in Seq(1 .. media) /\ Len(chan) <= Capacity
    BY CapacityAssumption
  <2>2. stop \in [Stoppers -> {"idle", "playback", "streamer", "locking", "closing", "done"}]
        /\ lock \in Stoppers \cup {"none"} /\ pc \in Pcs
    BY DEF Pcs
  <2>3. decoded \in 0 .. media /\ sent \in 0 .. media /\ pauses \in 0 .. MaxPauses
        /\ media \in 0 .. MaxFrames
    BY StreamerBoundsAssumption
  <2> QED
    BY <2>1, <2>2, <2>3 DEF TypeOK
<1>2. FramesInOrder
  BY HeardOpening, ConcatEmptySeq, EmptySeq DEF FramesInOrder
<1>3. Progress
  BY StreamerBoundsAssumption DEF Progress, BeforeRest, Whole
<1>4. Complete /\ StopOrder
  BY DEF Complete, StopOrder, Stoppers
<1> QED
  BY <1>1, <1>2, <1>3, <1>4 DEF IInv

\* A step of the goroutine that only decides where to go next.
LEMMA PcInv ==
  ASSUME IInv, OnlyPc,
         \/ Opened \/ OpenFails \/ Loops \/ ReadsEnd \/ ReadFails \/ Cuts \/ Rests
         \/ SendPanics("sending", "looping") \/ SendPanics("sendingRest", "returning")
         \/ ReturnsChecked \/ Failed \/ Drains \/ CallbackReturns
  PROVE  IInv'
<1> USE DEF Goes
<1>0. UNCHANGED <<media, padded, decoded, sent, chan, closed, stop, lock, pstopped, stopped,
                  ctx, finish, paused, pauses, heard, eof>>
  BY DEF OnlyPc, medium, stopping, mixer
<1>1. TypeOK /\ FramesInOrder /\ Progress /\ Complete /\ StopOrder
  BY DEF IInv
<1>2. media \in Nat /\ decoded \in Nat /\ sent \in Nat /\ Whole' = Whole /\ Whole \in Int
      /\ decoded <= Whole /\ (~padded => Whole = media) /\ (padded => Whole = media - 1)
  BY <1>0, <1>1, StreamerBoundsAssumption DEF TypeOK, Whole, Progress
<1>3. pc' \in Pcs
  BY DEF Opened, OpenFails, Loops, ReadsEnd, ReadFails, Cuts, Rests, SendPanics,
         ReturnsChecked, Failed, Drains, CallbackReturns, Pcs
<1>4. TypeOK' /\ FramesInOrder'
  BY <1>0, <1>1, <1>3 DEF TypeOK, FramesInOrder, Opening
<1>5. Progress'
  BY <1>0, <1>1, <1>2 DEF Progress, BeforeRest, Opened, OpenFails, Loops, ReadsEnd, ReadFails,
       Cuts, Rests, SendPanics, ReturnsChecked, Failed, Drains, CallbackReturns
<1>6. Complete'
  <2>1. (closed => stopped \/ pc \in {"draining", "finished", "over"}) /\ (ctx => stopped)
    BY <1>1 DEF StopOrder
  <2>2. CASE Opened \/ OpenFails
    <3>1. pc = "opening" /\ sent = 0 /\ decoded = 0 /\ pc' \in {"looping", "failing"}
      BY <1>1, <2>2 DEF Progress, Opened, OpenFails
    <3> QED
      BY <1>0, <3>1 DEF Complete
  <2>6. CASE Loops
    BY <1>0, <1>1, <2>6 DEF Complete, Loops
  <2>7. CASE ReadsEnd
    BY <1>0, <1>1, <1>2, <2>7 DEF Complete, ReadsEnd
  <2>3. CASE ReadFails \/ SendPanics("sending", "looping") \/ SendPanics("sendingRest", "returning")
    BY <1>0, <1>1, <2>1, <2>3 DEF Complete, ReadFails, SendPanics
  <2>4. CASE Cuts \/ Rests
    BY <1>0, <1>1, <1>2, <2>4 DEF Progress, BeforeRest, Complete, Cuts, Rests
  <2>5. CASE ReturnsChecked \/ Failed \/ Drains \/ CallbackReturns
    BY <1>0, <1>1, <2>5 DEF Complete, ReturnsChecked, Failed, Drains, CallbackReturns
  <2> QED
    BY <2>2, <2>3, <2>4, <2>5, <2>6, <2>7
<1>7. StopOrder'
  BY <1>0, <1>1 DEF StopOrder, Opened, OpenFails, Loops, ReadsEnd, ReadFails, Cuts, Rests,
       SendPanics, ReturnsChecked, Failed, Drains, CallbackReturns
<1> QED
  BY <1>4, <1>5, <1>6, <1>7 DEF IInv

\* A read of some frames.
LEMMA ReadsInv == IInv /\ Reads => IInv'
<1> SUFFICES ASSUME IInv, Reads PROVE IInv'
  OBVIOUS
<1>0. pc = "reading" /\ pc' = "cutting" /\ decoded' \in decoded + 1 .. Whole
      /\ UNCHANGED <<media, padded, sent, chan, closed, stop, lock, pstopped, stopped,
                     ctx, finish, paused, pauses, heard, eof>>
  BY DEF Reads, Goes, medium, stopping, mixer
<1>1. TypeOK /\ FramesInOrder /\ Progress /\ Complete /\ StopOrder
  BY DEF IInv
<1>2. media \in Nat /\ decoded \in Nat /\ sent \in Nat /\ Whole' = Whole /\ Whole \in Int
      /\ Whole <= media
  BY <1>0, <1>1, StreamerBoundsAssumption DEF TypeOK, Whole
<1>3. TypeOK' /\ FramesInOrder'
  BY <1>0, <1>1, <1>2 DEF TypeOK, FramesInOrder, Opening, Pcs
<1>4. Progress' /\ Complete' /\ StopOrder'
  BY <1>0, <1>1, <1>2 DEF Progress, BeforeRest, Complete, StopOrder
<1> QED
  BY <1>3, <1>4 DEF IInv

\* A frame that goes into the channel, in the loop or after it.
LEMMA SendsInv ==
  ASSUME IInv, NEW from, NEW to, Sends(from, to),
         \/ from = "sending" /\ to = "cutting"
         \/ from = "sendingRest" /\ to = "returning"
  PROVE  IInv'
<1>0. pc = from /\ pc' = to /\ ~closed /\ Len(chan) < Capacity
      /\ chan' = Append(chan, sent + 1) /\ sent' = sent + 1
      /\ UNCHANGED <<media, padded, decoded, closed, stop, lock, pstopped, stopped,
                     ctx, finish, paused, pauses, heard, eof>>
  BY DEF Sends, Goes, medium, stopping, mixer
<1>1. TypeOK /\ FramesInOrder /\ Progress /\ Complete /\ StopOrder
  BY DEF IInv
<1>2. media \in Nat /\ decoded \in Nat /\ sent \in Nat /\ Whole' = Whole /\ Whole \in Int
      /\ decoded <= Whole /\ (~padded => Whole = media) /\ (padded => Whole = media - 1)
  BY <1>0, <1>1, StreamerBoundsAssumption DEF TypeOK, Whole, Progress
<1>3. sent + 1 \in 1 .. media
  BY <1>0, <1>1, <1>2 DEF Progress, BeforeRest
<1>4. chan \in Seq(1 .. media) /\ heard \in Seq(1 .. media) /\ Len(chan) \in Nat
  BY <1>1 DEF TypeOK
<1>5. chan' \in Seq(1 .. media) /\ Len(chan') = Len(chan) + 1
  BY <1>0, <1>3, <1>4, AppendProperties
<1>6. TypeOK'
  <2>1. Len(chan') <= Capacity
    BY <1>0, <1>4, <1>5, CapacityAssumption
  <2>2. sent' \in 0 .. media
    BY <1>0, <1>2, <1>3
  <2> QED
    BY <1>0, <1>1, <1>5, <2>1, <2>2 DEF TypeOK, Pcs
<1>7. FramesInOrder'
  <2>1. heard' \o chan' = Append(heard \o chan, sent + 1)
    BY <1>0, <1>3, <1>4, OneMoreSent
  <2>2. heard \o chan = Opening(sent)
    BY <1>1 DEF FramesInOrder
  <2>3. Append(Opening(sent), sent + 1) = Opening(sent + 1)
    BY <1>2, OpeningGrows
  <2>4. Opening(sent') = Opening(sent + 1)
    BY <1>0
  <2> QED
    BY <2>1, <2>2, <2>3, <2>4 DEF FramesInOrder, Opening
<1>8. Progress'
  BY <1>0, <1>1, <1>2 DEF Progress, BeforeRest
<1>9. Complete'
  BY <1>0, <1>1, <1>2 DEF Progress, BeforeRest, Complete
<1>10. StopOrder'
  BY <1>0, <1>1 DEF StopOrder
<1> QED
  BY <1>6, <1>7, <1>8, <1>9, <1>10 DEF IInv

\* Closing the channel, which comes when everything was sent.
LEMMA ClosesChannelInv == IInv /\ ClosesChannel => IInv'
<1> SUFFICES ASSUME IInv, ClosesChannel PROVE IInv'
  OBVIOUS
<1>0. pc = "closing" /\ pc' = "draining" /\ closed' = TRUE /\ finish' = ~pstopped
      /\ UNCHANGED <<media, padded, decoded, sent, chan, stop, lock, pstopped, stopped,
                     ctx, paused, pauses, heard, eof>>
  BY DEF ClosesChannel, Goes, medium, stopping, mixer
<1>1. TypeOK /\ FramesInOrder /\ Progress /\ Complete /\ StopOrder
  BY DEF IInv
<1>2. TypeOK' /\ FramesInOrder'
  BY <1>0, <1>1 DEF TypeOK, FramesInOrder, Opening, Pcs
<1>3. Progress' /\ Complete' /\ StopOrder'
  BY <1>0, <1>1 DEF Progress, BeforeRest, Complete, StopOrder, Whole
<1> QED
  BY <1>2, <1>3 DEF IInv

\* What the stoppers do, the goroutine among them, leaves the frames alone.
LEMMA StopsInv ==
  ASSUME IInv, StopsItself \/ GuildStops \/ MixerCloses \/ \E k \in Stoppers : Stopping(k)
  PROVE  IInv'
<1>0. UNCHANGED <<media, padded, pc, decoded, sent, chan, finish, paused, pauses, heard, eof>>
  BY DEF StopsItself, GuildStops, MixerCloses, Stopping, MarksPlayback, MarksStreamer, Cancels,
         Closes, NotTheStream, medium, mixer
<1>1. TypeOK /\ FramesInOrder /\ Progress /\ Complete /\ StopOrder
  BY DEF IInv
<1>2. /\ stop' \in [Stoppers -> {"idle", "playback", "streamer", "locking", "closing", "done"}]
      /\ lock' \in Stoppers \cup {"none"}
      /\ closed' \in BOOLEAN /\ pstopped' \in BOOLEAN /\ stopped' \in BOOLEAN /\ ctx' \in BOOLEAN
  <2>0. /\ stop \in [Stoppers -> {"idle", "playback", "streamer", "locking", "closing", "done"}]
        /\ lock \in Stoppers \cup {"none"}
        /\ closed \in BOOLEAN /\ pstopped \in BOOLEAN /\ stopped \in BOOLEAN /\ ctx \in BOOLEAN
    BY <1>1 DEF TypeOK
  <2>1. CASE StopsItself \/ GuildStops \/ MixerCloses
    BY <2>0, <2>1 DEF StopsItself, GuildStops, MixerCloses, Comes, Stoppers
  <2>2. ASSUME NEW k \in Stoppers, MarksPlayback(k) \/ MarksStreamer(k) \/ Cancels(k) \/ Closes(k)
        PROVE  /\ \E p \in {"streamer", "locking", "closing", "done"} : Comes(k, p)
               /\ lock' \in {lock, k, "none"} /\ closed' \in {closed, TRUE}
               /\ pstopped' \in {pstopped, TRUE} /\ stopped' \in {stopped, TRUE}
               /\ ctx' \in {ctx, TRUE}
    BY <2>2 DEF MarksPlayback, MarksStreamer, Cancels, Closes, Comes
  <2>3. CASE \E k \in Stoppers : Stopping(k)
    BY <2>0, <2>2, <2>3 DEF Stopping, Comes
  <2> QED
    BY <2>1, <2>3
<1>3. TypeOK' /\ FramesInOrder' /\ Progress'
  BY <1>0, <1>1, <1>2 DEF TypeOK, FramesInOrder, Progress, Opening, Whole
<1>4. stopped => stopped'
  BY DEF StopsItself, GuildStops, MixerCloses, Stopping, MarksPlayback, MarksStreamer, Cancels,
         Closes
<1>5. Complete'
  BY <1>0, <1>1, <1>4 DEF Complete, Whole
<1>6. StopOrder'
  BY <1>0, <1>1, <1>4 DEF TypeOK, StopOrder, StopsItself, GuildStops, MixerCloses, Stopping,
       MarksPlayback, MarksStreamer, Cancels, Closes, Comes, Stoppers
<1> QED
  BY <1>3, <1>5, <1>6 DEF IInv

\* The mixer takes a frame or the end; pausing only keeps it from that.
LEMMA MixerInv ==
  ASSUME IInv, Pulls \/ Pause \/ Resume
  PROVE  IInv'
<1>0. UNCHANGED <<media, padded, pc, decoded, sent, closed, stop, lock, pstopped, stopped, ctx,
                  finish>>
  BY DEF Pulls, Pause, Resume, NotTheGoroutine, medium, stopping
<1>1. TypeOK /\ FramesInOrder /\ Progress /\ Complete /\ StopOrder
  BY DEF IInv
<1>2. chan \in Seq(1 .. media) /\ heard \in Seq(1 .. media) /\ Len(chan) \in Nat
      /\ Len(chan) <= Capacity
  BY <1>1 DEF TypeOK
<1>3. paused' \in BOOLEAN /\ eof' \in BOOLEAN /\ pauses' \in 0 .. MaxPauses
  <2>1. paused \in BOOLEAN /\ eof \in BOOLEAN /\ pauses \in 0 .. MaxPauses
    BY <1>1 DEF TypeOK
  <2>2. CASE Pulls
    <3>1. paused' = paused /\ pauses' = pauses /\ (eof' = eof \/ eof' = TRUE)
      BY <2>2 DEF Pulls, Takes, TakesEnd, NotTheGoroutine
    <3> QED
      BY <2>1, <3>1
  <2>3. CASE Pause \/ Resume
    <3>1. (paused' = TRUE \/ paused' = FALSE) /\ eof' = eof
          /\ (pauses' = pauses \/ (pauses < MaxPauses /\ pauses' = pauses + 1))
      BY <2>3 DEF Pause, Resume
    <3>2. pauses' \in 0 .. MaxPauses
      BY <2>1, <3>1, StreamerBoundsAssumption
    <3> QED
      BY <2>1, <3>1, <3>2
  <2> QED
    BY <2>2, <2>3
<1>4. \/ UNCHANGED <<heard, chan>>
      \/ chan # <<>> /\ heard' = Append(heard, Head(chan)) /\ chan' = Tail(chan)
  BY DEF Pulls, Takes, TakesEnd, Pause, Resume
<1>5. /\ heard' \in Seq(1 .. media) /\ chan' \in Seq(1 .. media) /\ Len(chan') <= Capacity
      /\ heard' \o chan' = heard \o chan
      /\ chan = <<>> => chan' = <<>>
  <2>1. CASE UNCHANGED <<heard, chan>>
    BY <1>2, <2>1
  <2>2. CASE chan # <<>> /\ heard' = Append(heard, Head(chan)) /\ chan' = Tail(chan)
    <3>1. heard' \in Seq(1 .. media) /\ chan' \in Seq(1 .. media) /\ Len(chan') = Len(chan) - 1
          /\ heard' \o chan' = heard \o chan
      <4>1. /\ Append(heard, Head(chan)) \in Seq(1 .. media) /\ Tail(chan) \in Seq(1 .. media)
            /\ Len(Tail(chan)) = Len(chan) - 1
            /\ Append(heard, Head(chan)) \o Tail(chan) = heard \o chan
        BY <1>2, <2>2, OneMoreHeard
      <4> QED
        BY <2>2, <4>1
    <3> QED
      BY <1>2, <2>2, <3>1, CapacityAssumption
  <2> QED
    BY <1>4, <2>1, <2>2
<1>6. TypeOK' /\ FramesInOrder'
  BY <1>0, <1>1, <1>3, <1>5 DEF TypeOK, FramesInOrder, Opening
<1>7. Progress' /\ Complete' /\ StopOrder'
  BY <1>0, <1>1, <1>5 DEF Progress, Complete, StopOrder, Whole
<1> QED
  BY <1>6, <1>7 DEF IInv

\* Every step of a playback keeps the invariant.
LEMMA StepInv == IInv /\ [Next]_vars => IInv'
<1> SUFFICES ASSUME IInv, [Next]_vars PROVE IInv'
  OBVIOUS
<1>1. CASE UNCHANGED vars
  BY <1>1 DEF IInv, TypeOK, FramesInOrder, Opening, Progress, Complete, StopOrder, Whole, vars,
              medium, stopping, mixer
<1>2. CASE Goroutine
  <2>1. CASE Reads
    BY <2>1, ReadsInv
  <2>2. CASE Sends("sending", "cutting")
    BY <2>2, SendsInv
  <2>3. CASE Sends("sendingRest", "returning")
    BY <2>3, SendsInv
  <2>4. CASE ClosesChannel
    BY <2>4, ClosesChannelInv
  <2>5. CASE StopsItself
    BY <2>5, StopsInv
  <2>6. CASE \/ Opened \/ OpenFails \/ Loops \/ ReadsEnd \/ ReadFails \/ Cuts \/ Rests
             \/ SendPanics("sending", "looping") \/ SendPanics("sendingRest", "returning")
             \/ ReturnsChecked \/ Failed \/ Drains \/ CallbackReturns
    <3>1. OnlyPc
      BY <2>6 DEF Opened, OpenFails, Loops, ReadsEnd, ReadFails, Cuts, Rests, SendPanics,
                  ReturnsChecked, Failed, Drains, CallbackReturns
    <3> QED
      BY <2>6, <3>1, PcInv
  <2> QED
    BY <1>2, <2>1, <2>2, <2>3, <2>4, <2>5, <2>6 DEF Goroutine, Sending
<1>3. CASE GuildStops \/ MixerCloses \/ \E k \in Stoppers : Stopping(k)
  BY <1>3, StopsInv
<1>4. CASE Pulls \/ Pause \/ Resume
  BY <1>4, MixerInv
<1> QED
  BY <1>1, <1>2, <1>3, <1>4 DEF Next

\* The invariant holds in every state of every playback.
LEMMA Invariant == Spec => []IInv
BY InitInv, StepInv, PTL DEF Spec

-----------------------------------------------------------------------------
(* The theorems                                                            *)

\* Every variable of a playback keeps its type: in particular neither does the
\* channel get more than it holds nor the counter of frames past the medium.
THEOREM TypeCorrect == Spec => []TypeOK
<1>1. IInv => TypeOK
  BY DEF IInv
<1> QED
  BY <1>1, Invariant, PTL

\* What was heard and what waits in the channel are the frames sent, in order,
\* whoever pauses, stops, closes or drains in between (PCMFrameChan, SafeSend).
THEOREM InOrder == Spec => []FramesInOrder
<1>1. IInv => FramesInOrder
  BY DEF IInv
<1> QED
  BY <1>1, Invariant, PTL

\* OnFinished of a playback that nobody stopped comes after the whole medium was
\* heard (Streamer.go:618).
THEOREM HeardToTheEnd == Spec => []FinishedMeansHeard
<1>1. IInv => FinishedMeansHeard
  <2> SUFFICES ASSUME IInv, pc = "finished", ~stopped PROVE heard = Opening(media)
    BY DEF FinishedMeansHeard
  <2>1. chan = <<>> /\ sent = media /\ heard \in Seq(1 .. media) /\ heard \o chan = Opening(sent)
    BY DEF IInv, TypeOK, FramesInOrder, Complete, StopOrder
  <2> QED
    BY <2>1, ConcatEmptySeq
<1> QED
  BY <1>1, Invariant, PTL

-----------------------------------------------------------------------------
(* The contract                                                            *)

\* A playback begins as the contract says.
LEMMA InitRefines == Init => Contract!Init
BY DEF Init, Contract!Init, Phase

\* Each step of the goroutine, of a stopper or of the mixer is one that the contract
\* allows, or none.
LEMMA StepRefines ==
  ASSUME IInv, [Next]_vars
  PROVE  [Contract!Next]_(Contract!session)
<1> USE DEF Contract!Next, Contract!Stop, Contract!FirstFrame, Contract!Fail, Contract!End,
            Contract!Drain, Contract!Return, Contract!session
<1>1. ASSUME pc' = pc, sent' = sent, finish' = finish,
             pstopped' \in {pstopped, TRUE}, ctx' \in {ctx, TRUE}
      PROVE  Contract!Stop
  BY <1>1 DEF Phase
<1>2. ASSUME Phase' = Phase, UNCHANGED <<pstopped, ctx, finish>>
      PROVE  UNCHANGED Contract!session
  BY <1>2
<1>3. CASE UNCHANGED vars
  BY <1>1, <1>3 DEF vars, stopping
<1>4. CASE GuildStops \/ MixerCloses \/ StopsItself \/ Pulls \/ Pause \/ Resume
  <2>1. UNCHANGED <<pc, sent, finish, pstopped, ctx>>
    BY <1>4 DEF GuildStops, MixerCloses, StopsItself, Pulls, Pause, Resume, NotTheStream,
                NotTheGoroutine, stopping
  <2> QED
    BY <1>1, <2>1
<1>5. CASE \E k \in Stoppers : Stopping(k)
  <2>1. UNCHANGED <<pc, sent, finish>> /\ pstopped' \in {pstopped, TRUE} /\ ctx' \in {ctx, TRUE}
    BY <1>5 DEF Stopping, MarksPlayback, MarksStreamer, Cancels, Closes, NotTheStream
  <2> QED
    BY <1>1, <2>1
<1>6. CASE \/ Opened \/ OpenFails \/ Loops \/ Reads \/ ReadsEnd \/ ReadFails \/ Cuts \/ Rests
           \/ SendPanics("sending", "looping") \/ SendPanics("sendingRest", "returning")
           \/ ReturnsChecked
  <2>1. UNCHANGED <<sent, finish, pstopped, ctx>>
    BY <1>6 DEF Opened, OpenFails, Loops, Reads, ReadsEnd, ReadFails, Cuts, Rests, SendPanics,
                ReturnsChecked, OnlyPc, stopping
  <2>2. {pc, pc'} \subseteq {"opening", "looping", "reading", "cutting", "sending", "resting",
                             "sendingRest", "returning", "failing", "closing"}
    BY <1>6 DEF Opened, OpenFails, Loops, Reads, ReadsEnd, ReadFails, Cuts, Rests, SendPanics,
                ReturnsChecked, Goes
  <2>3. Phase' = Phase
    BY <2>1, <2>2 DEF Phase
  <2> QED
    BY <1>2, <2>1, <2>3
<1>7. CASE Sends("sending", "cutting") \/ Sends("sendingRest", "returning")
  <2>1. UNCHANGED <<finish, pstopped, ctx>> /\ sent' = sent + 1 /\ sent \in Nat
        /\ pc \in {"sending", "sendingRest"} /\ pc' \in {"cutting", "returning"}
    BY <1>7, StreamerBoundsAssumption DEF Sends, Goes, stopping, IInv, TypeOK
  <2>2. Phase' = "streaming" /\ Phase \in {"opening", "streaming"}
    BY <2>1 DEF Phase
  <2> QED
    BY <1>2, <2>1, <2>2
<1>8. CASE Failed
  <2>1. pc = "failing" /\ pc' = "failed" /\ pstopped /\ UNCHANGED <<finish, pstopped, ctx>>
    BY <1>8 DEF Failed, Goes, OnlyPc, stopping, IInv, StopOrder
  <2>2. Phase \in {"opening", "streaming"} /\ Phase' = "failing"
    BY <2>1 DEF Phase
  <2>3. pstopped' = TRUE
    BY <2>1 DEF IInv, TypeOK
  <2> QED
    BY <2>1, <2>2, <2>3
<1>9. CASE ClosesChannel
  <2>1. pc = "closing" /\ pc' = "draining" /\ sent > 0 /\ sent \in Nat /\ finish' = ~pstopped
        /\ UNCHANGED <<pstopped, ctx>>
    BY <1>9, StreamerBoundsAssumption
       DEF ClosesChannel, Goes, stopping, IInv, TypeOK, Progress
  <2>2. Phase = "streaming" /\ Phase' = "draining"
    BY <2>1 DEF Phase
  <2> QED
    BY <2>1, <2>2
<1>10. CASE Drains
  <2>1. pc = "draining" /\ pc' = (IF finish THEN "finished" ELSE "over")
        /\ UNCHANGED <<pstopped, ctx, finish>>
    BY <1>10 DEF Drains, Goes, OnlyPc, stopping
  <2>2. Phase = "draining" /\ Phase' = (IF finish THEN "ended" ELSE "over")
    BY <2>1 DEF Phase
  <2> QED
    BY <2>1, <2>2
<1>11. CASE CallbackReturns
  <2>1. pc \in {"finished", "failed"} /\ pc' = "over" /\ UNCHANGED <<pstopped, ctx, finish>>
    BY <1>11 DEF CallbackReturns, Goes, OnlyPc, stopping
  <2>2. Phase \in {"ended", "failing"} /\ Phase' = "over"
    BY <2>1 DEF Phase
  <2> QED
    BY <2>1, <2>2
<1> QED
  BY <1>3, <1>4, <1>5, <1>6, <1>7, <1>8, <1>9, <1>10, <1>11 DEF Next, Goroutine, Sending

\* The code keeps the promise the guild relies on: every behaviour of the streamer is
\* one of PlaybackSession (Streamer.go:560, the goroutine of PlayMP4).
THEOREM ImplementsContract == Spec => KeepsContract
<1>1. IInv /\ [Next]_vars => [Contract!Next]_(Contract!session)
  BY StepRefines
<1> QED
  BY <1>1, InitRefines, Invariant, PTL DEF Spec, KeepsContract, Contract!Spec
=============================================================================
