------------------------------- MODULE Mixer --------------------------------
(* The mixer of a guild (Audio/Mixer.go): every 20 ms the voice connection *)
(* asks it for a frame, which it makes from the music, read at the speed   *)
(* of the effects, and from an overlay, a cue before a spoken response.    *)
(*                                                                         *)
(* The samples of a source are numbered from 0, so that the residual is an *)
(* interval; a position is counted in parts of a sample, Parts to each,    *)
(* where the code has a float.  The state under mu is changed in one step; *)
(* an overlay is set under cueMu and its flag after that.  What samples    *)
(* sound like, volume and effects but speed are left out; ducking is in    *)
(* CaptureDuck, and where a source comes from in Streamer.                 *)
EXTENDS Integers, FiniteSets, FiniteSetsExt

CONSTANTS
  Source,      \* sources, one for each playback
  NoSource,
  FrameSize,   \* samples in a frame, 960 in the code
  Parts,
  Speed,       \* speeds, in Parts for one sample to the next
  Player,      \* goroutines that play an overlay
  OverlayLen,  \* lengths of overlays in frames
  MaxFrames,   \* bound: frames of music a source has
  MaxOverlays  \* bound: overlays

ASSUME MixerAssumption ==
  /\ NoSource \notin Source
  /\ FrameSize \in Nat \ {0} /\ Parts \in Nat \ {0}
  /\ Speed \subseteq Nat \ {0} /\ OverlayLen \subseteq Nat \ {0}
  /\ MaxFrames \in Nat /\ MaxOverlays \in Nat

Channel == {"cue", "tts"}

VARIABLES
  source,      \* MixerProvider.source
  used,        \* sources that have been set before
  residual,    \* the samples kept: from lo up to hi, exclusively, of a source
  pos,         \* where in the residual the next sample is read, in Parts
  srcEOF,      \* the source has said that it ended
  speed,       \* EffectsProcessor.SpeedRatio
  travelled,   \* how far the source has been played, by the speeds alone
  last,        \* what the last frame had of music, if any was made since
  overlay,     \* of cue and tts: cueFrames, cuePos and overlayActive
  players,     \* the goroutines in PlayCue and PlayTTSOverlay
  closing,     \* how far Close has come
  overlays     \* overlays so far (bound)

music    == <<source, used, residual, pos, srcEOF, speed, travelled, last>>
overlaid == <<overlay, players, overlays>>
mixerVars == <<music, overlaid, closing>>

NoOverlay == [len |-> 0, at |-> 0, active |-> FALSE]
Empty(s)  == [of |-> s, lo |-> 0, hi |-> 0]

NoFrame   == [music |-> FALSE, padded |-> FALSE, starved |-> TRUE, ended |-> FALSE]

MixerTypeOK ==
  /\ source \in Source \cup {NoSource} /\ used \subseteq Source
  /\ residual.lo \in Nat /\ residual.hi \in Nat /\ residual.lo <= residual.hi
  /\ pos \in Nat /\ srcEOF \in BOOLEAN /\ speed \in Speed /\ travelled \in Nat
  /\ last \in [music : BOOLEAN, padded : BOOLEAN, starved : BOOLEAN, ended : BOOLEAN]
  /\ overlay \in [Channel -> [len : {0} \cup OverlayLen, at : Nat, active : BOOLEAN]]
  /\ \A ch \in Channel : overlay[ch].at <= overlay[ch].len
  /\ players \in [Player -> {"idle", "cue", "tts"}]
  /\ closing \in {"open", "silencing", "clearing", "closed"}
  /\ overlays \in 0 .. MaxOverlays

MixerInit ==
  /\ source = NoSource /\ used = {} /\ residual = Empty(NoSource)
  /\ pos = 0 /\ srcEOF = FALSE /\ speed \in Speed /\ travelled = 0
  /\ last = NoFrame
  /\ overlay = [ch \in Channel |-> NoOverlay]
  /\ players = [p \in Player |-> "idle"]
  /\ closing = "open" /\ overlays = 0

-----------------------------------------------------------------------------
\* Slip: what was kept of the old source stays.
SetSourceOnly(s) ==
  /\ source' = s /\ used' = used \cup ({s} \cap Source)
  /\ pos' = 0 /\ srcEOF' = FALSE /\ travelled' = residual.lo * Parts
  /\ last' = NoFrame
  /\ UNCHANGED <<residual, speed, overlaid, closing>>

\* A playback begins, or is taken away.  A source is not used again.
SetSource(s) ==
  /\ source' = s /\ used' = used \cup ({s} \cap Source)
  /\ residual' = Empty(s)
  /\ pos' = 0 /\ srcEOF' = FALSE /\ travelled' = 0
  /\ last' = NoFrame
  /\ UNCHANGED <<speed, overlaid, closing>>

ChangeSource ==
  \E s \in (Source \ used) \cup {NoSource} : s # source /\ SetSource(s)

\* EffectsProcessor.SetSpeed, by a command.
ChangeSpeed ==
  /\ speed' \in Speed \ {speed}
  /\ last' = NoFrame
  /\ UNCHANGED <<source, used, residual, pos, srcEOF, travelled, overlaid, closing>>

-----------------------------------------------------------------------------
(* ProvideOpusFrame *)

\* Slip: the sample after the last one is not asked for.
NeedOneLess == (pos + (FrameSize - 1) * speed) \div Parts + 1

\* How many samples a frame is made of: up to the one after the last position.
Need == (pos + (FrameSize - 1) * speed) \div Parts + 2

\* refillLocked: as many frames as are missing, unless the source has no more
\* ready (nil, or an error) or has ended.  What it gives is all or less.
Refills ==
  LET had  == residual.hi - residual.lo
      asks == IF source = NoSource \/ had >= Need THEN 0
              ELSE (Need - had + FrameSize - 1) \div FrameSize
      left == IF srcEOF THEN 0 ELSE MaxFrames - residual.hi \div FrameSize
  IN  {[hi |-> residual.hi + n * FrameSize, eof |-> srcEOF \/ (ends /\ n < asks),
        starved |-> n < asks] : n \in 0 .. Min({asks, left}), ends \in BOOLEAN}

\* Slip: what is left of the position after a whole sample is dropped.
ReadMusicWhole(hi, eof) ==
  LET inFrames == hi - residual.lo
      after    == pos + FrameSize * speed
      consumed == Min({after \div Parts, inFrames})
  IN  [music  |-> inFrames >= 2 /\ (inFrames >= Need \/ eof),
       padded |-> \E o \in 0 .. FrameSize - 1 : (pos + o * speed) \div Parts + 1 >= inFrames,
       lo     |-> residual.lo + consumed,
       pos    |-> 0]

\* readMusicFrameLocked: linear interpolation between a sample and the next,
\* zeros from where there is no next one; then the samples passed are dropped.
ReadMusic(hi, eof) ==
  LET inFrames == hi - residual.lo
      after    == pos + FrameSize * speed
      consumed == Min({after \div Parts, inFrames})
  IN  [music  |-> inFrames >= 2 /\ (inFrames >= Need \/ eof),
       padded |-> \E o \in 0 .. FrameSize - 1 : (pos + o * speed) \div Parts + 1 >= inFrames,
       lo     |-> residual.lo + consumed,
       pos    |-> after - consumed * Parts]

\* Slip: whether frames are left is not looked at.
SoundsByFlag(ch) == overlay[ch].active

Sounds(ch) == overlay[ch].active /\ overlay[ch].at < overlay[ch].len

\* Slip: while the flag of the cue is up the response is not looked at.
NextOverlayFrameByFlag ==
  LET Take(ch) == [overlay EXCEPT ![ch].at = @ + 1,
                                  ![ch].active = overlay[ch].at + 1 < overlay[ch].len]
  IN  overlay' = IF Sounds("cue") THEN Take("cue")
                 ELSE IF ~ overlay["cue"].active /\ Sounds("tts") THEN Take("tts")
                 ELSE overlay

\* nextOverlayFrame, under cueMu: the cue first, then the response.
NextOverlayFrame ==
  LET Take(ch) == [overlay EXCEPT ![ch].at = @ + 1,
                                  ![ch].active = overlay[ch].at + 1 < overlay[ch].len]
  IN  overlay' = IF Sounds("cue") THEN Take("cue")
                 ELSE IF Sounds("tts") THEN Take("tts")
                 ELSE overlay

ProvideOpusFrame ==
  \E refill \in Refills :
    LET frame == ReadMusic(refill.hi, refill.eof)
    IN  /\ srcEOF' = refill.eof
        /\ IF frame.music
             THEN /\ residual' = [residual EXCEPT !.hi = refill.hi, !.lo = frame.lo]
                  /\ pos' = frame.pos
                  /\ travelled' = travelled + FrameSize * speed
             ELSE /\ residual' = [residual EXCEPT !.hi = refill.hi]
                  /\ UNCHANGED <<pos, travelled>>
        /\ last' = [music |-> frame.music, padded |-> frame.music /\ frame.padded,
                    starved |-> refill.starved \/ source = NoSource,
                    ended |-> refill.eof]
        /\ NextOverlayFrame
        /\ UNCHANGED <<source, used, speed, players, overlays, closing>>

-----------------------------------------------------------------------------
(* PlayCue and PlayTTSOverlay *)

\* Slip: the flag is set before the frames are.
PlayOverlayFlagFirst(p, ch) ==
  /\ \/ /\ players[p] = "idle" /\ overlays < MaxOverlays
        /\ overlays' = overlays + 1
        /\ overlay' = [overlay EXCEPT ![ch].active = TRUE]
        /\ players' = [players EXCEPT ![p] = ch]
     \/ /\ players[p] = ch
        /\ \E n \in OverlayLen : overlay' = [overlay EXCEPT ![ch].len = n, ![ch].at = 0]
        /\ players' = [players EXCEPT ![p] = "idle"]
        /\ UNCHANGED overlays
  /\ UNCHANGED <<music, closing>>

\* The frames, under cueMu, which replace those of an overlay that sounds; and
\* then the flag.
PlayOverlay(p, ch) ==
  /\ \/ /\ players[p] = "idle" /\ overlays < MaxOverlays
        /\ overlays' = overlays + 1
        /\ \E n \in OverlayLen : overlay' = [overlay EXCEPT ![ch].len = n, ![ch].at = 0]
        /\ players' = [players EXCEPT ![p] = ch]
     \/ /\ players[p] = ch
        /\ overlay' = [overlay EXCEPT ![ch].active = TRUE]
        /\ players' = [players EXCEPT ![p] = "idle"]
        /\ UNCHANGED overlays
  /\ UNCHANGED <<music, closing>>

-----------------------------------------------------------------------------
(* Close: the flags, the frames under cueMu, the source under mu. *)

SilenceOverlays ==
  /\ closing = "open" /\ closing' = "silencing"
  /\ overlay' = [ch \in Channel |-> [overlay[ch] EXCEPT !.active = FALSE]]
  /\ UNCHANGED <<music, players, overlays>>

DropOverlays ==
  /\ closing = "silencing" /\ closing' = "clearing"
  /\ overlay' = [ch \in Channel |-> [overlay[ch] EXCEPT !.len = 0, !.at = 0]]
  /\ UNCHANGED <<music, players, overlays>>

DropSource ==
  /\ closing = "clearing" /\ closing' = "closed"
  /\ source' = NoSource /\ residual' = Empty(NoSource)
  /\ UNCHANGED <<used, pos, srcEOF, speed, travelled, last, overlaid>>

MixerNext ==
  \/ ChangeSource \/ ChangeSpeed \/ ProvideOpusFrame
  \/ SilenceOverlays \/ DropOverlays \/ DropSource
  \/ \E p \in Player, ch \in Channel : PlayOverlay(p, ch)

MixerSpec == MixerInit /\ [][MixerNext]_mixerVars

\* A goroutine that has begun to set an overlay or to close the mixer goes on,
\* and the voice connection asks for a frame every 20 ms.
OverlayGoesOn ==
  \/ DropOverlays \/ DropSource
  \/ \E p \in Player : players[p] # "idle" /\ PlayOverlay(p, players[p])

MixerFairSpec ==
  MixerSpec /\ WF_mixerVars(OverlayGoesOn) /\ WF_mixerVars(ProvideOpusFrame)

-----------------------------------------------------------------------------
(* Properties *)

\* What is kept when a source is taken away is not heard under the next one.
NoOldSound == residual.lo < residual.hi => residual.of = source

\* The place in the source is the one the speeds lead to, at any change of
\* speed: no sample is played twice or left out at the edges of frames, and
\* nothing of a part of a sample is lost.
PositionExact ==
  source # NoSource => residual.lo * Parts + pos = travelled

\* A frame of music is filled up with zeros only when its source has ended, and
\* it is missing only when the source could not give what it was asked for.
GapsOnlyWhenStarved ==
  /\ last.padded => last.ended
  /\ ~ last.music => last.starved

\* An overlay that has frames left is played, whatever goroutine replaced it,
\* unless it is just being set or the mixer is just being closed.
OverlayNeverStuck ==
  \A ch \in Channel :
    overlay[ch].at < overlay[ch].len =>
      overlay[ch].active \/ closing = "silencing" \/ \E p \in Player : players[p] = ch

\* Every cue and every response has come to its end.
OverlaysOver == \A ch \in Channel : overlay[ch].at = overlay[ch].len
=============================================================================
