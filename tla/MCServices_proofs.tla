------------------------- MODULE MCServices_proofs --------------------------
(***************************************************************************)
(* What the services of MCServices promise, proved for every value of the  *)
(* constants.  Records_proofs has the invariants of six of them; here are those *)
(* of the mixer, of the voice receivers, of the transcriber, of the sound of a *)
(* capture and of the gateway, and then the theorems about Spec, in which every *)
(* behaviour is one of one part.                                           *)
(***************************************************************************)
EXTENDS MCServices, Records_proofs

-----------------------------------------------------------------------------
(* The mixer *)

Residual == [of : Source \cup {NoSource}, lo : Nat, hi : Nat]
Sounding == [len : {0} \cup OverlayLen, at : Nat, active : BOOLEAN]
Heard    == [music : BOOLEAN, padded : BOOLEAN, starved : BOOLEAN, ended : BOOLEAN]

\* The music: what is kept is always of the source that is set, and the place in it is exact.
MusicInv ==
  /\ source \in Source \cup {NoSource} /\ used \subseteq Source
  /\ residual \in Residual /\ residual.lo <= residual.hi /\ residual.of = source
  /\ pos \in Nat /\ srcEOF \in BOOLEAN /\ speed \in Speed /\ travelled \in Nat
  /\ last \in Heard
  /\ PositionExact /\ GapsOnlyWhenStarved

\* The overlays, of which the music knows nothing.
OverlayInv ==
  /\ overlay \in [Channel -> Sounding] /\ \A ch \in Channel : overlay[ch].at <= overlay[ch].len
  /\ players \in [Player -> {"idle", "cue", "tts"}]
  /\ closing \in {"open", "silencing", "clearing", "closed"} /\ overlays \in 0 .. MaxOverlays
  /\ OverlayNeverStuck

MixerInv == MusicInv /\ OverlayInv

\* Division, of which the prover knows what it is.
LEMMA Divided ==
  ASSUME NEW a \in Int, NEW b \in Nat \ {0}
  PROVE  /\ a \div b \in Int /\ (a \div b) * b <= a /\ a < (a \div b) * b + b
         /\ a >= 0 => a \div b \in Nat
OBVIOUS

\* A greater number is not less often divided.
LEMMA DividedMore ==
  ASSUME NEW a \in Int, NEW c \in Int, NEW b \in Nat \ {0}, a <= c
  PROVE  a \div b <= c \div b
BY Divided

\* The lesser of two numbers.
LEMMA LesserOfTwo ==
  ASSUME NEW a \in Int, NEW b \in Int
  PROVE  Min({a, b}) = IF a <= b THEN a ELSE b
<1> DEFINE m == IF a <= b THEN a ELSE b
<1>1. m \in {a, b} /\ \A y \in {a, b} : m <= y
  OBVIOUS
<1>2. \A x \in {a, b} : (\A y \in {a, b} : x <= y) => x = m
  OBVIOUS
<1> HIDE DEF m
<1>3. Min({a, b}) = m
  BY <1>1, <1>2 DEF Min
<1> QED
  BY <1>3 DEF m

\* A frame needs a sample after the last position in it.
LEMMA NeedFacts ==
  ASSUME MusicInv
  PROVE  /\ Need \in Nat /\ Need >= 2
         /\ \A o \in 0 .. FrameSize - 1 :
              (pos + o * speed) \div Parts \in Nat /\ (pos + o * speed) \div Parts + 2 <= Need
<1>1. pos \in Nat /\ speed \in Nat /\ Parts \in Nat \ {0} /\ FrameSize \in Nat \ {0}
  BY MixerAssumption DEF MusicInv, Residual
<1>2. ASSUME NEW o \in 0 .. FrameSize - 1
      PROVE  /\ (pos + o * speed) \div Parts \in Nat
             /\ (pos + o * speed) \div Parts <= (pos + (FrameSize - 1) * speed) \div Parts
  <2>1. o * speed \in Nat /\ (FrameSize - 1) * speed \in Nat /\ o * speed <= (FrameSize - 1) * speed
    BY <1>1
  <2> QED
    BY <1>1, <2>1, Divided, DividedMore
<1>3. (pos + (FrameSize - 1) * speed) \div Parts \in Nat
  BY <1>1, <1>2
<1> QED
  BY <1>2, <1>3 DEF Need

\* What a refill leads to: no sample goes, and if the source gave all it was asked for there
\* is enough for a frame.
LEMMA RefillFacts ==
  ASSUME MusicInv, NEW refill \in Refills
  PROVE  /\ refill.hi \in Nat /\ refill.hi >= residual.hi
         /\ refill.eof \in BOOLEAN /\ refill.starved \in BOOLEAN
         /\ source # NoSource /\ ~ refill.starved => refill.hi - residual.lo >= Need
<1> DEFINE had  == residual.hi - residual.lo
           asks == IF source = NoSource \/ had >= Need THEN 0
                   ELSE (Need - had + FrameSize - 1) \div FrameSize
           left == IF srcEOF THEN 0 ELSE MaxFrames - residual.hi \div FrameSize
<1>1. /\ residual.lo \in Nat /\ residual.hi \in Nat /\ had \in Nat /\ srcEOF \in BOOLEAN
      /\ FrameSize \in Nat \ {0} /\ MaxFrames \in Nat
  BY MixerAssumption DEF MusicInv, Residual
<1>2. Need \in Nat
  BY NeedFacts
<1>3. PICK n \in 0 .. Min({asks, left}), ends \in BOOLEAN :
        refill = [hi |-> residual.hi + n * FrameSize, eof |-> srcEOF \/ (ends /\ n < asks),
                  starved |-> n < asks]
  BY DEF Refills
<1>4. /\ asks \in Int
      /\ source # NoSource /\ had < Need => had + asks * FrameSize >= Need
      /\ source # NoSource /\ had >= Need => asks = 0
  <2>1. CASE source = NoSource \/ had >= Need
    BY <1>1, <1>2, <2>1
  <2>2. CASE source # NoSource /\ had < Need
    <3> DEFINE d == Need - had
               a == (d + FrameSize - 1) \div FrameSize
    <3>1. asks = a
      BY <1>1, <1>2, <2>2
    <3>2. d \in Nat
      BY <1>1, <1>2, <2>2
    <3>3. a \in Int /\ d + FrameSize - 1 < a * FrameSize + FrameSize
      BY <1>1, <3>2, Divided
    <3> HIDE DEF a
    <3>4. a * FrameSize \in Int
      BY <1>1, <3>3
    <3>5. d <= a * FrameSize
      BY <1>1, <3>2, <3>3, <3>4
    <3>6. had + a * FrameSize >= Need
      BY <1>1, <1>2, <3>4, <3>5
    <3> QED
      BY <2>2, <1>1, <1>2, <3>1, <3>3, <3>6
  <2> QED
    BY <2>1, <2>2, <1>1, <1>2
<1>5. left \in Int
  BY <1>1, Divided
<1> HIDE DEF asks, left, had
<1>6. n \in Nat /\ n <= asks
  BY <1>3, <1>4, <1>5, LesserOfTwo
<1>7. n * FrameSize \in Nat
  BY <1>1, <1>6
<1>8. refill.hi \in Nat /\ refill.hi >= residual.hi /\ refill.eof \in BOOLEAN /\ refill.starved \in BOOLEAN
  BY <1>1, <1>3, <1>7
<1>9. ASSUME source # NoSource, ~ refill.starved
      PROVE  refill.hi - residual.lo >= Need
  <2>1. n = asks
    <3>1. refill.starved = (n < asks)
      BY <1>3
    <3>2. ~ (n < asks)
      BY <1>9, <3>1, Zenon
    <3>3. asks \in Int
      BY <1>4
    <3> QED
      BY <1>6, <3>2, <3>3
  <2>2. had + n * FrameSize >= Need
    <3>1. CASE had >= Need
      BY <1>1, <1>2, <1>7, <3>1
    <3>2. CASE ~ (had >= Need)
      BY <1>1, <1>2, <1>4, <1>9, <2>1, <3>2
    <3> QED
      BY <3>1, <3>2
  <2>3. refill.hi = residual.hi + n * FrameSize
    BY <1>3
  <2> QED
    BY <1>1, <1>2, <1>7, <2>2, <2>3 DEF had
<1> QED
  BY <1>8, <1>9

\* What a frame leaves of the samples: it drops none that were not read, and the place in the
\* source goes on by the speed of each sample.
LEMMA FrameFacts ==
  ASSUME MusicInv, NEW hi \in Nat, hi >= residual.hi, NEW eof \in BOOLEAN,
         NEW frame, frame = ReadMusic(hi, eof)
  PROVE  /\ frame.lo \in Nat /\ frame.lo <= hi /\ frame.pos \in Nat
         /\ frame.music \in BOOLEAN /\ frame.padded \in BOOLEAN
         /\ frame.lo * Parts + frame.pos = residual.lo * Parts + pos + FrameSize * speed
         /\ hi - residual.lo >= Need => frame.music
         /\ frame.music /\ frame.padded => eof
<1> DEFINE inFrames == hi - residual.lo
           after    == pos + FrameSize * speed
           whole    == after \div Parts
           consumed == Min({whole, inFrames})
           pads     == \E o \in 0 .. FrameSize - 1 : (pos + o * speed) \div Parts + 1 >= inFrames
<1>1. /\ residual.lo \in Nat /\ residual.hi \in Nat /\ residual.lo <= residual.hi
      /\ pos \in Nat /\ speed \in Nat /\ Parts \in Nat \ {0} /\ FrameSize \in Nat \ {0}
  BY MixerAssumption DEF MusicInv, Residual
<1>2. inFrames \in Nat
  BY <1>1
<1>3. after \in Nat
  BY <1>1
<1>4. whole \in Nat /\ whole * Parts <= after
  <2> HIDE DEF after
  <2> QED
    BY <1>1, <1>3, Divided
<1>5. frame = [music  |-> inFrames >= 2 /\ (inFrames >= Need \/ eof), padded |-> pads,
               lo |-> residual.lo + consumed, pos |-> after - consumed * Parts]
  BY Zenon DEF ReadMusic
<1> HIDE DEF whole
<1>6. consumed \in Nat /\ consumed <= whole /\ consumed <= inFrames
  BY <1>2, <1>4, LesserOfTwo
<1> HIDE DEF consumed
<1>7. consumed * Parts \in Nat /\ consumed * Parts <= after
  <2>1. /\ consumed * Parts \in Nat /\ whole * Parts \in Nat
        /\ consumed * Parts <= whole * Parts
    BY <1>1, <1>4, <1>6
  <2> HIDE DEF after
  <2> QED
    BY <1>3, <1>4, <2>1
<1>8. /\ frame.lo = residual.lo + consumed /\ frame.pos = after - consumed * Parts
      /\ frame.music = (inFrames >= 2 /\ (inFrames >= Need \/ eof)) /\ frame.padded = pads
  BY <1>5
<1>9. frame.lo \in Nat /\ frame.lo <= hi
  BY <1>1, <1>2, <1>6, <1>8
<1>10. frame.pos \in Nat
  <2> HIDE DEF after
  <2> QED
    BY <1>3, <1>7, <1>8
<1>11. frame.lo * Parts + frame.pos = residual.lo * Parts + after
  <2>1. (residual.lo + consumed) * Parts = residual.lo * Parts + consumed * Parts
    BY <1>1, <1>6
  <2>2. residual.lo * Parts \in Nat
    BY <1>1
  <2> HIDE DEF after
  <2> QED
    BY <1>3, <1>7, <1>8, <2>1, <2>2
<1>12. inFrames >= Need => frame.music
  <2>1. inFrames >= Need => inFrames >= 2
    BY <1>2, NeedFacts
  <2> QED
    BY <1>8, <2>1
<1>13. ASSUME frame.music, frame.padded
       PROVE  eof
  <2> SUFFICES ASSUME inFrames >= Need PROVE FALSE
    BY <1>8, <1>13
  <2>1. PICK o \in 0 .. FrameSize - 1 : (pos + o * speed) \div Parts + 1 >= inFrames
    BY <1>8, <1>13
  <2>2. (pos + o * speed) \div Parts \in Nat /\ (pos + o * speed) \div Parts + 2 <= Need /\ Need \in Nat
    BY NeedFacts
  <2> HIDE DEF inFrames
  <2> QED
    BY <1>2, <2>1, <2>2
<1>14. frame.music \in BOOLEAN /\ frame.padded \in BOOLEAN
  BY <1>8
<1>15. residual.lo * Parts + after = residual.lo * Parts + pos + FrameSize * speed
  <2>1. residual.lo * Parts \in Nat /\ FrameSize * speed \in Nat
    BY <1>1
  <2> QED
    BY <1>1, <2>1
<1> HIDE DEF after
<1> QED
  BY <1>9, <1>10, <1>11, <1>12, <1>13, <1>14, <1>15

\* At first there is no source, and no overlay.
LEMMA MixerInitially == ASSUME MixerInit PROVE MixerInv
<1>1. residual \in Residual /\ residual = [of |-> NoSource, lo |-> 0, hi |-> 0]
  BY DEF MixerInit, Empty, Residual
<1>2. last \in Heard /\ last = NoFrame /\ GapsOnlyWhenStarved
  BY DEF MixerInit, NoFrame, Heard, GapsOnlyWhenStarved
<1>3. MusicInv
  <2>1. residual.lo = 0 /\ residual.hi = 0 /\ residual.of = NoSource
    BY <1>1
  <2>2. /\ source = NoSource /\ used = {} /\ pos = 0 /\ srcEOF \in BOOLEAN /\ speed \in Speed
        /\ travelled = 0
    BY DEF MixerInit
  <2>3. PositionExact
    BY <2>2 DEF PositionExact
  <2> QED
    BY <1>1, <1>2, <2>1, <2>2, <2>3 DEF MusicInv
<1>4. overlay \in [Channel -> Sounding] /\ \A ch \in Channel : overlay[ch].at = 0 /\ overlay[ch].len = 0
  BY DEF MixerInit, NoOverlay, Sounding
<1>5. OverlayInv
  BY <1>4, MixerAssumption DEF MixerInit, OverlayInv, OverlayNeverStuck
<1> QED
  BY <1>3, <1>5 DEF MixerInv

\* Another source is set, at its beginning; or another speed, which leaves the place where it
\* is; or the source is taken away when the mixer is closed.
LEMMA SettingKeepsMusic ==
  ASSUME MusicInv, ChangeSource \/ ChangeSpeed \/ DropSource
  PROVE  MusicInv'
<1>0. Parts \in Nat
  BY MixerAssumption
<1>1. CASE ChangeSource
  <2>1. PICK s \in (Source \ used) \cup {NoSource} : SetSource(s)
    BY <1>1 DEF ChangeSource
  <2>2. /\ source' = s /\ used' \subseteq Source /\ residual' = [of |-> s, lo |-> 0, hi |-> 0]
        /\ pos' = 0 /\ srcEOF' = FALSE /\ travelled' = 0 /\ speed' = speed
        /\ last' = NoFrame
    BY <2>1 DEF SetSource, Empty, MusicInv
  <2>3. residual' \in Residual /\ residual'.lo = 0 /\ residual'.hi = 0 /\ residual'.of = s
    BY <2>2 DEF Residual
  <2>4. last' \in Heard /\ GapsOnlyWhenStarved'
    BY <2>2 DEF NoFrame, Heard, GapsOnlyWhenStarved
  <2>5. PositionExact'
    BY <1>0, <2>2, <2>3 DEF PositionExact
  <2>6. speed' \in Speed /\ source' \in Source \cup {NoSource} /\ srcEOF' \in BOOLEAN
    BY <2>2 DEF MusicInv
  <2>7. /\ source' = s /\ used' \subseteq Source /\ pos' \in Nat /\ travelled' \in Nat
        /\ residual'.lo <= residual'.hi
    BY <2>2, <2>3
  <2> QED
    BY <2>3, <2>4, <2>5, <2>6, <2>7 DEF MusicInv
<1>2. CASE ChangeSpeed
  <2>1. /\ speed' \in Speed /\ last' = NoFrame
        /\ source' = source /\ used' = used /\ residual' = residual /\ pos' = pos
        /\ srcEOF' = srcEOF /\ travelled' = travelled
    BY <1>2 DEF ChangeSpeed
  <2>2. last' \in Heard /\ GapsOnlyWhenStarved'
    BY <2>1 DEF NoFrame, Heard, GapsOnlyWhenStarved
  <2> QED
    BY <2>1, <2>2 DEF MusicInv, PositionExact
<1>3. CASE DropSource
  <2>1. /\ source' = NoSource /\ residual' = [of |-> NoSource, lo |-> 0, hi |-> 0]
        /\ used' = used /\ pos' = pos /\ srcEOF' = srcEOF /\ speed' = speed
        /\ travelled' = travelled /\ last' = last
    BY <1>3 DEF DropSource, Empty
  <2>2. residual' \in Residual /\ residual'.lo = 0 /\ residual'.hi = 0 /\ residual'.of = NoSource
    BY <2>1 DEF Residual
  <2> QED
    BY <2>1, <2>2 DEF MusicInv, PositionExact, GapsOnlyWhenStarved
<1> QED
  BY <1>1, <1>2, <1>3

\* A frame is made, of what there is after a refill.
LEMMA FrameKeepsMusic ==
  ASSUME MusicInv, ProvideOpusFrame
  PROVE  MusicInv'
<1>1. PICK refill \in Refills :
        LET frame == ReadMusic(refill.hi, refill.eof)
        IN  /\ srcEOF' = refill.eof
            /\ IF frame.music
                 THEN /\ residual' = [residual EXCEPT !.hi = refill.hi, !.lo = frame.lo]
                      /\ pos' = frame.pos
                      /\ travelled' = travelled + FrameSize * speed
                 ELSE /\ residual' = [residual EXCEPT !.hi = refill.hi]
                      /\ UNCHANGED <<pos, travelled>>
            /\ last' = [music |-> frame.music, padded |-> frame.music /\ frame.padded,
                        starved |-> refill.starved \/ source = NoSource,
                        ended |-> refill.eof]
  BY DEF ProvideOpusFrame
<1> DEFINE frame == ReadMusic(refill.hi, refill.eof)
<1>2. source' = source /\ used' = used /\ speed' = speed
  BY DEF ProvideOpusFrame
<1>3. /\ residual \in Residual /\ residual.lo \in Nat /\ residual.hi \in Nat /\ residual.lo <= residual.hi
      /\ Parts \in Nat /\ FrameSize * speed \in Nat /\ pos \in Nat /\ travelled \in Nat
  BY MixerAssumption DEF MusicInv, Residual
<1>4. /\ refill.hi \in Nat /\ refill.hi >= residual.hi /\ refill.eof \in BOOLEAN
      /\ refill.starved \in BOOLEAN
      /\ source # NoSource /\ ~ refill.starved => refill.hi - residual.lo >= Need
  BY RefillFacts
<1>5. /\ frame.lo \in Nat /\ frame.lo <= refill.hi /\ frame.pos \in Nat
      /\ frame.music \in BOOLEAN /\ frame.padded \in BOOLEAN
      /\ frame.lo * Parts + frame.pos = residual.lo * Parts + pos + FrameSize * speed
      /\ refill.hi - residual.lo >= Need => frame.music
      /\ frame.music /\ frame.padded => refill.eof
  <2>1. frame = ReadMusic(refill.hi, refill.eof)
    OBVIOUS
  <2> HIDE DEF frame
  <2> QED
    BY <1>4, <2>1, FrameFacts
<1>6. /\ srcEOF' = refill.eof
      /\ frame.music => /\ residual' = [residual EXCEPT !.hi = refill.hi, !.lo = frame.lo]
                        /\ pos' = frame.pos /\ travelled' = travelled + FrameSize * speed
      /\ ~ frame.music => /\ residual' = [residual EXCEPT !.hi = refill.hi]
                          /\ pos' = pos /\ travelled' = travelled
      /\ last' = [music |-> frame.music, padded |-> frame.music /\ frame.padded,
                  starved |-> refill.starved \/ source = NoSource, ended |-> refill.eof]
  BY <1>1
<1> HIDE DEF frame
<1>7. last' \in Heard /\ GapsOnlyWhenStarved'
  <2>1. last' \in Heard
    BY <1>4, <1>5, <1>6 DEF Heard
  <2>2. /\ last'.padded = (frame.music /\ frame.padded) /\ last'.ended = refill.eof
        /\ last'.music = frame.music /\ last'.starved = (refill.starved \/ source = NoSource)
    BY <1>6
  <2>3. last'.padded => last'.ended
    BY <1>5, <2>2, Zenon
  <2>4. ~ last'.music => last'.starved
    BY <1>4, <1>5, <2>2, Zenon
  <2> QED
    BY <2>1, <2>3, <2>4 DEF GapsOnlyWhenStarved
<1>8. CASE frame.music
  <2>1. residual' = [residual EXCEPT !.hi = refill.hi, !.lo = frame.lo]
    BY <1>6, <1>8
  <2>2. /\ residual' \in Residual /\ residual'.lo = frame.lo /\ residual'.hi = refill.hi
        /\ residual'.of = residual.of
    BY <1>3, <1>4, <1>5, <2>1 DEF Residual
  <2>3. pos' = frame.pos /\ travelled' = travelled + FrameSize * speed
    BY <1>6, <1>8
  <2>4. source # NoSource => frame.lo * Parts + frame.pos = travelled + FrameSize * speed
    <3>1. residual.lo * Parts \in Nat
      BY <1>3
    <3>2. source # NoSource => residual.lo * Parts + pos = travelled
      BY DEF MusicInv, PositionExact
    <3> QED
      BY <1>3, <1>5, <3>1, <3>2
  <2>5. PositionExact'
    BY <1>2, <2>2, <2>3, <2>4 DEF PositionExact
  <2> QED
    BY <1>2, <1>3, <1>4, <1>5, <1>6, <1>7, <2>2, <2>3, <2>5 DEF MusicInv
<1>9. CASE ~ frame.music
  <2>1. residual' = [residual EXCEPT !.hi = refill.hi] /\ pos' = pos /\ travelled' = travelled
    BY <1>6, <1>9
  <2>2. /\ residual' \in Residual /\ residual'.lo = residual.lo /\ residual'.hi = refill.hi
        /\ residual'.of = residual.of
    BY <1>3, <1>4, <2>1 DEF Residual
  <2>3. PositionExact'
    BY <1>2, <2>1, <2>2 DEF MusicInv, PositionExact
  <2>4. residual'.lo <= residual'.hi
    BY <1>3, <1>4, <2>2
  <2> QED
    BY <1>2, <1>4, <1>6, <1>7, <2>1, <2>2, <2>3, <2>4 DEF MusicInv
<1> QED
  BY <1>5, <1>8, <1>9

\* An overlay that has the type, goes no further than its end, and does not get stuck.
OverlayGood(o, ch) ==
  /\ o \in Sounding /\ o.at <= o.len
  /\ o.at < o.len => o.active \/ closing = "silencing" \/ \E p \in Player : players[p] = ch

\* The invariant of the overlays, for each channel.
LEMMA OverlayInvIs ==
  OverlayInv <=>
    /\ overlay \in [Channel -> Sounding] /\ \A ch \in Channel : OverlayGood(overlay[ch], ch)
    /\ players \in [Player -> {"idle", "cue", "tts"}]
    /\ closing \in {"open", "silencing", "clearing", "closed"} /\ overlays \in 0 .. MaxOverlays
BY DEF OverlayInv, OverlayGood, OverlayNeverStuck

\* The length of an overlay, or of none.
LEMMA LengthsAreNumbers == \A n \in {0} \cup OverlayLen : n \in Nat /\ 0 <= n
BY MixerAssumption

\* A frame of an overlay is taken.
LEMMA FrameKeepsOverlays ==
  ASSUME OverlayInv, NextOverlayFrame, UNCHANGED <<players, overlays, closing>>
  PROVE  OverlayInv'
<1>1. /\ overlay \in [Channel -> Sounding]
      /\ \A ch \in Channel : OverlayGood(overlay[ch], ch)
  BY OverlayInvIs
<1>2. ASSUME NEW ch \in Channel, Sounds(ch), NEW more \in BOOLEAN,
             overlay[ch].at + 1 < overlay[ch].len => more,
             overlay' = [overlay EXCEPT ![ch].at = @ + 1, ![ch].active = more]
      PROVE  OverlayInv'
  <2> DEFINE new == [overlay[ch] EXCEPT !.at = overlay[ch].at + 1, !.active = more]
  <2>1. overlay[ch] \in Sounding /\ overlay[ch].at \in Nat /\ overlay[ch].at < overlay[ch].len
    BY <1>1, <1>2 DEF Sounding, Sounds
  <2>2. overlay[ch].len \in Nat
    <3>1. overlay[ch].len \in {0} \cup OverlayLen
      BY <2>1 DEF Sounding
    <3> QED
      BY <3>1, LengthsAreNumbers
  <2>3. overlay' = [overlay EXCEPT ![ch] = new]
    BY <1>1, <1>2 DEF Sounding
  <2>4. /\ new \in Sounding /\ new.at = overlay[ch].at + 1 /\ new.len = overlay[ch].len
        /\ new.active = more
    <3>1. overlay[ch].at + 1 \in Nat /\ overlay[ch] \in Sounding /\ more \in BOOLEAN
      BY <1>2, <2>1
    <3>2. new \in Sounding
      BY <3>1 DEF Sounding
    <3>3. new.at = overlay[ch].at + 1
      BY <3>1 DEF Sounding
    <3>4. new.len = overlay[ch].len
      BY <3>1 DEF Sounding
    <3>5. new.active = more
      BY <3>1 DEF Sounding
    <3> QED
      BY <3>2, <3>3, <3>4, <3>5
  <2> HIDE DEF new
  <2>5. new.at <= new.len
    BY <2>1, <2>2, <2>4
  <2>6. new.at < new.len => new.active
    BY <1>2, <2>4
  <2>7. overlay' \in [Channel -> Sounding] /\ overlay'[ch] = new
        /\ \A c \in Channel : c # ch => overlay'[c] = overlay[c]
    BY <1>1, <2>3, <2>4
  <2>8. \A c \in Channel : overlay'[c].at <= overlay'[c].len
    BY <2>5, <2>7 DEF OverlayInv
  <2>9. OverlayNeverStuck'
    BY <2>6, <2>7 DEF OverlayInv, OverlayNeverStuck
  <2> QED
    BY <2>7, <2>8, <2>9 DEF OverlayInv
<1>3. CASE overlay' = overlay
  BY <1>3 DEF OverlayInv, OverlayNeverStuck
<1>4. ASSUME NEW ch \in Channel, Sounds(ch),
             overlay' = [overlay EXCEPT ![ch].at = @ + 1,
                                        ![ch].active = overlay[ch].at + 1 < overlay[ch].len]
      PROVE  OverlayInv'
  <2>1. (overlay[ch].at + 1 < overlay[ch].len) \in BOOLEAN
    OBVIOUS
  <2> QED
    BY <1>2, <1>4, <2>1
<1> QED
  BY <1>3, <1>4 DEF NextOverlayFrame, Channel

\* Overlays are set, silenced and dropped.
LEMMA SettingKeepsOverlays ==
  ASSUME OverlayInv,
         \/ SilenceOverlays \/ DropOverlays \/ DropSource
         \/ \E p \in Player, ch \in Channel : PlayOverlay(p, ch)
  PROVE  OverlayInv'
<1>1. /\ overlay \in [Channel -> Sounding] /\ \A ch \in Channel : overlay[ch].at <= overlay[ch].len
      /\ players \in [Player -> {"idle", "cue", "tts"}]
      /\ overlays \in 0 .. MaxOverlays
  BY DEF OverlayInv
<1>2. CASE SilenceOverlays
  <2>1. /\ closing' = "silencing" /\ players' = players /\ overlays' = overlays
        /\ overlay' = [ch \in Channel |-> [overlay[ch] EXCEPT !.active = FALSE]]
    BY <1>2 DEF SilenceOverlays
  <2>2. \A ch \in Channel : /\ overlay'[ch] \in Sounding /\ overlay'[ch].at = overlay[ch].at
                            /\ overlay'[ch].len = overlay[ch].len
    BY <1>1, <2>1 DEF Sounding
  <2>3. overlay' \in [Channel -> Sounding]
    BY <2>1, <2>2
  <2> QED
    BY <1>1, <2>1, <2>2, <2>3 DEF OverlayInv, OverlayNeverStuck
<1>3. CASE DropOverlays
  <2>1. /\ closing' = "clearing" /\ players' = players /\ overlays' = overlays
        /\ overlay' = [ch \in Channel |-> [overlay[ch] EXCEPT !.len = 0, !.at = 0]]
    BY <1>3 DEF DropOverlays
  <2>2. \A ch \in Channel : /\ overlay'[ch] \in Sounding /\ overlay'[ch].at = 0
                            /\ overlay'[ch].len = 0
    BY <1>1, <2>1 DEF Sounding
  <2>3. overlay' \in [Channel -> Sounding]
    BY <2>1, <2>2
  <2>4. \A ch \in Channel : overlay'[ch].at <= overlay'[ch].len /\ ~ (overlay'[ch].at < overlay'[ch].len)
    BY <2>2
  <2>5. OverlayNeverStuck'
    BY <2>4 DEF OverlayNeverStuck
  <2> QED
    BY <1>1, <2>1, <2>3, <2>4, <2>5 DEF OverlayInv
<1>4. CASE DropSource
  <2>1. /\ closing = "clearing" /\ closing' = "closed"
        /\ overlay' = overlay /\ players' = players /\ overlays' = overlays
    BY <1>4 DEF DropSource, overlaid
  <2> QED
    BY <1>1, <2>1 DEF OverlayInv, OverlayNeverStuck
<1>5. ASSUME NEW p \in Player, NEW ch \in Channel, PlayOverlay(p, ch)
      PROVE  OverlayInv'
  <2>1. closing' = closing /\ closing \in {"open", "silencing", "clearing", "closed"}
    BY <1>5 DEF PlayOverlay, OverlayInv
  <2>2. ASSUME NEW new \in Sounding, new.at <= new.len, overlay' = [overlay EXCEPT ![ch] = new],
               new.active \/ players'[p] = ch, players' \in [Player -> {"idle", "cue", "tts"}],
               \A q \in Player : q # p => players'[q] = players[q],
               players[p] = "idle" \/ players[p] = ch, overlays' \in 0 .. MaxOverlays
        PROVE  OverlayInv'
    <3>1. /\ overlay' \in [Channel -> Sounding] /\ overlay'[ch] = new
          /\ \A c \in Channel : c # ch => overlay'[c] = overlay[c]
      BY <1>1, <2>2
    <3>2. OverlayNeverStuck'
      <4> SUFFICES ASSUME NEW c \in Channel, overlay'[c].at < overlay'[c].len,
                          ~ overlay'[c].active, closing' # "silencing"
                   PROVE  \E q \in Player : players'[q] = c
        BY DEF OverlayNeverStuck
      <4>1. CASE c = ch
        BY <2>2, <3>1, <4>1
      <4>2. CASE c # ch
        <5>1. PICK q \in Player : players[q] = c
          BY <2>1, <3>1, <4>2 DEF OverlayInv, OverlayNeverStuck
        <5>2. q # p
          BY <2>2, <4>2, <5>1 DEF Channel
        <5> QED
          BY <2>2, <5>1, <5>2
      <4> QED
        BY <4>1, <4>2
    <3>3. \A c \in Channel : overlay'[c].at <= overlay'[c].len
      BY <1>1, <2>2, <3>1
    <3> QED
      BY <2>1, <2>2, <3>1, <3>2, <3>3 DEF OverlayInv
  <2>3. overlay[ch] \in Sounding
    BY <1>1
  <2>4. ASSUME players[p] = "idle", overlays < MaxOverlays, overlays' = overlays + 1,
               NEW n \in OverlayLen, overlay' = [overlay EXCEPT ![ch].len = n, ![ch].at = 0],
               players' = [players EXCEPT ![p] = ch]
        PROVE  OverlayInv'
    <3> DEFINE new == [overlay[ch] EXCEPT !.len = n, !.at = 0]
    <3>1. new \in Sounding /\ new.at = 0 /\ new.len = n
      BY <2>3 DEF Sounding
    <3>2. overlay' = [overlay EXCEPT ![ch] = new]
      BY <1>1, <2>4 DEF Sounding
    <3> HIDE DEF new
    <3>3. new.at <= new.len
      BY <3>1, MixerAssumption
    <3>4. /\ players' \in [Player -> {"idle", "cue", "tts"}] /\ players'[p] = ch
          /\ \A q \in Player : q # p => players'[q] = players[q]
      BY <1>1, <2>4 DEF Channel
    <3>5. overlays' \in 0 .. MaxOverlays
      BY <1>1, <2>4, MixerAssumption
    <3> QED
      BY <2>2, <2>4, <3>1, <3>2, <3>3, <3>4, <3>5
  <2>5. ASSUME players[p] = ch, overlay' = [overlay EXCEPT ![ch].active = TRUE],
               players' = [players EXCEPT ![p] = "idle"], overlays' = overlays
        PROVE  OverlayInv'
    <3> DEFINE new == [overlay[ch] EXCEPT !.active = TRUE]
    <3>1. new \in Sounding /\ new.at = overlay[ch].at /\ new.len = overlay[ch].len /\ new.active
      BY <2>3 DEF Sounding
    <3>2. overlay' = [overlay EXCEPT ![ch] = new]
      BY <1>1, <2>5 DEF Sounding
    <3> HIDE DEF new
    <3>3. new.at <= new.len
      BY <1>1, <3>1
    <3>4. /\ players' \in [Player -> {"idle", "cue", "tts"}]
          /\ \A q \in Player : q # p => players'[q] = players[q]
      BY <1>1, <2>5
    <3>5. overlays' \in 0 .. MaxOverlays
      BY <1>1, <2>5
    <3> QED
      BY <2>2, <2>5, <3>1, <3>2, <3>3, <3>4, <3>5
  <2> QED
    BY <1>5, <2>4, <2>5 DEF PlayOverlay
<1> QED
  BY <1>2, <1>3, <1>4, <1>5

\* Every step of the mixer, and those that leave its music or its overlays aside.
LEMMA MixerStep ==
  ASSUME MixerInv, [MixerNext]_mixerVars
  PROVE  MixerInv'
<1>1. CASE UNCHANGED mixerVars
  <2>1. /\ source' = source /\ used' = used /\ residual' = residual /\ pos' = pos
        /\ srcEOF' = srcEOF /\ speed' = speed /\ travelled' = travelled /\ last' = last
        /\ overlay' = overlay /\ players' = players /\ overlays' = overlays /\ closing' = closing
    BY <1>1 DEF mixerVars, music, overlaid
  <2> QED
    BY <2>1 DEF MixerInv, MusicInv, OverlayInv, PositionExact, GapsOnlyWhenStarved, OverlayNeverStuck
<1>2. CASE UNCHANGED music /\ OverlayInv'
  <2>1. /\ source' = source /\ used' = used /\ residual' = residual /\ pos' = pos
        /\ srcEOF' = srcEOF /\ speed' = speed /\ travelled' = travelled /\ last' = last
    BY <1>2 DEF music
  <2> QED
    BY <1>2, <2>1 DEF MixerInv, MusicInv, PositionExact, GapsOnlyWhenStarved
<1>3. CASE UNCHANGED <<overlaid, closing>> /\ MusicInv'
  <2>1. overlay' = overlay /\ players' = players /\ overlays' = overlays /\ closing' = closing
    BY <1>3 DEF overlaid
  <2> QED
    BY <1>3, <2>1 DEF MixerInv, OverlayInv, OverlayNeverStuck
<1>4. CASE ChangeSource \/ ChangeSpeed
  <2>1. MusicInv'
    BY <1>4, SettingKeepsMusic DEF MixerInv
  <2> QED
    BY <1>3, <1>4, <2>1 DEF ChangeSource, SetSource, ChangeSpeed
<1>5. CASE DropSource
  BY <1>5, SettingKeepsMusic, SettingKeepsOverlays DEF MixerInv
<1>6. CASE ProvideOpusFrame
  <2>1. NextOverlayFrame /\ UNCHANGED <<players, overlays, closing>>
    BY <1>6 DEF ProvideOpusFrame
  <2> QED
    BY <1>6, <2>1, FrameKeepsMusic, FrameKeepsOverlays DEF MixerInv
<1>7. CASE SilenceOverlays \/ DropOverlays \/ \E p \in Player, ch \in Channel : PlayOverlay(p, ch)
  <2>1. OverlayInv'
    BY <1>7, SettingKeepsOverlays DEF MixerInv
  <2> QED
    BY <1>2, <1>7, <2>1 DEF SilenceOverlays, DropOverlays, PlayOverlay
<1> QED
  BY <1>1, <1>4, <1>5, <1>6, <1>7 DEF MixerNext

\* What is promised of the mixer.
LEMMA MixerFollows ==
  ASSUME MixerInv
  PROVE  MixerTypeOK /\ NoOldSound /\ PositionExact /\ GapsOnlyWhenStarved /\ OverlayNeverStuck
BY DEF MixerInv, MusicInv, OverlayInv, MixerTypeOK, NoOldSound, Residual, Sounding, Heard

-----------------------------------------------------------------------------
(* Voice receivers *)

\* A task that goroutine g of receiver r may have: what it holds in left is there for a
\* reason, and a frame that is on its way to a session has a speaker without one.
TaskSound(r, g, t) ==
  /\ t.at \notin {"storing", "closing", "waiting"} => t.left = {}
  /\ t.at = "waiting" => t.now \in Session /\ sessions[t.now].at # "new"
  /\ g = "frames" /\ t.at # "idle" => receivers[r].at # "new"
  /\ t.at \in {"frame", "checking", "storing"} => g = "frames" /\ t.user \in Speaker
  /\ t.at \in {"checking", "storing"} => receivers[r].map[t.user] = NoSession
  /\ t.at = "storing" =>
       \E s \in Session : /\ t.left = {s} /\ sessions[s].at # "new"
                          /\ sessions[s].of = r /\ sessions[s].user = t.user

TasksSound == \A r \in Receiver, g \in Goroutine : TaskSound(r, g, tasks[r][g])

\* A session that has begun has a receiver and a speaker, and its worker ends before it does.
SessionsSound ==
  \A s \in Session :
    /\ sessions[s].at # "new" => sessions[s].of \in Receiver /\ sessions[s].user \in Speaker
    /\ sessions[s].worker => sessions[s].at \in {"open", "closing"}

LinksSound == \A r \in Receiver : links[r].up => receivers[r].at # "new"

ReceiverInv ==
  /\ ReceiverTypeOK /\ TasksSound /\ SessionsSound /\ LinksSound
  /\ SessionHasOwner /\ NoStreamLeaks

\* Before the first receiver.
LEMMA ReceiverInitially == ReceiverInit => ReceiverInv
BY ReceiverAssumption
DEF ReceiverInit, ReceiverInv, ReceiverTypeOK, TasksSound, TaskSound, SessionsSound, LinksSound,
    SessionHasOwner, NoStreamLeaks, ReceiverState, Link, SessionState, Task, Goroutine, Resting,
    Session, NoSession

\* The types of the functions of functions.
LEMMA ReceiverTypes ==
  ASSUME ReceiverTypeOK
  PROVE  /\ receivers \in [Receiver -> ReceiverState] /\ links \in [Receiver -> Link]
         /\ sessions \in [Session -> SessionState]
         /\ tasks \in [Receiver -> [Goroutine -> Task]]
         /\ \A r \in Receiver, u \in Speaker : receivers[r].map[u] \in Session \cup {NoSession}
         /\ \A r \in Receiver : receivers[r].map \in [Speaker -> Session \cup {NoSession}]
         /\ \A r \in Receiver : receivers[r].at \in {"new", "open", "closed"}
         /\ \A r \in Receiver : links[r].ssrcs \subseteq Speaker
         /\ \A r \in Receiver, g \in Goroutine :
              /\ tasks[r][g] \in Task /\ tasks[r][g].left \subseteq Session
              /\ tasks[r][g].user \in Speaker \cup {NoSpeaker}
         /\ NoSession \notin Session
BY DEF ReceiverTypeOK, ReceiverState, Link, Task, Session, NoSession

\* One goroutine turns to another task.
LEMMA TurnFacts ==
  ASSUME ReceiverTypeOK, NEW r \in Receiver, NEW g \in Goroutine, NEW t \in Task, Turns(r, g, t)
  PROVE  /\ tasks' \in [Receiver -> [Goroutine -> Task]]
         /\ tasks'[r][g] = t
         /\ \A q \in Receiver, h \in Goroutine : (q # r \/ h # g) => tasks'[q][h] = tasks[q][h]
BY ReceiverTypes DEF Turns

\* A step of one goroutine that leaves sessions and maps alone, and lets go of no session
\* that is open.
LEMMA TaskMoves ==
  ASSUME ReceiverInv, NEW r \in Receiver, NEW g \in Goroutine, NEW t \in Task, Turns(r, g, t),
         registry' \in Receiver \cup {NoReceiver}, UNCHANGED <<receivers, links, sessions, streams>>,
         TaskSound(r, g, t),
         \A s \in tasks[r][g].left : s \in t.left \/ sessions[s].at # "open"
  PROVE  ReceiverInv'
<1>1. ReceiverTypeOK
  BY DEF ReceiverInv
<1>2. /\ tasks' \in [Receiver -> [Goroutine -> Task]]
      /\ tasks'[r][g] = t
      /\ \A q \in Receiver, h \in Goroutine : (q # r \/ h # g) => tasks'[q][h] = tasks[q][h]
  BY <1>1, TurnFacts
<1>3. ReceiverTypeOK'
  BY <1>1, <1>2 DEF ReceiverTypeOK
<1>4. TasksSound'
  <2>1. TaskSound(r, g, tasks[r][g])'
    BY <1>2 DEF TaskSound
  <2>2. ASSUME NEW q \in Receiver, NEW h \in Goroutine, q # r \/ h # g
        PROVE  TaskSound(q, h, tasks[q][h])'
    <3>1. TaskSound(q, h, tasks[q][h]) /\ tasks'[q][h] = tasks[q][h]
      BY <1>2, <2>2 DEF ReceiverInv, TasksSound
    <3> QED
      BY <3>1 DEF TaskSound
  <2> QED
    BY <2>1, <2>2 DEF TasksSound
<1>5. SessionsSound' /\ LinksSound' /\ NoStreamLeaks'
  BY DEF ReceiverInv, SessionsSound, LinksSound, NoStreamLeaks
<1>6. SessionHasOwner'
  <2> SUFFICES ASSUME NEW s \in Session, sessions[s].at = "open"
               PROVE  \/ /\ receivers[sessions[s].of].at = "open"
                         /\ receivers[sessions[s].of].map[sessions[s].user] = s
                      \/ \E h \in Goroutine : s \in tasks'[sessions[s].of][h].left
    BY DEF SessionHasOwner
  <2>1. sessions[s].of \in Receiver
    BY DEF ReceiverInv, SessionsSound
  <2>2. CASE \E h \in Goroutine : s \in tasks[sessions[s].of][h].left
    BY <1>2, <2>1, <2>2
  <2> QED
    BY <2>2 DEF ReceiverInv, SessionHasOwner
<1> QED
  BY <1>3, <1>4, <1>5, <1>6 DEF ReceiverInv

\* A connection goes up or down, or learns of speakers.
LEMMA LinkMoves ==
  ASSUME ReceiverInv, NEW r \in Receiver, NEW l \in Link, links' = [links EXCEPT ![r] = l],
         l.up => receivers[r].at # "new",
         UNCHANGED <<registry, receivers, sessions, streams, tasks>>
  PROVE  ReceiverInv'
<1>1. links' \in [Receiver -> Link] /\ \A q \in Receiver : links'[q].up => receivers[q].at # "new"
  BY DEF ReceiverInv, ReceiverTypeOK, LinksSound
<1> QED
  BY <1>1
  DEF ReceiverInv, ReceiverTypeOK, TasksSound, TaskSound, SessionsSound, LinksSound,
      SessionHasOwner, NoStreamLeaks

\* A resting goroutine has nothing in hand.
LEMMA RestingSound ==
  ASSUME NEW r, NEW g, NEW at \in {"idle", "deregister", "done", "frame", "packet", "closing"}
  PROVE  /\ Resting(at) \in Task
         /\ Resting(at).at = at /\ Resting(at).left = {}
BY DEF Resting, Task, NoSession

\* What reads the frames of a connection.
LEMMA FramesKeep ==
  ASSUME ReceiverInv, NEW r \in Receiver, PacketArrives(r) \/ FramesGoOn(r)
  PROVE  ReceiverInv'
<1> DEFINE task == tasks[r]["frames"]
<1>1. /\ ReceiverTypeOK /\ "frames" \in Goroutine /\ TaskSound(r, "frames", task) /\ task \in Task
      /\ registry \in Receiver \cup {NoReceiver}
  BY ReceiverTypes DEF ReceiverInv, TasksSound, Goroutine, ReceiverTypeOK
<1>2. ASSUME NEW t \in Task, Turns(r, "frames", t), TaskSound(r, "frames", t), task.left \subseteq t.left,
             UNCHANGED <<registry, receivers, links, sessions, streams>>
      PROVE  ReceiverInv'
  BY <1>1, <1>2, TaskMoves
<1>3. ASSUME NEW at \in {"idle", "packet", "checking", "closing"}, Goes(r, "frames", at)
      PROVE  /\ Turns(r, "frames", [task EXCEPT !.at = at]) /\ [task EXCEPT !.at = at] \in Task
             /\ [task EXCEPT !.at = at].left = task.left /\ [task EXCEPT !.at = at].user = task.user
             /\ [task EXCEPT !.at = at].at = at
  BY <1>1, <1>3 DEF Goes, Task
<1>4. ASSUME Turns(r, "frames", Resting("idle")), task.left = {},
             UNCHANGED <<registry, receivers, links, sessions, streams>>
      PROVE  ReceiverInv'
  <2>1. TaskSound(r, "frames", Resting("idle")) /\ Resting("idle") \in Task
    BY RestingSound DEF TaskSound
  <2> QED
    BY <1>2, <1>4, <2>1
<1>5. CASE PacketArrives(r)
  <2>1. task.left = {} /\ receivers[r].at # "new"
    BY <1>1, <1>5 DEF PacketArrives, In, TaskSound, ReceiverInv, LinksSound
  <2>2. TaskSound(r, "frames", [task EXCEPT !.at = "packet"])
    BY <1>1, <1>3, <1>5, <2>1 DEF PacketArrives, TaskSound
  <2> QED
    BY <1>2, <1>3, <1>5, <2>2 DEF PacketArrives
<1>6. CASE UserIDBySSRC(r)
  <2>1. task.left = {} /\ receivers[r].at # "new"
    BY <1>1, <1>6 DEF UserIDBySSRC, In, TaskSound
  <2>2. CASE Goes(r, "frames", "idle")
    <3>1. TaskSound(r, "frames", [task EXCEPT !.at = "idle"])
      BY <1>1, <1>3, <2>1, <2>2 DEF TaskSound
    <3> QED
      BY <1>2, <1>3, <1>6, <2>2, <3>1 DEF UserIDBySSRC
  <2>3. ASSUME NEW u \in links[r].ssrcs, Turns(r, "frames", [Resting("frame") EXCEPT !.user = u])
        PROVE  ReceiverInv'
    <3> DEFINE t == [Resting("frame") EXCEPT !.user = u]
    <3>1. u \in Speaker
      BY <1>1, ReceiverTypes
    <3>2. t \in Task /\ t.at = "frame" /\ t.left = {} /\ t.user = u
      BY <3>1, RestingSound DEF Resting, Task, NoSession
    <3>3. Turns(r, "frames", t)
      BY <2>3
    <3> HIDE DEF t
    <3>4. TaskSound(r, "frames", t)
      BY <2>1, <3>1, <3>2 DEF TaskSound
    <3> QED
      BY <1>2, <1>6, <2>1, <3>2, <3>3, <3>4 DEF UserIDBySSRC
  <2> QED
    BY <1>6, <2>2, <2>3 DEF UserIDBySSRC
<1>7. CASE GetSession(r)
  <2>1. /\ task.left = {} /\ receivers[r].at # "new" /\ task.user \in Speaker
        /\ UNCHANGED <<registry, receivers, links, sessions, streams>>
    BY <1>1, <1>7 DEF GetSession, In, TaskSound
  <2>2. CASE receivers[r].map[task.user] = NoSession /\ Goes(r, "frames", "checking")
    <3>1. TaskSound(r, "frames", [task EXCEPT !.at = "checking"])
      BY <1>1, <1>3, <2>1, <2>2 DEF TaskSound
    <3> QED
      BY <1>2, <1>3, <2>1, <2>2, <3>1
  <2> QED
    BY <1>4, <1>7, <2>1, <2>2 DEF GetSession
<1>8. CASE NoNewSession(r)
  <2>1. task.left = {}
    BY <1>1, <1>8 DEF NoNewSession, In, TaskSound
  <2> QED
    BY <1>4, <1>8, <2>1 DEF NoNewSession
<1>9. CASE NewSession(r)
  <2>1. /\ task.at = "checking" /\ task.left = {} /\ receivers[r].at # "new" /\ task.user \in Speaker
        /\ receivers[r].map[task.user] = NoSession
        /\ UNCHANGED <<registry, receivers, links>> /\ streams' = streams \cup {task.user}
    BY <1>1, <1>9 DEF NewSession, In, TaskSound
  <2>2. PICK s \in Session :
          /\ sessions[s].at = "new"
          /\ sessions' = [sessions EXCEPT ![s] =
               [at |-> "open", worker |-> TRUE, of |-> r, user |-> task.user]]
          /\ Turns(r, "frames", [task EXCEPT !.at = "storing", !.left = {s}])
    BY <1>9 DEF NewSession
  <2> DEFINE t == [task EXCEPT !.at = "storing", !.left = {s}]
             new == [at |-> "open", worker |-> TRUE, of |-> r, user |-> task.user]
  <2>3. t \in Task /\ t.at = "storing" /\ t.left = {s} /\ t.user = task.user
    BY <1>1 DEF Task
  <2>4. new \in SessionState /\ new.at = "open" /\ new.worker /\ new.of = r /\ new.user = task.user
    BY <2>1 DEF SessionState
  <2>5. sessions' = [sessions EXCEPT ![s] = new] /\ Turns(r, "frames", t)
    BY <2>2
  <2> HIDE DEF t, new
  <2>6. /\ sessions' \in [Session -> SessionState] /\ sessions'[s] = new
        /\ \A b \in Session : b # s => sessions'[b] = sessions[b]
    BY <1>1, <2>4, <2>5, ReceiverTypes
  <2>7. /\ tasks' \in [Receiver -> [Goroutine -> Task]]
        /\ tasks'[r]["frames"] = t
        /\ \A q \in Receiver, h \in Goroutine : (q # r \/ h # "frames") => tasks'[q][h] = tasks[q][h]
    BY <1>1, <2>3, <2>5, TurnFacts
  <2>8. ReceiverTypeOK'
    BY <1>1, <2>1, <2>6, <2>7 DEF ReceiverTypeOK
  <2>9. TasksSound'
    <3>1. TaskSound(r, "frames", tasks[r]["frames"])'
      BY <2>1, <2>3, <2>4, <2>6, <2>7 DEF TaskSound
    <3>2. ASSUME NEW q \in Receiver, NEW h \in Goroutine, q # r \/ h # "frames"
          PROVE  TaskSound(q, h, tasks[q][h])'
      <4>1. TaskSound(q, h, tasks[q][h]) /\ tasks'[q][h] = tasks[q][h]
        BY <2>7, <3>2 DEF ReceiverInv, TasksSound
      <4> QED
        BY <2>1, <2>2, <2>6, <4>1 DEF TaskSound
    <3> QED
      BY <2>3, <2>7, <3>1, <3>2 DEF TasksSound
  <2>10. SessionsSound' /\ LinksSound'
    BY <2>1, <2>4, <2>6 DEF ReceiverInv, SessionsSound, LinksSound
  <2>11. NoStreamLeaks'
    BY <2>1, <2>2, <2>4, <2>6 DEF ReceiverInv, NoStreamLeaks
  <2>12. SessionHasOwner'
    <3>1. ASSUME NEW b \in Session, b # s, sessions[b].at = "open"
          PROVE  \/ /\ receivers[sessions[b].of].at = "open"
                    /\ receivers[sessions[b].of].map[sessions[b].user] = b
                 \/ \E h \in Goroutine : b \in tasks'[sessions[b].of][h].left
      <4>1. sessions[b].of \in Receiver
        BY <3>1 DEF ReceiverInv, SessionsSound
      <4>2. ASSUME NEW h \in Goroutine, b \in tasks[sessions[b].of][h].left
            PROVE  tasks'[sessions[b].of][h] = tasks[sessions[b].of][h]
        BY <2>1, <2>7, <4>1, <4>2
      <4> QED
        BY <3>1, <4>2 DEF ReceiverInv, SessionHasOwner
    <3>2. s \in tasks'[r]["frames"].left
      BY <2>3, <2>7
    <3> QED
      BY <1>1, <2>1, <2>4, <2>6, <3>1, <3>2 DEF SessionHasOwner
  <2> QED
    BY <2>8, <2>9, <2>10, <2>11, <2>12 DEF ReceiverInv
<1>10. CASE StoreSession(r)
  <2>1. task.at = "storing" /\ UNCHANGED <<registry, links, sessions, streams>>
    BY <1>10 DEF StoreSession, In
  <2>2. PICK s \in Session : /\ task.left = {s} /\ sessions[s].at # "new"
                             /\ sessions[s].of = r /\ sessions[s].user = task.user
    BY <1>1, <2>1 DEF TaskSound
  <2>3. /\ task.user \in Speaker /\ receivers[r].at # "new"
        /\ receivers[r].map[task.user] = NoSession
    BY <1>1, <2>1 DEF TaskSound
  <2>4. CASE receivers[r].at = "closed"
    <3>1. Goes(r, "frames", "closing") /\ UNCHANGED receivers
      BY <1>10, <2>4 DEF StoreSession
    <3>2. TaskSound(r, "frames", [task EXCEPT !.at = "closing"])
      BY <1>1, <1>3, <2>3, <3>1 DEF TaskSound
    <3> QED
      BY <1>2, <1>3, <2>1, <3>1, <3>2
  <2>5. CASE receivers[r].at = "open"
    <3> DEFINE u == task.user
               map == [receivers[r].map EXCEPT ![u] = s]
               new == [receivers[r] EXCEPT !.map = map]
    <3>1. (CHOOSE b \in task.left : TRUE) = s
      BY <2>2
    <3>2. /\ receivers' = [receivers EXCEPT ![r].map[u] = s]
          /\ Turns(r, "frames", Resting("idle"))
      BY <1>10, <2>5, <3>1 DEF StoreSession
    <3>3. receivers' = [receivers EXCEPT ![r] = new]
      BY <1>1, <3>2, ReceiverTypes
    <3>4. /\ map \in [Speaker -> Session \cup {NoSession}] /\ map[u] = s
          /\ \A v \in Speaker : v # u => map[v] = receivers[r].map[v]
      BY <1>1, <2>3, ReceiverTypes
    <3> HIDE DEF map
    <3>5. new \in ReceiverState /\ new.map = map /\ new.at = receivers[r].at
      BY <1>1, <3>4, ReceiverTypes DEF ReceiverState
    <3> HIDE DEF new
    <3>6. /\ receivers' \in [Receiver -> ReceiverState] /\ receivers'[r] = new
          /\ \A q \in Receiver : q # r => receivers'[q] = receivers[q]
      BY <1>1, <3>3, <3>5, ReceiverTypes
    <3>7. Resting("idle") \in Task /\ Resting("idle").at = "idle" /\ Resting("idle").left = {}
      BY RestingSound
    <3>8. /\ tasks' \in [Receiver -> [Goroutine -> Task]]
          /\ tasks'[r]["frames"] = Resting("idle")
          /\ \A q \in Receiver, h \in Goroutine : (q # r \/ h # "frames") => tasks'[q][h] = tasks[q][h]
      BY <1>1, <3>2, <3>7, TurnFacts
    <3>9. ReceiverTypeOK'
      BY <1>1, <2>1, <3>6, <3>8 DEF ReceiverTypeOK
    <3>10. TasksSound'
      <4>1. TaskSound(r, "frames", Resting("idle"))'
        BY <3>7 DEF TaskSound
      <4>2. ASSUME NEW q \in Receiver, NEW h \in Goroutine, q # r \/ h # "frames"
            PROVE  TaskSound(q, h, tasks[q][h])'
        <5>1. TaskSound(q, h, tasks[q][h]) /\ tasks'[q][h] = tasks[q][h]
          BY <3>8, <4>2 DEF ReceiverInv, TasksSound
        <5>2. receivers'[q].at = receivers[q].at
          BY <3>5, <3>6
        <5>3. tasks[q][h].at \in {"checking", "storing"} => h = "frames" /\ q # r
          BY <4>2, <5>1 DEF TaskSound
        <5> QED
          BY <2>1, <3>6, <5>1, <5>2, <5>3 DEF TaskSound
      <4> QED
        BY <3>8, <4>1, <4>2 DEF TasksSound
    <3>11. SessionsSound' /\ NoStreamLeaks'
      BY <2>1 DEF ReceiverInv, SessionsSound, NoStreamLeaks
    <3>12. LinksSound'
      BY <2>1, <3>5, <3>6 DEF ReceiverInv, LinksSound
    <3>13. SessionHasOwner'
      <4> SUFFICES ASSUME NEW b \in Session, sessions[b].at = "open"
                   PROVE  \/ /\ receivers'[sessions[b].of].at = "open"
                             /\ receivers'[sessions[b].of].map[sessions[b].user] = b
                          \/ \E h \in Goroutine : b \in tasks'[sessions[b].of][h].left
        BY <2>1 DEF SessionHasOwner
      <4>1. sessions[b].of \in Receiver /\ sessions[b].user \in Speaker
        BY DEF ReceiverInv, SessionsSound
      <4>2. CASE b = s
        BY <2>2, <2>5, <3>4, <3>5, <3>6, <4>2
      <4>3. CASE b # s /\ \E h \in Goroutine : b \in tasks[sessions[b].of][h].left
        BY <2>2, <3>8, <4>1, <4>3
      <4>4. CASE /\ receivers[sessions[b].of].at = "open"
                 /\ receivers[sessions[b].of].map[sessions[b].user] = b
        <5>1. b # NoSession
          BY <1>1, ReceiverTypes
        <5> QED
          BY <2>3, <3>4, <3>5, <3>6, <4>1, <4>4, <5>1
      <4> QED
        BY <4>2, <4>3, <4>4 DEF ReceiverInv, SessionHasOwner
    <3> QED
      BY <3>9, <3>10, <3>11, <3>12, <3>13 DEF ReceiverInv
  <2> QED
    BY <1>1, <2>3, <2>4, <2>5, ReceiverTypes
<1>11. CASE FramesEnd(r)
  <2> DEFINE t == [Resting("deregister") EXCEPT !.next = "done"]
  <2>1. task.left = {} /\ receivers[r].at # "new"
    BY <1>1, <1>11 DEF FramesEnd, In, TaskSound
  <2>2. t \in Task /\ t.at = "deregister" /\ t.left = {}
    BY RestingSound DEF Resting, Task, NoSession
  <2>3. Turns(r, "frames", t)
    BY <1>11 DEF FramesEnd
  <2> HIDE DEF t
  <2>4. TaskSound(r, "frames", t)
    BY <2>1, <2>2 DEF TaskSound
  <2> QED
    BY <1>2, <1>11, <2>1, <2>2, <2>3, <2>4 DEF FramesEnd
<1> QED
  BY <1>5, <1>6, <1>7, <1>8, <1>9, <1>10, <1>11 DEF FramesGoOn

\* A receiver is attached.
LEMMA AttachKeeps ==
  ASSUME ReceiverInv, NEW r \in Receiver, AttachReceiver(r)
  PROVE  ReceiverInv'
<1>1. ReceiverTypeOK
  BY DEF ReceiverInv
<1> DEFINE new == [receivers[r] EXCEPT !.at = "open"]
           up == [links[r] EXCEPT !.up = TRUE]
<1>2. new \in ReceiverState /\ new.at = "open" /\ new.map = receivers[r].map
  BY <1>1, ReceiverTypes DEF ReceiverState
<1>3. up \in Link
  <2>1. links[r] \in Link
    BY <1>1, ReceiverTypes
  <2> QED
    BY <2>1 DEF Link
<1>4. /\ receivers' = [receivers EXCEPT ![r] = new] /\ links' = [links EXCEPT ![r] = up]
      /\ receivers[r].at = "new" /\ registry' = r /\ UNCHANGED <<sessions, streams, tasks>>
  BY DEF AttachReceiver
<1> HIDE DEF new, up
<1>5. /\ receivers' \in [Receiver -> ReceiverState] /\ receivers'[r].at = "open"
      /\ \A q \in Receiver : /\ receivers'[q].map = receivers[q].map
                             /\ receivers'[q].at # "new" \/ receivers'[q].at = receivers[q].at
                             /\ receivers[q].at = "open" => receivers'[q].at = "open"
      /\ links' \in [Receiver -> Link] /\ \A q \in Receiver : q # r => links'[q] = links[q]
  BY <1>1, <1>2, <1>3, <1>4, ReceiverTypes
<1>6. ReceiverTypeOK'
  BY <1>1, <1>4, <1>5 DEF ReceiverTypeOK
<1>7. TasksSound'
  BY <1>4, <1>5 DEF ReceiverInv, TasksSound, TaskSound
<1>8. SessionsSound' /\ NoStreamLeaks'
  BY <1>4 DEF ReceiverInv, SessionsSound, NoStreamLeaks
<1>9. LinksSound'
  BY <1>5 DEF ReceiverInv, LinksSound
<1>10. SessionHasOwner'
  <2> SUFFICES ASSUME NEW s \in Session, sessions[s].at = "open"
               PROVE  \/ /\ receivers'[sessions[s].of].at = "open"
                         /\ receivers'[sessions[s].of].map[sessions[s].user] = s
                      \/ \E h \in Goroutine : s \in tasks[sessions[s].of][h].left
    BY <1>4 DEF SessionHasOwner
  <2>1. sessions[s].of \in Receiver
    BY DEF ReceiverInv, SessionsSound
  <2> QED
    BY <1>5, <2>1 DEF ReceiverInv, SessionHasOwner
<1> QED
  BY <1>6, <1>7, <1>8, <1>9, <1>10 DEF ReceiverInv

\* A goroutine takes sessions out of the map of its receiver to close them.
TakesOut(r, g, rec, t) ==
  /\ tasks[r][g].left = {} /\ t.left \subseteq Session /\ t.at = "closing"
  /\ rec.at # "new" \/ rec.at = receivers[r].at
  /\ \A u \in Speaker :
       \/ rec.map[u] = NoSession /\ receivers[r].map[u] \in t.left \cup {NoSession}
       \/ rec.map[u] = receivers[r].map[u] /\ rec.at = receivers[r].at

\* A goroutine takes sessions out of its receiver, or changes its state, and turns to another task.
LEMMA TakingKeeps ==
  ASSUME ReceiverInv, NEW r \in Receiver, NEW g \in Goroutine, NEW t \in Task,
         NEW rec \in ReceiverState, Turns(r, g, t), TakesOut(r, g, rec, t),
         receivers' = [receivers EXCEPT ![r] = rec],
         g = "frames" => receivers[r].at # "new",
         links' \in [Receiver -> Link], \A q \in Receiver : links'[q].up => links[q].up,
         UNCHANGED <<registry, sessions, streams>>
  PROVE  ReceiverInv'
<1>1. ReceiverTypeOK
  BY DEF ReceiverInv
<1>2. /\ receivers' \in [Receiver -> ReceiverState] /\ receivers'[r] = rec
      /\ \A q \in Receiver : q # r => receivers'[q] = receivers[q]
  BY <1>1, ReceiverTypes
<1>3. /\ tasks' \in [Receiver -> [Goroutine -> Task]]
      /\ tasks'[r][g] = t
      /\ \A q \in Receiver, h \in Goroutine : (q # r \/ h # g) => tasks'[q][h] = tasks[q][h]
  BY <1>1, TurnFacts
<1>4. ReceiverTypeOK'
  BY <1>1, <1>2, <1>3 DEF ReceiverTypeOK
<1>5. \A q \in Receiver :
        /\ receivers'[q].at = "new" => receivers[q].at = "new"
        /\ \A u \in Speaker : receivers[q].map[u] = NoSession => receivers'[q].map[u] = NoSession
  BY <1>2 DEF TakesOut
<1>6. TasksSound'
  <2>1. TaskSound(r, g, tasks[r][g])'
    BY <1>3, <1>5 DEF TaskSound, TakesOut
  <2>2. ASSUME NEW q \in Receiver, NEW h \in Goroutine, q # r \/ h # g
        PROVE  TaskSound(q, h, tasks[q][h])'
    <3>1. TaskSound(q, h, tasks[q][h]) /\ tasks'[q][h] = tasks[q][h]
      BY <1>3, <2>2 DEF ReceiverInv, TasksSound
    <3> QED
      BY <1>5, <3>1 DEF TaskSound
  <2> QED
    BY <2>1, <2>2 DEF TasksSound
<1>7. SessionsSound' /\ NoStreamLeaks'
  BY DEF ReceiverInv, SessionsSound, NoStreamLeaks
<1>8. LinksSound'
  BY <1>5 DEF ReceiverInv, LinksSound
<1>9. SessionHasOwner'
  <2> SUFFICES ASSUME NEW s \in Session, sessions[s].at = "open"
               PROVE  \/ /\ receivers'[sessions[s].of].at = "open"
                         /\ receivers'[sessions[s].of].map[sessions[s].user] = s
                      \/ \E h \in Goroutine : s \in tasks'[sessions[s].of][h].left
    BY DEF SessionHasOwner
  <2>1. sessions[s].of \in Receiver /\ sessions[s].user \in Speaker /\ s # NoSession
    BY <1>1, ReceiverTypes DEF ReceiverInv, SessionsSound
  <2>2. CASE \E h \in Goroutine : s \in tasks[sessions[s].of][h].left
    BY <1>3, <2>1, <2>2 DEF TakesOut
  <2>3. CASE /\ receivers[sessions[s].of].at = "open"
             /\ receivers[sessions[s].of].map[sessions[s].user] = s
    BY <1>2, <1>3, <2>1, <2>3 DEF TakesOut
  <2> QED
    BY <2>2, <2>3 DEF ReceiverInv, SessionHasOwner
<1> QED
  BY <1>4, <1>6, <1>7, <1>8, <1>9 DEF ReceiverInv

\* The messages of the voice gateway.
LEMMA GatewayMessagesKeep ==
  ASSUME ReceiverInv, NEW r \in Receiver,
         \/ LinkEnds(r) \/ SpeakingUnknown(r)
         \/ \E u \in Speaker : Speaking(r, u) \/ ClientDisconnect(r, u)
  PROVE  ReceiverInv'
<1>1. /\ ReceiverTypeOK /\ "gateway" \in Goroutine /\ links[r] \in Link
      /\ registry \in Receiver \cup {NoReceiver}
  BY ReceiverTypes DEF ReceiverInv, Goroutine, ReceiverTypeOK
<1>2. /\ TaskSound(r, "gateway", tasks[r]["gateway"]) /\ tasks[r]["gateway"] \in Task
  BY <1>1, ReceiverTypes DEF ReceiverInv, TasksSound
<1>3. CASE LinkEnds(r)
  <2> DEFINE l == [links[r] EXCEPT !.up = FALSE]
  <2>1. l \in Link /\ ~ l.up
    BY <1>1 DEF Link
  <2>2. links' = [links EXCEPT ![r] = l] /\ UNCHANGED <<registry, receivers, sessions, streams, tasks>>
    BY <1>3 DEF LinkEnds
  <2> HIDE DEF l
  <2> QED
    BY <2>1, <2>2, LinkMoves
<1>4. CASE SpeakingUnknown(r)
  <2> DEFINE t == [tasks[r]["gateway"] EXCEPT !.at = "stuck"]
  <2>1. tasks[r]["gateway"].left = {}
    BY <1>2, <1>4 DEF SpeakingUnknown, In, TaskSound
  <2>2. t \in Task /\ t.at = "stuck" /\ t.left = tasks[r]["gateway"].left
    BY <1>2 DEF Task
  <2>3. Turns(r, "gateway", t) /\ UNCHANGED <<registry, receivers, links, sessions, streams>>
    BY <1>4 DEF SpeakingUnknown, Goes
  <2> HIDE DEF t
  <2>4. TaskSound(r, "gateway", t)
    BY <2>1, <2>2 DEF TaskSound
  <2> QED
    BY <1>1, <2>1, <2>2, <2>3, <2>4, TaskMoves
<1>5. ASSUME NEW u \in Speaker, Speaking(r, u)
      PROVE  ReceiverInv'
  <2> DEFINE l == [links[r] EXCEPT !.ssrcs = links[r].ssrcs \cup {u}]
  <2>1. l \in Link /\ l.up = links[r].up
    BY <1>1 DEF Link
  <2>2. links' = [links EXCEPT ![r] = l] /\ UNCHANGED <<registry, receivers, sessions, streams, tasks>>
    BY <1>1, <1>5 DEF Speaking, Link
  <2> HIDE DEF l
  <2>3. l.up => receivers[r].at # "new"
    BY <2>1 DEF ReceiverInv, LinksSound
  <2> QED
    BY <2>1, <2>2, <2>3, LinkMoves
<1>6. ASSUME NEW u \in Speaker, ClientDisconnect(r, u)
      PROVE  ReceiverInv'
  <2> DEFINE l == [links[r] EXCEPT !.ssrcs = links[r].ssrcs \ {u}]
             map == [receivers[r].map EXCEPT ![u] = NoSession]
             rec == [receivers[r] EXCEPT !.map = map]
  <2>1. l \in Link /\ l.up = links[r].up
    BY <1>1 DEF Link
  <2>2. links' = [links EXCEPT ![r] = l] /\ UNCHANGED <<registry, sessions, streams>>
    BY <1>1, <1>6 DEF ClientDisconnect
  <2>3. /\ map \in [Speaker -> Session \cup {NoSession}] /\ map[u] = NoSession
        /\ \A v \in Speaker : v # u => map[v] = receivers[r].map[v]
    BY <1>1, ReceiverTypes
  <2>4. receivers' = [receivers EXCEPT ![r] = rec]
    BY <1>1, <1>6, ReceiverTypes DEF ClientDisconnect
  <2>5. rec \in ReceiverState /\ rec.at = receivers[r].at /\ rec.map = map
    <3> HIDE DEF map
    <3> QED
      BY <1>1, <2>3, ReceiverTypes DEF ReceiverState
  <2> HIDE DEF l, map, rec
  <2>6. links' \in [Receiver -> Link] /\ \A q \in Receiver : links'[q].up => links[q].up
    BY <1>1, <2>1, <2>2, ReceiverTypes
  <2>7. tasks[r]["gateway"].left = {} /\ links[r].up
    BY <1>2, <1>6 DEF ClientDisconnect, In, TaskSound
  <2>8. CASE receivers[r].map[u] = NoSession
    <3>1. UNCHANGED tasks
      BY <1>6, <2>8 DEF ClientDisconnect
    <3>2. receivers' = receivers
      <4>1. /\ receivers \in [Receiver -> ReceiverState] /\ receivers[r] \in ReceiverState
            /\ receivers[r].map \in [Speaker -> Session \cup {NoSession}]
        BY <1>1, ReceiverTypes
      <4>2. map = receivers[r].map
        BY <2>3, <2>8, <4>1
      <4>3. rec = receivers[r]
        BY <2>5, <4>1, <4>2 DEF ReceiverState
      <4> QED
        BY <2>4, <4>1, <4>3
    <3>3. UNCHANGED <<registry, receivers, sessions, streams, tasks>>
      BY <2>2, <3>1, <3>2
    <3>4. l.up => receivers[r].at # "new"
      BY <2>1 DEF ReceiverInv, LinksSound
    <3> QED
      BY <2>1, <2>2, <3>3, <3>4, LinkMoves
  <2>9. CASE receivers[r].map[u] # NoSession
    <3> DEFINE t == [Resting("closing") EXCEPT !.left = {receivers[r].map[u]}]
    <3>1. receivers[r].map[u] \in Session
      BY <1>1, <2>9, ReceiverTypes
    <3>2. t \in Task /\ t.at = "closing" /\ t.left = {receivers[r].map[u]}
      BY <3>1 DEF Resting, Task, NoSession
    <3>3. Turns(r, "gateway", t)
      BY <1>6, <2>9 DEF ClientDisconnect
    <3> HIDE DEF t
    <3>4. TakesOut(r, "gateway", rec, t)
      BY <2>3, <2>5, <2>7, <3>1, <3>2 DEF TakesOut
    <3> QED
      BY <1>1, <2>2, <2>4, <2>5, <2>6, <3>2, <3>3, <3>4, TakingKeeps
  <2> QED
    BY <2>8, <2>9
<1> QED
  BY <1>3, <1>4, <1>5, <1>6

\* A session is being closed, or is closed.
LEMMA SessionFacts ==
  ASSUME ReceiverInv, NEW s \in Session, NEW at \in {"closing", "closed"}
  PROVE  LET new == [sessions[s] EXCEPT !.at = at] IN
           /\ new \in SessionState /\ new.at = at /\ new.worker = sessions[s].worker
           /\ new.of = sessions[s].of /\ new.user = sessions[s].user
<1>1. sessions[s] \in SessionState
  BY ReceiverTypes DEF ReceiverInv
<1> QED
  BY <1>1 DEF SessionState

\* What closes the sessions in hand.
LEMMA ClosingKeeps ==
  ASSUME ReceiverInv, NEW r \in Receiver, NEW g \in Goroutine, Closing(r, g)
  PROVE  ReceiverInv'
<1> DEFINE task == tasks[r][g]
<1>1. /\ ReceiverTypeOK /\ TaskSound(r, g, task) /\ task \in Task /\ task.left \subseteq Session
      /\ registry \in Receiver \cup {NoReceiver}
  BY ReceiverTypes DEF ReceiverInv, TasksSound, ReceiverTypeOK
<1>2. ASSUME NEW t \in Task, Turns(r, g, t), TaskSound(r, g, t),
             \A s \in task.left : s \in t.left \/ sessions[s].at # "open",
             registry' \in Receiver \cup {NoReceiver},
             UNCHANGED <<receivers, links, sessions, streams>>
      PROVE  ReceiverInv'
  BY <1>2, TaskMoves
<1>3. ASSUME NEW at \in {"detach", "done"}, Goes(r, g, at)
      PROVE  /\ Turns(r, g, [task EXCEPT !.at = at]) /\ [task EXCEPT !.at = at] \in Task
             /\ [task EXCEPT !.at = at].left = task.left /\ [task EXCEPT !.at = at].at = at
  BY <1>1, <1>3 DEF Goes, Task
<1>4. ASSUME NEW t \in Task, task.at # "idle", t.at \in {"detach", "done", "closing", "idle"},
             t.at \in {"detach", "done", "idle"} => t.left = {}
      PROVE  TaskSound(r, g, t)
  BY <1>1, <1>4 DEF TaskSound
<1>5. CASE Deregister(r, g)
  <2>1. task.left = {} /\ task.at # "idle"
    BY <1>1, <1>5 DEF Deregister, In, TaskSound
  <2>2. Goes(r, g, "detach") /\ registry' = NoReceiver /\ UNCHANGED <<receivers, links, sessions, streams>>
    BY <1>5 DEF Deregister
  <2> QED
    BY <1>2, <1>3, <1>4, <2>1, <2>2
<1>6. CASE Detach(r, g)
  <2>1. task.left = {} /\ task.at # "idle" /\ UNCHANGED <<registry, links, sessions, streams>>
    BY <1>1, <1>6 DEF Detach, In, TaskSound
  <2>2. CASE receivers[r].at = "closed"
    <3>1. Goes(r, g, "done") /\ UNCHANGED receivers
      BY <1>6, <2>2 DEF Detach
    <3> QED
      BY <1>1, <1>2, <1>3, <1>4, <2>1, <3>1
  <2>3. CASE receivers[r].at # "closed"
    <3> DEFINE rec == [at |-> "closed", map |-> [u \in Speaker |-> NoSession]]
               all == {receivers[r].map[u] : u \in Speaker} \ {NoSession}
               t   == [task EXCEPT !.at = "closing", !.left = all]
    <3>1. all \subseteq Session
      BY <1>1, ReceiverTypes
    <3>2. t \in Task /\ t.at = "closing" /\ t.left = all
      <4> HIDE DEF all
      <4> QED
        BY <1>1, <3>1 DEF Task
    <3>3. rec \in ReceiverState /\ rec.at = "closed" /\ \A u \in Speaker : rec.map[u] = NoSession
      BY DEF ReceiverState
    <3>4. receivers' = [receivers EXCEPT ![r] = rec] /\ Turns(r, g, t)
      BY <1>6, <2>3 DEF Detach
    <3>5. \A u \in Speaker : receivers[r].map[u] \in all \cup {NoSession}
      OBVIOUS
    <3> HIDE DEF rec, t, all
    <3>6. TakesOut(r, g, rec, t)
      BY <2>1, <3>1, <3>2, <3>3, <3>5 DEF TakesOut
    <3>7. g = "frames" => receivers[r].at # "new"
      BY <1>1, <2>1 DEF TaskSound
    <3>8. links' \in [Receiver -> Link] /\ \A q \in Receiver : links'[q].up => links[q].up
      BY <1>1, <2>1, ReceiverTypes
    <3>9. UNCHANGED <<registry, sessions, streams>>
      BY <2>1
    <3> QED
      BY <3>2, <3>3, <3>4, <3>6, <3>7, <3>8, <3>9, TakingKeeps
  <2> QED
    BY <2>2, <2>3
<1>7. CASE CloseSession(r, g)
  <2>1. task.at = "closing" /\ UNCHANGED <<registry, receivers, links, streams>>
    BY <1>7 DEF CloseSession, In
  <2>2. PICK s \in task.left :
          IF sessions[s].at = "open"
          THEN /\ sessions' = [sessions EXCEPT ![s].at = "closing"]
               /\ Turns(r, g, [task EXCEPT !.at = "waiting", !.now = s])
          ELSE /\ Turns(r, g, [task EXCEPT !.left = @ \ {s}])
               /\ UNCHANGED sessions
    BY <1>7 DEF CloseSession
  <2>3. s \in Session
    BY <1>1
  <2>4. CASE sessions[s].at = "open"
    <3> DEFINE t == [task EXCEPT !.at = "waiting", !.now = s]
               new == [sessions[s] EXCEPT !.at = "closing"]
    <3>1. t \in Task /\ t.at = "waiting" /\ t.now = s /\ t.left = task.left
      BY <1>1, <2>3 DEF Task
    <3>2. /\ new \in SessionState /\ new.at = "closing" /\ new.worker = sessions[s].worker
          /\ new.of = sessions[s].of /\ new.user = sessions[s].user
      BY <2>3, SessionFacts
    <3>3. sessions' = [sessions EXCEPT ![s] = new] /\ Turns(r, g, t)
      BY <2>2, <2>4
    <3> HIDE DEF t, new
    <3>4. /\ sessions' \in [Session -> SessionState] /\ sessions'[s] = new
          /\ \A b \in Session : b # s => sessions'[b] = sessions[b]
      BY <1>1, <2>3, <3>2, <3>3, ReceiverTypes
    <3>5. /\ tasks' \in [Receiver -> [Goroutine -> Task]] /\ tasks'[r][g] = t
          /\ \A q \in Receiver, h \in Goroutine : (q # r \/ h # g) => tasks'[q][h] = tasks[q][h]
      BY <1>1, <3>1, <3>3, TurnFacts
    <3>6. ReceiverTypeOK'
      BY <1>1, <2>1, <3>4, <3>5 DEF ReceiverTypeOK
    <3>7. TasksSound'
      <4>1. TaskSound(r, g, tasks[r][g])'
        BY <1>1, <2>1, <2>3, <3>1, <3>2, <3>4, <3>5 DEF TaskSound
      <4>2. ASSUME NEW q \in Receiver, NEW h \in Goroutine, q # r \/ h # g
            PROVE  TaskSound(q, h, tasks[q][h])'
        <5>1. TaskSound(q, h, tasks[q][h]) /\ tasks'[q][h] = tasks[q][h]
          BY <3>5, <4>2 DEF ReceiverInv, TasksSound
        <5>2. \A b \in Session : /\ sessions[b].at # "new" => sessions'[b].at # "new"
                                /\ sessions'[b].of = sessions[b].of
                                /\ sessions'[b].user = sessions[b].user
          BY <3>2, <3>4
        <5> QED
          BY <2>1, <5>1, <5>2 DEF TaskSound
      <4> QED
        BY <4>1, <4>2 DEF TasksSound
    <3>8. SessionsSound'
      BY <2>4, <3>2, <3>4 DEF ReceiverInv, SessionsSound
    <3>9. LinksSound'
      BY <2>1 DEF ReceiverInv, LinksSound
    <3>10. NoStreamLeaks'
      BY <2>1, <2>3, <3>2, <3>4 DEF ReceiverInv, NoStreamLeaks
    <3>11. SessionHasOwner'
      <4> SUFFICES ASSUME NEW b \in Session, sessions'[b].at = "open"
                   PROVE  \/ /\ receivers[sessions'[b].of].at = "open"
                             /\ receivers[sessions'[b].of].map[sessions'[b].user] = b
                          \/ \E h \in Goroutine : b \in tasks'[sessions'[b].of][h].left
        BY <2>1 DEF SessionHasOwner
      <4>1. sessions'[b] = sessions[b] /\ sessions[b].of \in Receiver
        BY <3>2, <3>4 DEF ReceiverInv, SessionsSound
      <4>2. ASSUME NEW h \in Goroutine
            PROVE  tasks'[sessions[b].of][h].left = tasks[sessions[b].of][h].left
        BY <3>1, <3>5, <4>1
      <4> QED
        BY <4>1, <4>2 DEF ReceiverInv, SessionHasOwner
    <3> QED
      BY <3>6, <3>7, <3>8, <3>9, <3>10, <3>11 DEF ReceiverInv
  <2>5. CASE sessions[s].at # "open"
    <3> DEFINE t == [task EXCEPT !.left = task.left \ {s}]
    <3>1. t \in Task /\ t.at = "closing" /\ t.left = task.left \ {s}
      BY <1>1, <2>1 DEF Task
    <3>2. Turns(r, g, t) /\ UNCHANGED <<receivers, links, sessions, streams>>
      BY <1>1, <2>1, <2>2, <2>5 DEF Task
    <3> HIDE DEF t
    <3>3. TaskSound(r, g, t)
      BY <1>4, <2>1, <3>1
    <3> QED
      BY <1>1, <1>2, <2>1, <2>5, <3>1, <3>2, <3>3
  <2> QED
    BY <2>4, <2>5
<1>8. CASE SessionClosed(r, g)
  <2> DEFINE s == task.now
             t == [task EXCEPT !.at = "closing", !.now = NoSession, !.left = task.left \ {s}]
             new == [sessions[s] EXCEPT !.at = "closed"]
  <2>1. /\ task.at = "waiting" /\ s \in Session /\ ~ sessions[s].worker /\ sessions[s].at # "new"
        /\ UNCHANGED <<registry, receivers, links>>
    BY <1>1, <1>8 DEF SessionClosed, In, TaskSound
  <2>2. t \in Task /\ t.at = "closing" /\ t.left = task.left \ {s}
    BY <1>1, <2>1 DEF Task
  <2>3. /\ new \in SessionState /\ new.at = "closed" /\ new.worker = sessions[s].worker
        /\ new.of = sessions[s].of /\ new.user = sessions[s].user
    BY <2>1, SessionFacts
  <2>4. /\ sessions' = [sessions EXCEPT ![s] = new] /\ Turns(r, g, t)
        /\ streams' = streams \ {sessions[s].user}
    BY <1>1, <1>8 DEF SessionClosed, Task
  <2> HIDE DEF t, new
  <2>5. /\ sessions' \in [Session -> SessionState] /\ sessions'[s] = new
        /\ \A b \in Session : b # s => sessions'[b] = sessions[b]
    BY <1>1, <2>1, <2>3, <2>4, ReceiverTypes
  <2>6. /\ tasks' \in [Receiver -> [Goroutine -> Task]] /\ tasks'[r][g] = t
        /\ \A q \in Receiver, h \in Goroutine : (q # r \/ h # g) => tasks'[q][h] = tasks[q][h]
    BY <1>1, <2>2, <2>4, TurnFacts
  <2>7. ReceiverTypeOK'
    BY <1>1, <2>1, <2>4, <2>5, <2>6 DEF ReceiverTypeOK
  <2>8. TasksSound'
    <3>1. TaskSound(r, g, tasks[r][g])'
      BY <1>1, <2>1, <2>2, <2>6 DEF TaskSound
    <3>2. ASSUME NEW q \in Receiver, NEW h \in Goroutine, q # r \/ h # g
          PROVE  TaskSound(q, h, tasks[q][h])'
      <4>1. TaskSound(q, h, tasks[q][h]) /\ tasks'[q][h] = tasks[q][h]
        BY <2>6, <3>2 DEF ReceiverInv, TasksSound
      <4>2. \A b \in Session : /\ sessions[b].at # "new" => sessions'[b].at # "new"
                              /\ sessions'[b].of = sessions[b].of
                              /\ sessions'[b].user = sessions[b].user
        BY <2>3, <2>5
      <4> QED
        BY <2>1, <4>1, <4>2 DEF TaskSound
    <3> QED
      BY <3>1, <3>2 DEF TasksSound
  <2>9. SessionsSound'
    BY <2>1, <2>3, <2>5 DEF ReceiverInv, SessionsSound
  <2>10. LinksSound'
    BY <2>1 DEF ReceiverInv, LinksSound
  <2>11. NoStreamLeaks'
    <3> SUFFICES ASSUME NEW u \in streams'
                 PROVE  \E b \in Session : sessions'[b].user = u /\ sessions'[b].at \in {"open", "closing"}
      BY DEF NoStreamLeaks
    <3>1. u # sessions[s].user
      BY <2>4
    <3>2. PICK b \in Session : sessions[b].user = u /\ sessions[b].at \in {"open", "closing"}
      BY <2>4 DEF ReceiverInv, NoStreamLeaks
    <3> QED
      BY <2>5, <3>1, <3>2
  <2>12. SessionHasOwner'
    <3> SUFFICES ASSUME NEW b \in Session, sessions'[b].at = "open"
                 PROVE  \/ /\ receivers[sessions'[b].of].at = "open"
                           /\ receivers[sessions'[b].of].map[sessions'[b].user] = b
                        \/ \E h \in Goroutine : b \in tasks'[sessions'[b].of][h].left
      BY <2>1 DEF SessionHasOwner
    <3>1. b # s /\ sessions'[b] = sessions[b] /\ sessions[b].of \in Receiver
      BY <2>3, <2>5 DEF ReceiverInv, SessionsSound
    <3>2. ASSUME NEW h \in Goroutine, b \in tasks[sessions[b].of][h].left
          PROVE  b \in tasks'[sessions[b].of][h].left
      BY <2>2, <2>6, <3>1, <3>2
    <3> QED
      BY <3>1, <3>2 DEF ReceiverInv, SessionHasOwner
  <2> QED
    BY <2>7, <2>8, <2>9, <2>10, <2>11, <2>12 DEF ReceiverInv
<1>9. CASE AllClosed(r, g)
  <2>1. /\ task.left = {} /\ task.at # "idle" /\ task.next \in {"idle", "done"}
        /\ Turns(r, g, Resting(task.next)) /\ UNCHANGED <<registry, receivers, links, sessions, streams>>
    BY <1>1, <1>9 DEF AllClosed, In, Task
  <2>2. /\ Resting(task.next) \in Task /\ Resting(task.next).at = task.next
        /\ Resting(task.next).left = {}
    BY <2>1, RestingSound
  <2> QED
    BY <1>1, <1>2, <1>4, <2>1, <2>2
<1> QED
  BY <1>5, <1>6, <1>7, <1>8, <1>9 DEF Closing

\* The worker of a session.
LEMMA WorkersKeep ==
  ASSUME ReceiverInv, NEW s \in Session, WorkerFeeds(s) \/ WorkerEnds(s)
  PROVE  ReceiverInv'
<1>1. ReceiverTypeOK /\ sessions[s] \in SessionState
  BY ReceiverTypes DEF ReceiverInv
<1>2. /\ sessions[s].worker /\ sessions[s].at \in {"open", "closing"} /\ sessions[s].user \in Speaker
  BY DEF WorkerFeeds, WorkerEnds, ReceiverInv, SessionsSound
<1>3. CASE WorkerFeeds(s)
  <2>1. /\ streams' = streams \cup {sessions[s].user}
        /\ UNCHANGED <<registry, receivers, links, sessions, tasks>>
    BY <1>3 DEF WorkerFeeds
  <2>2. ReceiverTypeOK' /\ NoStreamLeaks'
    BY <1>1, <1>2, <2>1 DEF ReceiverTypeOK, ReceiverInv, NoStreamLeaks
  <2> QED
    BY <2>1, <2>2
    DEF ReceiverInv, TasksSound, TaskSound, SessionsSound, LinksSound, SessionHasOwner
<1>4. CASE WorkerEnds(s)
  <2> DEFINE new == [sessions[s] EXCEPT !.worker = FALSE]
  <2>1. /\ new \in SessionState /\ new.at = sessions[s].at /\ ~ new.worker
        /\ new.of = sessions[s].of /\ new.user = sessions[s].user
    BY <1>1 DEF SessionState
  <2>2. /\ sessions' = [sessions EXCEPT ![s] = new]
        /\ UNCHANGED <<registry, receivers, links, streams, tasks>>
    BY <1>4 DEF WorkerEnds
  <2> HIDE DEF new
  <2>3. /\ sessions' \in [Session -> SessionState]
        /\ \A b \in Session : /\ sessions'[b].at = sessions[b].at /\ sessions'[b].of = sessions[b].of
                              /\ sessions'[b].user = sessions[b].user
                              /\ sessions'[b].worker => sessions[b].worker
    BY <1>1, <2>1, <2>2, ReceiverTypes
  <2>4. ReceiverTypeOK' /\ SessionsSound' /\ LinksSound' /\ NoStreamLeaks'
    BY <1>1, <2>2, <2>3 DEF ReceiverTypeOK, ReceiverInv, SessionsSound, LinksSound, NoStreamLeaks
  <2>5. TasksSound'
    BY <2>2, <2>3 DEF ReceiverInv, TasksSound, TaskSound
  <2>6. SessionHasOwner'
    BY <2>2, <2>3 DEF ReceiverInv, SessionHasOwner
  <2> QED
    BY <2>4, <2>5, <2>6 DEF ReceiverInv
<1> QED
  BY <1>3, <1>4

\* A goroutine of the guild, of the connection or of a session takes a step.
LEMMA ReceiverStep == ReceiverInv /\ [ReceiverNext]_receiverVars => ReceiverInv'
<1> SUFFICES ASSUME ReceiverInv, [ReceiverNext]_receiverVars
             PROVE  ReceiverInv'
  OBVIOUS
<1>1. CASE UNCHANGED receiverVars
  BY <1>1
  DEF receiverVars, ReceiverInv, ReceiverTypeOK, TasksSound, TaskSound, SessionsSound, LinksSound,
      SessionHasOwner, NoStreamLeaks
<1>2. ASSUME NEW r \in Receiver, Cleanup(r)
      PROVE  ReceiverInv'
  <2> DEFINE t == [Resting("deregister") EXCEPT !.next = "done"]
  <2>1. "guild" \in Goroutine /\ TaskSound(r, "guild", tasks[r]["guild"])
    BY DEF ReceiverInv, TasksSound, Goroutine
  <2>2. tasks[r]["guild"].left = {} /\ registry \in Receiver \cup {NoReceiver}
    BY <1>2, <2>1 DEF Cleanup, In, TaskSound, ReceiverInv, ReceiverTypeOK
  <2>3. t \in Task /\ t.at = "deregister" /\ t.left = {}
    BY RestingSound DEF Resting, Task, NoSession
  <2>4. Turns(r, "guild", t) /\ UNCHANGED <<registry, receivers, links, sessions, streams>>
    BY <1>2 DEF Cleanup
  <2> HIDE DEF t
  <2>5. TaskSound(r, "guild", t)
    BY <2>3 DEF TaskSound
  <2> QED
    BY <2>1, <2>2, <2>3, <2>4, <2>5, TaskMoves
<1> QED
  BY <1>1, <1>2, AttachKeeps, GatewayMessagesKeep, FramesKeep, ClosingKeeps, WorkersKeep
  DEF ReceiverNext

-----------------------------------------------------------------------------
(* The transcriber *)

\* The words of h from one behind the first bound to the second.
Stretch(h, a, b) == SubSeq(h, a + 1, b)

\* Stretches of a text: their types, the empty one, the whole, two that meet, and that what
\* is said later does not change them.
LEMMA StretchFacts ==
  ASSUME NEW h \in Text, NEW a \in 0 .. Len(h), NEW b \in a .. Len(h)
  PROVE  /\ Stretch(h, a, b) \in Text
         /\ Stretch(h, a, a) = <<>>
         /\ Stretch(h, 0, Len(h)) = h
         /\ Stretch(h, a, b) = <<>> => a = b
<1>1. \A i \in a + 1 .. b : h[i] \in Word
  BY ElementOfSeq DEF Text
<1>2. Stretch(h, a, b) \in Text
  BY <1>1, SubSeqProperties DEF Stretch, Text
<1>3. Stretch(h, a, a) = <<>>
  BY SubSeqEmpty DEF Stretch
<1>4. SubSeq(h, 1, Len(h)) = h
  BY SubSeqFull DEF Text
<1>5. a < b => Len(Stretch(h, a, b)) = b - a
  BY <1>1, SubSeqProperties DEF Stretch
<1>6. Len(<<>>) = 0 /\ Len(h) \in Nat
  BY LenProperties, EmptySeq DEF Text
<1>7. Stretch(h, a, b) = <<>> => a = b
  BY <1>5, <1>6
<1> QED
  BY <1>2, <1>3, <1>4, <1>7 DEF Stretch

\* Two stretches that meet.
LEMMA StretchesMeet ==
  ASSUME NEW h \in Text, NEW a \in 0 .. Len(h), NEW b \in a .. Len(h), NEW c \in b .. Len(h)
  PROVE  Stretch(h, a, b) \o Stretch(h, b, c) = Stretch(h, a, c)
<1>1. a + 1 \in 1 .. Len(h) + 1 /\ b \in (a + 1) - 1 .. Len(h)
  BY LenProperties DEF Text
<1> QED
  BY <1>1, ConcatAdjacentSubSeq DEF Stretch, Text

\* What is said later leaves the stretches before it as they are.
LEMMA StretchesStay ==
  ASSUME NEW h \in Text, NEW more \in Text, NEW a \in 0 .. Len(h), NEW b \in a .. Len(h)
  PROVE  /\ h \o more \in Text /\ Len(h \o more) = Len(h) + Len(more)
         /\ Stretch(h \o more, a, b) = Stretch(h, a, b)
<1>1. h \o more \in Text /\ Len(h \o more) = Len(h) + Len(more)
  BY ConcatProperties DEF Text
<1>2. Len(h) \in Nat /\ Len(more) \in Nat
  BY LenProperties DEF Text
<1>3. CASE a = b
  <2>1. a + 1 \in Int /\ b \in Int /\ b < a + 1
    BY <1>2, <1>3
  <2>2. SubSeq(h, a + 1, b) = <<>> /\ SubSeq(h \o more, a + 1, b) = <<>>
    BY <2>1, SubSeqEmpty
  <2> QED
    BY <1>1, <2>2 DEF Stretch
<1>4. CASE a < b
  <2>1. a + 1 \in 1 .. Len(h) /\ b \in 1 .. Len(h)
    BY <1>2, <1>4
  <2> QED
    BY <2>1, SubSeqOfConcat1 DEF Stretch, Text
<1> QED
  BY <1>1, <1>2, <1>3, <1>4

-----------------------------------------------------------------------------
\* What the transcript holds, in three stretches: of the final text, of the present
\* utterance, and of what may still change.
Split(e, c) ==
  /\ e \in 0 .. Len(heard) /\ c \in e .. Len(heard) /\ upto \in c .. Len(heard)
  /\ ~dropped => /\ text = Stretch(heard, 0, e)
                 /\ utterance = Stretch(heard, e, c)
                 /\ interim = Stretch(heard, c, upto)

\* What a message tells, of which the transcript holds the words before.
Brings(e, c, m) ==
  /\ m.upto = told /\ upto <= told
  /\ m.kind \in {"created", "interim"} => e = ended /\ c = chunked
  /\ m.kind = "created" => upto = told
  /\ m.kind = "interim" => m.text = Stretch(heard, c, told)
  /\ m.kind = "chunk" => e = ended /\ chunked = told /\ m.text = Stretch(heard, c, told)
  /\ m.kind = "speech" => /\ ended = told /\ chunked = told
                          /\ \/ m.text = Stretch(heard, e, told)
                             \/ m.text = <<>> /\ upto = told
  /\ m.kind = "done" => /\ asked /\ pcmBuf = <<>> /\ told = Len(heard)
                        /\ m.text = heard \/ (m.text = <<>> /\ upto = told)

\* The transcript and the message that waits for it are what the service has told, and
\* when the loop has been told the end, that is all there is.
Absorbed ==
  /\ loop \in {"none", "reading", "failed"} => upto = told /\ Split(ended, chunked)
  /\ loop = "absorbing" =>
       /\ Len(reading) = 1
       /\ \E e \in 0 .. MaxWords, c \in 0 .. MaxWords : Split(e, c) /\ Brings(e, c, Head(reading))
  /\ loop # "absorbing" => reading = <<>>
  /\ loop = "told" => /\ asked /\ pcmBuf = <<>> /\ upto = Len(heard)
                      /\ ~dropped => Best = heard

\* What is said has been heard or is kept, and nothing is kept once the end was asked for.
SoundKept ==
  /\ said = heard \o pcmBuf /\ Len(said) <= MaxWords
  /\ asked /\ conn = "open" => pcmBuf = <<>>

\* Nothing happens before the service has said that it is ready.
NotBegun ==
  /\ opener = "idle" => conn = "none" /\ loop = "none"
  /\ ~ ready => opener # "returned"
  /\ opener # "returned" => heard = <<>> /\ pcmBuf = <<>> /\ finalizer = [f \in Finalizer |-> "none"]

\* While nobody has given up, only the end of the loop ends a Finalize.
WaitedFor == loop \in {"told", "failed"} \/ opener = "failed" \/ finalizer["owner"] = "aborted"
ResultTaken ==
  /\ ~gaveUp /\ done => WaitedFor
  /\ ~gaveUp => \A f \in Finalizer :
       /\ finalizer[f] \in {"closing", "closed"} => WaitedFor
       /\ f = "owner" /\ finalizer[f] = "over" => WaitedFor
  /\ ~gaveUp /\ finalizer["owner"] = "over" /\ loop = "told" => result = Best

TranscriberInv ==
  /\ TranscriberTypeOK /\ FailedIsClosed
  /\ Absorbed /\ SoundKept /\ NotBegun /\ ResultTaken

\* At first nothing is said and nothing told.
LEMMA TranscriberInitially == TranscriberInit => TranscriberInv
<1> SUFFICES ASSUME TranscriberInit PROVE TranscriberInv
  OBVIOUS
<1>1. <<>> \in Text /\ Len(<<>>) = 0 /\ <<>> \in Seq(Message) /\ <<>> \o <<>> = <<>>
  BY EmptySeq, ConcatEmptySeq DEF Text
<1>2. Stretch(<<>>, 0, 0) = <<>>
  BY SubSeqEmpty DEF Stretch
<1>3. TranscriberTypeOK
  <2>1. [f \in Finalizer |-> "none"] \in [Finalizer ->
       {"none", "armed", "begun", "waiting", "closing", "closed", "over", "aborted"}]
    OBVIOUS
  <2>2. 0 \in 0 .. MaxWords
    BY TranscriberAssumption
  <2>3. /\ text \in Text /\ utterance \in Text /\ interim \in Text /\ heard \in Text
        /\ said \in Text /\ pcmBuf \in Text /\ result \in Text
        /\ reading \in Seq(Message) /\ Len(reading) <= 1
    BY <1>1 DEF TranscriberInit
  <2>4. upto = 0 /\ ended = 0 /\ chunked = 0 /\ told = 0 /\ Len(heard) = 0
    BY <1>1 DEF TranscriberInit
  <2>5. /\ upto \in 0 .. MaxWords /\ ended \in 0 .. MaxWords /\ chunked \in 0 .. MaxWords
        /\ told \in 0 .. MaxWords /\ ended <= chunked /\ chunked <= told /\ told <= Len(heard)
    BY <2>2, <2>4
  <2>6. finalizer \in [Finalizer ->
       {"none", "armed", "begun", "waiting", "closing", "closed", "over", "aborted"}]
    BY <2>1 DEF TranscriberInit
  <2>7. /\ opener = "idle" /\ conn = "none" /\ ready = FALSE /\ done = FALSE /\ loop = "none"
        /\ asked = FALSE /\ gaveUp = FALSE /\ dropped = FALSE
    BY DEF TranscriberInit
  <2>8. /\ opener \in {"idle", "waiting", "returned", "failed"}
        /\ conn \in {"none", "open", "closed"} /\ ready \in BOOLEAN
        /\ done = (conn = "closed" \/ loop \in {"told", "failed"})
        /\ loop \in {"none", "reading", "absorbing", "told", "failed"}
        /\ asked \in BOOLEAN /\ gaveUp \in BOOLEAN /\ dropped \in BOOLEAN
    BY <2>7
  <2> QED
    BY <2>3, <2>5, <2>6, <2>8 DEF TranscriberTypeOK
<1>4. Absorbed
  BY <1>1, <1>2 DEF TranscriberInit, Absorbed, Split
<1>5. SoundKept /\ NotBegun /\ FailedIsClosed
  BY <1>1, TranscriberAssumption DEF TranscriberInit, SoundKept, NotBegun, FailedIsClosed
<1>6. ResultTaken
  BY DEF TranscriberInit, ResultTaken, Finalizer
<1> QED
  BY <1>3, <1>4, <1>5, <1>6 DEF TranscriberInv

\* What it says of the result and of the transcript.
LEMMA TranscriptFollows ==
  ASSUME TranscriberInv
  PROVE  TranscriptTrue /\ ResultIsWhole /\ FailedIsClosed
<1>1. heard \in Text /\ pcmBuf \in Text /\ text \in Text /\ loop \in {"none", "reading", "absorbing", "told", "failed"}
  BY DEF TranscriberInv, TranscriberTypeOK
<1>2. ASSUME NEW e, NEW c, Split(e, c), ~dropped
      PROVE  Best = SubSeq(heard, 1, upto)
  <2>1. e \in 0 .. Len(heard) /\ c \in e .. Len(heard) /\ upto \in c .. Len(heard) /\ Len(heard) \in Nat
    BY <1>1, <1>2, LenProperties DEF Split, Text
  <2>2. 0 \in 0 .. Len(heard) /\ c \in 0 .. Len(heard) /\ e \in 0 .. Len(heard)
    BY <2>1
  <2>3. Stretch(heard, 0, e) \o Stretch(heard, e, c) = Stretch(heard, 0, c)
    BY <1>1, <2>1, <2>2, StretchesMeet
  <2>4. Stretch(heard, 0, c) \o Stretch(heard, c, upto) = Stretch(heard, 0, upto)
    BY <1>1, <2>1, <2>2, StretchesMeet
  <2>5. Best = Stretch(heard, 0, upto)
    <3>1. /\ text = Stretch(heard, 0, e) /\ utterance = Stretch(heard, e, c)
          /\ interim = Stretch(heard, c, upto)
      BY <1>2 DEF Split
    <3> QED
      BY <2>3, <2>4, <3>1, Zenon DEF Best
  <2>6. Stretch(heard, 0, upto) = SubSeq(heard, 1, upto)
    BY DEF Stretch
  <2> QED
    BY <2>5, <2>6, Zenon
<1>3. TranscriptTrue
  <2> SUFFICES ASSUME ~dropped PROVE Best = SubSeq(heard, 1, upto)
    BY DEF TranscriptTrue
  <2>1. CASE loop = "told"
    BY <1>1, <2>1, SubSeqFull DEF TranscriberInv, Absorbed, Text
  <2> QED
    BY <1>1, <1>2, <2>1 DEF TranscriberInv, Absorbed
<1>4. ResultIsWhole
  <2>1. heard \o <<>> = heard
    BY <1>1, ConcatEmptySeq DEF Text
  <2> QED
    BY <2>1 DEF TranscriberInv, ResultTaken, Absorbed, SoundKept, ResultIsWhole
<1> QED
  BY <1>3, <1>4 DEF TranscriberInv

-----------------------------------------------------------------------------
(* The calls                                                               *)

\* The types, one by one.
LEMMA TranscriberTypes ==
  ASSUME TranscriberTypeOK
  PROVE  /\ heard \in Text /\ said \in Text /\ pcmBuf \in Text /\ result \in Text
         /\ text \in Text /\ utterance \in Text /\ interim \in Text
         /\ upto \in 0 .. MaxWords /\ ended \in 0 .. MaxWords /\ chunked \in 0 .. MaxWords
         /\ told \in 0 .. MaxWords /\ ended <= chunked /\ chunked <= told /\ told <= Len(heard)
         /\ reading \in Seq(Message) /\ Len(reading) <= 1
         /\ finalizer \in [Finalizer ->
              {"none", "armed", "begun", "waiting", "closing", "closed", "over", "aborted"}]
         /\ Len(heard) \in Nat /\ Len(pcmBuf) \in Nat
         /\ "owner" \in Finalizer /\ "timeout" \in Finalizer
<1>1. /\ heard \in Text /\ pcmBuf \in Text
  BY DEF TranscriberTypeOK
<1> QED
  BY <1>1, LenProperties DEF TranscriberTypeOK, Text, Finalizer

\* Sound that reaches the service, if the end was not asked for, changes nothing that it
\* has told.
LEMMA AbsorbedStays ==
  ASSUME TranscriberInv, NEW more \in Text, heard' = heard \o more,
         UNCHANGED <<transcript, ended, chunked, told, reading, loop>>,
         asked => UNCHANGED <<heard, pcmBuf, asked>>
  PROVE  Absorbed'
<1>1. TranscriberTypeOK
  BY DEF TranscriberInv
<1>2. /\ UNCHANGED <<text, utterance, interim, upto, dropped, ended, chunked, told, reading, loop>>
      /\ heard \in Text /\ Len(heard) \in Nat /\ Len(more) \in Nat
      /\ Len(heard') = Len(heard) + Len(more)
  BY <1>1, TranscriberTypes, StretchesStay, LenProperties DEF transcript, Text
<1>3. ASSUME NEW a \in 0 .. Len(heard), NEW b \in a .. Len(heard)
      PROVE  Stretch(heard', a, b) = Stretch(heard, a, b)
  BY <1>2, <1>3, StretchesStay
<1>4. ASSUME NEW e, NEW c, Split(e, c)
      PROVE  Split(e, c)'
  <2>1. e \in 0 .. Len(heard) /\ c \in e .. Len(heard) /\ upto \in c .. Len(heard)
    BY <1>4 DEF Split
  <2>2. /\ 0 \in 0 .. Len(heard) /\ e \in 0 .. Len(heard) /\ c \in 0 .. Len(heard)
        /\ e \in 0 .. Len(heard') /\ c \in e .. Len(heard') /\ upto \in c .. Len(heard')
    BY <1>2, <2>1
  <2>3. /\ Stretch(heard', 0, e) = Stretch(heard, 0, e) /\ Stretch(heard', e, c) = Stretch(heard, e, c)
        /\ Stretch(heard', c, upto) = Stretch(heard, c, upto)
    BY <1>3, <2>1, <2>2
  <2> QED
    BY <1>2, <1>4, <2>2, <2>3 DEF Split
<1>5. ASSUME NEW e, NEW c, NEW m, Split(e, c), Brings(e, c, m)
      PROVE  /\ m.upto = told' /\ upto' <= told'
             /\ m.kind \in {"created", "interim"} => e = ended' /\ c = chunked'
             /\ m.kind = "created" => upto' = told'
             /\ m.kind = "interim" => m.text = Stretch(heard', c, told')
             /\ m.kind = "chunk" => e = ended' /\ chunked' = told' /\ m.text = Stretch(heard', c, told')
             /\ m.kind = "speech" => /\ ended' = told' /\ chunked' = told'
                                     /\ \/ m.text = Stretch(heard', e, told')
                                        \/ m.text = <<>> /\ upto' = told'
             /\ m.kind = "done" => /\ asked' /\ pcmBuf' = <<>> /\ told' = Len(heard')
                                   /\ m.text = heard' \/ (m.text = <<>> /\ upto' = told')
  <2>1. /\ e \in 0 .. Len(heard) /\ c \in 0 .. Len(heard)
        /\ told \in e .. Len(heard) /\ told \in c .. Len(heard)
    BY <1>1, <1>2, <1>5, TranscriberTypes DEF Split, Brings
  <2>2. Stretch(heard', c, told) = Stretch(heard, c, told) /\ Stretch(heard', e, told) = Stretch(heard, e, told)
    BY <1>3, <2>1
  <2>3. m.kind = "done" => UNCHANGED <<heard, pcmBuf, asked>>
    BY <1>5 DEF Brings
  <2> QED
    BY <1>2, <1>5, <2>2, <2>3 DEF Brings
<1>6. ASSUME loop = "absorbing"
      PROVE  \E e \in 0 .. MaxWords, c \in 0 .. MaxWords : Split(e, c)' /\ Brings(e, c, Head(reading))'
  <2>1. PICK e \in 0 .. MaxWords, c \in 0 .. MaxWords : Split(e, c) /\ Brings(e, c, Head(reading))
    BY <1>6 DEF TranscriberInv, Absorbed
  <2>2. Split(e, c)'
    BY <1>4, <2>1
  <2>3. Brings(e, c, Head(reading))'
    <3>1. reading' = reading
      BY <1>2
    <3> DEFINE m == Head(reading)
    <3>2. /\ m.upto = told' /\ upto' <= told'
          /\ m.kind \in {"created", "interim"} => e = ended' /\ c = chunked'
          /\ m.kind = "created" => upto' = told'
          /\ m.kind = "interim" => m.text = Stretch(heard', c, told')
          /\ m.kind = "chunk" => e = ended' /\ chunked' = told' /\ m.text = Stretch(heard', c, told')
          /\ m.kind = "speech" => /\ ended' = told' /\ chunked' = told'
                                  /\ \/ m.text = Stretch(heard', e, told')
                                     \/ m.text = <<>> /\ upto' = told'
          /\ m.kind = "done" => /\ asked' /\ pcmBuf' = <<>> /\ told' = Len(heard')
                                /\ m.text = heard' \/ (m.text = <<>> /\ upto' = told')
      BY <1>5, <2>1
    <3> QED
      BY <3>1, <3>2, Zenon DEF Brings
  <2> QED
    BY <2>2, <2>3
<1>7. loop \in {"none", "reading", "failed"} => upto' = told' /\ Split(ended, chunked)'
  BY <1>2, <1>4 DEF TranscriberInv, Absorbed
<1>8. loop = "told" => /\ asked' /\ pcmBuf' = <<>> /\ upto' = Len(heard')
                       /\ ~dropped' => Best' = heard'
  BY <1>2 DEF TranscriberInv, Absorbed, Best
<1> QED
  BY <1>2, <1>6, <1>7, <1>8 DEF TranscriberInv, Absorbed

\* A step that touches no sound and no message.
LEMMA SoundRests ==
  ASSUME TranscriberInv, conn' = "open" => conn = "open" \/ ~asked,
         UNCHANGED <<heard, said, pcmBuf, asked, reading, loop, transcript, ended, chunked, told>>
  PROVE  /\ Absorbed' /\ SoundKept'
         /\ UNCHANGED <<heard, said, pcmBuf, asked, reading, loop, ended, chunked, told>>
         /\ UNCHANGED <<text, utterance, interim, upto, dropped>> /\ Best' = Best
<1>1. /\ UNCHANGED <<heard, said, pcmBuf, asked, reading, loop, ended, chunked, told>>
      /\ UNCHANGED <<text, utterance, interim, upto, dropped>>
  BY DEF transcript
<1>2. <<>> \in Text /\ heard' = heard \o <<>>
  BY <1>1, EmptySeq, ConcatEmptySeq, TranscriberTypes DEF TranscriberInv, Text
<1>3. Absorbed'
  BY <1>1, <1>2, AbsorbedStays
<1>4. SoundKept'
  BY <1>1 DEF TranscriberInv, SoundKept
<1> QED
  BY <1>1, <1>3, <1>4 DEF Best

\* Of an opener.
LEMMA OpenerKeeps ==
  ASSUME TranscriberInv, OpenReturns \/ OpenGivesUp
  PROVE  TranscriberInv'
<1>1. /\ TranscriberTypeOK /\ NotBegun /\ ResultTaken /\ FailedIsClosed /\ SoundKept
  BY DEF TranscriberInv
<1>2. /\ UNCHANGED <<heard, said, pcmBuf, asked, reading, loop, transcript, ended, chunked, told>>
      /\ UNCHANGED <<ready, finalizer, gaveUp, result>> /\ opener = "waiting"
  BY DEF OpenReturns, OpenGivesUp, connection, speechVars
<1>3. conn' = "open" => conn = "open"
  BY DEF OpenReturns, OpenGivesUp, Close, connection
<1>4. /\ Absorbed' /\ SoundKept' /\ Best' = Best
      /\ UNCHANGED <<heard, said, pcmBuf, asked, reading, loop, ended, chunked, told>>
      /\ UNCHANGED <<text, utterance, interim, upto, dropped>>
  BY <1>2, <1>3, SoundRests
<1>5. /\ heard = <<>> /\ pcmBuf = <<>> /\ finalizer = [f \in Finalizer |-> "none"]
  BY <1>1, <1>2 DEF NotBegun
<1>6. CASE OpenReturns
  <2>1. ready /\ opener' = "returned" /\ UNCHANGED <<conn, done>>
    BY <1>6 DEF OpenReturns, connection
  <2>2. TranscriberTypeOK' /\ FailedIsClosed' /\ NotBegun'
    BY <1>1, <1>2, <1>4, <2>1 DEF TranscriberTypeOK, FailedIsClosed, NotBegun
  <2>3. ResultTaken'
    BY <1>1, <1>2, <1>4, <1>5, <2>1 DEF ResultTaken, WaitedFor, Finalizer
  <2> QED
    BY <1>4, <2>2, <2>3 DEF TranscriberInv
<1>7. CASE OpenGivesUp
  <2>1. opener' = "failed" /\ conn' = "closed" /\ done' = TRUE
    BY <1>7 DEF OpenGivesUp, Close
  <2>2. TranscriberTypeOK' /\ FailedIsClosed' /\ NotBegun'
    BY <1>1, <1>2, <1>4, <1>5, <2>1 DEF TranscriberTypeOK, FailedIsClosed, NotBegun
  <2>3. ResultTaken'
    BY <1>2, <1>5, <2>1 DEF ResultTaken, WaitedFor, Finalizer
  <2> QED
    BY <1>4, <2>2, <2>3 DEF TranscriberInv
<1> QED
  BY <1>6, <1>7

\* A call of Finalize, or the hard timeout, goes from one place to the next.
Moves(f, to) ==
  /\ finalizer' = [finalizer EXCEPT ![f] = to] /\ opener = "returned"
  /\ UNCHANGED <<heard, said, pcmBuf, asked, reading, loop, transcript, ended, chunked, told>>
  /\ UNCHANGED <<opener, ready>>

\* A goroutine that finalizes goes on.
LEMMA FinalizerMoves ==
  ASSUME TranscriberInv, NEW f \in Finalizer,
         NEW to \in {"begun", "waiting", "closing", "closed", "over", "aborted"}, Moves(f, to),
         finalizer[f] \notin {"over", "aborted"}, to = "aborted" => f = "owner",
         gaveUp' \in {gaveUp, TRUE},
         \/ UNCHANGED <<conn, done>>
         \/ /\ conn' = "closed" /\ done' = TRUE
            /\ finalizer[f] = "closing" \/ to = "aborted",
         to = "closing" => gaveUp' \/ done,
         to = "closed" => finalizer[f] = "closing",
         to = "over" /\ f = "owner" => finalizer[f] = "closed" /\ result' = Best,
         to # "over" \/ f # "owner" => UNCHANGED result,
         result' \in Text
  PROVE  TranscriberInv'
<1>1. /\ TranscriberTypeOK /\ NotBegun /\ ResultTaken /\ FailedIsClosed /\ SoundKept
  BY DEF TranscriberInv
<1>2. conn' = "open" => conn = "open"
  OBVIOUS
<1>3. /\ Absorbed' /\ SoundKept' /\ Best' = Best
      /\ UNCHANGED <<heard, said, pcmBuf, asked, reading, loop, ended, chunked, told>>
      /\ UNCHANGED <<text, utterance, interim, upto, dropped>>
      /\ UNCHANGED <<opener, ready>> /\ opener = "returned"
  BY <1>2, SoundRests DEF Moves
<1>4. /\ finalizer' \in [Finalizer ->
            {"none", "armed", "begun", "waiting", "closing", "closed", "over", "aborted"}]
      /\ finalizer'[f] = to /\ \A g \in Finalizer : g # f => finalizer'[g] = finalizer[g]
  BY <1>1 DEF Moves, TranscriberTypeOK
<1>5. TranscriberTypeOK'
  <2>1. gaveUp' \in BOOLEAN
    BY <1>1 DEF TranscriberTypeOK
  <2>2. /\ conn' \in {"none", "open", "closed"}
        /\ done' = (conn' = "closed" \/ loop' \in {"told", "failed"})
    BY <1>1, <1>3 DEF TranscriberTypeOK
  <2> QED
    BY <1>1, <1>3, <1>4, <2>1, <2>2 DEF TranscriberTypeOK
<1>6. FailedIsClosed' /\ NotBegun'
  BY <1>1, <1>3 DEF FailedIsClosed, NotBegun
<1>7. WaitedFor => WaitedFor'
  BY <1>1, <1>3, <1>4 DEF WaitedFor, Finalizer
<1>8. ResultTaken'
  <2> SUFFICES ASSUME ~ gaveUp'
               PROVE  ResultTaken'
    BY DEF ResultTaken
  <2>1. ~ gaveUp
    BY <1>1 DEF TranscriberTypeOK
  <2>2. finalizer[f] \in {"closing", "closed"} => WaitedFor
    BY <1>1, <2>1 DEF ResultTaken
  <2>3. done => WaitedFor
    BY <1>1, <2>1 DEF ResultTaken
  <2>4. to = "aborted" => WaitedFor'
    BY <1>4 DEF WaitedFor
  <2>5. done' => WaitedFor'
    BY <1>7, <2>2, <2>3, <2>4
  <2>6. \A g \in Finalizer :
          /\ finalizer'[g] \in {"closing", "closed"} => WaitedFor'
          /\ g = "owner" /\ finalizer'[g] = "over" => WaitedFor'
    BY <1>1, <1>4, <1>7, <2>1, <2>2, <2>3 DEF ResultTaken
  <2>7. finalizer'["owner"] = "over" /\ loop' = "told" => result' = Best'
    BY <1>1, <1>3, <1>4, <2>1 DEF ResultTaken, Finalizer
  <2> QED
    BY <2>5, <2>6, <2>7 DEF ResultTaken
<1> QED
  BY <1>3, <1>5, <1>6, <1>8 DEF TranscriberInv

\* The calls that write nothing.
LEMMA FinalizersKeep ==
  ASSUME TranscriberInv,
         \/ Abort \/ Finalize \/ HardTimeout \/ TakeResult
         \/ \E f \in Finalizer : WaitForEnd(f) \/ FinalizeCloses(f)
  PROVE  TranscriberInv'
<1>1. /\ TranscriberTypeOK /\ NotBegun /\ "owner" \in Finalizer /\ "timeout" \in Finalizer
      /\ result \in Text /\ text \in Text /\ utterance \in Text /\ interim \in Text
  BY TranscriberTypes DEF TranscriberInv
<1>2. Best \in Text
  <2>1. text \o utterance \in Text
    BY <1>1, ConcatProperties DEF Text
  <2> QED
    BY <1>1, <2>1, ConcatProperties DEF Best, Text
<1>3. ASSUME NEW f \in Finalizer, finalizer[f] # "none"
      PROVE  opener = "returned"
  BY <1>1, <1>3 DEF NotBegun
<1>4. CASE Abort
  <2>1. /\ Moves("owner", "aborted") /\ conn' = "closed" /\ done' = TRUE
        /\ finalizer["owner"] = "none" /\ UNCHANGED <<gaveUp, result>>
    BY <1>4 DEF Abort, Using, Close, Moves, speechVars
  <2> QED
    BY <1>1, <2>1, FinalizerMoves
<1>5. CASE Finalize
  <2>1. /\ Moves("owner", "begun") /\ UNCHANGED <<conn, done>>
        /\ finalizer["owner"] = "none" /\ UNCHANGED <<gaveUp, result>>
    BY <1>5 DEF Finalize, Using, Moves, speechVars, connection
  <2> QED
    BY <1>1, <2>1, FinalizerMoves
<1>6. CASE HardTimeout
  <2>1. PICK to \in {"over", "begun"} : Moves("timeout", to)
    BY <1>1, <1>3, <1>6 DEF HardTimeout, Moves, speechVars, connection
  <2>2. /\ UNCHANGED <<conn, done>> /\ finalizer["timeout"] = "armed" /\ UNCHANGED <<gaveUp, result>>
    BY <1>6 DEF HardTimeout, connection
  <2> QED
    BY <1>1, <2>1, <2>2, FinalizerMoves
<1>7. CASE TakeResult
  <2>1. /\ Moves("owner", "over") /\ UNCHANGED <<conn, done>>
        /\ finalizer["owner"] = "closed" /\ UNCHANGED gaveUp /\ result' = Best
    BY <1>1, <1>3, <1>7 DEF TakeResult, Moves, speechVars, connection
  <2> QED
    BY <1>1, <1>2, <2>1, FinalizerMoves
<1>8. ASSUME NEW f \in Finalizer, WaitForEnd(f)
      PROVE  TranscriberInv'
  <2>1. /\ Moves(f, "closing") /\ UNCHANGED <<conn, done, result>>
        /\ finalizer[f] = "waiting" /\ gaveUp' \in {gaveUp, TRUE} /\ (done \/ gaveUp')
    BY <1>3, <1>8 DEF WaitForEnd, Moves, speechVars, connection
  <2> QED
    BY <1>1, <2>1, FinalizerMoves
<1>9. ASSUME NEW f \in Finalizer, FinalizeCloses(f)
      PROVE  TranscriberInv'
  <2>1. PICK to \in {"over", "closed"} : Moves(f, to) /\ (f = "owner" <=> to = "closed")
    BY <1>3, <1>9 DEF FinalizeCloses, Moves, speechVars
  <2>2. /\ conn' = "closed" /\ done' = TRUE /\ UNCHANGED <<gaveUp, result>>
        /\ finalizer[f] = "closing"
    BY <1>9 DEF FinalizeCloses, Close
  <2> QED
    BY <1>1, <2>1, <2>2, FinalizerMoves
<1> QED
  BY <1>4, <1>5, <1>6, <1>7, <1>8, <1>9

\* The connection is made, or is not, and the loop that reads it fails.
LEMMA DialKeeps ==
  ASSUME TranscriberInv, Dial
  PROVE  TranscriberInv'
<1>1. /\ TranscriberTypeOK /\ NotBegun /\ ResultTaken /\ FailedIsClosed /\ SoundKept /\ Absorbed
      /\ opener = "idle" /\ conn = "none" /\ loop = "none"
      /\ heard = <<>> /\ pcmBuf = <<>> /\ finalizer = [f \in Finalizer |-> "none"]
  BY DEF TranscriberInv, Dial, NotBegun
<1>2. /\ UNCHANGED <<done, ready, reading, said, pcmBuf, asked, finalizer, gaveUp, result>>
      /\ UNCHANGED <<text, utterance, interim, upto, dropped, heard, ended, chunked, told>>
      /\ \/ opener' = "waiting" /\ conn' = "open" /\ loop' = "reading"
         \/ opener' = "failed" /\ conn' = "none" /\ loop' = "none"
  BY <1>1 DEF Dial, transcript, speechVars
<1>3. TranscriberTypeOK'
  BY <1>1, <1>2 DEF TranscriberTypeOK
<1>4. FailedIsClosed' /\ SoundKept' /\ NotBegun'
  BY <1>1, <1>2 DEF FailedIsClosed, SoundKept, NotBegun
<1>5. Absorbed'
  BY <1>1, <1>2 DEF Absorbed, Split
<1>6. ResultTaken'
  BY <1>1, <1>2 DEF ResultTaken, WaitedFor, TranscriberTypeOK, Finalizer
<1> QED
  BY <1>3, <1>4, <1>5, <1>6 DEF TranscriberInv

\* The connection fails, or the service closes it.
LEMMA ReadFailsKeeps ==
  ASSUME TranscriberInv, ReadFails
  PROVE  TranscriberInv'
<1>1. /\ TranscriberTypeOK /\ NotBegun /\ ResultTaken /\ FailedIsClosed /\ SoundKept /\ Absorbed
  BY DEF TranscriberInv
<1>2. /\ UNCHANGED <<conn, ready, reading, opener, said, pcmBuf, asked, finalizer, gaveUp, result>>
      /\ UNCHANGED <<text, utterance, interim, upto, dropped, heard, ended, chunked, told>>
      /\ loop = "reading" /\ loop' = "failed" /\ done' = TRUE
  BY DEF ReadFails, transcript, speechVars, calls
<1>3. TranscriberTypeOK'
  BY <1>1, <1>2 DEF TranscriberTypeOK
<1>4. FailedIsClosed' /\ SoundKept' /\ NotBegun'
  BY <1>1, <1>2 DEF FailedIsClosed, SoundKept, NotBegun
<1>5. Absorbed'
  BY <1>1, <1>2 DEF Absorbed, Split
<1>6. ResultTaken'
  BY <1>1, <1>2 DEF ResultTaken, WaitedFor
<1> QED
  BY <1>3, <1>4, <1>5, <1>6 DEF TranscriberInv

-----------------------------------------------------------------------------
(* The sound                                                               *)

\* The owner sends a word.
LEMMA SendKeeps ==
  ASSUME TranscriberInv, NEW w \in Word, Send(w)
  PROVE  TranscriberInv'
<1>1. /\ TranscriberTypeOK /\ NotBegun /\ ResultTaken /\ FailedIsClosed /\ SoundKept
      /\ heard \in Text /\ pcmBuf \in Text /\ said \in Text /\ <<w>> \in Text
      /\ Len(heard) \in Nat /\ Len(pcmBuf) \in Nat
      /\ finalizer \in [Finalizer ->
              {"none", "armed", "begun", "waiting", "closing", "closed", "over", "aborted"}]
  BY TranscriberTypes DEF TranscriberInv, Text
<1>2. /\ UNCHANGED <<opener, asked, gaveUp, result, conn, done, ready, loop, reading>>
      /\ UNCHANGED <<text, utterance, interim, upto, dropped, ended, chunked, told>>
      /\ UNCHANGED transcript
      /\ opener = "returned" /\ ~asked /\ Len(said) < MaxWords /\ said' = Append(said, w)
  BY DEF Send, Using, connection, transcript
<1>3. said' = said \o <<w>> /\ said' \in Text /\ Len(said') = Len(said) + 1
  <2>1. Len(<<w>>) = 1
    OBVIOUS
  <2> QED
    BY <1>1, <1>2, <2>1, ConcatProperties, AppendIsConcat DEF Text
<1>4. PICK more \in Text :
        /\ heard' = heard \o more /\ pcmBuf' \in Text /\ said' = heard' \o pcmBuf'
        /\ finalizer' \in [Finalizer ->
              {"none", "armed", "begun", "waiting", "closing", "closed", "over", "aborted"}]
        /\ \A f \in Finalizer :
             finalizer'[f] = finalizer[f] \/ (f = "timeout" /\ finalizer'[f] = "armed")
  <2>1. CASE pcmBuf' = Append(pcmBuf, w) /\ UNCHANGED <<finalizer, heard>>
    <3>1. pcmBuf' = pcmBuf \o <<w>> /\ pcmBuf' \in Text
      BY <1>1, <2>1, ConcatProperties, AppendIsConcat DEF Text
    <3>2. said' = heard \o pcmBuf'
      BY <1>1, <1>3, <3>1, ConcatAssociative DEF SoundKept, Text
    <3>3. heard' = heard \o <<>> /\ <<>> \in Text
      BY <1>1, <2>1, ConcatEmptySeq, EmptySeq DEF Text
    <3> QED
      BY <1>1, <2>1, <3>1, <3>2, <3>3
  <2>2. CASE /\ pcmBuf' = <<>> /\ heard' = heard \o pcmBuf \o <<w>>
             /\ finalizer' = [finalizer EXCEPT !["timeout"] = IF @ = "none" THEN "armed" ELSE @]
    <3>1. pcmBuf \o <<w>> \in Text /\ heard' = heard \o (pcmBuf \o <<w>>)
      BY <1>1, <2>2, ConcatProperties, ConcatAssociative DEF Text
    <3>2. heard' \in Text /\ said' = heard' /\ heard' \o <<>> = heard' /\ <<>> \in Text
      <4>1. heard' \in Text
        BY <1>1, <3>1, ConcatProperties DEF Text
      <4>2. said' = heard'
        BY <1>1, <1>3, <2>2 DEF SoundKept
      <4> QED
        BY <4>1, <4>2, ConcatEmptySeq, EmptySeq DEF Text
    <3>3. finalizer' \in [Finalizer ->
              {"none", "armed", "begun", "waiting", "closing", "closed", "over", "aborted"}]
      BY <1>1, <2>2
    <3>4. \A f \in Finalizer :
             finalizer'[f] = finalizer[f] \/ (f = "timeout" /\ finalizer'[f] = "armed")
      BY <1>1, <2>2
    <3> QED
      BY <2>2, <3>1, <3>2, <3>3, <3>4
  <2> QED
    BY <2>1, <2>2 DEF Send
<1>5. Absorbed'
  <2>1. UNCHANGED <<transcript, ended, chunked, told, reading, loop>>
    BY <1>2
  <2> QED
    BY <1>2, <1>4, <2>1, AbsorbedStays
<1>6. SoundKept' /\ FailedIsClosed' /\ NotBegun'
  <2>1. Len(said') <= MaxWords
    <3>1. Len(said) \in Nat
      BY <1>1, LenProperties DEF Text
    <3> QED
      BY <1>2, <1>3, <3>1, TranscriberAssumption
  <2>2. SoundKept'
    BY <1>2, <1>4, <2>1 DEF SoundKept
  <2>3. FailedIsClosed'
    BY <1>1, <1>2 DEF FailedIsClosed
  <2>4. NotBegun'
    BY <1>1, <1>2 DEF NotBegun
  <2> QED
    BY <2>2, <2>3, <2>4
<1>7. TranscriberTypeOK'
  <2>1. heard' \in Text /\ told <= Len(heard')
    <3>1. heard' \in Text /\ Len(heard') = Len(heard) + Len(more) /\ Len(more) \in Nat
      BY <1>1, <1>4, ConcatProperties, LenProperties DEF Text
    <3> QED
      BY <1>1, <3>1 DEF TranscriberTypeOK
  <2> QED
    BY <1>1, <1>2, <1>3, <1>4, <2>1 DEF TranscriberTypeOK
<1>8. ResultTaken'
  <2>1. "owner" \in Finalizer /\ Best' = Best
    BY <1>2 DEF Finalizer, Best
  <2> QED
    BY <1>1, <1>2, <1>4, <2>1 DEF ResultTaken, WaitedFor
<1> QED
  BY <1>5, <1>6, <1>7, <1>8 DEF TranscriberInv

\* The rest of the sound is sent and the end is asked for.
LEMMA FlushKeeps ==
  ASSUME TranscriberInv, NEW f \in Finalizer, FlushAndAsk(f)
  PROVE  TranscriberInv'
<1>1. /\ TranscriberTypeOK /\ NotBegun /\ ResultTaken /\ FailedIsClosed /\ SoundKept
      /\ heard \in Text /\ pcmBuf \in Text /\ said \in Text
      /\ Len(heard) \in Nat /\ Len(pcmBuf) \in Nat
  BY TranscriberTypes DEF TranscriberInv
<1>2. /\ UNCHANGED <<opener, said, gaveUp, result, conn, done, ready, loop, reading>>
      /\ UNCHANGED <<text, utterance, interim, upto, dropped, ended, chunked, told>>
      /\ UNCHANGED transcript
      /\ finalizer[f] = "begun" /\ finalizer' = [finalizer EXCEPT ![f] = "waiting"] /\ asked' = TRUE
  BY DEF FlushAndAsk, connection, transcript
<1>3. PICK more \in Text :
        /\ heard' = heard \o more /\ heard' \in Text /\ Len(heard') >= Len(heard)
        /\ pcmBuf' \in Text /\ said' = heard' \o pcmBuf'
        /\ asked => UNCHANGED <<heard, pcmBuf, asked>>
        /\ conn = "open" => pcmBuf' = <<>>
  <2>1. CASE ~asked /\ conn = "open"
    <3>1. heard' = heard \o pcmBuf /\ pcmBuf' = <<>>
      BY <2>1 DEF FlushAndAsk
    <3>2. /\ heard' \in Text /\ Len(heard') >= Len(heard) /\ heard' \o <<>> = heard' /\ <<>> \in Text
      BY <1>1, <3>1, ConcatProperties, ConcatEmptySeq, EmptySeq DEF Text
    <3> QED
      BY <1>1, <1>2, <2>1, <3>1, <3>2 DEF SoundKept
  <2>2. CASE ~(~asked /\ conn = "open")
    <3>1. UNCHANGED <<heard, pcmBuf>>
      BY <2>2 DEF FlushAndAsk
    <3>2. heard' = heard \o <<>> /\ <<>> \in Text
      BY <1>1, <3>1, ConcatEmptySeq, EmptySeq DEF Text
    <3>3. asked => asked' = asked
      BY <1>1, <1>2 DEF TranscriberTypeOK
    <3>4. said' = heard' \o pcmBuf' /\ heard' \in Text /\ pcmBuf' \in Text /\ Len(heard') >= Len(heard)
      BY <1>1, <1>2, <3>1 DEF SoundKept
    <3>5. conn = "open" => pcmBuf' = <<>>
      BY <1>1, <2>2, <3>1 DEF SoundKept, TranscriberTypeOK
    <3> QED
      BY <3>1, <3>2, <3>3, <3>4, <3>5
  <2> QED
    BY <2>1, <2>2
<1>4. Absorbed'
  <2>1. UNCHANGED <<transcript, ended, chunked, told, reading, loop>>
    BY <1>2
  <2> QED
    BY <1>3, <2>1, AbsorbedStays
<1>5. SoundKept' /\ FailedIsClosed'
  BY <1>1, <1>2, <1>3 DEF SoundKept, FailedIsClosed
<1>6. NotBegun'
  BY <1>1, <1>2 DEF NotBegun
<1>7. /\ finalizer' \in [Finalizer ->
              {"none", "armed", "begun", "waiting", "closing", "closed", "over", "aborted"}]
      /\ \A g \in Finalizer : finalizer'[g] = finalizer[g] \/ finalizer'[g] = "waiting"
      /\ finalizer'["owner"] = finalizer["owner"] \/ finalizer["owner"] = "begun"
  BY <1>1, <1>2 DEF TranscriberTypeOK, Finalizer
<1>8. TranscriberTypeOK'
  BY <1>1, <1>2, <1>3, <1>7 DEF TranscriberTypeOK
<1>9. ResultTaken'
  <2>1. "owner" \in Finalizer /\ Best' = Best
    BY <1>2 DEF Finalizer, Best
  <2> QED
    BY <1>1, <1>2, <1>7, <2>1 DEF ResultTaken, WaitedFor
<1> QED
  BY <1>4, <1>5, <1>6, <1>8, <1>9 DEF TranscriberInv

-----------------------------------------------------------------------------
(* The messages                                                            *)

\* The service tells something, and the loop reads it.
LEMMA ToldStep ==
  ASSUME TranscriberInv, NEW kind \in {"created", "interim", "chunk", "speech", "done"},
         NEW words \in Text, NEW to \in told .. Len(heard), Tells(kind, words, to),
         ended' \in 0 .. to, chunked' \in ended' .. to,
         kind \in {"created", "interim"} => ended' = ended /\ chunked' = chunked,
         kind = "created" => told = to,
         kind = "interim" => words = Stretch(heard, chunked, to),
         kind = "chunk" => ended' = ended /\ chunked' = to /\ words = Stretch(heard, chunked, to),
         kind = "speech" => /\ ended' = to /\ chunked' = to
                            /\ words = Stretch(heard, ended, to) \/ (words = <<>> /\ told = to),
         kind = "done" => /\ asked /\ to = Len(heard)
                          /\ words = heard \/ (words = <<>> /\ told = to)
  PROVE  TranscriberInv'
<1> DEFINE m == [kind |-> kind, text |-> words, upto |-> to]
<1>1. /\ TranscriberTypeOK /\ NotBegun /\ ResultTaken /\ FailedIsClosed /\ SoundKept /\ Absorbed
      /\ heard \in Text /\ Len(heard) \in Nat /\ MaxWords \in Nat
  BY TranscriberTypes, TranscriberAssumption DEF TranscriberInv
<1>2. Len(heard) <= MaxWords
  <2>1. Len(said) = Len(heard) + Len(pcmBuf) /\ Len(pcmBuf) \in Nat
    BY <1>1, TranscriberTypes, ConcatProperties DEF SoundKept, Text
  <2> QED
    BY <1>1, <2>1 DEF SoundKept
<1>3. /\ UNCHANGED <<conn, done, ready, opener, said, pcmBuf, asked, finalizer, gaveUp, result>>
      /\ UNCHANGED <<text, utterance, interim, upto, dropped, heard>>
      /\ loop = "reading" /\ conn = "open" /\ loop' = "absorbing" /\ reading' = <<m>> /\ told' = to
  BY DEF Tells, transcript, calls
<1>4. /\ ended' \in 0 .. MaxWords /\ chunked' \in 0 .. MaxWords /\ told' \in 0 .. MaxWords
      /\ ended' <= chunked' /\ chunked' <= told' /\ told' <= Len(heard') /\ to \in 0 .. MaxWords
  BY <1>1, <1>2, <1>3, TranscriberTypes
<1>5. /\ m \in Message /\ m.kind = kind /\ m.text = words /\ m.upto = to
      /\ reading' \in Seq(Message) /\ Len(reading') = 1 /\ Head(reading') = m
  <2>1. m \in Message /\ m.kind = kind /\ m.text = words /\ m.upto = to
    BY <1>4 DEF Message
  <2> HIDE DEF m
  <2> QED
    BY <1>3, <2>1
<1> HIDE DEF m
<1>6. TranscriberTypeOK'
  <2>1. done' = (conn' = "closed" \/ loop' \in {"told", "failed"})
    BY <1>1, <1>3 DEF TranscriberTypeOK
  <2> QED
    BY <1>1, <1>3, <1>4, <1>5, <2>1 DEF TranscriberTypeOK
<1>7. FailedIsClosed' /\ SoundKept' /\ NotBegun'
  BY <1>1, <1>3 DEF FailedIsClosed, SoundKept, NotBegun
<1>8. ResultTaken'
  BY <1>1, <1>3 DEF ResultTaken, WaitedFor
<1>9. upto = told /\ Split(ended, chunked)
  BY <1>1, <1>3 DEF Absorbed
<1>10. /\ m.upto = told' /\ upto' <= told'
       /\ m.kind \in {"created", "interim"} => ended = ended' /\ chunked = chunked'
       /\ m.kind = "created" => upto' = told'
       /\ m.kind = "interim" => m.text = Stretch(heard', chunked, told')
       /\ m.kind = "chunk" => ended = ended' /\ chunked' = told' /\ m.text = Stretch(heard', chunked, told')
       /\ m.kind = "speech" => /\ ended' = told' /\ chunked' = told'
                               /\ \/ m.text = Stretch(heard', ended, told')
                                  \/ m.text = <<>> /\ upto' = told'
       /\ m.kind = "done" => /\ asked' /\ pcmBuf' = <<>> /\ told' = Len(heard')
                             /\ m.text = heard' \/ (m.text = <<>> /\ upto' = told')
  BY <1>1, <1>3, <1>4, <1>5, <1>9 DEF SoundKept
<1>11. Absorbed'
  <2> SUFFICES \E e \in 0 .. MaxWords, c \in 0 .. MaxWords : Split(e, c)' /\ Brings(e, c, Head(reading))'
    BY <1>3, <1>5 DEF Absorbed
  <2>1. PICK e \in 0 .. MaxWords, c \in 0 .. MaxWords : e = ended /\ c = chunked
    BY <1>1, TranscriberTypes
  <2>2. Split(e, c)'
    BY <1>3, <1>9, <2>1 DEF Split
  <2>3. Brings(e, c, Head(reading))'
    BY <1>5, <1>10, <2>1 DEF Brings
  <2> QED
    BY <2>2, <2>3
<1> QED
  BY <1>6, <1>7, <1>8, <1>11 DEF TranscriberInv

\* The service tells what it has heard.
LEMMA TellsKeep ==
  ASSUME TranscriberInv,
         \/ TellsCreated \/ TellsDone
         \/ \E to \in told .. Len(heard) : TellsInterim(to) \/ TellsChunk(to) \/ TellsSpeech(to)
  PROVE  TranscriberInv'
<1>1. /\ TranscriberTypeOK /\ NotBegun /\ heard \in Text /\ Len(heard) \in Nat /\ <<>> \in Text
      /\ ended \in Nat /\ chunked \in Nat /\ told \in Nat
      /\ ended <= chunked /\ chunked <= told /\ told <= Len(heard)
  BY TranscriberTypes, TranscriberAssumption, EmptySeq DEF TranscriberInv, Text
<1>2. \A a \in 0 .. Len(heard) : \A b \in a .. Len(heard) :
        Words(a, b) = Stretch(heard, a, b) /\ Words(a, b) \in Text
  BY <1>1, StretchFacts DEF Words, Stretch
<1>3. CASE TellsCreated
  <2>1. ~ ready /\ Tells("created", <<>>, 0) /\ UNCHANGED <<ended, chunked>>
    BY <1>3 DEF TellsCreated
  <2>2. heard = <<>> /\ Len(<<>>) = 0
    BY <1>1, <2>1, EmptySeq DEF NotBegun
  <2>3. told = 0 /\ ended = 0 /\ chunked = 0
    BY <1>1, <2>2
  <2>4. 0 \in told .. Len(heard) /\ ended' \in 0 .. 0 /\ chunked' \in ended' .. 0
    BY <1>1, <2>1, <2>2, <2>3
  <2> QED
    BY <1>1, <2>1, <2>3, <2>4, ToldStep
<1>4. CASE TellsDone
  <2>1. asked /\ UNCHANGED <<ended, chunked>>
    BY <1>4 DEF TellsDone
  <2>2. PICK words \in Text : /\ Tells("done", words, Len(heard))
                              /\ words = heard \/ (words = <<>> /\ told = Len(heard))
    BY <1>1, <1>4 DEF TellsDone
  <2>3. Len(heard) \in told .. Len(heard) /\ ended' \in 0 .. Len(heard) /\ chunked' \in ended' .. Len(heard)
    BY <1>1, <2>1
  <2> QED
    BY <2>1, <2>2, <2>3, ToldStep
<1>5. ASSUME NEW to \in told .. Len(heard), TellsInterim(to)
      PROVE  TranscriberInv'
  <2>1. /\ Tells("interim", Words(chunked, to), to) /\ UNCHANGED <<ended, chunked>>
        /\ Words(chunked, to) = Stretch(heard, chunked, to) /\ Words(chunked, to) \in Text
        /\ ended' \in 0 .. to /\ chunked' \in ended' .. to
    BY <1>1, <1>2, <1>5 DEF TellsInterim
  <2> QED
    BY <2>1, ToldStep
<1>6. ASSUME NEW to \in told .. Len(heard), TellsChunk(to)
      PROVE  TranscriberInv'
  <2>1. /\ Tells("chunk", Words(chunked, to), to) /\ chunked' = to /\ ended' = ended
        /\ Words(chunked, to) = Stretch(heard, chunked, to) /\ Words(chunked, to) \in Text
        /\ ended' \in 0 .. to /\ chunked' \in ended' .. to
    BY <1>1, <1>2, <1>6 DEF TellsChunk
  <2> QED
    BY <2>1, ToldStep
<1>7. ASSUME NEW to \in told .. Len(heard), TellsSpeech(to)
      PROVE  TranscriberInv'
  <2>1. PICK words \in Text : /\ Tells("speech", words, to)
                              /\ words = Stretch(heard, ended, to) \/ (words = <<>> /\ told = to)
    BY <1>1, <1>2, <1>7 DEF TellsSpeech
  <2>2. /\ chunked' = to /\ ended' = to /\ ended' \in 0 .. to /\ chunked' \in ended' .. to
    BY <1>1, <1>7 DEF TellsSpeech
  <2> QED
    BY <2>1, <2>2, ToldStep
<1> QED
  BY <1>3, <1>4, <1>5, <1>6, <1>7

\* The end of an utterance goes behind the final text, or is a repetition.
LEMMA FinalAppended ==
  ASSUME text \in Text, dropped \in BOOLEAN, NEW addition \in Text, AppendFinal(addition)
  PROVE  /\ text' \in Text /\ dropped' \in BOOLEAN
         /\ ~dropped' => ~dropped /\ text' = text \o addition
<1>1. text \o addition \in Text /\ text \o <<>> = text
  BY ConcatProperties, ConcatEmptySeq DEF Text
<1>2. CASE EndsWith(text, addition)
  BY <1>1, <1>2 DEF AppendFinal
<1>3. CASE ~EndsWith(text, addition)
  BY <1>1, <1>3 DEF AppendFinal
<1> QED
  BY <1>2, <1>3

\* A message goes into the transcript.
LEMMA AbsorbKeeps ==
  ASSUME TranscriberInv, Absorb
  PROVE  TranscriberInv'
<1> DEFINE m == Head(reading)
<1>1. /\ TranscriberTypeOK /\ NotBegun /\ ResultTaken /\ FailedIsClosed /\ SoundKept /\ Absorbed
      /\ heard \in Text /\ Len(heard) \in Nat /\ MaxWords \in Nat
      /\ text \in Text /\ utterance \in Text /\ interim \in Text /\ dropped \in BOOLEAN
      /\ ended \in Nat /\ chunked \in Nat /\ told \in Nat
      /\ ended <= chunked /\ chunked <= told /\ told <= Len(heard)
  BY TranscriberTypes, TranscriberAssumption DEF TranscriberInv, TranscriberTypeOK
<1>2. /\ loop = "absorbing" /\ reading' = <<>> /\ upto' = m.upto
      /\ Created(m) \/ AbsorbPartial(m) \/ AbsorbDone(m)
      /\ UNCHANGED <<conn, opener, said, pcmBuf, asked, finalizer, gaveUp, result>>
      /\ UNCHANGED <<heard, ended, chunked, told>>
  BY DEF Absorb, calls, speechVars
<1>3. m \in Message
  <2>1. reading \in Seq(Message) /\ Len(reading) = 1
    BY <1>1, <1>2 DEF TranscriberTypeOK, Absorbed
  <2> QED
    BY <2>1, ElementOfSeq
<1>4. m.text \in Text /\ m.kind \in {"created", "interim", "chunk", "speech", "done"}
  <2> HIDE DEF m
  <2> QED
    BY <1>3 DEF Message
<1>5. PICK e \in 0 .. MaxWords, c \in 0 .. MaxWords : Split(e, c) /\ Brings(e, c, m)
  BY <1>1, <1>2 DEF Absorbed
<1> HIDE DEF m
<1>6. /\ e \in 0 .. Len(heard) /\ c \in e .. Len(heard) /\ upto \in c .. Len(heard)
      /\ upto' = told /\ upto <= told /\ told \in c .. Len(heard) /\ told \in upto .. Len(heard)
      /\ told \in 0 .. Len(heard) /\ told \in e .. Len(heard) /\ 0 \in 0 .. Len(heard)
      /\ c \in 0 .. Len(heard) /\ upto \in 0 .. Len(heard) /\ upto \in e .. Len(heard)
      /\ told \in 0 .. MaxWords
  BY <1>1, <1>2, <1>5, TranscriberTypes DEF Split, Brings
<1>7. /\ finalizer["owner"] # "over" \/ gaveUp
      /\ WaitedFor => opener = "failed" \/ finalizer["owner"] = "aborted"
  BY <1>1, <1>2 DEF ResultTaken, NotBegun, WaitedFor, Finalizer
<1>8. ~dropped => /\ text = Stretch(heard, 0, e) /\ utterance = Stretch(heard, e, c)
                  /\ interim = Stretch(heard, c, upto)
  BY <1>5 DEF Split
<1>9. Stretch(heard, told, told) = <<>> /\ <<>> \in Text
  BY <1>1, <1>6, StretchFacts, EmptySeq DEF Text
<1>10. ASSUME loop' = "reading", UNCHANGED done, UNCHANGED ready \/ ready' = TRUE,
              text' \in Text, utterance' \in Text, interim' \in Text, dropped' \in BOOLEAN,
              ~dropped' => /\ text' = Stretch(heard, 0, ended) /\ utterance' = Stretch(heard, ended, chunked)
                           /\ interim' = Stretch(heard, chunked, told)
       PROVE  TranscriberInv'
  <2>1. done' = (conn' = "closed" \/ loop' \in {"told", "failed"})
    BY <1>1, <1>2, <1>10 DEF TranscriberTypeOK
  <2>2. <<>> \in Seq(Message) /\ Len(<<>>) = 0
    BY EmptySeq
  <2>3. TranscriberTypeOK'
    <3>1. {upto', ended', chunked', told'} \subseteq 0 .. MaxWords
      BY <1>1, <1>2, <1>6 DEF TranscriberTypeOK
    <3>2. ready' \in BOOLEAN
      BY <1>1, <1>10 DEF TranscriberTypeOK
    <3>3. {text', utterance', interim', heard'} \subseteq Text
      BY <1>1, <1>2, <1>10
    <3> QED
      BY <1>1, <1>2, <1>10, <2>1, <2>2, <3>1, <3>2, <3>3 DEF TranscriberTypeOK
  <2>4. FailedIsClosed' /\ SoundKept' /\ NotBegun'
    <3>1. FailedIsClosed' /\ SoundKept'
      BY <1>1, <1>2 DEF FailedIsClosed, SoundKept
    <3>2. NotBegun'
      BY <1>1, <1>2, <1>10 DEF NotBegun
    <3> QED
      BY <3>1, <3>2
  <2>5. /\ ended \in 0 .. Len(heard) /\ chunked \in ended .. Len(heard) /\ told \in chunked .. Len(heard)
    BY <1>1
  <2>6. Absorbed'
    BY <1>2, <1>6, <1>10, <2>5 DEF Absorbed, Split
  <2>7. ResultTaken'
    BY <1>1, <1>2, <1>7, <1>10 DEF ResultTaken, WaitedFor
  <2> QED
    BY <2>3, <2>4, <2>6, <2>7 DEF TranscriberInv
<1>11. CASE Created(m)
  <2>1. /\ m.kind = "created" /\ ready' = TRUE /\ loop' = "reading" /\ UNCHANGED done
        /\ UNCHANGED <<text, utterance, interim, upto, dropped>>
    BY <1>11 DEF Created, transcript
  <2>2. e = ended /\ c = chunked /\ upto = told
    BY <1>5, <2>1 DEF Brings
  <2> QED
    BY <1>1, <1>8, <1>10, <2>1, <2>2
<1>12. CASE AbsorbPartial(m) /\ m.kind = "interim"
  <2>1. /\ interim' = m.text /\ UNCHANGED <<text, utterance, dropped, done, ready>> /\ loop' = "reading"
    BY <1>12 DEF AbsorbPartial
  <2>2. e = ended /\ c = chunked /\ m.text = Stretch(heard, c, told)
    BY <1>5, <1>12 DEF Brings
  <2> QED
    BY <1>1, <1>4, <1>8, <1>10, <2>1, <2>2
<1>13. CASE AbsorbPartial(m) /\ m.kind = "chunk"
  <2>1. /\ utterance' = utterance \o m.text /\ interim' = <<>>
        /\ UNCHANGED <<text, dropped, done, ready>> /\ loop' = "reading"
    BY <1>13 DEF AbsorbPartial
  <2>2. e = ended /\ chunked = told /\ m.text = Stretch(heard, c, told)
    BY <1>5, <1>13 DEF Brings
  <2>3. Stretch(heard, e, c) \o Stretch(heard, c, told) = Stretch(heard, e, told)
    BY <1>1, <1>6, StretchesMeet
  <2>4. utterance' \in Text
    BY <1>1, <1>4, <2>1, ConcatProperties DEF Text
  <2>5. ~dropped => utterance' = Stretch(heard, ended, chunked)
    BY <1>8, <2>1, <2>2, <2>3
  <2>6. interim' = Stretch(heard, chunked, told) /\ interim' \in Text
    BY <1>9, <2>1, <2>2
  <2> QED
    BY <1>1, <1>8, <1>10, <2>1, <2>2, <2>4, <2>5, <2>6
<1>14. CASE AbsorbPartial(m) /\ m.kind = "speech"
  <2> DEFINE addition == IF m.text = <<>> THEN utterance \o interim ELSE m.text
  <2>1. /\ AppendFinal(addition) /\ utterance' = <<>> /\ interim' = <<>>
        /\ UNCHANGED <<done, ready>> /\ loop' = "reading"
    BY <1>14 DEF AbsorbPartial
  <2>2. ended = told /\ chunked = told /\ (m.text = Stretch(heard, e, told) \/ (m.text = <<>> /\ upto = told))
    BY <1>5, <1>14 DEF Brings
  <2>3. addition \in Text
    BY <1>1, <1>4, ConcatProperties DEF Text
  <2>4. ~dropped => addition = Stretch(heard, e, told)
    <3>1. CASE m.text # <<>>
      BY <2>2, <3>1
    <3>2. CASE m.text = <<>>
      <4>1. m.text = Stretch(heard, e, told) => e = told
        BY <1>1, <1>6, <3>2, StretchFacts
      <4>2. upto = told
        BY <1>6, <2>2, <4>1
      <4>3. Stretch(heard, e, c) \o Stretch(heard, c, upto) = Stretch(heard, e, upto)
        BY <1>1, <1>6, StretchesMeet
      <4> QED
        BY <1>8, <3>2, <4>2, <4>3
    <3> QED
      BY <3>1, <3>2
  <2> HIDE DEF addition
  <2>5. /\ text' \in Text /\ dropped' \in BOOLEAN
        /\ ~dropped' => ~dropped /\ text' = text \o addition
    BY <1>1, <2>1, <2>3, FinalAppended
  <2>6. Stretch(heard, 0, e) \o Stretch(heard, e, told) = Stretch(heard, 0, told)
    BY <1>1, <1>6, StretchesMeet
  <2>7. ~dropped' => text' = Stretch(heard, 0, ended)
    BY <1>8, <2>2, <2>4, <2>5, <2>6
  <2> QED
    BY <1>9, <1>10, <2>1, <2>2, <2>5, <2>7
<1>15. CASE AbsorbDone(m)
  <2>1. /\ m.kind = "done" /\ text' = (IF m.text = <<>> THEN Best ELSE m.text)
        /\ dropped' = (dropped /\ m.text = <<>>)
        /\ utterance' = <<>> /\ interim' = <<>> /\ loop' = "told" /\ done' = TRUE /\ UNCHANGED ready
    BY <1>15 DEF AbsorbDone
  <2>2. asked /\ pcmBuf = <<>> /\ told = Len(heard) /\ (m.text = heard \/ (m.text = <<>> /\ upto = told))
    BY <1>5, <2>1 DEF Brings
  <2>3. Best \in Text
    <3>1. text \o utterance \in Text
      BY <1>1, ConcatProperties DEF Text
    <3> QED
      BY <1>1, <3>1, ConcatProperties DEF Best, Text
  <2>4. text' \in Text /\ Best' = text'
    <3>1. text' \in Text
      BY <1>4, <2>1, <2>3
    <3>2. text' \o <<>> = text'
      BY <3>1, ConcatEmptySeq DEF Text
    <3> QED
      BY <2>1, <3>1, <3>2 DEF Best
  <2>5. ~dropped => Best = Stretch(heard, 0, upto)
    <3>1. /\ Stretch(heard, 0, e) \o Stretch(heard, e, c) = Stretch(heard, 0, c)
          /\ Stretch(heard, 0, c) \o Stretch(heard, c, upto) = Stretch(heard, 0, upto)
      BY <1>1, <1>6, StretchesMeet
    <3> QED
      BY <1>8, <3>1, Zenon DEF Best
  <2>6. Stretch(heard, 0, Len(heard)) = heard
    BY <1>1, <1>6, StretchFacts
  <2>7. ~dropped' => Best' = heard
    <3>1. CASE m.text # <<>>
      BY <2>1, <2>2, <2>4, <3>1
    <3>2. CASE m.text = <<>>
      <4>1. m.text = heard => upto = told
        <5>1. Len(<<>>) = 0
          BY EmptySeq
        <5> QED
          BY <1>1, <1>6, <3>2, <5>1
      <4> QED
        BY <2>1, <2>2, <2>4, <2>5, <2>6, <3>2, <4>1
    <3> QED
      BY <3>1, <3>2
  <2>8. <<>> \in Seq(Message) /\ Len(<<>>) = 0
    BY EmptySeq
  <2>9. TranscriberTypeOK'
    <3>1. dropped' \in BOOLEAN
      BY <2>1
    <3>2. {upto', ended', chunked', told'} \subseteq 0 .. MaxWords
      BY <1>1, <1>2, <1>6 DEF TranscriberTypeOK
    <3>3. {text', utterance', interim', heard'} \subseteq Text
      BY <1>1, <1>2, <1>9, <2>1, <2>4
    <3>4. done' = (conn' = "closed" \/ loop' \in {"told", "failed"})
      BY <2>1
    <3> QED
      BY <1>1, <1>2, <2>1, <2>8, <3>1, <3>2, <3>3, <3>4 DEF TranscriberTypeOK
  <2>10. FailedIsClosed' /\ SoundKept' /\ NotBegun'
    BY <1>1, <1>2, <2>1 DEF FailedIsClosed, SoundKept, NotBegun
  <2>11. Absorbed'
    BY <1>2, <1>6, <2>1, <2>2, <2>7 DEF Absorbed
  <2>12. ResultTaken'
    BY <1>2, <1>7, <2>1 DEF ResultTaken, WaitedFor
  <2> QED
    BY <2>9, <2>10, <2>11, <2>12 DEF TranscriberInv
<1> QED
  BY <1>2, <1>11, <1>12, <1>13, <1>14, <1>15 DEF AbsorbPartial

\* The service, the loop, the owner or the hard timeout takes a step.
LEMMA TranscriberStep == TranscriberInv /\ [TranscriberNext]_transcriberVars => TranscriberInv'
<1> SUFFICES ASSUME TranscriberInv, [TranscriberNext]_transcriberVars
             PROVE  TranscriberInv'
  OBVIOUS
<1>1. CASE UNCHANGED transcriberVars
  <2>1. /\ UNCHANGED <<opener, conn, done, ready, loop, reading, said, pcmBuf, asked, finalizer, gaveUp>>
        /\ UNCHANGED <<result, text, utterance, interim, upto, dropped, heard, ended, chunked, told>>
    BY <1>1 DEF transcriberVars, connection, calls, transcript, speechVars
  <2>2. TranscriberTypeOK' /\ FailedIsClosed' /\ NotBegun' /\ SoundKept'
    BY <2>1 DEF TranscriberInv, TranscriberTypeOK, FailedIsClosed, NotBegun, SoundKept
  <2>3. Absorbed' /\ ResultTaken'
    BY <2>1 DEF TranscriberInv, Absorbed, Split, Brings, ResultTaken, WaitedFor, Best
  <2> QED
    BY <2>2, <2>3 DEF TranscriberInv
<1> QED
  BY <1>1, OpenerKeeps, FinalizersKeep, DialKeeps, ReadFailsKeeps, SendKeeps, FlushKeeps, TellsKeep, AbsorbKeeps
  DEF TranscriberNext, TranscriberGoesOn

-----------------------------------------------------------------------------
(* The sound of a capture *)

Before(s, t) == \A f \in Range(s), g \in Range(t) : f < g

\* Every frame is in one place: what still waits to be heard or captured,
Waiting == Range(preroll) \cup Range(due) \cup Range(inbox)

\* and what a transcriber was given.
Given(t) == t.taken \o t.pcm

\* What is sent is what was taken, in order, but for silence.
Told(t) ==
  /\ Ascends(t.told) /\ Range(t.told) \subseteq Range(t.taken)
  /\ Range(t.taken) \subseteq Range(t.told) \cup quiet

NothingGiven(t) == t.taken = <<>> /\ t.pcm = <<>> /\ t.told = <<>>

\* What is true of a transcriber by itself.
TranscriberKept(t) ==
  /\ Ascends(Given(t)) /\ Range(Given(t)) \subseteq 1 .. arrived
  /\ Told(t) /\ Len(t.pcm) < ChunkSize
  /\ t.at \in {"none", "opening"} => NothingGiven(t)
  /\ t.at = "finalizing" => Holds(Given(t), t.due)
  /\ t.at = "finished" => Holds(t.taken, t.due)

\* What waits is in order, and older than what has yet to come.
WaitingInOrder ==
  /\ Ascends(preroll) /\ Ascends(due) /\ Ascends(inbox)
  /\ Before(preroll, inbox) /\ Before(due, inbox) /\ Waiting \subseteq 1 .. arrived
  /\ IF capturing THEN preroll = <<>> ELSE due = <<>> /\ preCapture = <<>>

\* The capture in progress and its transcriber have what is due.
CaptureKept ==
  LET t == transcribers[wake]
  IN  /\ wake \in Wakes /\ t.at \in {"opening", "attached", "closed"}
      /\ IF t.at = "attached" THEN preCapture = <<>> ELSE NothingGiven(t)
      /\ Holds(Given(t) \o preCapture, due)

\* A frame that was given to one transcriber waits for no other.
FramesApart ==
  /\ \A v, w \in Wakes :
       v # w => Range(Given(transcribers[v])) \cap Range(Given(transcribers[w])) = {}
  /\ \A w \in Wakes :
       ~ (capturing /\ w = wake) => Range(Given(transcribers[w])) \cap Waiting = {}

SoundInv ==
  /\ SoundTypeOK /\ WaitingInOrder /\ FramesApart
  /\ \A w \in Wakes : TranscriberKept(transcribers[w]) /\ (w > wake => transcribers[w].at = "none")
  /\ capturing => CaptureKept

\* Two sequences one after the other.
LEMMA ConcatFacts ==
  ASSUME NEW s \in Seq(Nat), NEW t \in Seq(Nat)
  PROVE  /\ s \o t \in Seq(Nat) /\ Len(s \o t) = Len(s) + Len(t)
         /\ Range(s \o t) = Range(s) \cup Range(t)
         /\ Ascends(s \o t) <=> Ascends(s) /\ Ascends(t) /\ Before(s, t)
<1>1. /\ s \o t \in Seq(Nat) /\ Len(s \o t) = Len(s) + Len(t)
      /\ \A i \in 1 .. Len(s) : (s \o t)[i] = s[i]
      /\ \A i \in 1 .. Len(t) : (s \o t)[Len(s) + i] = t[i]
      /\ DOMAIN s = 1 .. Len(s) /\ DOMAIN t = 1 .. Len(t)
      /\ DOMAIN (s \o t) = 1 .. Len(s) + Len(t) /\ Len(s) \in Nat /\ Len(t) \in Nat
  OBVIOUS
<1> DEFINE c == s \o t
<1>2. Range(c) = Range(s) \cup Range(t)
  BY RangeConcatenation
<1> HIDE DEF c
<1>3. ASSUME Ascends(c)
      PROVE  Ascends(s) /\ Ascends(t) /\ Before(s, t)
  <2>1. Ascends(s)
    <3> SUFFICES ASSUME NEW i \in DOMAIN s, NEW j \in DOMAIN s, i < j PROVE s[i] < s[j]
      BY DEF Ascends
    <3>1. i \in DOMAIN c /\ j \in DOMAIN c /\ c[i] = s[i] /\ c[j] = s[j]
      BY <1>1 DEF c
    <3> QED
      BY <1>3, <3>1 DEF Ascends
  <2>2. Ascends(t)
    <3> SUFFICES ASSUME NEW i \in DOMAIN t, NEW j \in DOMAIN t, i < j PROVE t[i] < t[j]
      BY DEF Ascends
    <3>1. /\ Len(s) + i \in DOMAIN c /\ Len(s) + j \in DOMAIN c /\ Len(s) + i < Len(s) + j
          /\ c[Len(s) + i] = t[i] /\ c[Len(s) + j] = t[j]
      BY <1>1 DEF c
    <3> QED
      BY <1>3, <3>1 DEF Ascends
  <2>3. Before(s, t)
    <3> SUFFICES ASSUME NEW i \in DOMAIN s, NEW j \in DOMAIN t PROVE s[i] < t[j]
      BY DEF Before, Range
    <3>1. i \in DOMAIN c /\ Len(s) + j \in DOMAIN c /\ i < Len(s) + j
          /\ c[i] = s[i] /\ c[Len(s) + j] = t[j]
      BY <1>1 DEF c
    <3> QED
      BY <1>3, <3>1 DEF Ascends
  <2> QED
    BY <2>1, <2>2, <2>3
<1>4. ASSUME Ascends(s), Ascends(t), Before(s, t)
      PROVE  Ascends(c)
  <2> SUFFICES ASSUME NEW i \in DOMAIN c, NEW j \in DOMAIN c, i < j PROVE c[i] < c[j]
    BY DEF Ascends
  <2>1. CASE j <= Len(s)
    <3>1. i \in DOMAIN s /\ j \in DOMAIN s /\ c[i] = s[i] /\ c[j] = s[j]
      BY <1>1, <2>1 DEF c
    <3> QED
      BY <1>4, <3>1 DEF Ascends
  <2>2. CASE i > Len(s)
    <3>0. i \in 1 .. Len(s) + Len(t) /\ j \in 1 .. Len(s) + Len(t) /\ Len(s) \in Nat /\ Len(t) \in Nat
      BY <1>1 DEF c
    <3>1. /\ i - Len(s) \in DOMAIN t /\ j - Len(s) \in DOMAIN t /\ i - Len(s) < j - Len(s)
          /\ Len(s) + (i - Len(s)) = i /\ Len(s) + (j - Len(s)) = j
      <4>1. \A m, n, a, b \in Nat : a \in 1 .. m + n /\ b \in 1 .. m + n /\ a > m /\ a < b =>
              /\ a - m \in 1 .. n /\ b - m \in 1 .. n /\ a - m < b - m
              /\ m + (a - m) = a /\ m + (b - m) = b
        OBVIOUS
      <4>2. i \in Nat /\ j \in Nat
        BY <3>0
      <4>3. /\ i - Len(s) \in 1 .. Len(t) /\ j - Len(s) \in 1 .. Len(t)
            /\ i - Len(s) < j - Len(s)
            /\ Len(s) + (i - Len(s)) = i /\ Len(s) + (j - Len(s)) = j
        BY <2>2, <3>0, <4>1, <4>2
      <4>4. DOMAIN t = 1 .. Len(t)
        OBVIOUS
      <4> QED
        BY <4>3, <4>4
    <3>2. c[i] = t[i - Len(s)] /\ c[j] = t[j - Len(s)]
      BY <1>1, <3>1 DEF c
    <3> QED
      BY <1>4, <3>1, <3>2 DEF Ascends
  <2>3. CASE i <= Len(s) /\ j > Len(s)
    <3>1. /\ i \in DOMAIN s /\ j - Len(s) \in DOMAIN t /\ Len(s) + (j - Len(s)) = j
      BY <1>1, <2>3 DEF c
    <3>2. c[i] = s[i] /\ c[j] = t[j - Len(s)]
      BY <1>1, <3>1 DEF c
    <3>3. s[i] \in Range(s) /\ t[j - Len(s)] \in Range(t)
      BY <3>1 DEF Range
    <3> QED
      BY <1>4, <3>2, <3>3 DEF Before
  <2>4. Len(s) \in Nat /\ i \in Nat /\ j \in Nat
    BY <1>1 DEF c
  <2> QED
    BY <2>1, <2>2, <2>3, <2>4
<1> QED
  BY <1>1, <1>2, <1>3, <1>4 DEF c

\* A suffix is what remains when something in front of it is cut off.
LEMMA SuffixMeans ==
  ASSUME NEW S, NEW s \in Seq(S), NEW t \in Seq(S)
  PROVE  IsSuffix(s, t) <=> \E u \in Seq(S) : t = u \o s
<1>1. /\ Len(s) \in Nat /\ Len(t) \in Nat
      /\ Reverse(s) = [i \in 1 .. Len(s) |-> s[(Len(s) - i) + 1]]
      /\ Reverse(t) = [i \in 1 .. Len(t) |-> t[(Len(t) - i) + 1]]
  BY DEF Reverse
<1>2. Reverse(s) \in Seq(S) /\ Reverse(t) \in Seq(S)
      /\ Len(Reverse(s)) = Len(s) /\ Len(Reverse(t)) = Len(t)
  BY <1>1
<1>3. IsSuffix(s, t) <=>
        Len(s) <= Len(t) /\ SubSeq(Reverse(s), 1, Len(s)) = SubSeq(Reverse(t), 1, Len(s))
  BY <1>2 DEF IsSuffix, IsPrefix
<1>4. ASSUME IsSuffix(s, t)
      PROVE  \E u \in Seq(S) : t = u \o s
  <2> DEFINE d == Len(t) - Len(s)
             u == SubSeq(t, 1, d)
  <2>1. Len(s) <= Len(t) /\ d \in 0 .. Len(t)
    BY <1>1, <1>3, <1>4
  <2>2. \A i \in 1 .. Len(s) : SubSeq(Reverse(s), 1, Len(s))[i] = SubSeq(Reverse(t), 1, Len(s))[i]
    BY <1>3, <1>4
  <2>3. \A i \in 1 .. Len(s) : Reverse(s)[i] = Reverse(t)[i]
    <3>1. \A i \in 1 .. Len(s) : SubSeq(Reverse(s), 1, Len(s))[i] = Reverse(s)[i]
      BY <1>2, <2>1
    <3>2. \A i \in 1 .. Len(s) : SubSeq(Reverse(t), 1, Len(s))[i] = Reverse(t)[i]
      BY <1>2, <2>1
    <3> QED
      BY <2>2, <3>1, <3>2
  <2>4. ASSUME NEW i \in 1 .. Len(s)
        PROVE  s[i] = t[d + i]
    <3>1. /\ Len(s) - i + 1 \in 1 .. Len(s) /\ Len(s) - i + 1 \in 1 .. Len(t)
          /\ (Len(s) - (Len(s) - i + 1)) + 1 = i /\ (Len(t) - (Len(s) - i + 1)) + 1 = d + i
      BY <1>1, <2>1
    <3>2. /\ Reverse(s)[Len(s) - i + 1] = s[(Len(s) - (Len(s) - i + 1)) + 1]
          /\ Reverse(t)[Len(s) - i + 1] = t[(Len(t) - (Len(s) - i + 1)) + 1]
      BY <1>1, <3>1
    <3> QED
      BY <2>3, <3>1, <3>2
  <2>5. u \in Seq(S) /\ Len(u) = d /\ \A i \in 1 .. d : u[i] = t[i]
    BY <2>1
  <2> HIDE DEF u
  <2>6. Len(u \o s) = Len(t) /\ u \o s \in Seq(S)
    BY <1>1, <2>5
  <2>7. \A i \in 1 .. Len(t) : (u \o s)[i] = t[i]
    <3> SUFFICES ASSUME NEW i \in 1 .. Len(t) PROVE (u \o s)[i] = t[i]
      OBVIOUS
    <3>1. CASE i <= d
      BY <1>1, <2>1, <2>5, <3>1
    <3>2. CASE i > d
      <4>1. i - d \in 1 .. Len(s) /\ d + (i - d) = i
        BY <1>1, <2>1, <3>2
      <4>2. (u \o s)[i] = s[i - d]
        BY <2>1, <2>5, <3>2, <4>1
      <4> QED
        BY <2>4, <4>1, <4>2
    <3> QED
      <4>1. i \in Int /\ d \in Int
        BY <2>1
      <4>2. i <= d \/ i > d
        BY <4>1
      <4> QED
        BY <3>1, <3>2, <4>2
  <2>8. t = u \o s
    BY <2>6, <2>7, SeqEqual
  <2> QED
    BY <2>5, <2>8
<1>5. ASSUME NEW u \in Seq(S), t = u \o s
      PROVE  IsSuffix(s, t)
  <2>1. /\ Len(u) \in Nat /\ Len(t) = Len(u) + Len(s) /\ Len(s) <= Len(t)
        /\ \A i \in 1 .. Len(s) : t[Len(u) + i] = s[i]
    BY <1>1, <1>5
  <2>2. ASSUME NEW i \in 1 .. Len(s)
        PROVE  Reverse(s)[i] = Reverse(t)[i]
    <3>1. /\ Reverse(s)[i] = s[Len(s) - i + 1] /\ Reverse(t)[i] = t[Len(t) - i + 1]
      BY <1>1, <2>1
    <3>2. Len(s) - i + 1 \in 1 .. Len(s) /\ Len(u) + (Len(s) - i + 1) = Len(t) - i + 1
      BY <1>1, <2>1
    <3>3. t[Len(u) + (Len(s) - i + 1)] = s[Len(s) - i + 1]
      BY <2>1, <3>2
    <3> QED
      BY <3>1, <3>2, <3>3
  <2>3. SubSeq(Reverse(s), 1, Len(s)) = SubSeq(Reverse(t), 1, Len(s))
    <3>1. /\ SubSeq(Reverse(s), 1, Len(s)) = [i \in 1 .. Len(s) |-> Reverse(s)[i]]
          /\ SubSeq(Reverse(t), 1, Len(s)) = [i \in 1 .. Len(s) |-> Reverse(t)[i]]
      BY <1>1, <1>2, <2>1
    <3> QED
      BY <2>2, <3>1
  <2> QED
    BY <1>3, <2>1, <2>3
<1> QED
  BY <1>4, <1>5

\* What is kept of a sequence: all of it, if there is room.
LEMMA KeepLastFacts ==
  ASSUME NEW S, NEW s \in Seq(S), NEW n \in Nat
  PROVE  /\ KeepLast(s, n) \in Seq(S) /\ Len(KeepLast(s, n)) <= n
         /\ Len(KeepLast(s, n)) = n \/ KeepLast(s, n) = s
         /\ Len(s) <= n => KeepLast(s, n) = s
<1>1. CASE Len(s) > n
  <2>1. Len(s) \in Nat /\ Len(s) - n \in 1 .. Len(s)
    BY <1>1
  <2> QED
    BY <1>1, <2>1 DEF KeepLast
<1>2. CASE ~ (Len(s) > n)
  BY <1>2 DEF KeepLast
<1> QED
  BY <1>1, <1>2

\* What is left out stood in front of it.
LEMMA KeepLastEnds ==
  ASSUME NEW S, NEW s \in Seq(S), NEW n \in Nat
  PROVE  \E u \in Seq(S) : s = u \o KeepLast(s, n)
<1> DEFINE m == Len(s) - n
           k == SubSeq(s, m + 1, Len(s))
<1>1. CASE Len(s) > n
  <2>1. Len(s) \in Nat /\ m \in 1 .. Len(s)
    BY <1>1
  <2>2. SubSeq(s, 1, m) \o k = SubSeq(s, 1, Len(s)) /\ SubSeq(s, 1, Len(s)) = s
    BY <2>1, ConcatAdjacentSubSeq, SubSeqFull
  <2>3. SubSeq(s, 1, m) \in Seq(S)
    BY <2>1
  <2>4. KeepLast(s, n) = k
    BY <1>1 DEF KeepLast
  <2> QED
    BY <2>2, <2>3, <2>4
<1>2. CASE ~ (Len(s) > n)
  <2>1. KeepLast(s, n) = s /\ <<>> \in Seq(S) /\ s = <<>> \o s
    BY <1>2 DEF KeepLast
  <2> QED
    BY <2>1
<1> QED
  BY <1>1, <1>2

\* To have what is due, or its end.
LEMMA HoldsMeans ==
  ASSUME NEW S, NEW has \in Seq(S), NEW all \in Seq(S)
  PROVE  Holds(has, all) <=> /\ \E u \in Seq(S) : all = u \o has
                             /\ Len(has) >= Len(all) \/ Len(has) >= PreCaptureSize
<1>1. Len(all) \in Nat /\ Len(has) \in Nat /\ PreCaptureSize \in Nat
  BY SoundAssumption
<1> DEFINE T == {Len(all), PreCaptureSize}
           IsLeast(m) == \A k \in T : m <= k
<1>2. \E m \in T : IsLeast(m)
  <2>1. CASE Len(all) <= PreCaptureSize
    BY <1>1, <2>1
  <2>2. CASE ~ (Len(all) <= PreCaptureSize)
    BY <1>1, <2>2
  <2> QED
    BY <2>1, <2>2
<1>3. Min(T) \in T /\ IsLeast(Min(T))
  BY <1>2 DEF Min
<1>4. Len(has) >= Min(T) <=> Len(has) >= Len(all) \/ Len(has) >= PreCaptureSize
  BY <1>1, <1>3
<1> QED
  BY <1>4, SuffixMeans DEF Holds

\* What holds all that is due still does when one more is due and given to it.
LEMMA HoldsMore ==
  ASSUME NEW S, NEW has \in Seq(S), NEW all \in Seq(S), NEW new \in Seq(S), Holds(has, all)
  PROVE  Holds(has \o new, all \o new)
<1>1. PICK u \in Seq(S) : all = u \o has
  BY HoldsMeans
<1>2. all \o new = u \o (has \o new)
  BY <1>1, ConcatAssociative, SMTT(60)
<1>3. /\ has \o new \in Seq(S) /\ all \o new \in Seq(S) /\ Len(new) \in Nat
      /\ Len(has \o new) = Len(has) + Len(new) /\ Len(all \o new) = Len(all) + Len(new)
  OBVIOUS
<1>4. Len(has) >= Len(all) \/ Len(has) >= PreCaptureSize
  BY HoldsMeans
<1>5. Len(has \o new) >= Len(all \o new) \/ Len(has \o new) >= PreCaptureSize
  BY <1>3, <1>4, SoundAssumption
<1> QED
  BY <1>2, <1>3, <1>5, HoldsMeans

\* And still when the oldest make room.
LEMMA HoldsKept ==
  ASSUME NEW S, NEW has \in Seq(S), NEW all \in Seq(S), Holds(has, all)
  PROVE  /\ Holds(KeepLast(has, PreCaptureSize), all)
         /\ KeepLast(has, PreCaptureSize) \in Seq(S) /\ Len(KeepLast(has, PreCaptureSize)) <= PreCaptureSize
<1> DEFINE k == KeepLast(has, PreCaptureSize)
<1>1. PICK u \in Seq(S) : all = u \o has
  BY HoldsMeans
<1>2. PreCaptureSize \in Nat
  BY SoundAssumption
<1>3. k \in Seq(S) /\ Len(k) <= PreCaptureSize /\ (Len(k) = PreCaptureSize \/ k = has)
  BY <1>2, KeepLastFacts
<1>4. PICK v \in Seq(S) : has = v \o k
  BY <1>2, KeepLastEnds
<1> HIDE DEF k
<1>5. all = (u \o v) \o k /\ u \o v \in Seq(S)
  <2>1. (u \o v) \o k = u \o (v \o k)
    BY <1>1, <1>3, <1>4, ConcatAssociative, SMTT(60)
  <2> QED
    BY <1>1, <1>4, <2>1
<1>6. Len(k) >= Len(all) \/ Len(k) >= PreCaptureSize
  <2>1. Len(has) >= Len(all) \/ Len(has) >= PreCaptureSize
    BY HoldsMeans
  <2> QED
    BY <1>2, <1>3, <2>1
<1>7. Holds(k, all)
  BY <1>3, <1>5, <1>6, HoldsMeans
<1> QED
  BY <1>3, <1>7 DEF k

\* How much of a buffer is whole chunks.
LEMMA WholeChunksFacts ==
  ASSUME NEW pcm \in FrameSeq
  PROVE  WholeChunks(pcm) \in 0 .. Len(pcm) /\ Len(pcm) - WholeChunks(pcm) < ChunkSize
<1>1. ChunkSize \in Nat /\ ChunkSize > 0 /\ Len(pcm) \in Nat
  BY SoundAssumption DEF FrameSeq
<1>2. \A n, c \in Nat : c > 0 => c * (n \div c) \in 0 .. n /\ n - c * (n \div c) < c
  OBVIOUS
<1> QED
  BY <1>1, <1>2 DEF WholeChunks

\* A piece of a sequence.
LEMMA PieceFacts ==
  ASSUME NEW S, NEW s \in Seq(S), NEW a \in 0 .. Len(s), NEW b \in a .. Len(s)
  PROVE  /\ SubSeq(s, a + 1, b) \in Seq(S) /\ Len(SubSeq(s, a + 1, b)) = b - a
         /\ \A i \in 1 .. b - a : SubSeq(s, a + 1, b)[i] = s[a + i]
<1>1. Len(s) \in Nat /\ a \in Nat /\ b \in Nat /\ a <= b /\ b <= Len(s) /\ b - a \in Nat
  OBVIOUS
<1>2. b - (a + 1) + 1 = b - a
  BY <1>1
<1>3. SubSeq(s, a + 1, b) = [i \in 1 .. b - a |-> s[a + i]]
  <2>1. \A i \in 1 .. b - a : (a + 1) + i - 1 = a + i
    BY <1>1
  <2>2. SubSeq(s, a + 1, b) = [i \in 1 .. (b - (a + 1) + 1) |-> s[(a + 1) + i - 1]]
    BY <1>1
  <2> QED
    BY <1>2, <2>1, <2>2
<1>4. \A i \in 1 .. b - a : s[a + i] \in S
  <2>1. \A i \in 1 .. b - a : a + i \in 1 .. Len(s)
    BY <1>1
  <2> QED
    BY <2>1
<1> QED
  BY <1>1, <1>3, <1>4

\* A sequence cut in two.
LEMMA CutFacts ==
  ASSUME NEW S, NEW s \in Seq(S), NEW n \in 0 .. Len(s)
  PROVE  /\ SubSeq(s, 1, n) \in Seq(S) /\ Len(SubSeq(s, 1, n)) = n
         /\ \A i \in 1 .. n : SubSeq(s, 1, n)[i] = s[i]
         /\ SubSeq(s, n + 1, Len(s)) \in Seq(S) /\ Len(SubSeq(s, n + 1, Len(s))) = Len(s) - n
         /\ SubSeq(s, 1, n) \o SubSeq(s, n + 1, Len(s)) = s
<1>1. Len(s) \in Nat /\ n \in Nat /\ n <= Len(s)
  OBVIOUS
<1>2. /\ SubSeq(s, 1, n) \in Seq(S) /\ Len(SubSeq(s, 1, n)) = n
      /\ \A i \in 1 .. n : SubSeq(s, 1, n)[i] = s[i]
  BY <1>1
<1>3. SubSeq(s, n + 1, Len(s)) \in Seq(S) /\ Len(SubSeq(s, n + 1, Len(s))) = Len(s) - n
  <2>1. CASE n = Len(s)
    BY <1>1, <2>1
  <2>2. CASE n < Len(s)
    BY <1>1, <2>2
  <2> QED
    BY <1>1, <2>1, <2>2
<1>4. SubSeq(s, 1, n) \o SubSeq(s, n + 1, Len(s)) = SubSeq(s, 1, Len(s))
  <2>1. 1 \in 1 .. Len(s) + 1 /\ n \in 1 - 1 .. Len(s) /\ Len(s) \in n .. Len(s)
    BY <1>1
  <2> QED
    BY <2>1, ConcatAdjacentSubSeq
<1> QED
  BY <1>2, <1>3, <1>4, SubSeqFull

\* The first n frames are written: none is lost, and what is sent is in order.
LEMMA WriteKeeps ==
  ASSUME NEW t \in CaptureState, NEW pcm \in FrameSeq, NEW n \in 0 .. Len(pcm),
         Told(t), Ascends(t.taken \o pcm)
  PROVE  LET r == WriteChunks(t, pcm, n)
         IN  /\ r \in CaptureState /\ r.at = t.at /\ r.due = t.due /\ Told(r)
             /\ Given(r) = t.taken \o pcm /\ Len(r.pcm) = Len(pcm) - n
             /\ r.taken = t.taken \o SubSeq(pcm, 1, n)
<1> DEFINE out    == SubSeq(pcm, 1, n)
           rest   == SubSeq(pcm, n + 1, Len(pcm))
           places == {i \in 1 .. n : ~ Silent(pcm, ChunkAround(i, n))}
           sent   == AtPlaces(pcm, places)
           r      == WriteChunks(t, pcm, n)
<1>1. /\ DOMAIN pcm = 1 .. Len(pcm) /\ Len(pcm) \in Nat /\ n \in Nat /\ n <= Len(pcm)
      /\ \A i \in 1 .. Len(pcm) : pcm[i] \in 1 .. MaxHeard /\ pcm[i] \in Nat
      /\ MaxHeard \in Nat
  <2>1. pcm \in Seq(1 .. MaxHeard)
    BY DEF FrameSeq
  <2>2. MaxHeard \in Nat
    BY SoundAssumption
  <2>3. DOMAIN pcm = 1 .. Len(pcm) /\ Len(pcm) \in Nat
    BY <2>1
  <2>4. n \in Nat /\ n <= Len(pcm)
    BY <2>3
  <2>5. \A i \in 1 .. Len(pcm) : pcm[i] \in 1 .. MaxHeard
    BY <2>1, ElementOfSeq
  <2>6. \A v \in 1 .. MaxHeard : v \in Nat
    BY <2>2
  <2> QED
    BY <2>2, <2>3, <2>4, <2>5, <2>6
<1>2. /\ out \in FrameSeq /\ rest \in FrameSeq /\ Len(out) = n /\ Len(rest) = Len(pcm) - n
      /\ \A i \in 1 .. n : out[i] = pcm[i]
  <2>1. pcm \in Seq(1 .. MaxHeard)
    BY DEF FrameSeq
  <2> QED
    BY <2>1, CutFacts DEF FrameSeq
<1>3. out \o rest = pcm
  <2>1. pcm \in Seq(1 .. MaxHeard)
    BY DEF FrameSeq
  <2> QED
    BY <2>1, CutFacts
<1>4. places \in SUBSET (DOMAIN pcm)
  BY <1>1
<1> DEFINE c == Cardinality(places)
<1> HIDE DEF places
<1>5. PICK place \in [1 .. c -> places] :
        /\ c \in Nat /\ sent = [k \in 1 .. c |-> pcm[place[k]]] /\ sent \in FrameSeq
        /\ \A a, b \in 1 .. c : a < b => place[a] < place[b]
        /\ \A i \in places : \E k \in 1 .. c : place[k] = i
  <2>1. pcm \in Seq(1 .. MaxHeard)
    BY DEF FrameSeq
  <2>2. \E place \in [1 .. c -> places] :
          /\ c \in Nat /\ sent = [k \in 1 .. c |-> pcm[place[k]]] /\ sent \in Seq(1 .. MaxHeard)
          /\ Len(sent) = c
          /\ \A a, b \in 1 .. c : a < b => place[a] < place[b]
          /\ \A i \in places : \E k \in 1 .. c : place[k] = i
    BY <1>4, <2>1, AtPlacesFacts
  <2> QED
    BY <2>2 DEF FrameSeq
<1>6. /\ t.taken \in FrameSeq /\ t.pcm \in FrameSeq /\ t.told \in FrameSeq /\ t.due \in FrameSeq
      /\ t = [at |-> t.at, pcm |-> t.pcm, taken |-> t.taken, told |-> t.told, due |-> t.due]
  BY DEF CaptureState
<1>7. /\ r.at = t.at /\ r.due = t.due /\ r.pcm = rest /\ r.taken = t.taken \o out
      /\ r.told = t.told \o sent
  BY DEF WriteChunks, CaptureState, places
<1>8. t.taken \o out \in FrameSeq /\ t.told \o sent \in FrameSeq
  BY <1>2, <1>5, <1>6 DEF FrameSeq
<1>9. r \in CaptureState
  <2> HIDE DEF sent, places
  <2> QED
    BY <1>2, <1>6, <1>7, <1>8 DEF WriteChunks, CaptureState
<1>10. \A q \in FrameSeq : q \in Seq(Nat)
  BY <1>1 DEF FrameSeq
<1>11. /\ Ascends(t.taken) /\ Ascends(pcm) /\ Before(t.taken, pcm)
  BY <1>6, <1>10, ConcatFacts
<1>12. \A k \in 1 .. c : place[k] \in 1 .. n /\ sent[k] = pcm[place[k]] /\ sent[k] = out[place[k]]
  BY <1>2, <1>5 DEF places
<1> HIDE DEF sent, out, rest
<1>13. DOMAIN sent = 1 .. c /\ Len(sent) = c
  BY <1>5
<1>14. Range(sent) \subseteq Range(out)
  BY <1>2, <1>12, <1>13 DEF Range, FrameSeq
<1>15. Range(out) \subseteq Range(pcm)
  BY <1>1, <1>2 DEF Range, FrameSeq
<1>16. Range(out) \subseteq Range(sent) \cup quiet
  <2> SUFFICES ASSUME NEW i \in 1 .. n, pcm[i] \notin quiet
               PROVE  pcm[i] \in Range(sent)
    BY <1>2 DEF Range, FrameSeq
  <2>1. i \in ChunkAround(i, n)
    BY DEF ChunkAround
  <2>2. i \in places
    BY <2>1 DEF Silent, places
  <2>3. PICK k \in 1 .. c : place[k] = i
    BY <1>5, <2>2
  <2>4. sent[k] = pcm[i] /\ k \in DOMAIN sent
    BY <1>12, <1>13, <2>3
  <2> HIDE DEF sent
  <2> QED
    BY <2>4 DEF Range
<1>17. Ascends(sent)
  <2> SUFFICES ASSUME NEW a \in 1 .. c, NEW b \in 1 .. c, a < b
               PROVE  sent[a] < sent[b]
    BY <1>13 DEF Ascends
  <2>1. place[a] < place[b] /\ place[a] \in DOMAIN pcm /\ place[b] \in DOMAIN pcm
    BY <1>1, <1>5, <1>12
  <2>2. pcm[place[a]] < pcm[place[b]]
    BY <1>11, <2>1 DEF Ascends
  <2> QED
    BY <1>12, <2>2
<1>18. Before(t.told, sent)
  BY <1>11, <1>14, <1>15 DEF Before, Told
<1>19. Ascends(t.told \o sent)
  BY <1>5, <1>6, <1>10, <1>17, <1>18, ConcatFacts DEF Told
<1>20. /\ Range(t.told \o sent) = Range(t.told) \cup Range(sent)
       /\ Range(t.taken \o out) = Range(t.taken) \cup Range(out)
  BY <1>2, <1>5, <1>6, <1>10, ConcatFacts
<1>21. Told(r)
  <2> HIDE DEF r, sent, out
  <2> QED
    BY <1>7, <1>14, <1>16, <1>19, <1>20 DEF Told
<1>22. Given(r) = t.taken \o pcm
  <2>1. (t.taken \o out) \o rest = t.taken \o (out \o rest)
    <3>1. \A a, b, d \in Seq(1 .. MaxHeard) : (a \o b) \o d = a \o (b \o d)
      BY ConcatAssociative, SMTT(60)
    <3>2. t.taken \in Seq(1 .. MaxHeard) /\ out \in Seq(1 .. MaxHeard) /\ rest \in Seq(1 .. MaxHeard)
      BY <1>2, <1>6 DEF FrameSeq
    <3> QED
      BY <3>1, <3>2, Zenon
  <2> HIDE DEF r, out, rest
  <2> QED
    BY <1>3, <1>7, <2>1 DEF Given
<1> QED
  BY <1>2, <1>7, <1>9, <1>21, <1>22 DEF out, rest

\* Frames for a transcriber with less than a chunk: there is room for them.
LEMMA SentFramesKeep ==
  ASSUME NEW t \in CaptureState, NEW frames \in FrameSeq, Told(t), Ascends(Given(t) \o frames),
         Len(t.pcm) < ChunkSize, Len(frames) <= ChunkSize
  PROVE  LET r == SendFrames(t, frames)
         IN  /\ r \in CaptureState /\ r.at = t.at /\ r.due = t.due /\ Told(r)
             /\ Given(r) = Given(t) \o frames /\ Len(r.pcm) < ChunkSize
<1> DEFINE pcm == t.pcm \o frames
<1>1. /\ t.taken \in Seq(1 .. MaxHeard) /\ t.pcm \in Seq(1 .. MaxHeard)
      /\ frames \in Seq(1 .. MaxHeard)
  BY DEF CaptureState, FrameSeq
<1>2. pcm \in Seq(1 .. MaxHeard) /\ Len(pcm) = Len(t.pcm) + Len(frames)
  BY <1>1
<1>3. Len(pcm) <= PcmBufSize /\ PcmBufSize \in Nat
  BY <1>1, <1>2, SoundAssumption
<1>4. AppendPCM(t.pcm, frames, PcmBufSize) = pcm
  BY <1>2, <1>3, KeepLastFacts DEF AppendPCM
<1>5. t.taken \o pcm = Given(t) \o frames
  <2>1. \A a, b, d \in Seq(1 .. MaxHeard) : (a \o b) \o d = a \o (b \o d)
    BY ConcatAssociative, SMTT(60)
  <2> QED
    BY <1>1, <2>1 DEF Given
<1> HIDE DEF pcm
<1>6. pcm \in FrameSeq
  BY <1>2 DEF FrameSeq
<1>7. WholeChunks(pcm) \in 0 .. Len(pcm) /\ Len(pcm) - WholeChunks(pcm) < ChunkSize
  BY <1>6, WholeChunksFacts
<1>8. Ascends(t.taken \o pcm)
  BY <1>5
<1>9. SendFrames(t, frames) = WriteChunks(t, pcm, WholeChunks(pcm))
  BY <1>4 DEF SendFrames
<1> HIDE DEF Told, Given, Ascends
<1>10. LET r == WriteChunks(t, pcm, WholeChunks(pcm))
       IN  /\ r \in CaptureState /\ r.at = t.at /\ r.due = t.due /\ Told(r)
           /\ Given(r) = t.taken \o pcm /\ Len(r.pcm) = Len(pcm) - WholeChunks(pcm)
  BY <1>6, <1>7, <1>8, WriteKeeps
<1> QED
  BY <1>5, <1>7, <1>9, <1>10

\* How far the chunks reach into what has waited.
LEMMA PartFacts ==
  ASSUME preCapture \in FrameSeq, NEW n \in 0 .. Waited
  PROVE  LET cutAt(k) == IF k <= Waited THEN k * ChunkSize ELSE Len(preCapture)
         IN  /\ Waited \in Nat /\ Part(n + 1) \in FrameSeq /\ Len(Part(n + 1)) <= ChunkSize
             /\ cutAt(n) \in 0 .. Len(preCapture) /\ cutAt(n + 1) \in cutAt(n) .. Len(preCapture)
             /\ SubSeq(preCapture, 1, cutAt(n)) \o Part(n + 1) = SubSeq(preCapture, 1, cutAt(n + 1))
<1> DEFINE L == Len(preCapture)
           C == ChunkSize
           W == Waited
           cutAt(k) == IF k <= W THEN k * C ELSE L
           a == n * C
           b == cutAt(n + 1)
<1>1. L \in Nat /\ C \in Nat /\ C > 0 /\ preCapture \in Seq(1 .. MaxHeard)
  BY SoundAssumption DEF FrameSeq
<1>2. W = L \div C
  BY DEF Waited
<1> HIDE DEF L, C, W
<1>3. W \in Nat /\ W * C <= L /\ L < W * C + C /\ W * C \in Nat
  <2>1. \A l, c \in Nat : c > 0 => LET w == l \div c
                                  IN w \in Nat /\ w * c <= l /\ l < w * c + c /\ w * c \in Nat
    OBVIOUS
  <2> QED
    BY <1>1, <1>2, <2>1
<1>4. n \in Nat /\ n <= W
  BY <1>3 DEF W
<1>5. /\ a \in Nat /\ a <= W * C /\ (n + 1) * C = a + C
      /\ n + 1 <= W => a + C <= W * C
  <2>1. \A m, w, c \in Nat : m * c \in Nat /\ (m + 1) * c = m * c + c
    OBVIOUS
  <2>2. \A m, w, c \in Nat : m <= w => m * c <= w * c
    <3>1. \A m, d, c \in Nat : (m + d) * c = m * c + d * c /\ d * c >= 0
      OBVIOUS
    <3> SUFFICES ASSUME NEW m \in Nat, NEW w \in Nat, NEW c \in Nat, m <= w
                 PROVE  m * c <= w * c
      OBVIOUS
    <3>2. w - m \in Nat /\ m + (w - m) = w
      OBVIOUS
    <3>3. w * c = m * c + (w - m) * c /\ (w - m) * c >= 0
      BY <3>1, <3>2
    <3>4. m * c \in Int /\ (w - m) * c \in Int
      OBVIOUS
    <3> QED
      BY <3>3, <3>4
  <2>3. n + 1 \in Nat
    BY <1>4
  <2> QED
    BY <1>1, <1>3, <1>4, <2>1, <2>2, <2>3
<1>6. cutAt(n) = a /\ (n + 1 <= W => b = a + C) /\ (~ (n + 1 <= W) => b = L /\ n = W)
  BY <1>3, <1>4, <1>5
<1> HIDE DEF a, b
<1>7. a \in 0 .. L /\ b \in a .. L /\ b - a <= C
  <2>1. CASE n + 1 <= W
    BY <1>1, <1>3, <1>5, <1>6, <2>1
  <2>2. CASE ~ (n + 1 <= W)
    <3>1. a = W * C
      BY <1>6, <2>2 DEF a
    <3> QED
      BY <1>1, <1>3, <1>5, <1>6, <2>2, <3>1
  <2> QED
    BY <2>1, <2>2
<1>8. Part(n + 1) = SubSeq(preCapture, a + 1, b)
  <2>1. (n + 1) - 1 = n
    BY <1>4
  <2> QED
    BY <2>1 DEF Part, a, b, L, C, W
<1>9. SubSeq(preCapture, 1, a) \o SubSeq(preCapture, a + 1, b) = SubSeq(preCapture, 1, b)
  <2>1. 1 \in 1 .. Len(preCapture) + 1 /\ a \in 1 - 1 .. Len(preCapture) /\ b \in a .. Len(preCapture)
    BY <1>1, <1>7 DEF L
  <2> QED
    BY <1>1, <2>1, ConcatAdjacentSubSeq
<1>10. SubSeq(preCapture, a + 1, b) \in Seq(1 .. MaxHeard) /\ Len(SubSeq(preCapture, a + 1, b)) = b - a
  <2>1. a \in 0 .. Len(preCapture) /\ b \in a .. Len(preCapture)
    BY <1>7 DEF L
  <2> QED
    BY <1>1, <2>1, PieceFacts
<1> QED
  <2>1. Part(n + 1) \in FrameSeq /\ Len(Part(n + 1)) <= C
    BY <1>7, <1>8, <1>10 DEF FrameSeq
  <2>2. SubSeq(preCapture, 1, a) \o Part(n + 1) = SubSeq(preCapture, 1, b)
    BY <1>8, <1>9
  <2>3. /\ cutAt(n) \in 0 .. L /\ cutAt(n + 1) \in cutAt(n) .. L
        /\ SubSeq(preCapture, 1, cutAt(n)) \o Part(n + 1) = SubSeq(preCapture, 1, cutAt(n + 1))
    BY <1>6, <1>7, <2>2 DEF b
  <2> QED
    BY <1>3, <2>1, <2>3 DEF L, C, W

\* What has waited is sent: all of it arrives.
LEMMA GivingKeeps ==
  ASSUME preCapture \in FrameSeq, NEW t \in CaptureState, NothingGiven(t), Len(t.pcm) < ChunkSize,
         Ascends(preCapture)
  PROVE  /\ Attach(t) \in CaptureState /\ Attach(t).at = "attached" /\ Attach(t).due = t.due
         /\ Told(Attach(t)) /\ Given(Attach(t)) = preCapture /\ Len(Attach(t).pcm) < ChunkSize
<1> DEFINE N == Waited + 1
           Sent(f, n) == f = [k \in 0 .. n |-> IF k = 0 THEN t ELSE SendFrames(f[k - 1], Part(k))]
           S == {n \in 0 .. N : \E f : Sent(f, n)}
<1>1. Waited \in Nat /\ N \in Nat
  <2>1. Len(preCapture) \in Nat /\ ChunkSize \in Nat /\ ChunkSize > 0
    BY SoundAssumption DEF FrameSeq
  <2> QED
    BY <2>1 DEF Waited
<1>2. 0 \in S
  <2>1. Sent([k \in 0 .. 0 |-> t], 0)
    OBVIOUS
  <2>2. \E f : Sent(f, 0)
    <3> HIDE DEF Sent
    <3> QED
      BY <2>1
  <2> QED
    BY <1>1, <2>2
<1> HIDE DEF N
<1>3. ASSUME NEW n \in S, n < N
      PROVE  n + 1 \in S
  <2>1. PICK f : Sent(f, n)
    OBVIOUS
  <2> DEFINE g == [k \in 0 .. n + 1 |-> IF k = n + 1 THEN SendFrames(f[n], Part(n + 1)) ELSE f[k]]
  <2>2. ASSUME NEW k \in 0 .. n + 1
        PROVE  g[k] = IF k = 0 THEN t ELSE SendFrames(g[k - 1], Part(k))
    <3>1. CASE k = n + 1
      <4>1. k # 0 /\ k - 1 = n /\ n \in 0 .. n + 1 /\ n # n + 1
        BY <1>1, <3>1
      <4>2. g[k] = SendFrames(f[n], Part(n + 1)) /\ g[k - 1] = f[n]
        BY <3>1, <4>1
      <4> QED
        BY <3>1, <4>1, <4>2
    <3>2. CASE k # n + 1
      <4>1. k \in 0 .. n /\ g[k] = f[k]
        BY <1>1, <3>2
      <4>2. f[k] = IF k = 0 THEN t ELSE SendFrames(f[k - 1], Part(k))
        BY <2>1, <4>1
      <4>3. k # 0 => k - 1 \in 0 .. n + 1 /\ k - 1 # n + 1
        BY <1>1, <4>1
      <4> QED
        BY <4>1, <4>2, <4>3
    <3> QED
      BY <3>1, <3>2
  <2>3. DOMAIN g = 0 .. n + 1
    OBVIOUS
  <2>4. g = [k \in 0 .. n + 1 |-> g[k]]
    OBVIOUS
  <2> HIDE DEF g
  <2>5. Sent(g, n + 1)
    BY <2>2, <2>3, <2>4
  <2>6. \E h : Sent(h, n + 1)
    <3> HIDE DEF Sent
    <3> QED
      BY <2>5
  <2>7. n + 1 \in 0 .. N
    BY <1>1, <1>3
  <2> HIDE DEF Sent
  <2> QED
    BY <2>6, <2>7
<1>4. N \in S
  <2> HIDE DEF S
  <2>1. S \subseteq Nat
    BY <1>1 DEF S
  <2>2. 0 .. N \subseteq S
    BY <1>1, <1>2, <1>3, <2>1, AllUpTo
  <2> QED
    BY <1>1, <2>2
<1> DEFINE sent == CHOOSE f : Sent(f, N)
<1>5. Sent(sent, N)
  <2>1. \E f : Sent(f, N)
    BY <1>4
  <2> HIDE DEF Sent
  <2> QED
    BY <2>1
<1>6. Attach(t) = [sent[N] EXCEPT !.at = "attached"]
  BY DEF Attach, N
<1> HIDE DEF sent
<1>7. sent[0] = t /\ \A n \in 0 .. Waited : sent[n + 1] = SendFrames(sent[n], Part(n + 1))
  <2>1. \A k \in 0 .. N : sent[k] = IF k = 0 THEN t ELSE SendFrames(sent[k - 1], Part(k))
    BY <1>5
  <2>2. \A n \in 0 .. Waited : n + 1 \in 0 .. N /\ n + 1 # 0 /\ (n + 1) - 1 = n
    BY <1>1 DEF N
  <2>3. 0 \in 0 .. N
    BY <1>1
  <2> QED
    BY <2>1, <2>2, <2>3
<1> DEFINE cutAt(k) == IF k <= Waited THEN k * ChunkSize ELSE Len(preCapture)
           Good(r, k) == /\ r \in CaptureState /\ r.due = t.due /\ Told(r)
                         /\ Given(r) = SubSeq(preCapture, 1, cutAt(k)) /\ Len(r.pcm) < ChunkSize
           T == {n \in 0 .. N : Good(sent[n], n)}
<1>8. preCapture \in Seq(1 .. MaxHeard) /\ Len(preCapture) \in Nat
  BY DEF FrameSeq
<1>9. 0 \in T
  <2>1. cutAt(0) = 0
    BY <1>1, SoundAssumption
  <2>2. Given(t) = <<>> /\ SubSeq(preCapture, 1, 0) = <<>>
    BY <1>8 DEF NothingGiven, Given
  <2>3. Told(t)
    BY DEF NothingGiven, Told, Ascends, Range
  <2> HIDE DEF cutAt, Told
  <2>4. Good(sent[0], 0)
    BY <1>7, <2>1, <2>2, <2>3
  <2> HIDE DEF Good
  <2> QED
    BY <1>1, <2>4
<1>10. ASSUME NEW n \in T, n < N
       PROVE  n + 1 \in T
  <2>1. n \in 0 .. Waited /\ n + 1 \in 0 .. N
    BY <1>1, <1>10 DEF N
  <2>2. /\ Part(n + 1) \in FrameSeq /\ Len(Part(n + 1)) <= ChunkSize
        /\ cutAt(n + 1) \in 0 .. Len(preCapture)
        /\ SubSeq(preCapture, 1, cutAt(n)) \o Part(n + 1) = SubSeq(preCapture, 1, cutAt(n + 1))
    <3>1. /\ Part(n + 1) \in FrameSeq /\ Len(Part(n + 1)) <= ChunkSize
          /\ cutAt(n) \in 0 .. Len(preCapture) /\ cutAt(n + 1) \in cutAt(n) .. Len(preCapture)
          /\ SubSeq(preCapture, 1, cutAt(n)) \o Part(n + 1) = SubSeq(preCapture, 1, cutAt(n + 1))
      BY <2>1, PartFacts
    <3> HIDE DEF cutAt
    <3> QED
      BY <1>8, <3>1
  <2>3. Good(sent[n], n)
    OBVIOUS
  <2> HIDE DEF cutAt
  <2>4. Ascends(SubSeq(preCapture, 1, cutAt(n + 1)))
    <3>1. /\ SubSeq(preCapture, 1, cutAt(n + 1)) \in Seq(1 .. MaxHeard)
          /\ Len(SubSeq(preCapture, 1, cutAt(n + 1))) = cutAt(n + 1)
          /\ \A i \in 1 .. cutAt(n + 1) : SubSeq(preCapture, 1, cutAt(n + 1))[i] = preCapture[i]
      BY <1>8, <2>2, CutFacts
    <3>2. DOMAIN SubSeq(preCapture, 1, cutAt(n + 1)) = 1 .. cutAt(n + 1)
      BY <3>1
    <3>3. 1 .. cutAt(n + 1) \subseteq DOMAIN preCapture
      BY <1>8, <2>2
    <3> QED
      BY <3>1, <3>2, <3>3 DEF Ascends
  <2> HIDE DEF Told, Given, Ascends
  <2>5. sent[n] \in CaptureState
    BY <2>3
  <2>6. Ascends(Given(sent[n]) \o Part(n + 1))
    BY <2>2, <2>3, <2>4
  <2>7. LET r == SendFrames(sent[n], Part(n + 1))
        IN  /\ r \in CaptureState /\ r.at = sent[n].at /\ r.due = sent[n].due /\ Told(r)
            /\ Given(r) = Given(sent[n]) \o Part(n + 1) /\ Len(r.pcm) < ChunkSize
    BY <2>2, <2>3, <2>5, <2>6, SentFramesKeep
  <2>8. sent[n + 1] = SendFrames(sent[n], Part(n + 1))
    BY <1>7, <2>1
  <2>9. Good(sent[n + 1], n + 1)
    BY <2>2, <2>3, <2>7, <2>8
  <2> HIDE DEF Good
  <2> QED
    BY <2>1, <2>9
<1>11. N \in T
  <2>1. T \subseteq Nat
    BY <1>1
  <2> HIDE DEF T
  <2>2. 0 .. N \subseteq T
    BY <1>1, <1>9, <1>10, <2>1, AllUpTo
  <2> QED
    BY <1>1, <2>2
<1>12. Good(sent[N], N)
  BY <1>11
<1>13. SubSeq(preCapture, 1, cutAt(N)) = preCapture
  <2>1. cutAt(N) = Len(preCapture)
    BY <1>1 DEF N
  <2> QED
    BY <1>8, <2>1, SubSeqFull
<1> HIDE DEF cutAt
<1>14. /\ Attach(t) \in CaptureState /\ Attach(t).at = "attached" /\ Attach(t).due = sent[N].due
       /\ Attach(t).pcm = sent[N].pcm /\ Attach(t).taken = sent[N].taken
       /\ Attach(t).told = sent[N].told
  BY <1>6, <1>12 DEF CaptureState
<1>15. Told(Attach(t)) <=> Told(sent[N])
  BY <1>14 DEF Told
<1>16. Given(Attach(t)) = Given(sent[N])
  BY <1>14 DEF Given
<1> QED
  BY <1>12, <1>13, <1>14, <1>15, <1>16

\* A frame is a number.
LEMMA FramesAreNumbers ==
  /\ MaxHeard \in Nat /\ ChunkSize \in Nat \ {0} /\ PreCaptureSize \in Nat
  /\ PrerollSize \in Nat /\ InboxSize \in Nat
  /\ \A s \in FrameSeq : s \in Seq(1 .. MaxHeard) /\ s \in Seq(Nat)
  /\ \A s \in Seq(1 .. MaxHeard) : s \in FrameSeq
  /\ \A s, t \in FrameSeq : s \o t \in FrameSeq
  /\ <<>> \in FrameSeq /\ \A t \in FrameSeq : <<>> \o t = t /\ t \o <<>> = t
BY SoundAssumption DEF FrameSeq

\* The end of a sequence is in order if all of it is.
LEMMA EndOrdered ==
  ASSUME NEW u \in FrameSeq, NEW k \in FrameSeq, NEW s, s = u \o k, Ascends(s)
  PROVE  Ascends(k) /\ Range(k) \subseteq Range(s)
BY ConcatFacts, FramesAreNumbers

\* What holds frames in order is in order, and has no others.
LEMMA HoldsOrdered ==
  ASSUME NEW has \in FrameSeq, NEW all \in FrameSeq, Holds(has, all), Ascends(all)
  PROVE  Ascends(has) /\ Range(has) \subseteq Range(all)
<1>1. has \in Seq(1 .. MaxHeard) /\ all \in Seq(1 .. MaxHeard)
  BY FramesAreNumbers
<1>2. PICK u \in Seq(1 .. MaxHeard) : all = u \o has
  BY <1>1, HoldsMeans
<1>3. u \in FrameSeq
  BY <1>2, FramesAreNumbers
<1> QED
  BY <1>2, <1>3, EndOrdered

\* A list holds itself.
LEMMA HoldsAll ==
  ASSUME NEW s \in FrameSeq
  PROVE  Holds(s, s)
<1>1. s \in Seq(1 .. MaxHeard) /\ <<>> \in Seq(1 .. MaxHeard) /\ s = <<>> \o s /\ Len(s) >= Len(s)
  BY FramesAreNumbers
<1> QED
  BY <1>1, HoldsMeans

\* What is left of a buffer is in order too.
LEMMA KeptOrdered ==
  ASSUME NEW s \in FrameSeq, NEW n \in Nat, Ascends(s)
  PROVE  /\ KeepLast(s, n) \in FrameSeq /\ Len(KeepLast(s, n)) <= n
         /\ Ascends(KeepLast(s, n)) /\ Range(KeepLast(s, n)) \subseteq Range(s)
<1>1. s \in Seq(1 .. MaxHeard)
  BY FramesAreNumbers
<1>2. KeepLast(s, n) \in Seq(1 .. MaxHeard) /\ Len(KeepLast(s, n)) <= n
  BY <1>1, KeepLastFacts
<1>3. PICK u \in Seq(1 .. MaxHeard) : s = u \o KeepLast(s, n)
  BY <1>1, KeepLastEnds
<1>4. KeepLast(s, n) \in FrameSeq /\ u \in FrameSeq
  BY <1>2, <1>3, FramesAreNumbers
<1> QED
  BY <1>2, <1>3, <1>4, EndOrdered

\* The first frame of an inbox, and those behind it.
LEMMA FirstAndRest ==
  ASSUME NEW s \in FrameSeq, s # <<>>, Ascends(s)
  PROVE  /\ Head(s) \in 1 .. MaxHeard /\ <<Head(s)>> \in FrameSeq /\ Tail(s) \in FrameSeq
         /\ Len(Tail(s)) < Len(s) /\ Len(<<Head(s)>>) = 1 /\ Range(<<Head(s)>>) = {Head(s)}
         /\ Range(s) = {Head(s)} \cup Range(Tail(s))
         /\ Ascends(<<Head(s)>>) /\ Ascends(Tail(s)) /\ Before(<<Head(s)>>, Tail(s))
<1>1. /\ s \in Seq(1 .. MaxHeard) /\ Head(s) \in 1 .. MaxHeard /\ Tail(s) \in Seq(1 .. MaxHeard)
      /\ Len(Tail(s)) < Len(s)
  BY FramesAreNumbers
<1>2. s = <<Head(s)>> \o Tail(s)
  BY <1>1
<1>3. <<Head(s)>> \in Seq(1 .. MaxHeard) /\ Len(<<Head(s)>>) = 1
  BY <1>1
<1>4. Range(<<Head(s)>>) = {Head(s)}
  BY DEF Range
<1>5. <<Head(s)>> \in Seq(Nat) /\ Tail(s) \in Seq(Nat)
  BY <1>1, <1>3, FramesAreNumbers
<1> DEFINE h == <<Head(s)>>
           t == Tail(s)
<1> HIDE DEF h, t
<1>6. Range(s) = Range(h) \cup Range(t) /\ Ascends(h) /\ Ascends(t) /\ Before(h, t)
  <2>1. h \in Seq(Nat) /\ t \in Seq(Nat) /\ s = h \o t
    BY <1>2, <1>5 DEF h, t
  <2> QED
    BY <2>1, ConcatFacts
<1> QED
  BY <1>1, <1>3, <1>4, <1>6, FramesAreNumbers DEF h, t

\* What was given to a transcriber.
LEMMA GivenFacts ==
  ASSUME NEW t \in CaptureState
  PROVE  /\ t.taken \in FrameSeq /\ t.pcm \in FrameSeq /\ t.told \in FrameSeq /\ t.due \in FrameSeq
         /\ Given(t) \in FrameSeq /\ Range(Given(t)) = Range(t.taken) \cup Range(t.pcm)
         /\ NothingGiven(t) => Given(t) = <<>> /\ Range(Given(t)) = {}
<1>1. /\ t.taken \in FrameSeq /\ t.pcm \in FrameSeq /\ t.told \in FrameSeq /\ t.due \in FrameSeq
  BY DEF CaptureState
<1>2. Given(t) \in FrameSeq /\ Range(Given(t)) = Range(t.taken) \cup Range(t.pcm)
  BY <1>1, FramesAreNumbers, ConcatFacts DEF Given
<1>3. NothingGiven(t) => Given(t) = <<>> /\ Range(Given(t)) = {}
  BY FramesAreNumbers DEF NothingGiven, Given, Range
<1> QED
  BY <1>1, <1>2, <1>3

\* Only where a transcriber stands changes.
LEMMA Relabelled ==
  ASSUME NEW t \in CaptureState, TranscriberKept(t), NEW d \in FrameSeq, NEW at,
         at = "closed" \/ (at = "finalizing" /\ Holds(Given(t), d))
  PROVE  LET r == [t EXCEPT !.at = at, !.due = d]
         IN  /\ r \in CaptureState /\ TranscriberKept(r) /\ r.at = at /\ Given(r) = Given(t)
             /\ r.taken = t.taken /\ r.pcm = t.pcm /\ r.told = t.told
<1> DEFINE r == [t EXCEPT !.at = at, !.due = d]
<1>1. /\ r \in CaptureState /\ r.at = at /\ r.taken = t.taken /\ r.pcm = t.pcm /\ r.told = t.told
      /\ r.due = d
  BY DEF CaptureState
<1> HIDE DEF r
<1>2. Given(r) = Given(t)
  BY <1>1 DEF Given
<1>3. Told(r)
  BY <1>1 DEF TranscriberKept, Told
<1> HIDE DEF Given, Told
<1>4. TranscriberKept(r)
  BY <1>1, <1>2, <1>3 DEF TranscriberKept
<1> QED
  BY <1>1, <1>2, <1>4 DEF r

\* A transcriber that is closed keeps what it was given.
LEMMA ClosedKeeps ==
  ASSUME NEW t \in CaptureState, TranscriberKept(t)
  PROVE  LET r == [t EXCEPT !.at = "closed"]
         IN  /\ r \in CaptureState /\ TranscriberKept(r) /\ r.at = "closed" /\ Given(r) = Given(t)
             /\ r.taken = t.taken /\ r.pcm = t.pcm /\ r.told = t.told
<1> DEFINE r == [t EXCEPT !.at = "closed"]
<1>1. /\ r \in CaptureState /\ r.at = "closed" /\ r.taken = t.taken /\ r.pcm = t.pcm
      /\ r.told = t.told
  BY DEF CaptureState
<1> HIDE DEF r
<1>2. Given(r) = Given(t)
  BY <1>1 DEF Given
<1>3. Told(r)
  BY <1>1 DEF TranscriberKept, Told
<1> HIDE DEF Given, Told
<1>4. TranscriberKept(r)
  BY <1>1, <1>2, <1>3 DEF TranscriberKept
<1> QED
  BY <1>1, <1>2, <1>4 DEF r

\* What the invariant says of the buffers and of the capture in progress.
LEMMA SoundFacts ==
  ASSUME SoundInv
  PROVE  /\ preroll \in FrameSeq /\ inbox \in FrameSeq /\ due \in FrameSeq /\ preCapture \in FrameSeq
         /\ arrived \in Nat /\ wake \in Nat
         /\ Ascends(preroll) /\ Ascends(inbox) /\ Ascends(due)
         /\ Range(due) \subseteq Waiting /\ Range(inbox) \subseteq Waiting
         /\ Range(preroll) \subseteq Waiting /\ Waiting \subseteq 1 .. arrived
         /\ \A w \in Wakes : /\ transcribers[w] \in CaptureState /\ TranscriberKept(transcribers[w])
                             /\ Given(transcribers[w]) \in FrameSeq
                             /\ transcribers[w].at # "none" => w <= wake
<1>1. \A w \in Wakes : transcribers[w] \in CaptureState
  BY DEF SoundInv, SoundTypeOK
<1>2. \A w \in Wakes : Given(transcribers[w]) \in FrameSeq
  BY <1>1, GivenFacts
<1>3. wake \in Nat /\ arrived \in Nat /\ Wakes \subseteq Nat
  BY SoundAssumption DEF SoundInv, SoundTypeOK, Wakes
<1>4. \A w \in Wakes : transcribers[w].at # "none" => w <= wake
  BY <1>3 DEF SoundInv
<1> QED
  BY <1>1, <1>2, <1>3, <1>4 DEF SoundInv, SoundTypeOK, WaitingInOrder, Waiting

\* What is known of the transcriber of the capture in progress.
LEMMA CapturingFacts ==
  ASSUME SoundInv, capturing, NEW t, t = transcribers[wake]
  PROVE  /\ wake \in Wakes /\ t \in CaptureState /\ TranscriberKept(t)
         /\ t.at \in {"opening", "attached", "closed"}
         /\ t.at # "attached" => NothingGiven(t) /\ Given(t) = <<>>
         /\ Ascends(preCapture) /\ Range(preCapture) \subseteq Range(due)
         /\ Range(Given(t)) \subseteq Range(due)
         /\ Given(t) \o preCapture \in FrameSeq /\ Holds(Given(t) \o preCapture, due)
         /\ t.at # "attached" => Holds(preCapture, due)
         /\ t.at = "attached" => preCapture = <<>> /\ Holds(Given(t), due)
<1>1. wake \in Wakes /\ CaptureKept
  BY DEF SoundInv, CaptureKept
<1>2. t \in CaptureState /\ TranscriberKept(t) /\ Given(t) \in FrameSeq
  BY <1>1, SoundFacts
<1>3. /\ preCapture \in FrameSeq /\ due \in FrameSeq /\ Ascends(due)
  BY SoundFacts
<1>4. /\ t.at \in {"opening", "attached", "closed"}
      /\ t.at # "attached" => NothingGiven(t)
      /\ t.at = "attached" => preCapture = <<>>
      /\ Holds(Given(t) \o preCapture, due)
  BY <1>1 DEF CaptureKept
<1>5. Given(t) \o preCapture \in FrameSeq
  BY <1>2, <1>3, FramesAreNumbers
<1>6. Ascends(Given(t) \o preCapture) /\ Range(Given(t) \o preCapture) \subseteq Range(due)
  BY <1>3, <1>4, <1>5, HoldsOrdered
<1>7. /\ Ascends(preCapture) /\ Range(preCapture) \subseteq Range(due)
      /\ Range(Given(t)) \subseteq Range(due)
  <2>1. Given(t) \in Seq(Nat) /\ preCapture \in Seq(Nat)
    BY <1>2, <1>3, FramesAreNumbers
  <2>2. /\ Range(Given(t) \o preCapture) = Range(Given(t)) \cup Range(preCapture)
        /\ Ascends(preCapture)
    BY <1>6, <2>1, ConcatFacts
  <2> QED
    BY <1>6, <2>2
<1>8. t.at # "attached" => Given(t) = <<>> /\ Holds(preCapture, due)
  <2>1. t.at # "attached" => Given(t) = <<>>
    BY <1>2, <1>4, FramesAreNumbers DEF NothingGiven, Given
  <2>2. <<>> \o preCapture = preCapture
    BY <1>3, FramesAreNumbers
  <2> QED
    BY <1>4, <2>1, <2>2
<1>9. t.at = "attached" => Holds(Given(t), due)
  BY <1>2, <1>4, FramesAreNumbers
<1> QED
  BY <1>1, <1>2, <1>4, <1>5, <1>7, <1>8, <1>9

\* A transcriber moves, and what it has been given it had or was due to it.
LEMMA OneMoves ==
  ASSUME SoundInv, NEW w \in Wakes, NEW r \in CaptureState, TranscriberKept(r), w <= wake,
         transcribers' = [transcribers EXCEPT ![w] = r], UNCHANGED <<arrived, quiet, wake>>,
         capturing' \in BOOLEAN, Waiting' \subseteq Waiting,
         capturing' => capturing, capturing => capturing' \/ w = wake,
         Range(Given(r)) \subseteq
           Range(Given(transcribers[w])) \cup (IF capturing /\ w = wake THEN Waiting ELSE {}),
         (capturing' /\ w = wake) \/ Range(Given(r)) \cap Waiting' = {}
  PROVE  /\ transcribers' \in [Wakes -> CaptureState] /\ FramesApart'
         /\ \A v \in Wakes : /\ TranscriberKept(transcribers[v])'
                             /\ v > wake' => transcribers'[v].at = "none"
<1>1. /\ transcribers \in [Wakes -> CaptureState] /\ FramesApart
      /\ \A v \in Wakes : /\ TranscriberKept(transcribers[v])
                          /\ v > wake => transcribers[v].at = "none"
  BY DEF SoundInv, SoundTypeOK
<1>2. transcribers' \in [Wakes -> CaptureState] /\ transcribers'[w] = r
      /\ \A v \in Wakes : v # w => transcribers'[v] = transcribers[v]
  BY <1>1
<1>3. ASSUME NEW v \in Wakes
      PROVE  TranscriberKept(transcribers[v])'
  <2>1. TranscriberKept(transcribers'[v])
    BY <1>1, <1>2
  <2> QED
    BY <2>1 DEF TranscriberKept, Told, Given, NothingGiven
<1>4. ASSUME NEW v \in Wakes, v > wake'
      PROVE  transcribers'[v].at = "none"
  <2>1. v # w /\ v > wake
    <3>1. wake \in Nat /\ v \in Nat /\ w \in Nat
      BY SoundFacts DEF Wakes
    <3> QED
      BY <1>4, <3>1
  <2> QED
    BY <1>1, <1>2, <2>1
<1> DEFINE G(v) == Range(Given(transcribers[v]))
           H(v) == Range(Given(transcribers'[v]))
<1>5. /\ \A u, v \in Wakes : u # v => G(u) \cap G(v) = {}
      /\ \A v \in Wakes : ~ (capturing /\ v = wake) => G(v) \cap Waiting = {}
  BY <1>1 DEF FramesApart
<1>6. \A v \in Wakes : v # w => H(v) = G(v)
  BY <1>2
<1>7. /\ H(w) \subseteq G(w) \cup (IF capturing /\ w = wake THEN Waiting ELSE {})
      /\ (capturing' /\ w = wake) \/ H(w) \cap Waiting' = {}
  BY <1>2
<1> HIDE DEF G, H
<1>8. \A v \in Wakes : v # w => H(w) \cap H(v) = {}
  <2> SUFFICES ASSUME NEW v \in Wakes, v # w
               PROVE  H(w) \cap G(v) = {}
    BY <1>6
  <2>1. G(w) \cap G(v) = {}
    BY <1>5
  <2>2. capturing /\ w = wake => G(v) \cap Waiting = {}
    BY <1>5
  <2> QED
    BY <1>7, <2>1, <2>2
<1>9. \A u, v \in Wakes : u # v => H(u) \cap H(v) = {}
  BY <1>5, <1>6, <1>8
<1>10. ASSUME NEW v \in Wakes, ~ (capturing' /\ v = wake')
       PROVE  H(v) \cap Waiting' = {}
  <2>1. CASE v = w
    BY <1>7, <1>10, <2>1
  <2>2. CASE v # w
    <3>1. ~ (capturing /\ v = wake)
      BY <1>10, <2>2
    <3>2. G(v) \cap Waiting = {}
      BY <1>5, <3>1
    <3> QED
      BY <1>6, <2>2, <3>2
  <2> QED
    BY <2>1, <2>2
<1>11. FramesApart'
  BY <1>9, <1>10 DEF FramesApart, G, H, Given
<1> QED
  BY <1>2, <1>3, <1>4, <1>11

\* The inbox may lose a frame.
Shortened ==
  /\ inbox' \in FrameSeq /\ Len(inbox') <= InboxSize /\ Ascends(inbox')
  /\ Range(inbox') \subseteq Range(inbox)

\* So it is when nothing is taken out of it, or its first frame.
LEMMA InboxShortens ==
  ASSUME SoundInv, UNCHANGED inbox \/ (inbox # <<>> /\ inbox' = Tail(inbox))
  PROVE  Shortened
<1>1. inbox \in FrameSeq /\ Ascends(inbox)
  BY SoundFacts
<1>2. Len(inbox) <= InboxSize /\ InboxSize \in Nat
  BY FramesAreNumbers, SoundAssumption DEF SoundInv, SoundTypeOK
<1> HIDE DEF SoundInv
<1>3. CASE UNCHANGED inbox
  BY <1>1, <1>2, <1>3 DEF Shortened
<1>4. CASE inbox # <<>> /\ inbox' = Tail(inbox)
  <2>1. /\ Tail(inbox) \in FrameSeq /\ Len(Tail(inbox)) < Len(inbox) /\ Ascends(Tail(inbox))
        /\ Range(Tail(inbox)) \subseteq Range(inbox)
    BY <1>1, <1>4, FirstAndRest
  <2>2. Len(inbox) \in Nat /\ Len(Tail(inbox)) \in Nat
    <3>1. inbox \in Seq(1 .. MaxHeard) /\ Tail(inbox) \in Seq(1 .. MaxHeard)
      BY <1>1, <2>1, FramesAreNumbers
    <3> QED
      BY <3>1
  <2> DEFINE n == Len(inbox)
             k == Len(Tail(inbox))
  <2>3. n <= InboxSize /\ k < n /\ n \in Nat /\ k \in Nat
    BY <1>2, <2>1, <2>2
  <2> HIDE DEF n, k
  <2>4. k <= InboxSize
    BY <1>2, <2>3
  <2> QED
    BY <1>4, <2>1, <2>4 DEF Shortened, k
<1> QED
  BY <1>3, <1>4

\* The end of a capture: its transcriber keeps what it was given, the rest is gone.
LEMMA EndSoundKeeps ==
  ASSUME SoundInv, capturing, EndSound, UNCHANGED <<arrived, quiet, wake>>, Shortened,
         NEW r \in CaptureState, TranscriberKept(r), Range(Given(r)) \subseteq Range(due),
         transcribers' = [transcribers EXCEPT ![wake] = r]
  PROVE  SoundInv'
<1>1. /\ preroll' = <<>> /\ preCapture' = <<>> /\ due' = <<>>
      /\ capturing' = FALSE /\ ensuring' = FALSE
  BY DEF EndSound
<1>2. Range(<<>>) = {} /\ Ascends(<<>>) /\ <<>> \in FrameSeq /\ Len(<<>>) = 0
  BY FramesAreNumbers DEF Range, Ascends
<1>3. Waiting' = Range(inbox') /\ Waiting' \subseteq Waiting /\ Waiting' \subseteq Range(inbox)
  BY <1>1, <1>2 DEF Waiting, Shortened
<1>4. wake \in Wakes /\ wake \in Nat /\ Range(due) \subseteq Waiting
  BY SoundFacts, CapturingFacts
<1>5. Range(due) \cap Range(inbox) = {}
  <2>1. Before(due, inbox)
    BY DEF SoundInv, WaitingInOrder
  <2>0. Range(due) \subseteq 1 .. arrived /\ arrived \in Nat
    BY SoundFacts
  <2> SUFFICES ASSUME NEW f \in Range(due), f \in Range(inbox) PROVE FALSE
    OBVIOUS
  <2>2. f < f /\ f \in Nat
    BY <2>0, <2>1 DEF Before
  <2> QED
    BY <2>2
<1>6. /\ transcribers' \in [Wakes -> CaptureState] /\ FramesApart'
      /\ \A v \in Wakes : /\ TranscriberKept(transcribers[v])'
                          /\ v > wake' => transcribers'[v].at = "none"
  <2>1. wake <= wake
    BY <1>4
  <2>4. capturing' \in BOOLEAN
    BY <1>1, Zenon
  <2>3. Range(Given(r)) \cap Waiting' = {}
    <3> HIDE DEF Waiting, Given
    <3> QED
      BY <1>3, <1>5
  <2>2. Range(Given(r)) \subseteq Range(Given(transcribers[wake])) \cup Waiting
    BY <1>4
  <2> HIDE DEF SoundInv, TranscriberKept, Waiting, Given, FramesApart
  <2> QED
    BY <1>1, <1>3, <1>4, <2>1, <2>2, <2>3, <2>4, OneMoves
<1>7. SoundTypeOK'
  <2>1. PrerollSize >= 0 /\ PreCaptureSize >= 0
    BY FramesAreNumbers
  <2> QED
    BY <1>1, <1>2, <1>6, <2>1 DEF SoundInv, SoundTypeOK, Shortened
<1>8. WaitingInOrder'
  <2>1. Before(<<>>, inbox') /\ Ascends(inbox') /\ Waiting' \subseteq 1 .. arrived
    BY <1>2, <1>3 DEF Before, SoundInv, WaitingInOrder, Shortened
  <2> QED
    BY <1>1, <1>2, <2>1 DEF WaitingInOrder, Waiting
<1> QED
  BY <1>1, <1>6, <1>7, <1>8 DEF SoundInv

\* A transcriber moves beside the capture in progress, or is closed in it.
LEMMA AsideKeeps ==
  ASSUME SoundInv, UNCHANGED <<arrived, quiet, inbox, preroll, capturing, ensuring, wake,
                               preCapture, due>>,
         NEW w \in Wakes, NEW r \in CaptureState, TranscriberKept(r),
         transcribers[w].at # "none", Range(Given(r)) = Range(Given(transcribers[w])),
         transcribers' = [transcribers EXCEPT ![w] = r],
         capturing /\ w = wake => r.at = "closed" /\ NothingGiven(r)
  PROVE  SoundInv'
<1>1. Waiting' = Waiting
  BY DEF Waiting
<1>2. w <= wake /\ wake \in Nat /\ capturing \in BOOLEAN
  BY SoundFacts DEF SoundInv, SoundTypeOK
<1>3. ~ (capturing /\ w = wake) => Range(Given(r)) \cap Waiting = {}
  BY DEF SoundInv, FramesApart
<1>4. /\ transcribers' \in [Wakes -> CaptureState] /\ FramesApart'
      /\ \A v \in Wakes : /\ TranscriberKept(transcribers[v])'
                          /\ v > wake' => transcribers'[v].at = "none"
  <2>1. (capturing' /\ w = wake) \/ Range(Given(r)) \cap Waiting' = {}
    BY <1>1, <1>2, <1>3
  <2>2. /\ capturing' \in BOOLEAN /\ Waiting' \subseteq Waiting
        /\ capturing' => capturing
        /\ capturing => capturing' \/ w = wake
        /\ UNCHANGED <<arrived, quiet, wake>>
        /\ Range(Given(r)) \subseteq
             Range(Given(transcribers[w])) \cup (IF capturing /\ w = wake THEN Waiting ELSE {})
    BY <1>1, <1>2
  <2> HIDE DEF SoundInv, TranscriberKept, Waiting, Given, FramesApart
  <2> QED
    BY <1>1, <1>2, <2>1, <2>2, OneMoves
<1>5. SoundTypeOK' /\ WaitingInOrder'
  BY <1>1, <1>4 DEF SoundInv, SoundTypeOK, WaitingInOrder, Before, Ascends
<1>6. capturing' => CaptureKept'
  <2> SUFFICES ASSUME capturing PROVE CaptureKept'
    OBVIOUS
  <2>1. CaptureKept /\ wake \in Wakes
    BY DEF SoundInv, CaptureKept
  <2>2. CASE w = wake
    <3>1. transcribers'[wake] = r /\ r.at = "closed" /\ NothingGiven(r) /\ Given(r) = <<>>
      <4>1. NothingGiven(r) /\ r.at = "closed"
        BY <2>2
      <4>2. Given(r) = <<>>
        BY <4>1, FramesAreNumbers DEF NothingGiven, Given
      <4> QED
        BY <2>2, <4>1, <4>2 DEF SoundInv, SoundTypeOK
    <3>2. transcribers[wake].at # "attached" => Given(transcribers[wake]) = <<>>
      BY CapturingFacts
    <3>3. transcribers[wake].at = "attached" => preCapture = <<>>
      BY CapturingFacts
    <3>4. Given(transcribers[wake]) = <<>>
      <4>1. Range(Given(transcribers[wake])) = {}
        BY <2>2, <3>1 DEF Range
      <4>2. Given(transcribers[wake]) \in FrameSeq
        BY <2>1, SoundFacts
      <4>3. Given(transcribers[wake]) \in Seq(1 .. MaxHeard)
        BY <4>2, FramesAreNumbers
      <4>4. \A s \in Seq(1 .. MaxHeard) : Range(s) = {} => s = <<>>
        BY DEF Range
      <4> QED
        BY <4>1, <4>3, <4>4
    <3>5. Holds(Given(r) \o preCapture, due)
      BY <2>1, <3>1, <3>4 DEF CaptureKept
    <3> QED
      BY <2>1, <3>1, <3>5 DEF CaptureKept, Holds, Given, NothingGiven
  <2>3. CASE w # wake
    <3>1. transcribers'[wake] = transcribers[wake]
      BY <2>1, <2>3 DEF SoundInv, SoundTypeOK
    <3> QED
      BY <2>1, <3>1 DEF CaptureKept, Holds, Given, NothingGiven
  <2> QED
    BY <2>2, <2>3
<1> QED
  BY <1>4, <1>5, <1>6 DEF SoundInv

\* A transcriber that has what is due is finished, or closed.
LEMMA HandOverKeeps ==
  ASSUME SoundInv, capturing, UNCHANGED <<arrived, quiet, wake>>, Shortened,
         NEW t \in CaptureState, TranscriberKept(t), Range(Given(t)) \subseteq Range(due),
         Holds(Given(t), due), HandOver(t)
  PROVE  SoundInv'
<1>1. PICK at \in {"finalizing", "closed"} :
        transcribers' = [transcribers EXCEPT ![wake] = [t EXCEPT !.at = at, !.due = due]]
  BY DEF HandOver
<1>2. EndSound
  BY DEF HandOver
<1> DEFINE r == [t EXCEPT !.at = at, !.due = due]
<1>3. due \in FrameSeq
  BY SoundFacts
<1> HIDE DEF TranscriberKept, Given, EndSound, SoundInv, HandOver
<1>4. r \in CaptureState /\ TranscriberKept(r) /\ Given(r) = Given(t)
  <2>1. at = "closed" \/ (at = "finalizing" /\ Holds(Given(t), due))
    BY <1>1
  <2> QED
    BY <1>3, <2>1, Relabelled
<1>5. Range(Given(r)) \subseteq Range(due) /\ transcribers' = [transcribers EXCEPT ![wake] = r]
  BY <1>1, <1>4
<1> HIDE DEF r
<1> QED
  BY <1>2, <1>4, <1>5, EndSoundKeeps

\* The transcriber of the capture in progress, with what has waited for it.
LEMMA AttachedFacts ==
  ASSUME SoundInv, capturing, NEW t, t = transcribers[wake], t.at = "opening"
  PROVE  /\ Attach(t) \in CaptureState /\ TranscriberKept(Attach(t)) /\ Attach(t).at = "attached"
         /\ Given(Attach(t)) = preCapture
         /\ Range(preCapture) \subseteq Range(due) /\ Holds(preCapture, due)
<1>1. /\ t \in CaptureState /\ TranscriberKept(t) /\ NothingGiven(t) /\ Ascends(preCapture)
      /\ Range(preCapture) \subseteq Range(due) /\ Holds(preCapture, due)
  BY CapturingFacts
<1>2. preCapture \in FrameSeq /\ Range(due) \subseteq 1 .. arrived
  BY SoundFacts
<1>3. Len(t.pcm) < ChunkSize
  BY <1>1 DEF TranscriberKept
<1>4. /\ Attach(t) \in CaptureState /\ Attach(t).at = "attached" /\ Told(Attach(t))
      /\ Given(Attach(t)) = preCapture /\ Len(Attach(t).pcm) < ChunkSize
  BY <1>1, <1>2, <1>3, GivingKeeps
<1>5. TranscriberKept(Attach(t))
  <2> HIDE DEF Told, Given, Ascends
  <2> QED
    BY <1>1, <1>2, <1>4 DEF TranscriberKept
<1> QED
  BY <1>1, <1>4, <1>5

\* In the state of a transcriber the places of FlushSound and of what is closed.
LEMMA PutClosed ==
  ASSUME transcribers \in [Wakes -> CaptureState], NEW w \in Wakes
  PROVE  [transcribers EXCEPT ![w].at = "closed"] =
           [transcribers EXCEPT ![w] = [transcribers[w] EXCEPT !.at = "closed"]]
OBVIOUS

\* A transcriber opens, for the capture in progress or too late.
LEMMA OpensKeeps ==
  ASSUME SoundInv, NEW w \in Wakes, TranscriberOpens(w)
  PROVE  SoundInv'
<1>1. transcribers[w] \in CaptureState /\ TranscriberKept(transcribers[w])
  BY SoundFacts
<1>2. transcribers[w].at = "opening" /\ UNCHANGED <<arrived, quiet, inbox, wake>>
  BY DEF TranscriberOpens
<1>3. transcribers \in [Wakes -> CaptureState] /\ capturing \in BOOLEAN /\ (ensuring => capturing)
  BY DEF SoundInv, SoundTypeOK
<1>4. CASE /\ capturing /\ w = wake /\ ~ ensuring
           /\ transcribers' = [transcribers EXCEPT ![w] = Attach(transcribers[w])]
           /\ preCapture' = <<>>
           /\ UNCHANGED <<preroll, capturing, ensuring, due>>
  <2> DEFINE r == Attach(transcribers[w])
  <2>1. /\ r \in CaptureState /\ TranscriberKept(r) /\ r.at = "attached" /\ Given(r) = preCapture
        /\ Range(preCapture) \subseteq Range(due) /\ Holds(preCapture, due)
    BY <1>2, <1>4, AttachedFacts
  <2>2. Waiting' = Waiting
    BY <1>2, <1>4 DEF Waiting
  <2>3. /\ w <= wake /\ Range(due) \subseteq Waiting /\ wake \in Nat
        /\ transcribers' = [transcribers EXCEPT ![w] = r]
    BY <1>2, <1>4, SoundFacts
  <2> HIDE DEF r
  <2>4. Range(Given(r)) \subseteq
          Range(Given(transcribers[w])) \cup (IF capturing /\ w = wake THEN Waiting ELSE {})
    <3> HIDE DEF Given, Waiting
    <3> QED
      BY <1>4, <2>1, <2>3
  <2>5. /\ transcribers' \in [Wakes -> CaptureState] /\ FramesApart'
        /\ \A v \in Wakes : /\ TranscriberKept(transcribers[v])'
                            /\ v > wake' => transcribers'[v].at = "none"
    <3>1. /\ capturing' \in BOOLEAN /\ Waiting' \subseteq Waiting
          /\ capturing' => capturing
          /\ capturing => capturing' \/ w = wake
          /\ capturing' /\ w = wake
          /\ UNCHANGED <<arrived, quiet, wake>>
      BY <1>2, <1>3, <1>4, <2>2
    <3> HIDE DEF SoundInv, TranscriberKept, Waiting, Given, FramesApart
    <3> QED
      BY <2>1, <2>3, <2>4, <3>1, OneMoves
  <2>6. SoundTypeOK'
    <3>1. <<>> \in FrameSeq /\ Len(<<>>) <= PreCaptureSize
      BY FramesAreNumbers
    <3> QED
      BY <1>2, <1>4, <2>5, <3>1 DEF SoundInv, SoundTypeOK
  <2>7. WaitingInOrder'
    <3>1. /\ Waiting' \subseteq 1 .. arrived'
          /\ Ascends(preroll)' /\ Ascends(due)' /\ Ascends(inbox)'
          /\ Before(preroll, inbox)' /\ Before(due, inbox)'
      BY <1>2, <1>4, <2>2 DEF SoundInv, WaitingInOrder, Ascends, Before
    <3> QED
      BY <1>4, <3>1 DEF SoundInv, WaitingInOrder
  <2>8. CaptureKept'
    <3>1. transcribers'[wake'] = r /\ wake' = wake /\ preCapture' = <<>> /\ due' = due
      BY <1>2, <1>3, <1>4, <2>3
    <3>2. Given(r) \o <<>> = Given(r)
      BY <2>1, GivenFacts, FramesAreNumbers
    <3>3. Holds(Given(r) \o <<>>, due)
      BY <2>1, <3>2
    <3> QED
      BY <1>4, <2>1, <3>1, <3>3 DEF CaptureKept, Holds, Given
  <2> QED
    BY <2>5, <2>6, <2>7, <2>8 DEF SoundInv
<1>5. CASE ensuring /\ w = wake /\ HandOver(Attach(transcribers[w]))
  <2> DEFINE r == Attach(transcribers[w])
  <2>1. /\ r \in CaptureState /\ TranscriberKept(r) /\ Given(r) = preCapture
        /\ Range(preCapture) \subseteq Range(due) /\ Holds(preCapture, due)
    BY <1>2, <1>3, <1>5, AttachedFacts
  <2>2. Range(Given(r)) \subseteq Range(due) /\ Holds(Given(r), due)
    BY <2>1
  <2> HIDE DEF r, SoundInv, TranscriberKept, Given
  <2>3. HandOver(r)
    BY <1>5 DEF r
  <2>4. Shortened
    BY <1>2, InboxShortens
  <2> QED
    BY <1>2, <1>3, <1>5, <2>1, <2>2, <2>3, <2>4, HandOverKeeps
<1>6. CASE /\ ~ (capturing /\ w = wake /\ ensuring)
           /\ transcribers' = [transcribers EXCEPT ![w].at = "closed"]
           /\ UNCHANGED <<preroll, capturing, ensuring, preCapture, due>>
  <2> DEFINE r == [transcribers[w] EXCEPT !.at = "closed"]
  <2>1. /\ r \in CaptureState /\ TranscriberKept(r) /\ r.at = "closed"
        /\ Given(r) = Given(transcribers[w]) /\ r.taken = transcribers[w].taken
        /\ r.pcm = transcribers[w].pcm /\ r.told = transcribers[w].told
    BY <1>1, ClosedKeeps
  <2>2. NothingGiven(r)
    BY <1>1, <1>2, <2>1 DEF TranscriberKept, NothingGiven
  <2>3. transcribers' = [transcribers EXCEPT ![w] = r]
    BY <1>3, <1>6, PutClosed
  <2> HIDE DEF r, SoundInv, TranscriberKept, Given, NothingGiven
  <2>4. UNCHANGED <<arrived, quiet, inbox, preroll, capturing, ensuring, wake, preCapture, due>>
    BY <1>2, <1>6
  <2>5. transcribers[w].at # "none" /\ Range(Given(r)) = Range(Given(transcribers[w]))
    BY <1>2, <2>1
  <2> QED
    BY <2>1, <2>2, <2>3, <2>4, <2>5, AsideKeeps
<1> QED
  BY <1>4, <1>5, <1>6 DEF TranscriberOpens

\* A transcriber cannot be opened.
LEMMA FailsKeeps ==
  ASSUME SoundInv, NEW w \in Wakes, OpeningFails(w)
  PROVE  SoundInv'
<1> DEFINE r == [transcribers[w] EXCEPT !.at = "closed"]
<1>1. transcribers[w] \in CaptureState /\ TranscriberKept(transcribers[w])
  BY SoundFacts
<1>2. transcribers[w].at = "opening" /\ UNCHANGED <<arrived, quiet, inbox, wake>>
  BY DEF OpeningFails
<1>3. transcribers \in [Wakes -> CaptureState]
  BY DEF SoundInv, SoundTypeOK
<1>4. /\ r \in CaptureState /\ TranscriberKept(r) /\ r.at = "closed"
      /\ Given(r) = Given(transcribers[w]) /\ r.taken = transcribers[w].taken
      /\ r.pcm = transcribers[w].pcm /\ r.told = transcribers[w].told
  BY <1>1, ClosedKeeps
<1>5. NothingGiven(r)
  BY <1>1, <1>2, <1>4 DEF TranscriberKept, NothingGiven
<1>6. transcribers' = [transcribers EXCEPT ![w] = r]
  BY <1>3, PutClosed DEF OpeningFails
<1>7. CASE capturing /\ w = wake
  <2>1. EndSound
    BY <1>7 DEF OpeningFails
  <2>2. Range(Given(r)) \subseteq Range(due)
    <3>1. Range(Given(transcribers[w])) \subseteq Range(due)
      BY <1>7, CapturingFacts
    <3> HIDE DEF r
    <3> QED
      BY <1>4, <3>1
  <2> HIDE DEF r, SoundInv, TranscriberKept, Given, EndSound
  <2>3. Shortened
    BY <1>2, InboxShortens
  <2> QED
    BY <1>2, <1>4, <1>6, <1>7, <2>1, <2>2, <2>3, EndSoundKeeps
<1>8. CASE ~ (capturing /\ w = wake)
  <2>1. UNCHANGED <<arrived, quiet, inbox, preroll, capturing, ensuring, wake, preCapture, due>>
    BY <1>2, <1>8 DEF OpeningFails
  <2> HIDE DEF r, SoundInv, TranscriberKept, Given, NothingGiven
  <2>2. transcribers[w].at # "none" /\ Range(Given(r)) = Range(Given(transcribers[w]))
    BY <1>2, <1>4
  <2> QED
    BY <1>4, <1>5, <1>6, <2>1, <2>2, AsideKeeps
<1> QED
  BY <1>7, <1>8

\* A capture ends and hands its transcriber over.
LEMMA FinalizeKeeps ==
  ASSUME SoundInv, FinalizeSound
  PROVE  SoundInv'
<1>1. capturing /\ UNCHANGED <<arrived, quiet, wake>> /\ Shortened
  BY InboxShortens DEF FinalizeSound
<1>2. CASE transcribers[wake].at = "attached" /\ HandOver(transcribers[wake])
  <2> DEFINE t == transcribers[wake]
  <2>1. /\ t \in CaptureState /\ TranscriberKept(t) /\ Range(Given(t)) \subseteq Range(due)
        /\ Holds(Given(t), due)
    BY <1>1, <1>2, CapturingFacts
  <2> HIDE DEF t, SoundInv, TranscriberKept, Given
  <2>2. HandOver(t)
    BY <1>2 DEF t
  <2> HIDE DEF HandOver
  <2> QED
    BY <1>1, <2>1, <2>2, HandOverKeeps
<1>3. CASE ensuring' = TRUE /\ UNCHANGED <<preroll, capturing, preCapture, due, transcribers>>
  <2> USE <1>1, <1>3
  <2>1. SoundTypeOK'
    BY DEF SoundInv, SoundTypeOK, Shortened
  <2>2. Waiting' \subseteq Waiting /\ Range(inbox') \subseteq Range(inbox)
    BY DEF Waiting, Shortened
  <2>3. WaitingInOrder'
    BY <2>2 DEF SoundInv, WaitingInOrder, Shortened, Before, Ascends
  <2>4. FramesApart'
    BY <2>2 DEF SoundInv, FramesApart, Given
  <2>5. /\ \A w \in Wakes : /\ TranscriberKept(transcribers[w])'
                            /\ w > wake' => transcribers'[w].at = "none"
        /\ capturing => CaptureKept'
    BY DEF SoundInv, CaptureKept, TranscriberKept, Given, Told, NothingGiven, Holds, Ascends
  <2> QED
    BY <2>1, <2>3, <2>4, <2>5 DEF SoundInv
<1> QED
  BY <1>2, <1>3 DEF FinalizeSound

\* A capture ends that has no transcriber.
LEMMA LeftKeeps ==
  ASSUME SoundInv, NoTranscriberLeft
  PROVE  SoundInv'
<1> DEFINE t == transcribers[wake]
           c == [t EXCEPT !.at = "closed"]
           r == IF ensuring THEN t ELSE c
<1>1. capturing /\ EndSound /\ UNCHANGED <<arrived, quiet, inbox, wake>>
  BY DEF NoTranscriberLeft
<1>2. wake \in Wakes /\ t \in CaptureState /\ TranscriberKept(t) /\ Range(Given(t)) \subseteq Range(due)
  BY <1>1, CapturingFacts
<1>3. c \in CaptureState /\ TranscriberKept(c) /\ Given(c) = Given(t)
  BY <1>2, ClosedKeeps
<1>4. transcribers' = [transcribers EXCEPT ![wake] = r]
  <2>1. transcribers \in [Wakes -> CaptureState] /\ ensuring \in BOOLEAN
    BY DEF SoundInv, SoundTypeOK
  <2>2. [t EXCEPT !.at = IF ensuring THEN t.at ELSE "closed"] = r
    BY <1>2, <2>1 DEF CaptureState
  <2>3. transcribers' = [transcribers EXCEPT ![wake] = [t EXCEPT !.at = IF ensuring THEN t.at ELSE "closed"]]
    BY <2>1 DEF NoTranscriberLeft
  <2> HIDE DEF r
  <2> QED
    BY <2>2, <2>3
<1> HIDE DEF t, c
<1>5. r \in CaptureState /\ TranscriberKept(r) /\ Range(Given(r)) \subseteq Range(due)
  BY <1>2, <1>3
<1> HIDE DEF r, SoundInv, TranscriberKept, Given, EndSound
<1>6. Shortened
  BY <1>1, InboxShortens
<1> QED
  BY <1>1, <1>4, <1>5, <1>6, EndSoundKeeps

\* What is left in the buffer of a transcriber is sent.
LEMMA FlushingKeeps ==
  ASSUME SoundInv, NEW w \in Wakes, FlushSound(w)
  PROVE  SoundInv'
<1> DEFINE t == transcribers[w]
           f == WriteChunks(t, t.pcm, Len(t.pcm))
           r == [f EXCEPT !.at = "finished"]
<1>1. t \in CaptureState /\ TranscriberKept(t)
  BY SoundFacts
<1>2. t.at = "finalizing"
  BY DEF FlushSound
<1>3. UNCHANGED <<arrived, quiet, inbox, preroll, capturing, ensuring, wake, preCapture, due>>
  BY DEF FlushSound
<1>4. transcribers' = [transcribers EXCEPT ![w] = r]
  BY DEF FlushSound, SoundInv, SoundTypeOK
<1>5. ~ (capturing /\ w = wake)
  BY <1>2, CapturingFacts
<1> HIDE DEF t
<1>6. t.pcm \in FrameSeq /\ t.taken \in FrameSeq
  BY <1>1, GivenFacts
<1>7. /\ t.pcm \in Seq(1 .. MaxHeard) /\ Len(t.pcm) \in 0 .. Len(t.pcm)
  BY <1>6, FramesAreNumbers
<1>8. Told(t) /\ Ascends(t.taken \o t.pcm)
  BY <1>1 DEF TranscriberKept, Given
<1>9. /\ f \in CaptureState /\ f.due = t.due /\ Told(f)
      /\ Given(f) = t.taken \o t.pcm /\ Len(f.pcm) = Len(t.pcm) - Len(t.pcm)
      /\ f.taken = t.taken \o SubSeq(t.pcm, 1, Len(t.pcm))
  BY <1>1, <1>6, <1>7, <1>8, WriteKeeps
<1> HIDE DEF f
<1>10. f.taken = Given(t) /\ Given(f) = Given(t) /\ Len(f.pcm) = 0
  <2>1. SubSeq(t.pcm, 1, Len(t.pcm)) = t.pcm /\ Len(t.pcm) - Len(t.pcm) = 0
    BY <1>7, SubSeqFull
  <2> QED
    BY <1>9, <2>1 DEF Given
<1>11. /\ r \in CaptureState /\ r.at = "finished" /\ r.due = t.due /\ r.taken = f.taken
       /\ r.pcm = f.pcm /\ r.told = f.told
  BY <1>9 DEF CaptureState
<1> HIDE DEF r
<1>12. Given(r) = Given(t) /\ Told(r)
  <2>1. Given(r) = Given(f)
    BY <1>11 DEF Given
  <2>2. Told(r)
    BY <1>9, <1>11 DEF Told
  <2> QED
    BY <1>10, <2>1, <2>2
<1>13. TranscriberKept(r)
  <2>1. Len(r.pcm) < ChunkSize
    BY <1>10, <1>11, FramesAreNumbers
  <2>2. Holds(r.taken, r.due)
    BY <1>1, <1>2, <1>10, <1>11 DEF TranscriberKept
  <2> HIDE DEF Told, Given, Ascends
  <2> QED
    BY <1>1, <1>11, <1>12, <2>1, <2>2 DEF TranscriberKept
<1>14. transcribers[w].at # "none" /\ Range(Given(r)) = Range(Given(transcribers[w]))
  BY <1>2, <1>12 DEF t
<1> HIDE DEF SoundInv, TranscriberKept, Given
<1> QED
  BY <1>3, <1>4, <1>5, <1>11, <1>13, <1>14, AsideKeeps

\* What depends on the transcribers alone.
LEMMA TranscribersStay ==
  ASSUME SoundInv, UNCHANGED <<transcribers, quiet, wake, capturing>>, arrived' \in Nat,
         arrived <= arrived',
         \A v \in Wakes : ~ (capturing /\ v = wake) =>
           Range(Given(transcribers[v])) \cap Waiting' = {}
  PROVE  /\ transcribers' \in [Wakes -> CaptureState] /\ FramesApart'
         /\ \A v \in Wakes : /\ TranscriberKept(transcribers[v])'
                             /\ v > wake' => transcribers'[v].at = "none"
<1>1. arrived \in Nat /\ 1 .. arrived \subseteq 1 .. arrived'
  BY SoundFacts
<1>2. ASSUME NEW v \in Wakes
      PROVE  TranscriberKept(transcribers[v])'
  <2>1. TranscriberKept(transcribers[v])
    BY DEF SoundInv
  <2> QED
    BY <1>1, <2>1 DEF TranscriberKept, Told, Given, NothingGiven, Ascends, Holds
<1>3. FramesApart'
  BY DEF SoundInv, FramesApart, Given
<1> QED
  BY <1>2, <1>3 DEF SoundInv, SoundTypeOK

\* A frame arrives.
LEMMA PushKeeps ==
  ASSUME SoundInv, PushFrame
  PROVE  SoundInv'
<1> DEFINE f == arrived + 1
           n == Append(inbox, f)
<1>1. /\ arrived \in Nat /\ arrived < MaxHeard /\ arrived' = f /\ f \in 1 .. MaxHeard
      /\ UNCHANGED <<quiet, preroll, capturing, ensuring, wake, preCapture, due, transcribers>>
  BY SoundFacts, FramesAreNumbers DEF PushFrame
<1>2. /\ inbox \in FrameSeq /\ Ascends(inbox) /\ Waiting \subseteq 1 .. arrived
      /\ Range(inbox) \subseteq Waiting
  BY SoundFacts
<1>3. /\ n = inbox \o <<f>> /\ n \in FrameSeq /\ Len(n) = Len(inbox) + 1
      /\ Range(n) = Range(inbox) \cup {f} /\ Ascends(n)
  <2>1. inbox \in Seq(1 .. MaxHeard) /\ inbox \in Seq(Nat) /\ <<f>> \in Seq(Nat)
    BY <1>1, <1>2, FramesAreNumbers
  <2>2. n = inbox \o <<f>> /\ n \in Seq(1 .. MaxHeard) /\ Len(n) = Len(inbox) + 1
    BY <1>1, <2>1
  <2>3. Range(<<f>>) = {f} /\ Ascends(<<f>>)
    BY DEF Range, Ascends
  <2>4. Before(inbox, <<f>>)
    <3>1. Range(inbox) \subseteq 1 .. arrived
      BY <1>2
    <3>2. \A g \in 1 .. arrived : g < f
      BY <1>1
    <3> HIDE DEF f
    <3> QED
      BY <2>3, <3>1, <3>2 DEF Before
  <2> HIDE DEF n, f
  <2>5. Ascends(inbox \o <<f>>) /\ Range(inbox \o <<f>>) = Range(inbox) \cup Range(<<f>>)
    BY <1>2, <2>1, <2>3, <2>4, ConcatFacts
  <2> QED
    BY <2>2, <2>3, <2>5, FramesAreNumbers
<1> HIDE DEF n
<1>4. inbox' = inbox \/ (inbox' = n /\ Len(inbox) < InboxSize)
  BY DEF PushFrame, n
<1>5. /\ inbox' \in FrameSeq /\ Ascends(inbox') /\ Len(inbox') <= InboxSize
      /\ Range(inbox') \subseteq Range(inbox) \cup {f}
  <2>1. Len(inbox) <= InboxSize /\ InboxSize \in Nat
    BY FramesAreNumbers DEF SoundInv, SoundTypeOK
  <2>2. Len(inbox) \in Nat
    <3>1. inbox \in Seq(1 .. MaxHeard)
      BY <1>2, FramesAreNumbers
    <3> QED
      BY <3>1
  <2>3. inbox' = n /\ Len(inbox) < InboxSize => Len(inbox') <= InboxSize
    BY <1>3, <2>1, <2>2
  <2> HIDE DEF f
  <2> QED
    BY <1>2, <1>3, <1>4, <2>1, <2>3
<1>6. Waiting' \subseteq Waiting \cup {f}
  BY <1>1, <1>5 DEF Waiting
<1>7. ASSUME NEW v \in Wakes, ~ (capturing /\ v = wake)
      PROVE  Range(Given(transcribers[v])) \cap Waiting' = {}
  <2>1. Range(Given(transcribers[v])) \cap Waiting = {}
    BY <1>7 DEF SoundInv, FramesApart
  <2>2. Range(Given(transcribers[v])) \subseteq 1 .. arrived
    BY SoundFacts DEF TranscriberKept
  <2>3. f \notin 1 .. arrived
    BY <1>1
  <2> HIDE DEF Given, Waiting, f
  <2> QED
    BY <1>6, <2>1, <2>2, <2>3
<1>8. /\ transcribers' \in [Wakes -> CaptureState] /\ FramesApart'
      /\ \A v \in Wakes : /\ TranscriberKept(transcribers[v])'
                          /\ v > wake' => transcribers'[v].at = "none"
  <2>1. UNCHANGED <<transcribers, quiet, wake, capturing>> /\ arrived' \in Nat /\ arrived <= arrived'
    BY <1>1
  <2> HIDE DEF SoundInv, FramesApart, Given, Waiting, TranscriberKept
  <2> QED
    BY <1>7, <2>1, TranscribersStay
<1>9. SoundTypeOK'
  <2>1. arrived' \in 0 .. MaxHeard
    BY <1>1, FramesAreNumbers
  <2> QED
    BY <1>1, <1>5, <1>8, <2>1 DEF SoundInv, SoundTypeOK
<1>10. WaitingInOrder'
  <2>1. Waiting' \subseteq 1 .. arrived'
    BY <1>1, <1>2, <1>6
  <2>2. Before(preroll, inbox') /\ Before(due, inbox')
    <3>1. Before(preroll, inbox) /\ Before(due, inbox)
      BY DEF SoundInv, WaitingInOrder
    <3>2. Range(preroll) \subseteq 1 .. arrived /\ Range(due) \subseteq 1 .. arrived
      BY SoundFacts
    <3>3. \A g \in 1 .. arrived : g < f
      BY <1>1
    <3> HIDE DEF f
    <3> QED
      BY <1>5, <3>1, <3>2, <3>3 DEF Before
  <2> QED
    BY <1>1, <1>5, <2>1, <2>2 DEF SoundInv, WaitingInOrder, Before, Ascends
<1>11. capturing' => CaptureKept'
  BY <1>1 DEF SoundInv, CaptureKept, Holds, Given, NothingGiven
<1> QED
  BY <1>8, <1>9, <1>10, <1>11 DEF SoundInv

\* A frame is taken while the session listens.
LEMMA HearKeeps ==
  ASSUME SoundInv, HearFrame
  PROVE  SoundInv'
<1> DEFINE h == <<Head(inbox)>>
           q == Tail(inbox)
           p == KeepLast(preroll \o h, PrerollSize)
<1>1. /\ ~ capturing /\ inbox # <<>> /\ inbox' = q /\ preroll' = p
      /\ UNCHANGED <<arrived, quiet, capturing, ensuring, wake, preCapture, due, transcribers>>
  BY DEF HearFrame, AppendPCM
<1>2. /\ inbox \in FrameSeq /\ Ascends(inbox) /\ preroll \in FrameSeq /\ Ascends(preroll)
      /\ arrived \in Nat
  BY SoundFacts
<1>3. /\ h \in FrameSeq /\ q \in FrameSeq /\ Len(q) < Len(inbox) /\ Len(inbox) \in Nat /\ Len(q) \in Nat
      /\ Range(inbox) = Range(h) \cup Range(q) /\ Ascends(h) /\ Ascends(q) /\ Before(h, q)
  <2>1. /\ h \in FrameSeq /\ q \in FrameSeq /\ Len(q) < Len(inbox)
        /\ Range(inbox) = Range(h) \cup Range(q) /\ Ascends(h) /\ Ascends(q) /\ Before(h, q)
    BY <1>1, <1>2, FirstAndRest
  <2>2. inbox \in Seq(1 .. MaxHeard) /\ q \in Seq(1 .. MaxHeard)
    BY <1>2, <2>1, FramesAreNumbers
  <2> HIDE DEF h, q
  <2> QED
    BY <2>1, <2>2
<1> HIDE DEF h, q
<1>4. Before(preroll, inbox)
  BY DEF SoundInv, WaitingInOrder
<1>5. /\ preroll \o h \in FrameSeq /\ Ascends(preroll \o h)
      /\ Range(preroll \o h) = Range(preroll) \cup Range(h)
  <2>1. preroll \in Seq(Nat) /\ h \in Seq(Nat) /\ preroll \o h \in FrameSeq
    BY <1>2, <1>3, FramesAreNumbers
  <2>2. Before(preroll, h)
    BY <1>3, <1>4 DEF Before
  <2> QED
    BY <1>2, <1>3, <2>1, <2>2, ConcatFacts
<1>6. /\ p \in FrameSeq /\ Len(p) <= PrerollSize /\ Ascends(p)
      /\ Range(p) \subseteq Range(preroll) \cup Range(h)
  <2>1. PrerollSize \in Nat
    BY FramesAreNumbers
  <2> QED
    BY <1>5, <2>1, KeptOrdered
<1> HIDE DEF p
<1>7. Waiting' \subseteq Waiting
  BY <1>1, <1>3, <1>6 DEF Waiting
<1>8. /\ transcribers' \in [Wakes -> CaptureState] /\ FramesApart'
      /\ \A v \in Wakes : /\ TranscriberKept(transcribers[v])'
                          /\ v > wake' => transcribers'[v].at = "none"
  <2>1. UNCHANGED <<transcribers, quiet, wake, capturing>> /\ arrived' \in Nat /\ arrived <= arrived'
    BY <1>1, <1>2
  <2>2. \A v \in Wakes : ~ (capturing /\ v = wake) =>
          Range(Given(transcribers[v])) \cap Waiting' = {}
    <3>1. \A v \in Wakes : ~ (capturing /\ v = wake) =>
            Range(Given(transcribers[v])) \cap Waiting = {}
      BY DEF SoundInv, FramesApart
    <3> HIDE DEF Waiting, Given
    <3> QED
      BY <1>7, <3>1
  <2> HIDE DEF SoundInv, FramesApart, Given, Waiting, TranscriberKept
  <2> QED
    BY <2>1, <2>2, TranscribersStay
<1>9. SoundTypeOK'
  <2>1. Len(inbox) <= InboxSize /\ InboxSize \in Nat
    BY FramesAreNumbers DEF SoundInv, SoundTypeOK
  <2>2. Len(q) <= InboxSize
    BY <1>3, <2>1
  <2> QED
    BY <1>1, <1>3, <1>6, <1>8, <2>2 DEF SoundInv, SoundTypeOK
<1>10. WaitingInOrder'
  <2>1. Waiting' \subseteq 1 .. arrived
    BY <1>7, SoundFacts
  <2>2. Before(p, q) /\ Before(due, q)
    BY <1>3, <1>4, <1>6 DEF Before, SoundInv, WaitingInOrder
  <2> QED
    BY <1>1, <1>3, <1>6, <2>1, <2>2 DEF SoundInv, WaitingInOrder, Before, Ascends
<1> QED
  BY <1>1, <1>8, <1>9, <1>10 DEF SoundInv

\* A frame is taken while the session captures.
LEMMA CaptureKeeps ==
  ASSUME SoundInv, CaptureFrame
  PROVE  SoundInv'
<1> DEFINE h == <<Head(inbox)>>
           q == Tail(inbox)
           t == transcribers[wake]
           r == SendFrames(t, h)
           p == KeepLast(preCapture \o h, PreCaptureSize)
<1>1. /\ capturing /\ inbox # <<>> /\ inbox' = q /\ due' = Append(due, Head(inbox))
      /\ UNCHANGED <<arrived, quiet, preroll, capturing, ensuring, wake>>
  BY DEF CaptureFrame
<1>2. /\ inbox \in FrameSeq /\ Ascends(inbox) /\ due \in FrameSeq /\ Ascends(due)
      /\ preCapture \in FrameSeq /\ arrived \in Nat /\ Waiting \subseteq 1 .. arrived
      /\ Range(inbox) \subseteq Waiting
  BY SoundFacts
<1>3. /\ h \in FrameSeq /\ q \in FrameSeq /\ Len(q) < Len(inbox) /\ Len(h) = 1
      /\ Range(inbox) = Range(h) \cup Range(q) /\ Ascends(h) /\ Ascends(q) /\ Before(h, q)
  BY <1>1, <1>2, FirstAndRest
<1>4. due' = due \o h
  <2>1. due \in Seq(1 .. MaxHeard) /\ Head(inbox) \in 1 .. MaxHeard
    BY <1>1, <1>2, FirstAndRest, FramesAreNumbers
  <2> QED
    BY <1>1, <2>1
<1>5. /\ wake \in Wakes /\ t \in CaptureState /\ TranscriberKept(t)
      /\ t.at \in {"opening", "attached", "closed"}
      /\ t.at # "attached" => NothingGiven(t) /\ Given(t) = <<>> /\ Holds(preCapture, due)
      /\ t.at = "attached" => preCapture = <<>> /\ Holds(Given(t), due)
      /\ Range(Given(t)) \subseteq Range(due) /\ Given(t) \in FrameSeq
  BY <1>1, CapturingFacts, GivenFacts
<1> HIDE DEF h, q, t
<1>6. Before(due, h) /\ Before(due, q) /\ Before(preroll, q)
  <2>1. Before(due, inbox) /\ Before(preroll, inbox)
    BY DEF SoundInv, WaitingInOrder
  <2> QED
    BY <1>3, <2>1 DEF Before
<1>7. /\ due' \in FrameSeq /\ Ascends(due') /\ Range(due') = Range(due) \cup Range(h)
      /\ Before(due', q)
  <2>1. due \in Seq(Nat) /\ h \in Seq(Nat) /\ due \o h \in FrameSeq
    BY <1>2, <1>3, FramesAreNumbers
  <2>2. Ascends(due \o h) /\ Range(due \o h) = Range(due) \cup Range(h)
    BY <1>2, <1>3, <1>6, <2>1, ConcatFacts
  <2>3. \A s : Range(s) = Range(due) \cup Range(h) => Before(s, q)
    BY <1>3, <1>6 DEF Before
  <2> QED
    BY <1>4, <2>1, <2>2, <2>3
<1>8. Waiting' = Waiting
  BY <1>1, <1>3, <1>7 DEF Waiting
<1>9. /\ due \in Seq(1 .. MaxHeard) /\ h \in Seq(1 .. MaxHeard) /\ Given(t) \in Seq(1 .. MaxHeard)
      /\ preCapture \in Seq(1 .. MaxHeard)
  BY <1>2, <1>3, <1>5, FramesAreNumbers
<1>10. WaitingInOrder'
  <2>1. Waiting' \subseteq 1 .. arrived'
    BY <1>1, <1>2, <1>8
  <2> QED
    BY <1>1, <1>3, <1>6, <1>7, <2>1 DEF SoundInv, WaitingInOrder, Before, Ascends
<1>11. Len(q) <= InboxSize
  <2>1. Len(inbox) <= InboxSize /\ InboxSize \in Nat
    BY FramesAreNumbers DEF SoundInv, SoundTypeOK
  <2>2. Len(inbox) \in Nat /\ Len(q) \in Nat
    <3>1. inbox \in Seq(1 .. MaxHeard) /\ q \in Seq(1 .. MaxHeard)
      BY <1>2, <1>3, FramesAreNumbers
    <3> QED
      BY <3>1
  <2> QED
    BY <1>3, <2>1, <2>2
<1>12. CASE /\ t.at = "attached" /\ UNCHANGED preCapture
            /\ transcribers' = [transcribers EXCEPT ![wake] = r]
  <2>1. Ascends(Given(t) \o h)
    <3>1. Given(t) \in Seq(Nat) /\ h \in Seq(Nat)
      BY <1>3, <1>5, FramesAreNumbers
    <3>2. Ascends(Given(t)) /\ Before(Given(t), h)
      <4>1. Ascends(Given(t))
        BY <1>5 DEF TranscriberKept
      <4> HIDE DEF Given
      <4> QED
        BY <1>5, <1>6, <4>1 DEF Before
    <3> QED
      BY <1>3, <3>1, <3>2, ConcatFacts
  <2>2. Told(t) /\ Len(t.pcm) < ChunkSize /\ Len(h) <= ChunkSize
    BY <1>3, <1>5, FramesAreNumbers DEF TranscriberKept
  <2>3. /\ r \in CaptureState /\ r.at = t.at /\ r.due = t.due /\ Told(r)
        /\ Given(r) = Given(t) \o h /\ Len(r.pcm) < ChunkSize
    BY <1>3, <1>5, <2>1, <2>2, SentFramesKeep
  <2> HIDE DEF r
  <2>4. Range(Given(r)) = Range(Given(t)) \cup Range(h)
    <3>1. Given(t) \in Seq(Nat) /\ h \in Seq(Nat)
      BY <1>3, <1>5, FramesAreNumbers
    <3> QED
      BY <2>3, <3>1, ConcatFacts
  <2>5. TranscriberKept(r)
    <3>1. Range(Given(r)) \subseteq 1 .. arrived
      BY <1>2, <1>3, <1>5, <2>4 DEF TranscriberKept
    <3>2. Ascends(Given(r))
      BY <2>1, <2>3
    <3>3. r.at = "attached"
      BY <1>12, <2>3
    <3> HIDE DEF Told, Given, Ascends
    <3> QED
      BY <2>3, <3>1, <3>2, <3>3 DEF TranscriberKept
  <2>6. /\ transcribers' \in [Wakes -> CaptureState] /\ FramesApart'
        /\ \A v \in Wakes : /\ TranscriberKept(transcribers[v])'
                            /\ v > wake' => transcribers'[v].at = "none"
    <3>1. /\ capturing' \in BOOLEAN /\ Waiting' \subseteq Waiting
          /\ capturing' => capturing
          /\ capturing'
          /\ UNCHANGED <<arrived, quiet, wake>>
          /\ wake <= wake
      BY <1>1, <1>8, SoundFacts DEF SoundInv, SoundTypeOK
    <3>2. Range(Given(r)) \subseteq
            Range(Given(transcribers[wake])) \cup (IF capturing /\ wake = wake THEN Waiting ELSE {})
      BY <1>1, <1>2, <1>3, <2>4 DEF t
    <3> HIDE DEF SoundInv, TranscriberKept, Waiting, Given, FramesApart
    <3> QED
      BY <1>5, <1>12, <2>3, <2>5, <3>1, <3>2, OneMoves
  <2>7. SoundTypeOK'
    BY <1>1, <1>3, <1>7, <1>11, <1>12, <2>6 DEF SoundInv, SoundTypeOK
  <2>8. CaptureKept'
    <3>1. /\ transcribers'[wake'] = r /\ wake' = wake /\ preCapture' = <<>>
      BY <1>1, <1>5, <1>12 DEF SoundInv, SoundTypeOK
    <3>2. Holds(Given(t) \o h, due \o h)
      BY <1>5, <1>9, <1>12, HoldsMore
    <3>3. Given(r) \o <<>> = Given(r)
      BY <2>3, GivenFacts, FramesAreNumbers
    <3>4. Holds(Given(r) \o <<>>, due')
      BY <1>4, <2>3, <3>2, <3>3
    <3> QED
      BY <1>5, <1>12, <2>3, <3>1, <3>4 DEF CaptureKept, Holds, Given
  <2> QED
    BY <1>10, <2>6, <2>7, <2>8 DEF SoundInv
<1>13. CASE t.at # "attached" /\ preCapture' = p /\ UNCHANGED transcribers
  <2>1. Holds(preCapture \o h, due \o h)
    BY <1>5, <1>9, <1>13, HoldsMore
  <2>2. preCapture \o h \in Seq(1 .. MaxHeard) /\ due \o h \in Seq(1 .. MaxHeard)
    BY <1>9
  <2>3. Holds(p, due \o h) /\ p \in Seq(1 .. MaxHeard) /\ Len(p) <= PreCaptureSize
    BY <2>1, <2>2, HoldsKept
  <2> HIDE DEF p
  <2>4. p \in FrameSeq
    BY <2>3, FramesAreNumbers
  <2>5. /\ transcribers' \in [Wakes -> CaptureState] /\ FramesApart'
        /\ \A v \in Wakes : /\ TranscriberKept(transcribers[v])'
                            /\ v > wake' => transcribers'[v].at = "none"
    <3>1. UNCHANGED <<transcribers, quiet, wake, capturing>> /\ arrived' \in Nat /\ arrived <= arrived'
      BY <1>1, <1>2, <1>13
    <3>2. \A v \in Wakes : ~ (capturing /\ v = wake) =>
            Range(Given(transcribers[v])) \cap Waiting' = {}
      BY <1>8 DEF SoundInv, FramesApart
    <3> HIDE DEF SoundInv, FramesApart, Given, Waiting, TranscriberKept
    <3> QED
      BY <3>1, <3>2, TranscribersStay
  <2>6. SoundTypeOK'
    BY <1>1, <1>3, <1>7, <1>11, <1>13, <2>3, <2>4, <2>5 DEF SoundInv, SoundTypeOK
  <2>7. CaptureKept'
    <3>1. transcribers'[wake'] = t /\ wake' = wake
      BY <1>1, <1>13 DEF t
    <3>2. <<>> \o p = p
      BY <2>4, FramesAreNumbers
    <3>3. Holds(Given(t) \o p, due')
      BY <1>4, <1>5, <1>13, <2>3, <3>2
    <3> QED
      BY <1>5, <1>13, <3>1, <3>3 DEF CaptureKept, Holds, Given, NothingGiven
  <2> QED
    BY <1>10, <2>5, <2>6, <2>7 DEF SoundInv
<1>14. \/ /\ t.at = "attached" /\ UNCHANGED preCapture
          /\ transcribers' = [transcribers EXCEPT ![wake] = r]
       \/ t.at # "attached" /\ preCapture' = p /\ UNCHANGED transcribers
  <2>1. transcribers \in [Wakes -> CaptureState]
    BY DEF SoundInv, SoundTypeOK
  <2> QED
    BY <2>1 DEF CaptureFrame, AppendPCM, h, t
<1> QED
  BY <1>12, <1>13, <1>14

\* The wake word is heard, and a capture begins.
LEMMA BeginKeeps ==
  ASSUME SoundInv, BeginSound
  PROVE  SoundInv'
<1> DEFINE w == wake + 1
           t == transcribers[w]
           r == [t EXCEPT !.at = "opening"]
           p == KeepLast(preroll, PreCaptureSize)
<1>1. /\ ~ capturing /\ wake < MaxWakes /\ capturing' = TRUE /\ wake' = w
      /\ due' = preroll /\ preroll' = <<>>
      /\ UNCHANGED <<arrived, quiet, inbox, ensuring>>
  BY DEF BeginSound
<1>2. /\ preroll \in FrameSeq /\ wake \in Nat /\ transcribers \in [Wakes -> CaptureState]
      /\ ensuring \in BOOLEAN
  BY SoundFacts DEF SoundInv, SoundTypeOK
<1>3. /\ w \in Wakes /\ w > wake /\ w \in 0 .. MaxWakes /\ w \in Nat /\ w # wake
      /\ \A v \in Wakes : v \in Nat /\ (v > w => v > wake)
  BY <1>1, <1>2, SoundAssumption DEF Wakes
<1> HIDE DEF w
<1>4. t.at = "none" /\ t \in CaptureState /\ TranscriberKept(t)
  BY <1>3, SoundFacts DEF SoundInv
<1>5. NothingGiven(t)
  BY <1>4 DEF TranscriberKept
<1>6. preCapture' = p
  BY <1>2, FramesAreNumbers DEF BeginSound, AppendPCM
<1>7. transcribers' = [transcribers EXCEPT ![w] = r]
  BY <1>2, <1>3 DEF BeginSound, w
<1> HIDE DEF t
<1>8. /\ r \in CaptureState /\ r.at = "opening" /\ r.taken = t.taken /\ r.pcm = t.pcm
      /\ r.told = t.told
  BY <1>4 DEF CaptureState
<1> HIDE DEF r
<1>9. NothingGiven(r) /\ Given(r) = <<>> /\ Given(r) = Given(t)
  <2>1. <<>> \o <<>> = <<>>
    BY FramesAreNumbers
  <2> QED
    BY <1>5, <1>8, <2>1 DEF NothingGiven, Given
<1>10. TranscriberKept(r)
  <2>1. Told(r)
    BY <1>4, <1>8 DEF TranscriberKept, Told
  <2> HIDE DEF Told, Given, Ascends, NothingGiven
  <2> QED
    BY <1>4, <1>8, <1>9, <2>1 DEF TranscriberKept
<1>11. transcribers' \in [Wakes -> CaptureState] /\ transcribers'[w] = r
       /\ \A v \in Wakes : v # w => transcribers'[v] = transcribers[v]
  BY <1>2, <1>3, <1>7, <1>8
<1>12. due = <<>> /\ Range(<<>>) = {} /\ <<>> \in FrameSeq /\ Ascends(<<>>) /\ Len(<<>>) = 0
  BY <1>1, FramesAreNumbers DEF SoundInv, WaitingInOrder, Range, Ascends
<1>13. Waiting' = Waiting
  BY <1>1, <1>12 DEF Waiting
<1>14. WaitingInOrder'
  <2>1. /\ Waiting \subseteq 1 .. arrived /\ Before(preroll, inbox) /\ Ascends(inbox)
        /\ Ascends(preroll)
    BY DEF SoundInv, WaitingInOrder
  <2>2. Before(<<>>, inbox)
    BY <1>12 DEF Before
  <2> QED
    BY <1>1, <1>12, <1>13, <2>1, <2>2 DEF WaitingInOrder
<1>15. FramesApart'
  <2> DEFINE G(v) == Range(Given(transcribers[v]))
             H(v) == Range(Given(transcribers'[v]))
  <2>1. \A v \in Wakes : H(v) = G(v)
    <3>1. Given(transcribers'[w]) = Given(transcribers[w])
      BY <1>9, <1>11 DEF t
    <3> HIDE DEF Given
    <3> QED
      BY <1>11, <3>1
  <2>2. /\ \A u, v \in Wakes : u # v => G(u) \cap G(v) = {}
        /\ \A v \in Wakes : G(v) \cap Waiting = {}
    BY <1>1 DEF SoundInv, FramesApart
  <2> HIDE DEF G, H
  <2>3. /\ \A u, v \in Wakes : u # v => H(u) \cap H(v) = {}
        /\ \A v \in Wakes : H(v) \cap Waiting' = {}
    BY <1>13, <2>1, <2>2
  <2> QED
    BY <2>3 DEF FramesApart, G, H, Given
<1>16. ASSUME NEW v \in Wakes
       PROVE  TranscriberKept(transcribers[v])' /\ (v > wake' => transcribers'[v].at = "none")
  <2>1. TranscriberKept(transcribers'[v])
    <3> HIDE DEF TranscriberKept
    <3> QED
      BY <1>10, <1>11, SoundFacts
  <2>2. TranscriberKept(transcribers[v])'
    BY <1>1, <2>1 DEF TranscriberKept, Told, Given, NothingGiven, Holds, Ascends
  <2>3. v > wake' => transcribers'[v].at = "none"
    <3>1. v > w => v # w /\ v > wake
      BY <1>3
    <3>2. v > wake => transcribers[v].at = "none"
      BY DEF SoundInv
    <3> QED
      BY <1>1, <1>11, <3>1, <3>2
  <2> QED
    BY <2>2, <2>3
<1>17. /\ p \in FrameSeq /\ Len(p) <= PreCaptureSize /\ Holds(p, preroll)
  <2>1. preroll \in Seq(1 .. MaxHeard) /\ Holds(preroll, preroll)
    BY <1>2, FramesAreNumbers, HoldsAll
  <2>2. p \in Seq(1 .. MaxHeard) /\ Len(p) <= PreCaptureSize /\ Holds(p, preroll)
    BY <2>1, HoldsKept
  <2> HIDE DEF p
  <2> QED
    BY <2>2, FramesAreNumbers
<1> HIDE DEF p
<1>18. SoundTypeOK'
  <2>1. capturing' \in BOOLEAN /\ (ensuring' => capturing')
    BY <1>1
  <2>2. Len(<<>>) <= PrerollSize
    BY <1>12, FramesAreNumbers
  <2> QED
    BY <1>1, <1>2, <1>3, <1>6, <1>11, <1>12, <1>17, <2>1, <2>2 DEF SoundInv, SoundTypeOK
<1>19. CaptureKept'
  <2>1. /\ transcribers'[wake'] = r /\ wake' \in Wakes /\ preCapture' = p /\ due' = preroll
    BY <1>1, <1>3, <1>6, <1>11
  <2>2. Holds(Given(r) \o p, preroll)
    BY <1>9, <1>17, FramesAreNumbers
  <2> QED
    BY <1>8, <1>9, <2>1, <2>2 DEF CaptureKept, Holds, Given, NothingGiven
<1> QED
  BY <1>11, <1>14, <1>15, <1>16, <1>18, <1>19 DEF SoundInv

\* The invariant holds to begin with,
LEMMA CaptureSoundInitially ==
  ASSUME SoundInit
  PROVE  SoundInv
<1> DEFINE N == NoTranscriber
<1>1. /\ arrived = 0 /\ quiet \subseteq 1 .. MaxHeard /\ inbox = <<>> /\ preroll = <<>>
      /\ capturing = FALSE /\ ensuring = FALSE /\ wake = 0 /\ preCapture = <<>> /\ due = <<>>
      /\ transcribers = [w \in Wakes |-> N]
  BY DEF SoundInit
<1>2. /\ <<>> \in FrameSeq /\ Len(<<>>) = 0 /\ Range(<<>>) = {} /\ Ascends(<<>>)
      /\ Before(<<>>, <<>>) /\ <<>> \o <<>> = <<>>
  BY FramesAreNumbers DEF Range, Ascends, Before
<1>3. /\ N \in CaptureState /\ N.at = "none" /\ N.pcm = <<>> /\ N.taken = <<>> /\ N.told = <<>>
  BY <1>2 DEF NoTranscriber, CaptureState
<1> HIDE DEF N
<1>4. Given(N) = <<>> /\ NothingGiven(N) /\ Told(N)
  BY <1>2, <1>3 DEF Given, NothingGiven, Told
<1>5. TranscriberKept(N)
  <2>1. Len(N.pcm) < ChunkSize
    BY <1>2, <1>3, FramesAreNumbers
  <2> HIDE DEF Told, Ascends, NothingGiven, Given
  <2> QED
    BY <1>2, <1>3, <1>4, <2>1 DEF TranscriberKept
<1>6. \A w \in Wakes : transcribers[w] = N
  BY <1>1
<1>7. SoundTypeOK
  <2>1. /\ 0 \in 0 .. MaxHeard /\ 0 \in 0 .. MaxWakes
        /\ 0 <= InboxSize /\ 0 <= PrerollSize /\ 0 <= PreCaptureSize
    BY FramesAreNumbers, SoundAssumption
  <2>2. transcribers \in [Wakes -> CaptureState]
    BY <1>1, <1>3
  <2>3. capturing \in BOOLEAN /\ ensuring \in BOOLEAN /\ (ensuring => capturing)
    BY <1>1, Zenon
  <2> QED
    BY <1>1, <1>2, <2>1, <2>2, <2>3 DEF SoundTypeOK
<1>8. WaitingInOrder
  BY <1>1, <1>2 DEF WaitingInOrder, Waiting
<1>9. FramesApart
  <2> HIDE DEF Given
  <2> QED
    BY <1>2, <1>4, <1>6 DEF FramesApart
<1>10. \A w \in Wakes : TranscriberKept(transcribers[w]) /\ (w > wake => transcribers[w].at = "none")
  <2> HIDE DEF TranscriberKept
  <2> QED
    BY <1>3, <1>5, <1>6
<1> QED
  BY <1>1, <1>7, <1>8, <1>9, <1>10 DEF SoundInv

\* every step keeps it,
LEMMA CaptureSoundKept ==
  ASSUME SoundInv, SoundNext
  PROVE  SoundInv'
<1> HIDE DEF SoundInv
<1>1. CASE PushFrame
  BY <1>1, PushKeeps
<1>2. CASE HearFrame
  BY <1>2, HearKeeps
<1>3. CASE CaptureFrame
  BY <1>3, CaptureKeeps
<1>4. CASE BeginSound
  BY <1>4, BeginKeeps
<1>5. CASE FinalizeSound
  BY <1>5, FinalizeKeeps
<1>6. CASE NoTranscriberLeft
  BY <1>6, LeftKeeps
<1>7. ASSUME NEW w \in Wakes, TranscriberOpens(w) \/ OpeningFails(w) \/ FlushSound(w)
      PROVE  SoundInv'
  BY <1>7, OpensKeeps, FailsKeeps, FlushingKeeps
<1> QED
  BY <1>1, <1>2, <1>3, <1>4, <1>5, <1>6, <1>7 DEF SoundNext

\* Nothing of it changes without a step.
LEMMA CaptureSoundRests ==
  ASSUME SoundInv, UNCHANGED soundVars
  PROVE  SoundInv'
BY DEF SoundInv, SoundTypeOK, WaitingInOrder, FramesApart, CaptureKept, TranscriberKept,
       Waiting, Given, Told, NothingGiven, Holds, Before, Ascends, soundVars

\* What is promised of the sound of a capture follows.
LEMMA CaptureSoundFollows ==
  ASSUME SoundInv
  PROVE  SoundTypeOK /\ CaptureSoundWhole /\ FramesHeardOnce
<1>1. SoundTypeOK
  BY DEF SoundInv
<1>2. CaptureSoundWhole
  <2>1. capturing => LET t == transcribers[wake] IN Holds(t.taken \o t.pcm \o preCapture, due)
    BY DEF SoundInv, CaptureKept, Given
  <2>2. ASSUME NEW w \in Wakes
        PROVE  LET t == transcribers[w]
               IN  /\ t.at = "finalizing" => Holds(t.taken \o t.pcm, t.due)
                   /\ t.at = "finished" => Holds(t.taken, t.due)
    BY SoundFacts DEF TranscriberKept, Given
  <2> QED
    BY <2>1, <2>2 DEF CaptureSoundWhole
<1>3. FramesHeardOnce
  <2>1. ASSUME NEW v \in Wakes, NEW w \in Wakes, v # w
        PROVE  Range(transcribers[v].taken) \cap Range(transcribers[w].taken) = {}
    <3>1. Range(Given(transcribers[v])) \cap Range(Given(transcribers[w])) = {}
      BY <2>1 DEF SoundInv, FramesApart
    <3>2. /\ Range(transcribers[v].taken) \subseteq Range(Given(transcribers[v]))
          /\ Range(transcribers[w].taken) \subseteq Range(Given(transcribers[w]))
      BY SoundFacts, GivenFacts
    <3> QED
      BY <3>1, <3>2
  <2>2. ASSUME NEW w \in Wakes
        PROVE  LET t == transcribers[w]
               IN  /\ Range(t.told) \subseteq Range(t.taken)
                   /\ Range(t.taken) \subseteq Range(t.told) \cup quiet
                   /\ \A i, j \in DOMAIN t.told : i < j => t.told[i] < t.told[j]
    BY SoundFacts DEF TranscriberKept, Told, Ascends
  <2> QED
    BY <2>1, <2>2 DEF FramesHeardOnce
<1> QED
  BY <1>1, <1>2, <1>3

-----------------------------------------------------------------------------
(* The gateway *)

\* What a goroutine is.
TaskState == [pc : GatewayPcs, on : Conn \cup {None}, normal : BOOLEAN,
              next : {"end", "retry", "reconnect", "beat", "tell"}]

\* The types that the proof needs.
GatewayShape ==
  /\ current \in Conn \cup {None} /\ session \in Conn \cup {None} /\ lastSeq \in Nat
  /\ gatewayTasks \in [GatewayTask -> TaskState]
  /\ link \in [Conn -> {"none", "open", "closed"}]
  /\ serves \in [Conn -> [of : Conn \cup {None}, next : Nat \ {0}]]
  /\ emitted \in [Conn -> Nat] /\ handled \in [Conn -> Seq(Nat)]

\* Who opens or closes a connection holds connMu, and who opens one has found none.
LocksHeld ==
  \A t \in GatewayTask :
    /\ Pc(t) \in {"connecting", "dialing", "closed"} => connMu = t
    /\ Pc(t) \in {"connecting", "dialing"} => current = None

\* The connection the gateway knows is the one that is open.
KnownIsOpen == OneConnection /\ (current # None => link[current] = "open")

\* Discord gives no events of a session that has not begun.
NotYetBegun ==
  \A c \in Conn :
    /\ link[c] = "none" => Pc(Reader(c)) = "none"
    /\ Pc(Reader(c)) \in {"none", "hello"} => emitted[c] = 0
    /\ Pc(Reader(c)) = "handshake" /\ serves[c].of = c => emitted[c] = 0

\* The next event on a connection is the one behind the last that was received.
NextIsNext ==
  \A c \in Conn :
    /\ link[c] = "open" /\ serves[c].of # None
    /\ \/ Pc(Reader(c)) = "reading"
       \/ Pc(Reader(c)) = "handshake" /\ serves[c].of # c
    => session = serves[c].of /\ lastSeq # 0 /\ serves[c].next = lastSeq + 1

\* The inductive invariant.
GatewayInv == GatewayShape /\ LocksHeld /\ KnownIsOpen /\ NotYetBegun /\ NextIsNext /\ EventsKept

\* The goroutines are different ones.
LEMMA TasksApart ==
  /\ None \notin Conn
  /\ \A c \in Conn : Reader(c) \in GatewayTask /\ Beat(c) \in GatewayTask /\ Reader(c) \notin Openers
                     /\ Beat(c) \notin Openers /\ Reader(c) # Sender /\ Unlocked # Reader(c)
  /\ \A c, d \in Conn : (Reader(c) = Reader(d) => c = d) /\ Reader(c) # Beat(d)
  /\ Sender \in GatewayTask /\ Sender \notin Openers /\ Openers \subseteq GatewayTask
  /\ Unlocked \notin GatewayTask
BY GatewayAssumption DEF Conn, None, Openers, Reader, Beat, Sender, GatewayTask, Unlocked

\* Initially
LEMMA GatewayInitially == GatewayInit => GatewayInv
<1> SUFFICES ASSUME GatewayInit PROVE GatewayInv
  OBVIOUS
<1>1. gatewayTasks \in [GatewayTask -> TaskState]
      /\ \A t \in GatewayTask : Pc(t) \in {"waiting", "none"}
      /\ \A c \in Conn : Pc(Reader(c)) = "none"
  <2>1. NoTask \in TaskState /\ [NoTask EXCEPT !.pc = "waiting"] \in TaskState
        /\ NoTask.pc = "none" /\ [NoTask EXCEPT !.pc = "waiting"].pc = "waiting"
    BY DEF NoTask, TaskState, GatewayPcs
  <2>2. <<"opener", 1>> \in Openers
    BY GatewayAssumption DEF Openers
  <2> QED
    BY <2>1, <2>2, TasksApart DEF GatewayInit, Pc
<1>2. GatewayShape
  BY <1>1 DEF GatewayInit, GatewayShape
<1>3. EventsKept
  BY DEF GatewayInit, EventsKept
<1> QED
  BY <1>1, <1>2, <1>3, TasksApart
  DEF GatewayInit, GatewayInv, LocksHeld, KnownIsOpen, OneConnection, NotYetBegun, NextIsNext

\* One goroutine changes.
LEMMA TaskChanged ==
  ASSUME NEW ts \in [GatewayTask -> TaskState], NEW t \in GatewayTask, NEW new \in TaskState
  PROVE  /\ [ts EXCEPT ![t] = new] \in [GatewayTask -> TaskState]
         /\ [ts EXCEPT ![t] = new][t] = new
         /\ \A u \in GatewayTask : u # t => [ts EXCEPT ![t] = new][u] = ts[u]
OBVIOUS

\* GoesTo
LEMMA TaskGoes ==
  ASSUME NEW ts \in [GatewayTask -> TaskState], NEW t \in GatewayTask, NEW pc \in GatewayPcs
  PROVE  /\ [ts EXCEPT ![t].pc = pc] \in [GatewayTask -> TaskState]
         /\ [ts EXCEPT ![t].pc = pc][t].pc = pc
         /\ \A u \in GatewayTask : u # t => [ts EXCEPT ![t].pc = pc][u] = ts[u]
BY DEF TaskState

\* CloseWithCode, called by t
LEMMA CloseCalled ==
  ASSUME NEW ts \in [GatewayTask -> TaskState], NEW t \in GatewayTask, NEW normal \in BOOLEAN,
         NEW next \in {"end", "retry", "reconnect", "beat", "tell"}, CallsClose(ts, t, normal, next)
  PROVE  /\ gatewayTasks' \in [GatewayTask -> TaskState] /\ Pc(t)' = "closing"
         /\ \A u \in GatewayTask : u # t => Pc(u)' = ts[u].pc
<1>1. [ts[t] EXCEPT !.pc = "closing", !.normal = normal, !.next = next] \in TaskState
  BY DEF TaskState, GatewayPcs
<1> QED
  BY <1>1 DEF CallsClose, Pc, TaskState

\* Events are kept while nothing is received: connections close, those who read end, and a
\* session is given up with nobody who reads of it.
LEMMA ReadersCalm ==
  ASSUME NotYetBegun, NextIsNext, EventsKept,
         \A c \in Conn :
           \/ Pc(Reader(c))' = Pc(Reader(c))
           \/ /\ Pc(Reader(c))' \in {"done", "waiting", "beating", "closing", "closed"}
              /\ Pc(Reader(c)) # "none",
         \A c \in Conn :
           /\ link'[c] = "open" => link[c] = "open"
           /\ link'[c] = "none" => link[c] = "none",
         UNCHANGED <<serves, emitted, handled>>,
         \/ UNCHANGED <<session, lastSeq>>
         \/ /\ session' = None /\ lastSeq' = 0
            /\ \A c \in Conn : link'[c] = "open" => Pc(Reader(c))' \notin {"handshake", "reading"}
  PROVE  NotYetBegun' /\ NextIsNext' /\ EventsKept'
<1>1. NotYetBegun'
  BY DEF NotYetBegun
<1>2. NextIsNext'
  <2> SUFFICES ASSUME NEW c \in Conn, link'[c] = "open", serves[c].of # None,
                      \/ Pc(Reader(c))' = "reading"
                      \/ Pc(Reader(c))' = "handshake" /\ serves[c].of # c
               PROVE  session' = serves[c].of /\ lastSeq' # 0 /\ serves[c].next = lastSeq' + 1
    BY DEF NextIsNext
  <2>1. Pc(Reader(c))' = Pc(Reader(c)) /\ link[c] = "open"
    BY DEF Pc
  <2> QED
    BY <2>1 DEF NextIsNext
<1>3. EventsKept'
  BY TasksApart DEF EventsKept
<1> QED
  BY <1>1, <1>2, <1>3

\* A goroutine stays where it is, or comes where it neither opens, closes nor reads.
Calm(t) ==
  \/ Pc(t)' = Pc(t)
  \/ Pc(t)' \in {"done", "waiting", "beating", "closing"} /\ Pc(t) # "none"
  \/ Pc(t)' \in {"none", "sending"} /\ t = Sender

\* A step in which nothing is opened, closed or received, and the session is given up
\* only with nobody who reads of it.
LEMMA CalmStep ==
  ASSUME GatewayInv, gatewayTasks' \in [GatewayTask -> TaskState],
         \A t \in GatewayTask : Calm(t),
         UNCHANGED <<connMu, current, link, serves, emitted, handled>>,
         \/ UNCHANGED <<session, lastSeq>>
         \/ /\ session' = None /\ lastSeq' = 0
            /\ \A c \in Conn : link[c] = "open" => Pc(Reader(c))' \notin {"handshake", "reading"}
  PROVE  GatewayInv'
<1>1. GatewayShape'
  BY DEF GatewayInv, GatewayShape
<1>2. LocksHeld'
  BY DEF GatewayInv, LocksHeld, Calm
<1>3. KnownIsOpen'
  BY DEF GatewayInv, KnownIsOpen, OneConnection
<1>4. NotYetBegun' /\ NextIsNext' /\ EventsKept'
  <2>1. \A c \in Conn :
          \/ Pc(Reader(c))' = Pc(Reader(c))
          \/ /\ Pc(Reader(c))' \in {"done", "waiting", "beating", "closing"}
             /\ Pc(Reader(c)) # "none"
    BY TasksApart DEF Calm
  <2> QED
    BY <2>1, ReadersCalm DEF GatewayInv
<1> QED
  BY <1>1, <1>2, <1>3, <1>4 DEF GatewayInv

\* listen ends: of what open and listen do next.
LEMMA ReportedError ==
  ASSUME gatewayTasks \in [GatewayTask -> TaskState], NEW c \in Conn, Pc(Reader(c)) # "none",
         NEW forGood \in BOOLEAN, ReportsError(c, forGood)
  PROVE  /\ gatewayTasks' \in [GatewayTask -> TaskState] /\ Pc(Reader(c))' = "done"
         /\ \A t \in GatewayTask : Calm(t)
<1> DEFINE after == [gatewayTasks EXCEPT ![Reader(c)].pc = "done"]
<1>1. /\ after \in [GatewayTask -> TaskState] /\ after[Reader(c)].pc = "done"
      /\ \A u \in GatewayTask : u # Reader(c) => after[u] = gatewayTasks[u]
  <2>1. Reader(c) \in GatewayTask /\ "done" \in GatewayPcs
    BY TasksApart DEF GatewayPcs
  <2> QED
    BY <2>1, TaskGoes
<1>2. \/ gatewayTasks' = after
      \/ \E o \in Openers : /\ Awaits(o, c)
           /\ CallsClose(after, o, TRUE, IF forGood THEN "tell" ELSE "retry")
  BY DEF ReportsError
<1> HIDE DEF after
<1>3. CASE gatewayTasks' = after
  BY <1>1, <1>3, TasksApart DEF Calm, Pc
<1>4. ASSUME NEW o \in Openers, Awaits(o, c),
             CallsClose(after, o, TRUE, IF forGood THEN "tell" ELSE "retry")
      PROVE  /\ gatewayTasks' \in [GatewayTask -> TaskState] /\ Pc(Reader(c))' = "done"
             /\ \A t \in GatewayTask : Calm(t)
  <2>1. /\ gatewayTasks' \in [GatewayTask -> TaskState] /\ Pc(o)' = "closing"
        /\ \A u \in GatewayTask : u # o => Pc(u)' = after[u].pc
    <3>1. o \in GatewayTask
      BY TasksApart
    <3>2. CASE forGood
      BY <1>1, <1>4, <3>1, <3>2, CloseCalled
    <3>3. CASE ~forGood
      BY <1>1, <1>4, <3>1, <3>3, CloseCalled
    <3> QED
      BY <3>2, <3>3
  <2>2. o # Reader(c) /\ Reader(c) \in GatewayTask /\ Pc(o) = "awaiting"
    BY <1>4, TasksApart DEF Awaits
  <2> QED
    BY <1>1, <2>1, <2>2 DEF Calm, Pc
<1> QED
  BY <1>2, <1>3, <1>4

\* A goroutine calls CloseWithCode.
LEMMA ClosingIsCalm ==
  ASSUME gatewayTasks \in [GatewayTask -> TaskState], NEW t \in GatewayTask, Pc(t) # "none",
         NEW normal \in BOOLEAN, NEW next \in {"end", "retry", "reconnect", "beat", "tell"},
         CallsClose(gatewayTasks, t, normal, next)
  PROVE  /\ gatewayTasks' \in [GatewayTask -> TaskState] /\ Pc(t)' = "closing"
         /\ \A u \in GatewayTask : Calm(u)
<1>1. /\ gatewayTasks' \in [GatewayTask -> TaskState] /\ Pc(t)' = "closing"
      /\ \A u \in GatewayTask : u # t => Pc(u)' = gatewayTasks[u].pc
  BY CloseCalled
<1> QED
  BY <1>1 DEF Calm, Pc

\* A goroutine goes on where it neither opens, closes nor reads.
LEMMA GoingIsCalm ==
  ASSUME gatewayTasks \in [GatewayTask -> TaskState], NEW t \in GatewayTask, NEW pc,
         GoesTo(t, pc),
         \/ pc \in {"done", "waiting", "beating", "closing"} /\ Pc(t) # "none"
         \/ pc \in {"none", "sending"} /\ t = Sender
  PROVE  /\ gatewayTasks' \in [GatewayTask -> TaskState] /\ Pc(t)' = pc
         /\ \A u \in GatewayTask : Calm(u)
<1>1. pc \in GatewayPcs
  BY DEF GatewayPcs
<1>2. /\ gatewayTasks' \in [GatewayTask -> TaskState] /\ gatewayTasks'[t].pc = pc
      /\ \A u \in GatewayTask : u # t => gatewayTasks'[u] = gatewayTasks[u]
  BY <1>1, TaskGoes DEF GoesTo
<1> QED
  BY <1>2 DEF Calm, Pc

\* ReceiveMessage fails.
LEMMA ReadErrorKeeps ==
  ASSUME GatewayInv, NEW c \in Conn, Listens(c), NEW forGood \in BOOLEAN, NEW badSeq \in BOOLEAN,
         ReadError(c, forGood, badSeq)
  PROVE  GatewayInv'
<1>1. /\ gatewayTasks \in [GatewayTask -> TaskState] /\ Reader(c) \in GatewayTask
      /\ Pc(Reader(c)) \in {"hello", "handshake", "reading"}
      /\ UNCHANGED <<connMu, current, link, serves, emitted, handled>>
  BY TasksApart DEF GatewayInv, GatewayShape, Listens, ReadError, mutexes, outside
<1>2. CASE ReportsError(c, forGood) /\ UNCHANGED resumeData
  BY <1>1, <1>2, ReportedError, CalmStep DEF resumeData
<1>3. CASE GoesTo(Reader(c), "done") /\ UNCHANGED resumeData
  BY <1>1, <1>3, GoingIsCalm, CalmStep DEF resumeData
<1>4. CASE /\ current = c /\ Clear(badSeq)
           /\ CallsClose(gatewayTasks, Reader(c), FALSE, IF forGood THEN "tell" ELSE "reconnect")
  <2>1. /\ gatewayTasks' \in [GatewayTask -> TaskState] /\ Pc(Reader(c))' = "closing"
        /\ \A u \in GatewayTask : Calm(u)
    <3>1. CASE forGood
      BY <1>1, <1>4, <3>1, ClosingIsCalm
    <3>2. CASE ~forGood
      BY <1>1, <1>4, <3>2, ClosingIsCalm
    <3> QED
      BY <3>1, <3>2
  <2>2. \A d \in Conn : link[d] = "open" => d = c
    BY <1>4 DEF GatewayInv, KnownIsOpen, OneConnection
  <2>3. UNCHANGED <<session, lastSeq>> \/ (session' = None /\ lastSeq' = 0)
    BY <1>4 DEF Clear
  <2> QED
    BY <1>1, <2>1, <2>2, <2>3, CalmStep
<1> QED
  BY <1>2, <1>3, <1>4 DEF ReadError, resumeData

\* Ends of connections that others cause, heartbeats and commands.
LEMMA EndsKeep ==
  ASSUME GatewayInv,
         \/ \E c \in Conn : \/ ReadClosed(c) \/ ReadGarbled(c) \/ ConnectionEnds(c)
                            \/ ReconnectAsked(c) \/ SessionInvalid(c)
                            \/ BeatStarts(c) \/ BeatEnds(c) \/ BeatFails(c)
         \/ SendBegins \/ SendEnds
  PROVE  GatewayInv'
<1>1. gatewayTasks \in [GatewayTask -> TaskState]
  BY DEF GatewayInv, GatewayShape
<1>2. ASSUME NEW c \in Conn, ReadClosed(c) \/ ReadGarbled(c) \/ ConnectionEnds(c)
      PROVE  GatewayInv'
  <2>1. Listens(c) /\ \E forGood \in BOOLEAN, badSeq \in BOOLEAN : ReadError(c, forGood, badSeq)
    BY <1>2 DEF ReadClosed, ReadGarbled, ConnectionEnds, EventHasCome, Listens
  <2> QED
    BY <2>1, ReadErrorKeeps
<1>3. ASSUME NEW c \in Conn, ReconnectAsked(c)
      PROVE  GatewayInv'
  <2>1. /\ Reader(c) \in GatewayTask /\ Pc(Reader(c)) # "none"
        /\ UNCHANGED <<connMu, current, session, lastSeq, link, serves, emitted, handled>>
        /\ \/ ReportsError(c, FALSE) \/ CallsClose(gatewayTasks, Reader(c), FALSE, "reconnect")
    BY <1>3, TasksApart DEF ReconnectAsked, Listens, resumeData, mutexes, outside
  <2>2. gatewayTasks' \in [GatewayTask -> TaskState] /\ \A t \in GatewayTask : Calm(t)
    BY <1>1, <2>1, ReportedError, ClosingIsCalm
  <2> QED
    BY <2>1, <2>2, CalmStep
<1>4. ASSUME NEW c \in Conn, SessionInvalid(c)
      PROVE  GatewayInv'
  <2>1. /\ Reader(c) \in GatewayTask /\ Pc(Reader(c)) # "none" /\ link[c] = "open"
        /\ UNCHANGED <<connMu, current, link, serves, emitted, handled>>
    BY <1>4, TasksApart DEF SessionInvalid, mutexes, outside
  <2>2. PICK canResume \in BOOLEAN :
          /\ Clear(~ canResume)
          /\ \/ ReportsError(c, FALSE)
             \/ CallsClose(gatewayTasks, Reader(c), ~ canResume, "reconnect")
    BY <1>4 DEF SessionInvalid
  <2>3. /\ gatewayTasks' \in [GatewayTask -> TaskState] /\ \A t \in GatewayTask : Calm(t)
        /\ Pc(Reader(c))' \in {"done", "closing"}
    <3>1. CASE ReportsError(c, FALSE)
      BY <1>1, <2>1, <3>1, ReportedError
    <3>2. CASE CallsClose(gatewayTasks, Reader(c), ~ canResume, "reconnect")
      <4>1. (~ canResume) \in BOOLEAN
        OBVIOUS
      <4> QED
        BY <1>1, <2>1, <3>2, <4>1, ClosingIsCalm
    <3> QED
      BY <2>2, <3>1, <3>2
  <2>4. UNCHANGED <<session, lastSeq>> \/ (session' = None /\ lastSeq' = 0)
    BY <2>2 DEF Clear
  <2>5. \A d \in Conn : link[d] = "open" => d = c
    BY <2>1 DEF GatewayInv, KnownIsOpen, OneConnection
  <2> QED
    BY <2>1, <2>3, <2>4, <2>5, CalmStep
<1>5. ASSUME NEW c \in Conn, BeatStarts(c) \/ BeatEnds(c)
      PROVE  GatewayInv'
  <2>1. /\ Beat(c) \in GatewayTask /\ Pc(Beat(c)) # "none"
        /\ UNCHANGED <<connMu, current, session, lastSeq, link, serves, emitted, handled>>
        /\ GoesTo(Beat(c), "beating") \/ GoesTo(Beat(c), "done")
    BY <1>5, TasksApart DEF BeatStarts, BeatEnds, resumeData, mutexes, outside
  <2> QED
    BY <1>1, <2>1, GoingIsCalm, CalmStep
<1>6. ASSUME NEW c \in Conn, BeatFails(c)
      PROVE  GatewayInv'
  <2>1. /\ Beat(c) \in GatewayTask /\ Pc(Beat(c)) # "none"
        /\ UNCHANGED <<connMu, current, session, lastSeq, link, serves, emitted, handled>>
        /\ \/ CallsClose(gatewayTasks, Beat(c), FALSE, "reconnect")
           \/ CallsClose(gatewayTasks, Beat(c), FALSE, "beat")
    BY <1>6, TasksApart DEF BeatFails, resumeData, mutexes, outside
  <2> QED
    BY <1>1, <2>1, ClosingIsCalm, CalmStep
<1>7. CASE SendBegins \/ SendEnds
  <2>1. /\ Sender \in GatewayTask
        /\ UNCHANGED <<connMu, current, session, lastSeq, link, serves, emitted, handled>>
        /\ GoesTo(Sender, "sending") \/ GoesTo(Sender, "none")
    BY <1>7, TasksApart DEF SendBegins, SendEnds, resumeData, outside
  <2> QED
    BY <1>1, <2>1, GoingIsCalm, CalmStep
<1> QED
  BY <1>2, <1>3, <1>4, <1>5, <1>6, <1>7

\* CloseWithCode closes the connection the gateway knows, under connMu.
LEMMA CloseConnKeeps ==
  ASSUME GatewayInv, NEW t \in GatewayTask, CloseConn(t)
  PROVE  GatewayInv'
<1>1. /\ gatewayTasks \in [GatewayTask -> TaskState] /\ connMu = Unlocked /\ connMu' = t
      /\ Pc(t) = "closing" /\ current' = None /\ UNCHANGED <<serves, emitted, handled>>
      /\ link \in [Conn -> {"none", "open", "closed"}] /\ GoesTo(t, "closed")
      /\ link' = [c \in Conn |-> IF c = current THEN "closed" ELSE link[c]]
  BY DEF CloseConn, GatewayInv, GatewayShape
<1>2. /\ gatewayTasks' \in [GatewayTask -> TaskState] /\ Pc(t)' = "closed"
      /\ \A u \in GatewayTask : u # t => Pc(u)' = Pc(u)
  <2>1. "closed" \in GatewayPcs
    BY DEF GatewayPcs
  <2> QED
    BY <1>1, <2>1, TaskGoes DEF GoesTo, Pc
<1>3. \A c \in Conn : link'[c] # "open"
  BY <1>1 DEF GatewayInv, KnownIsOpen, OneConnection
<1>4. \A c \in Conn : link'[c] = "none" => link[c] = "none"
  BY <1>1
<1>5. UNCHANGED <<session, lastSeq>> \/ (session' = None /\ lastSeq' = 0)
  BY DEF CloseConn, Clear
<1>6. GatewayShape'
  BY <1>1, <1>2, <1>5 DEF GatewayInv, GatewayShape
<1>7. LocksHeld'
  BY <1>1, <1>2, TasksApart DEF GatewayInv, LocksHeld
<1>8. KnownIsOpen'
  BY <1>1, <1>3 DEF KnownIsOpen, OneConnection
<1>9. NotYetBegun' /\ NextIsNext' /\ EventsKept'
  BY <1>1, <1>2, <1>3, <1>4, <1>5, TasksApart, ReadersCalm DEF GatewayInv
<1> QED
  BY <1>6, <1>7, <1>8, <1>9 DEF GatewayInv

\* go g.reconnect(): a free opener waits.
LEMMA ReconnectWaits ==
  ASSUME NEW ts \in [GatewayTask -> TaskState], \E o \in Openers : ts[o].pc \in {"none", "done"}
  PROVE  /\ WithReconnect(ts) \in [GatewayTask -> TaskState]
         /\ \A u \in GatewayTask :
              WithReconnect(ts)[u] = ts[u]
                \/ (u \in Openers /\ WithReconnect(ts)[u].pc = "waiting")
<1> DEFINE free == CHOOSE o \in Openers : ts[o].pc \in {"none", "done"}
           new == [NoTask EXCEPT !.pc = "waiting"]
<1>1. free \in Openers /\ free \in GatewayTask
  BY TasksApart
<1>2. new \in TaskState /\ new.pc = "waiting"
  BY DEF NoTask, TaskState, GatewayPcs
<1>3. WithReconnect(ts) = [ts EXCEPT ![free] = new]
  BY DEF WithReconnect
<1> QED
  BY <1>1, <1>2, <1>3, TaskChanged

\* CloseWithCode sets the status, lets connMu go and does what is next.
LEMMA CloseStatusKeeps ==
  ASSUME GatewayInv, NEW t \in GatewayTask, CloseStatus(t)
  PROVE  GatewayInv'
<1>1. /\ gatewayTasks \in [GatewayTask -> TaskState] /\ Pc(t) = "closed" /\ connMu' = Unlocked
      /\ UNCHANGED <<current, session, lastSeq, link, serves, emitted, handled>>
  BY DEF CloseStatus, GatewayInv, GatewayShape, resumeData, outside
<1>2. /\ gatewayTasks' \in [GatewayTask -> TaskState]
      /\ Pc(t)' \in {"waiting", "done", "beating"}
      /\ \A u \in GatewayTask :
           u # t => Pc(u)' = Pc(u) \/ (u \in Openers /\ Pc(u)' = "waiting")
  <2> DEFINE after(pc) == [gatewayTasks EXCEPT ![t].pc = pc]
  <2>1. {"waiting", "done", "beating"} \subseteq GatewayPcs
    BY DEF GatewayPcs
  <2>2. \A pc \in {"waiting", "done", "beating"} :
          /\ after(pc) \in [GatewayTask -> TaskState] /\ after(pc)[t].pc = pc
          /\ \A u \in GatewayTask : u # t => after(pc)[u] = gatewayTasks[u]
    BY <1>1, <2>1, TaskGoes
  <2>3. \/ \E pc \in {"waiting", "done"} : gatewayTasks' = after(pc)
        \/ \E pc \in {"done", "beating"} :
             /\ gatewayTasks' = WithReconnect(after(pc))
             /\ \E o \in Openers : Pc(o) \in {"none", "done"}
    BY DEF CloseStatus
  <2> HIDE DEF after
  <2>4. CASE \E pc \in {"waiting", "done"} : gatewayTasks' = after(pc)
    BY <2>2, <2>4 DEF Pc
  <2>5. ASSUME NEW pc \in {"done", "beating"}, gatewayTasks' = WithReconnect(after(pc)),
               NEW o \in Openers, Pc(o) \in {"none", "done"}
        PROVE  <1>2
    <3>1. o # t /\ o \in GatewayTask
      BY <1>1, <2>5, TasksApart
    <3>2. /\ after(pc) \in [GatewayTask -> TaskState] /\ after(pc)[t].pc = pc
          /\ \A u \in GatewayTask : u # t => after(pc)[u] = gatewayTasks[u]
      BY <2>2
    <3>3. after(pc)[o].pc \in {"none", "done"}
      BY <2>5, <3>1, <3>2 DEF Pc
    <3>4. /\ gatewayTasks' \in [GatewayTask -> TaskState]
          /\ \A u \in GatewayTask :
               gatewayTasks'[u] = after(pc)[u]
                 \/ (u \in Openers /\ gatewayTasks'[u].pc = "waiting")
      BY <2>5, <3>2, <3>3, ReconnectWaits
    <3> QED
      BY <3>2, <3>4 DEF Pc
  <2> QED
    BY <2>3, <2>4, <2>5
<1>3. GatewayShape'
  BY <1>1, <1>2 DEF GatewayInv, GatewayShape
<1>4. LocksHeld'
  BY <1>1, <1>2 DEF GatewayInv, LocksHeld
<1>5. KnownIsOpen'
  BY <1>1 DEF GatewayInv, KnownIsOpen, OneConnection
<1>6. NotYetBegun' /\ NextIsNext' /\ EventsKept'
  BY <1>1, <1>2, TasksApart, ReadersCalm DEF GatewayInv
<1> QED
  BY <1>3, <1>4, <1>5, <1>6 DEF GatewayInv

\* doReconnect and open, up to a connection.
LEMMA OpeningKeeps ==
  ASSUME GatewayInv, NEW o \in Openers, OpenBegins(o) \/ OpenConnects(o) \/ DialFails(o)
  PROVE  GatewayInv'
<1>1. /\ gatewayTasks \in [GatewayTask -> TaskState] /\ o \in GatewayTask
      /\ UNCHANGED <<current, session, lastSeq, link, serves, emitted, handled>>
  BY TasksApart
  DEF OpenBegins, OpenConnects, DialFails, GatewayInv, GatewayShape, resumeData, outside, mutexes
<1>2. \E pc \in {"done", "connecting", "dialing", "waiting"} :
        /\ GoesTo(o, pc)
        /\ pc = "done" => UNCHANGED connMu
        /\ pc = "connecting" => connMu = Unlocked /\ connMu' = o /\ current = None
        /\ pc = "dialing" => Pc(o) = "connecting" /\ UNCHANGED connMu
        /\ pc = "waiting" => Pc(o) = "dialing" /\ connMu' = Unlocked
  BY DEF OpenBegins, OpenConnects, DialFails, mutexes
<1>3. PICK pc \in {"done", "connecting", "dialing", "waiting"} :
        /\ GoesTo(o, pc)
        /\ pc = "done" => UNCHANGED connMu
        /\ pc = "connecting" => connMu = Unlocked /\ connMu' = o /\ current = None
        /\ pc = "dialing" => Pc(o) = "connecting" /\ UNCHANGED connMu
        /\ pc = "waiting" => Pc(o) = "dialing" /\ connMu' = Unlocked
  BY <1>2
<1>4. /\ gatewayTasks' \in [GatewayTask -> TaskState] /\ Pc(o)' = pc
      /\ \A u \in GatewayTask : u # o => Pc(u)' = Pc(u)
  <2>1. pc \in GatewayPcs
    BY DEF GatewayPcs
  <2> QED
    BY <1>1, <1>3, <2>1, TaskGoes DEF GoesTo, Pc
<1>5. GatewayShape'
  BY <1>1, <1>4 DEF GatewayInv, GatewayShape
<1>6. LocksHeld'
  BY <1>1, <1>3, <1>4, TasksApart DEF GatewayInv, LocksHeld
<1>7. KnownIsOpen'
  BY <1>1 DEF GatewayInv, KnownIsOpen, OneConnection
<1>8. NotYetBegun' /\ NextIsNext' /\ EventsKept'
  BY <1>1, <1>4, TasksApart, ReadersCalm DEF GatewayInv
<1> QED
  BY <1>5, <1>6, <1>7, <1>8 DEF GatewayInv

\* A connection is opened.
LEMMA DialingKeeps ==
  ASSUME GatewayInv, NEW o \in Openers, DialSucceeds(o)
  PROVE  GatewayInv'
<1>1. PICK c \in Conn :
        /\ link[c] = "none" /\ current' = c /\ link' = [link EXCEPT ![c] = "open"]
        /\ gatewayTasks' = [gatewayTasks EXCEPT ![o].pc = "awaiting", ![o].on = c,
                                                ![Reader(c)].pc = "hello"]
  BY DEF DialSucceeds
<1>2. /\ gatewayTasks \in [GatewayTask -> TaskState] /\ o \in GatewayTask /\ Reader(c) \in GatewayTask
      /\ Pc(o) = "dialing" /\ current = None /\ connMu = o /\ connMu' = Unlocked /\ o # Reader(c)
      /\ link \in [Conn -> {"none", "open", "closed"}]
      /\ UNCHANGED <<session, lastSeq, serves, emitted, handled>>
  BY TasksApart DEF DialSucceeds, GatewayInv, GatewayShape, LocksHeld, resumeData
<1>3. /\ gatewayTasks' \in [GatewayTask -> TaskState] /\ Pc(o)' = "awaiting"
      /\ Pc(Reader(c))' = "hello"
      /\ \A u \in GatewayTask : u # o /\ u # Reader(c) => Pc(u)' = Pc(u)
  <2> DEFINE new == [gatewayTasks[o] EXCEPT !.pc = "awaiting", !.on = c]
             first == [gatewayTasks EXCEPT ![o] = new]
  <2>1. new \in TaskState /\ new.pc = "awaiting" /\ "hello" \in GatewayPcs
    BY <1>2 DEF TaskState, GatewayPcs
  <2>2. /\ first \in [GatewayTask -> TaskState] /\ first[o] = new
        /\ \A u \in GatewayTask : u # o => first[u] = gatewayTasks[u]
    BY <1>2, <2>1, TaskChanged
  <2>3. gatewayTasks' = [first EXCEPT ![Reader(c)].pc = "hello"]
    BY <1>1, <1>2
  <2> HIDE DEF new, first
  <2> QED
    BY <1>2, <2>1, <2>2, <2>3, TaskGoes DEF Pc
<1>4. GatewayShape'
  BY <1>1, <1>2, <1>3 DEF GatewayInv, GatewayShape
<1>5. LocksHeld'
  BY <1>2, <1>3 DEF GatewayInv, LocksHeld
<1>6. KnownIsOpen'
  <2>1. \A d \in Conn : link[d] # "open"
    BY <1>2, TasksApart DEF GatewayInv, KnownIsOpen, OneConnection
  <2> QED
    BY <1>1, <1>2, <2>1, TasksApart DEF KnownIsOpen, OneConnection
<1>7. \A d \in Conn : d # c => Pc(Reader(d))' = Pc(Reader(d)) /\ link'[d] = link[d]
  BY <1>1, <1>2, <1>3, TasksApart
<1>8. NotYetBegun'
  BY <1>1, <1>2, <1>3, <1>7 DEF GatewayInv, NotYetBegun
<1>9. NextIsNext'
  BY <1>2, <1>3, <1>7 DEF GatewayInv, NextIsNext
<1>10. EventsKept'
  BY <1>2 DEF GatewayInv, EventsKept
<1> QED
  BY <1>4, <1>5, <1>6, <1>8, <1>9, <1>10 DEF GatewayInv

\* Steps of one reader that leave the locks and the connections alone.
LEMMA LocksStay ==
  ASSUME GatewayInv, UNCHANGED <<connMu, current, link>>,
         \A t \in GatewayTask :
           Pc(t)' = Pc(t) \/ Pc(t)' \notin {"connecting", "dialing", "closed"}
  PROVE  LocksHeld' /\ KnownIsOpen'
BY DEF GatewayInv, LocksHeld, KnownIsOpen, OneConnection

\* OpcodeHello
LEMMA HelloKeeps ==
  ASSUME GatewayInv, NEW c \in Conn, ReceiveHello(c)
  PROVE  GatewayInv'
<1>1. /\ gatewayTasks \in [GatewayTask -> TaskState] /\ Reader(c) \in GatewayTask
      /\ Beat(c) \in GatewayTask /\ Reader(c) # Beat(c)
      /\ Pc(Reader(c)) = "hello" /\ link[c] = "open"
      /\ UNCHANGED <<connMu, current, session, lastSeq, link, emitted, handled>>
      /\ serves \in [Conn -> [of : Conn \cup {None}, next : Nat \ {0}]]
      /\ session \in Conn \cup {None} /\ lastSeq \in Nat
  BY TasksApart DEF ReceiveHello, GatewayInv, GatewayShape, resumeData, mutexes
<1>2. /\ gatewayTasks' \in [GatewayTask -> TaskState] /\ Pc(Reader(c))' = "handshake"
      /\ Pc(Beat(c))' = "starting"
      /\ \A u \in GatewayTask : u # Beat(c) /\ u # Reader(c) => Pc(u)' = Pc(u)
  <2> DEFINE first == [gatewayTasks EXCEPT ![Reader(c)].pc = "handshake"]
  <2>1. {"handshake", "starting"} \subseteq GatewayPcs
    BY DEF GatewayPcs
  <2>2. /\ first \in [GatewayTask -> TaskState] /\ first[Reader(c)].pc = "handshake"
        /\ \A u \in GatewayTask : u # Reader(c) => first[u] = gatewayTasks[u]
    BY <1>1, <2>1, TaskGoes
  <2>3. gatewayTasks' = [first EXCEPT ![Beat(c)].pc = "starting"]
    BY <1>1 DEF ReceiveHello
  <2> HIDE DEF first
  <2>4. /\ gatewayTasks' \in [GatewayTask -> TaskState] /\ gatewayTasks'[Beat(c)].pc = "starting"
        /\ \A u \in GatewayTask : u # Beat(c) => gatewayTasks'[u] = first[u]
    BY <1>1, <2>1, <2>2, <2>3, TaskGoes
  <2> QED
    BY <1>1, <2>2, <2>4 DEF Pc
<1>3. /\ serves' \in [Conn -> [of : Conn \cup {None}, next : Nat \ {0}]]
      /\ \A d \in Conn : d # c => serves'[d] = serves[d]
      /\ \/ serves'[c].of = c
         \/ /\ session # None /\ lastSeq # 0
            /\ serves'[c].of = session /\ serves'[c].next = lastSeq + 1
  <2> DEFINE new == IF session = None \/ lastSeq = 0
                      THEN [of |-> c, next |-> 1] ELSE [of |-> session, next |-> lastSeq + 1]
  <2>1. /\ new \in [of : Conn \cup {None}, next : Nat \ {0}]
        /\ \/ new.of = c
           \/ session # None /\ lastSeq # 0 /\ new.of = session /\ new.next = lastSeq + 1
    BY <1>1
  <2>2. serves' = [serves EXCEPT ![c] = new]
    BY DEF ReceiveHello
  <2> HIDE DEF new
  <2> QED
    BY <1>1, <2>1, <2>2
<1>4. GatewayShape'
  BY <1>1, <1>2, <1>3 DEF GatewayInv, GatewayShape
<1>5. LocksHeld' /\ KnownIsOpen'
  BY <1>1, <1>2, LocksStay
<1>6. \A d \in Conn : d # c => Pc(Reader(d))' = Pc(Reader(d))
  BY <1>2, TasksApart
<1>7. NotYetBegun'
  BY <1>1, <1>2, <1>3, <1>6 DEF GatewayInv, NotYetBegun
<1>8. NextIsNext'
  BY <1>1, <1>2, <1>3, <1>6 DEF GatewayInv, NextIsNext
<1>9. EventsKept'
  BY <1>1 DEF GatewayInv, EventsKept
<1> QED
  BY <1>4, <1>5, <1>7, <1>8, <1>9 DEF GatewayInv

\* ready(nil)
LEMMA ReportedReady ==
  ASSUME gatewayTasks \in [GatewayTask -> TaskState], NEW c \in Conn, ReportsReady(c)
  PROVE  /\ gatewayTasks' \in [GatewayTask -> TaskState] /\ Pc(Reader(c))' = "reading"
         /\ \A u \in GatewayTask : u # Reader(c) => Pc(u)' = Pc(u) \/ Pc(u)' = "done"
         /\ \A d \in Conn : d # c => Pc(Reader(d))' = Pc(Reader(d))
<1>1. ASSUME NEW t \in GatewayTask
      PROVE  /\ [gatewayTasks[t] EXCEPT !.pc = "done"] \in TaskState
             /\ [gatewayTasks[t] EXCEPT !.pc = "reading"] \in TaskState
             /\ [gatewayTasks[t] EXCEPT !.pc = "done"].pc = "done"
             /\ [gatewayTasks[t] EXCEPT !.pc = "reading"].pc = "reading"
  BY DEF TaskState, GatewayPcs
<1>2. Reader(c) \in GatewayTask /\ Reader(c) \notin Openers
  BY TasksApart
<1> QED
  BY <1>1, <1>2, TasksApart DEF ReportsReady, Pc

\* What a connection gives goes on.
LEMMA ServesOn ==
  ASSUME NEW sv \in [Conn -> [of : Conn \cup {None}, next : Nat \ {0}]], NEW c \in Conn,
         NEW n \in Nat \ {0}
  PROVE  /\ [sv EXCEPT ![c].next = n] \in [Conn -> [of : Conn \cup {None}, next : Nat \ {0}]]
         /\ \A d \in Conn : d # c => [sv EXCEPT ![c].next = n][d] = sv[d]
         /\ [sv EXCEPT ![c].next = n][c].of = sv[c].of
         /\ [sv EXCEPT ![c].next = n][c].next = n
<1> DEFINE new == [sv[c] EXCEPT !.next = n]
<1>1. new \in [of : Conn \cup {None}, next : Nat \ {0}] /\ new.of = sv[c].of /\ new.next = n
  OBVIOUS
<1>2. [sv EXCEPT ![c].next = n] = [sv EXCEPT ![c] = new]
  OBVIOUS
<1> HIDE DEF new
<1> QED
  BY <1>1, <1>2

\* EventReady
LEMMA ReadyKeeps ==
  ASSUME GatewayInv, NEW c \in Conn, ReceiveReady(c)
  PROVE  GatewayInv'
<1>1. /\ gatewayTasks \in [GatewayTask -> TaskState] /\ link[c] = "open"
      /\ UNCHANGED <<connMu, current, link>> /\ ReportsReady(c)
      /\ session' = c /\ lastSeq' = 1 /\ emitted' = [emitted EXCEPT ![c] = 1]
      /\ handled' = [handled EXCEPT ![c] = <<1>>] /\ serves' = [serves EXCEPT ![c].next = 2]
      /\ serves \in [Conn -> [of : Conn \cup {None}, next : Nat \ {0}]]
      /\ emitted \in [Conn -> Nat] /\ handled \in [Conn -> Seq(Nat)] /\ serves[c].of = c
  BY DEF ReceiveReady, GatewayInv, GatewayShape, mutexes
<1>2. /\ gatewayTasks' \in [GatewayTask -> TaskState] /\ Pc(Reader(c))' = "reading"
      /\ \A u \in GatewayTask : u # Reader(c) => Pc(u)' = Pc(u) \/ Pc(u)' = "done"
      /\ \A d \in Conn : d # c => Pc(Reader(d))' = Pc(Reader(d))
  BY <1>1, ReportedReady
<1>3. /\ serves' \in [Conn -> [of : Conn \cup {None}, next : Nat \ {0}]]
      /\ \A d \in Conn : d # c => serves'[d] = serves[d]
      /\ serves'[c].of = c /\ serves'[c].next = 2
  BY <1>1, ServesOn
<1>4. GatewayShape'
  BY <1>1, <1>2, <1>3 DEF GatewayInv, GatewayShape
<1>5. LocksHeld' /\ KnownIsOpen'
  BY <1>1, <1>2, LocksStay
<1>6. NotYetBegun'
  BY <1>1, <1>2, <1>3 DEF GatewayInv, NotYetBegun
<1>7. NextIsNext'
  <2>1. \A d \in Conn : link'[d] = "open" => d = c
    BY <1>1 DEF GatewayInv, KnownIsOpen, OneConnection
  <2> QED
    BY <1>1, <1>2, <1>3, <2>1 DEF NextIsNext
<1>8. EventsKept'
  <2>1. handled'[c] = [i \in 1 .. Len(handled'[c]) |-> i] /\ Len(handled'[c]) = 1
    BY <1>1
  <2>2. \A s \in Conn : s # c => handled'[s] = handled[s]
    BY <1>1
  <2> QED
    BY <1>1, <2>1, <2>2 DEF GatewayInv, EventsKept
<1> QED
  BY <1>4, <1>5, <1>6, <1>7, <1>8 DEF GatewayInv

\* EventResumed
LEMMA ResumedKeeps ==
  ASSUME GatewayInv, NEW c \in Conn, ReceiveResumed(c)
  PROVE  GatewayInv'
<1>1. /\ gatewayTasks \in [GatewayTask -> TaskState] /\ serves[c].of # c
      /\ UNCHANGED <<connMu, current, session, lastSeq, link, serves, emitted, handled>>
      /\ ReportsReady(c) /\ Pc(Reader(c)) = "handshake"
  BY DEF ReceiveResumed, GatewayInv, GatewayShape, mutexes, resumeData, outside
<1>2. /\ gatewayTasks' \in [GatewayTask -> TaskState] /\ Pc(Reader(c))' = "reading"
      /\ \A u \in GatewayTask : u # Reader(c) => Pc(u)' = Pc(u) \/ Pc(u)' = "done"
      /\ \A d \in Conn : d # c => Pc(Reader(d))' = Pc(Reader(d))
  BY <1>1, ReportedReady
<1>3. GatewayShape'
  BY <1>1, <1>2 DEF GatewayInv, GatewayShape
<1>4. LocksHeld' /\ KnownIsOpen'
  BY <1>1, <1>2, LocksStay
<1>5. NotYetBegun'
  BY <1>1, <1>2 DEF GatewayInv, NotYetBegun
<1>6. NextIsNext'
  BY <1>1, <1>2 DEF GatewayInv, NextIsNext
<1>7. EventsKept'
  BY <1>1 DEF GatewayInv, EventsKept
<1> QED
  BY <1>3, <1>4, <1>5, <1>6, <1>7 DEF GatewayInv

\* OpcodeDispatch
LEMMA EventKeeps ==
  ASSUME GatewayInv, NEW c \in Conn, ReceiveEvent(c)
  PROVE  GatewayInv'
<1> DEFINE of == serves[c].of
           next == serves[c].next
<1>1. /\ link[c] = "open" /\ Pc(Reader(c)) \in {"handshake", "reading"} /\ of # None
      /\ next <= emitted[of]
      /\ UNCHANGED <<connMu, current, session, link, emitted, gatewayTasks>>
      /\ lastSeq' = next /\ handled' = [handled EXCEPT ![of] = Append(@, next)]
      /\ serves' = [serves EXCEPT ![c].next = next + 1]
  BY DEF ReceiveEvent, EventHasCome, mutexes
<1>2. /\ serves \in [Conn -> [of : Conn \cup {None}, next : Nat \ {0}]]
      /\ emitted \in [Conn -> Nat] /\ handled \in [Conn -> Seq(Nat)] /\ lastSeq \in Nat
      /\ of \in Conn /\ next \in Nat \ {0}
  BY <1>1 DEF GatewayInv, GatewayShape
<1>3. /\ serves' \in [Conn -> [of : Conn \cup {None}, next : Nat \ {0}]]
      /\ \A d \in Conn : d # c => serves'[d] = serves[d]
      /\ serves'[c].of = of /\ serves'[c].next = next + 1
  <2>1. next + 1 \in Nat \ {0}
    BY <1>2
  <2>2. serves' = [serves EXCEPT ![c].next = next + 1]
    BY <1>1
  <2>3. PICK n \in Nat \ {0} : n = next + 1
    BY <2>1
  <2>4. serves' = [serves EXCEPT ![c].next = n]
    BY <2>2, <2>3
  <2>5. /\ serves' \in [Conn -> [of : Conn \cup {None}, next : Nat \ {0}]]
        /\ \A d \in Conn : d # c => serves'[d] = serves[d]
        /\ serves'[c].of = serves[c].of /\ serves'[c].next = n
    <3>1. serves \in [Conn -> [of : Conn \cup {None}, next : Nat \ {0}]]
      BY <1>2
    <3> HIDE DEF next
    <3> QED
      BY <2>4, <3>1, ServesOn
  <2> QED
    BY <2>3, <2>5
<1>4. /\ handled' \in [Conn -> Seq(Nat)] /\ handled'[of] = Append(handled[of], next)
      /\ \A s \in Conn : s # of => handled'[s] = handled[s]
  BY <1>1, <1>2
<1>5. session = of /\ lastSeq # 0 /\ next = lastSeq + 1
  <2>1. ~ (Pc(Reader(c)) = "handshake" /\ of = c)
    BY <1>1, <1>2 DEF GatewayInv, NotYetBegun
  <2> QED
    BY <1>1, <2>1 DEF GatewayInv, NextIsNext
<1>6. GatewayShape'
  BY <1>1, <1>2, <1>3, <1>4 DEF GatewayInv, GatewayShape
<1>7. LocksHeld' /\ KnownIsOpen'
  BY <1>1, LocksStay DEF Pc
<1>8. NotYetBegun'
  BY <1>1, <1>3 DEF GatewayInv, NotYetBegun, Pc
<1>9. NextIsNext'
  <2>1. \A d \in Conn : link'[d] = "open" => d = c
    BY <1>1 DEF GatewayInv, KnownIsOpen, OneConnection
  <2> QED
    BY <1>1, <1>2, <1>3, <1>5, <2>1 DEF NextIsNext
<1>10. EventsKept'
  <2>1. /\ handled[of] = [i \in 1 .. Len(handled[of]) |-> i] /\ lastSeq = Len(handled[of])
        /\ \A s \in Conn : handled[s] = [i \in 1 .. Len(handled[s]) |-> i]
    BY <1>2, <1>5, TasksApart DEF GatewayInv, EventsKept
  <2>2. /\ Len(handled'[of]) = next
        /\ handled'[of] = [i \in 1 .. next |-> i]
    <3> DEFINE h == handled[of]
    <3>1. h \in Seq(Nat) /\ Len(h) + 1 = next /\ Len(h) \in Nat /\ \A i \in 1 .. Len(h) : h[i] = i
      BY <1>2, <1>5, <2>1
    <3>8. next \in Nat
      BY <1>2
    <3> HIDE DEF h, next
    <3>2. /\ Append(h, next) \in Seq(Nat) /\ Len(Append(h, next)) = next
          /\ \A i \in 1 .. next : Append(h, next)[i] = i
      BY <3>1, <3>8
    <3>9. Append(h, next) \in [1 .. next -> Nat]
      BY <3>2, LenProperties
    <3>3. Append(h, next) = [i \in 1 .. next |-> i]
      BY <3>2, <3>9
    <3> QED
      BY <1>4, <3>2, <3>3 DEF h
  <2> QED
    BY <1>1, <1>4, <1>5, <2>1, <2>2, TasksApart DEF EventsKept
<1> QED
  BY <1>6, <1>7, <1>8, <1>9, <1>10 DEF GatewayInv

\* Something happens in a session.
LEMMA EmitKeeps ==
  ASSUME GatewayInv, EmitEvent
  PROVE  GatewayInv'
<1>1. /\ UNCHANGED <<current, session, lastSeq, connMu, gatewayTasks, link, serves, handled>>
      /\ emitted \in [Conn -> Nat]
  BY DEF EmitEvent, resumeData, mutexes, GatewayInv, GatewayShape
<1>2. PICK s \in Conn : emitted[s] \in 1 .. MaxEvents - 1 /\ emitted' = [emitted EXCEPT ![s] = @ + 1]
  BY DEF EmitEvent
<1>3. emitted' \in [Conn -> Nat] /\ \A d \in Conn : emitted[d] = 0 => emitted'[d] = 0
  <2>1. emitted[s] # 0 /\ emitted[s] + 1 \in Nat
    BY <1>1, <1>2, GatewayAssumption
  <2> QED
    BY <1>1, <1>2, <2>1
<1>4. GatewayShape'
  BY <1>1, <1>3 DEF GatewayInv, GatewayShape
<1>5. LocksHeld' /\ KnownIsOpen'
  BY <1>1, LocksStay DEF Pc
<1>6. NotYetBegun'
  BY <1>1, <1>3 DEF GatewayInv, NotYetBegun, Pc
<1>7. NextIsNext' /\ EventsKept'
  BY <1>1 DEF GatewayInv, NextIsNext, EventsKept, Pc
<1> QED
  BY <1>4, <1>5, <1>6, <1>7 DEF GatewayInv

\* The gateway, a command or Discord takes a step.
LEMMA GatewayStep == GatewayInv /\ [GatewayNext]_gatewayVars => GatewayInv'
<1> SUFFICES ASSUME GatewayInv, [GatewayNext]_gatewayVars
             PROVE  GatewayInv'
  OBVIOUS
<1>1. CASE UNCHANGED gatewayVars
  BY <1>1
  DEF gatewayVars, GatewayInv, GatewayShape, LocksHeld, KnownIsOpen, OneConnection, NotYetBegun,
      NextIsNext, EventsKept, Pc
<1> QED
  BY <1>1, EndsKeep, CloseConnKeeps, CloseStatusKeeps, OpeningKeeps, DialingKeeps, HelloKeeps, ReadyKeeps,
     ResumedKeeps, EventKeeps, EmitKeeps
  DEF GatewayNext, GatewayGoesOn, DiscordSays

\* Events: their numbers stay within what was emitted, and that within its bound.
EventBounds ==
  /\ lastSeq \in 0 .. MaxEvents /\ garbled \in 0 .. MaxEvents
  /\ \A c \in Conn : /\ serves[c].next \in 1 .. MaxEvents + 1 /\ emitted[c] \in 0 .. MaxEvents
                     /\ handled[c] \in Seq(1 .. emitted[c])

\* The rest of the state, in which a step changes little.
OtherBounds ==
  /\ isReady \in BOOLEAN /\ isOver \in BOOLEAN
  /\ {connMu, statusMu} \subseteq GatewayTask \cup {Unlocked}
  /\ heartbeatCancel \in Conn \cup {None} /\ canceled \subseteq Conn
  /\ failures \in 0 .. MaxFailures /\ sends \in 0 .. MaxSends

GatewayTypes == GatewayInv /\ EventBounds /\ OtherBounds

\* At first nothing has happened, but that an event may be garbled.
LEMMA TypesInitially == GatewayInit => GatewayTypes
<1> SUFFICES ASSUME GatewayInit PROVE GatewayTypes
  OBVIOUS
<1>1. GatewayInv
  BY GatewayInitially
<1>2. MaxEvents \in Nat \ {0} /\ MaxFailures \in Nat \ {0} /\ MaxSends \in Nat
  BY GatewayAssumption
<1>3. garbled \in 0 .. MaxEvents
  BY <1>2 DEF GatewayInit
<1>4. EventBounds
  <2>1. \A c \in Conn : serves[c].next = 1 /\ emitted[c] = 0 /\ handled[c] = <<>> /\ lastSeq = 0
    BY DEF GatewayInit
  <2>2. \A n \in Nat : <<>> \in Seq(1 .. n)
    OBVIOUS
  <2> QED
    BY <1>2, <1>3, <2>1, <2>2 DEF EventBounds, GatewayInit
<1>5. OtherBounds
  <2>1. failures \in 0 .. MaxFailures /\ sends \in 0 .. MaxSends
    BY <1>2 DEF GatewayInit
  <2> QED
    BY <2>1 DEF GatewayInit, OtherBounds
<1> QED
  BY <1>1, <1>4, <1>5 DEF GatewayTypes

\* Every step keeps the numbers of events in their bounds.
LEMMA EventsBounded ==
  ASSUME GatewayInv, EventBounds, [GatewayNext]_gatewayVars
  PROVE  EventBounds'
<1>1. /\ MaxEvents \in Nat \ {0} /\ lastSeq \in 0 .. MaxEvents /\ lastSeq \in Nat
      /\ serves \in [Conn -> [of : Conn \cup {None}, next : Nat \ {0}]]
      /\ emitted \in [Conn -> Nat] /\ handled \in [Conn -> Seq(Nat)]
      /\ \A c \in Conn : /\ serves[c].next \in 1 .. MaxEvents + 1 /\ emitted[c] \in 0 .. MaxEvents
                         /\ handled[c] \in Seq(1 .. emitted[c])
  BY GatewayAssumption DEF EventBounds, GatewayInv, GatewayShape
<1>2. CASE UNCHANGED <<serves, emitted, handled, garbled>> /\ lastSeq' \in {lastSeq, 0}
  BY <1>1, <1>2 DEF EventBounds
<1>3. ASSUME NEW c \in Conn, ReceiveHello(c)
      PROVE  EventBounds'
  <2>1. /\ UNCHANGED <<emitted, handled, garbled, lastSeq>>
        /\ serves' = [serves EXCEPT ![c] = IF session = None \/ lastSeq = 0
                        THEN [of |-> c, next |-> 1] ELSE [of |-> session, next |-> lastSeq + 1]]
    BY <1>3 DEF ReceiveHello, resumeData
  <2>2. serves'[c].next = 1 \/ serves'[c].next = lastSeq + 1
    BY <1>1, <2>1
  <2>3. \A d \in Conn : d # c => serves'[d] = serves[d]
    BY <1>1, <2>1
  <2>4. ASSUME NEW d \in Conn
        PROVE  serves'[d].next \in 1 .. MaxEvents + 1
    <3>1. 1 \in 1 .. MaxEvents + 1 /\ lastSeq + 1 \in 1 .. MaxEvents + 1
      BY <1>1
    <3> QED
      BY <1>1, <2>2, <2>3, <3>1
  <2> QED
    BY <1>1, <2>1, <2>4 DEF EventBounds
<1>4. ASSUME NEW c \in Conn, ReceiveReady(c)
      PROVE  EventBounds'
  <2>1. /\ lastSeq' = 1 /\ garbled' = garbled /\ emitted' = [emitted EXCEPT ![c] = 1]
        /\ handled' = [handled EXCEPT ![c] = <<1>>] /\ serves' = [serves EXCEPT ![c].next = 2]
    BY <1>4 DEF ReceiveReady
  <2>2. serves'[c].next = 2 /\ emitted'[c] = 1 /\ handled'[c] = <<1>>
    BY <1>1, <2>1
  <2>3. \A d \in Conn : d # c => serves'[d] = serves[d] /\ emitted'[d] = emitted[d] /\ handled'[d] = handled[d]
    BY <1>1, <2>1
  <2>4. <<1>> \in Seq(1 .. 1)
    OBVIOUS
  <2>5. ASSUME NEW d \in Conn
        PROVE  /\ serves'[d].next \in 1 .. MaxEvents + 1 /\ emitted'[d] \in 0 .. MaxEvents
               /\ handled'[d] \in Seq(1 .. emitted'[d])
    <3>1. 2 \in 1 .. MaxEvents + 1 /\ 1 \in 0 .. MaxEvents
      BY <1>1
    <3>2. CASE d = c
      BY <2>2, <2>4, <3>1, <3>2
    <3>3. CASE d # c
      BY <1>1, <2>3, <3>3
    <3> QED
      BY <3>2, <3>3
  <2> QED
    BY <1>1, <2>1, <2>5 DEF EventBounds
<1>5. ASSUME NEW c \in Conn, ReceiveEvent(c)
      PROVE  EventBounds'
  <2> DEFINE s == serves[c].of
             n == serves[c].next
  <2>1. /\ lastSeq' = n /\ garbled' = garbled /\ emitted' = emitted
        /\ handled' = [handled EXCEPT ![s] = Append(@, n)]
        /\ serves' = [serves EXCEPT ![c].next = @ + 1]
        /\ s # None /\ n <= emitted[s]
    BY <1>5 DEF ReceiveEvent, EventHasCome
  <2>2. s \in Conn /\ n \in Nat \ {0}
    BY <1>1, <2>1
  <2>3. n \in 1 .. emitted[s] /\ emitted[s] \in 0 .. MaxEvents /\ n \in 1 .. MaxEvents
    BY <1>1, <2>1, <2>2
  <2>4. serves'[c].next = n + 1 /\ handled'[s] = Append(handled[s], n)
    BY <1>1, <2>1, <2>2
  <2>5. handled'[s] \in Seq(1 .. emitted[s])
    BY <1>1, <2>2, <2>3, <2>4
  <2>6. /\ \A d \in Conn : d # c => serves'[d] = serves[d]
        /\ \A d \in Conn : d # s => handled'[d] = handled[d]
    BY <1>1, <2>1
  <2>7. ASSUME NEW d \in Conn
        PROVE  serves'[d].next \in 1 .. MaxEvents + 1
    <3>1. n + 1 \in 1 .. MaxEvents + 1
      BY <1>1, <2>3
    <3> HIDE DEF n
    <3> QED
      BY <1>1, <2>4, <2>6, <3>1
  <2>8. ASSUME NEW d \in Conn
        PROVE  handled'[d] \in Seq(1 .. emitted'[d])
    <3> HIDE DEF n, s
    <3> QED
      BY <1>1, <2>1, <2>5, <2>6
  <2>9. lastSeq' \in 0 .. MaxEvents
    BY <1>1, <2>1, <2>3
  <2> QED
    BY <1>1, <2>1, <2>7, <2>8, <2>9 DEF EventBounds
<1>6. CASE EmitEvent
  <2>1. PICK s \in Conn : emitted[s] \in 1 .. MaxEvents - 1 /\ emitted' = [emitted EXCEPT ![s] = @ + 1]
    BY <1>6 DEF EmitEvent
  <2>2. UNCHANGED <<serves, handled, garbled, lastSeq>>
    BY <1>6 DEF EmitEvent, resumeData
  <2>3. emitted'[s] = emitted[s] + 1 /\ \A d \in Conn : d # s => emitted'[d] = emitted[d]
    BY <1>1, <2>1
  <2>4. \A d \in Conn : emitted'[d] \in 0 .. MaxEvents /\ 1 .. emitted[d] \subseteq 1 .. emitted'[d]
    BY <1>1, <2>1, <2>3
  <2>5. ASSUME NEW d \in Conn
        PROVE  handled'[d] \in Seq(1 .. emitted'[d])
    <3>1. handled'[d] \in Seq(1 .. emitted[d]) /\ 1 .. emitted[d] \subseteq 1 .. emitted'[d]
      BY <1>1, <2>2, <2>4
    <3>2. \A S, T : S \subseteq T => Seq(S) \subseteq Seq(T)
      OBVIOUS
    <3> QED
      BY <3>1, <3>2
  <2> QED
    BY <1>1, <2>2, <2>4, <2>5 DEF EventBounds
<1>7. CASE UNCHANGED gatewayVars
  BY <1>2, <1>7 DEF gatewayVars
<1>8. CASE \/ \E t \in GatewayTask : CloseConn(t) \/ CloseStatus(t)
           \/ \E o \in Openers : OpenBegins(o) \/ OpenConnects(o) \/ DialSucceeds(o) \/ DialFails(o)
           \/ SendBegins \/ SendEnds
  BY <1>2, <1>8 DEF CloseConn, CloseStatus, OpenBegins, OpenConnects, DialSucceeds, DialFails,
                    SendBegins, SendEnds, Clear, resumeData, outside
<1>9. CASE \E c \in Conn : \/ ReceiveResumed(c) \/ BeatStarts(c) \/ BeatEnds(c) \/ BeatFails(c)
                           \/ ReconnectAsked(c)
  BY <1>2, <1>9 DEF ReceiveResumed, BeatStarts, BeatEnds, BeatFails, ReconnectAsked, resumeData, outside
<1>10. CASE \E c \in Conn : ReadClosed(c) \/ ReadGarbled(c) \/ ConnectionEnds(c) \/ SessionInvalid(c)
  <2>1. ASSUME NEW c \in Conn, NEW forGood, NEW badSeq, ReadError(c, forGood, badSeq)
        PROVE  UNCHANGED <<serves, emitted, handled, garbled>> /\ lastSeq' \in {lastSeq, 0}
    BY <2>1 DEF ReadError, Clear, resumeData, outside
  <2> QED
    BY <1>2, <1>10, <2>1 DEF ReadClosed, ReadGarbled, ConnectionEnds, SessionInvalid, Clear, outside
<1> QED
  BY <1>3, <1>4, <1>5, <1>6, <1>7, <1>8, <1>9, <1>10 DEF GatewayNext, GatewayGoesOn, DiscordSays

\* CloseWithCode tells the heartbeat to end, of which the gateway knows one.
LEMMA CanceledAreConns ==
  ASSUME OtherBounds, NEW ts, NEW t, NEW normal, NEW next, CallsClose(ts, t, normal, next)
  PROVE  canceled' \subseteq Conn
BY DEF CallsClose, OtherBounds

\* listen that ends with an error closes the connection or not.
LEMMA ReportedCancels ==
  ASSUME OtherBounds, NEW c, NEW forGood, ReportsError(c, forGood)
  PROVE  canceled' \subseteq Conn
BY CanceledAreConns DEF ReportsError, OtherBounds

\* Every step keeps the locks those of goroutines, and the counters in their bounds.
LEMMA OthersBounded ==
  ASSUME GatewayInv, OtherBounds, [GatewayNext]_gatewayVars
  PROVE  OtherBounds'
<1>1. /\ MaxFailures \in Nat /\ MaxSends \in Nat /\ isReady \in BOOLEAN /\ isOver \in BOOLEAN
      /\ connMu \in GatewayTask \cup {Unlocked} /\ statusMu \in GatewayTask \cup {Unlocked}
      /\ heartbeatCancel \in Conn \cup {None} /\ canceled \subseteq Conn
      /\ failures \in 0 .. MaxFailures /\ sends \in 0 .. MaxSends
  BY GatewayAssumption DEF OtherBounds
<1>2. Fails => failures' \in 0 .. MaxFailures
  BY <1>1 DEF Fails
<1>3. CASE UNCHANGED gatewayVars
  BY <1>1, <1>3 DEF gatewayVars, OtherBounds
<1>4. CASE \E t \in GatewayTask : CloseConn(t) \/ CloseStatus(t)
  <2>1. CASE \E t \in GatewayTask : CloseConn(t)
    BY <1>1, <2>1 DEF CloseConn, beats, counters, OtherBounds
  <2>2. CASE \E t \in GatewayTask : CloseStatus(t)
    <3>1. /\ isReady' = FALSE /\ connMu' = Unlocked /\ isOver' \in BOOLEAN
          /\ UNCHANGED <<statusMu, heartbeatCancel, canceled, failures, sends>>
      BY <2>2 DEF CloseStatus, beats, counters
    <3> QED
      BY <1>1, <3>1 DEF OtherBounds
  <2> QED
    BY <1>4, <2>1, <2>2
<1>5. CASE \E o \in Openers : OpenBegins(o) \/ OpenConnects(o) \/ DialSucceeds(o) \/ DialFails(o)
  <2>1. PICK o \in Openers : OpenBegins(o) \/ OpenConnects(o) \/ DialSucceeds(o) \/ DialFails(o)
    BY <1>5
  <2>2. /\ isReady' \in BOOLEAN /\ connMu' \in {connMu, o, Unlocked}
        /\ UNCHANGED <<statusMu, heartbeatCancel, canceled, isOver, sends>>
        /\ UNCHANGED failures \/ Fails
    BY <1>1, <2>1 DEF OpenBegins, OpenConnects, DialSucceeds, DialFails, beats, counters, mutexes
  <2>3. o \in GatewayTask
    BY TasksApart
  <2> QED
    BY <1>1, <1>2, <2>2, <2>3 DEF OtherBounds
<1>6. CASE \E c \in Conn : ReceiveHello(c) \/ ReceiveReady(c) \/ ReceiveResumed(c) \/ ReceiveEvent(c)
  <2>1. /\ isReady' \in BOOLEAN
        /\ UNCHANGED <<connMu, statusMu, heartbeatCancel, canceled, isOver, failures, sends>>
    BY <1>1, <1>6 DEF ReceiveHello, ReceiveReady, ReceiveResumed, ReceiveEvent, beats, counters, mutexes
  <2> QED
    BY <1>1, <2>1 DEF OtherBounds
<1>7. ASSUME NEW c \in Conn, NEW forGood, NEW badSeq, ReadError(c, forGood, badSeq),
             UNCHANGED failures \/ Fails
      PROVE  OtherBounds'
  <2>1. canceled' \subseteq Conn
    BY <1>1, <1>7, CanceledAreConns, ReportedCancels DEF ReadError
  <2>2. UNCHANGED <<isReady, connMu, statusMu, heartbeatCancel, isOver, sends>>
    BY <1>7 DEF ReadError, mutexes
  <2> QED
    BY <1>1, <1>2, <1>7, <2>1, <2>2 DEF OtherBounds
<1>8. CASE \E c \in Conn : ReadClosed(c) \/ ReadGarbled(c) \/ ConnectionEnds(c)
  BY <1>7, <1>8 DEF ReadClosed, ReadGarbled, ConnectionEnds
<1>9. CASE \E c \in Conn : ReconnectAsked(c) \/ SessionInvalid(c) \/ BeatFails(c)
  <2>1. canceled' \subseteq Conn
    BY <1>9, CanceledAreConns, ReportedCancels DEF ReconnectAsked, SessionInvalid, BeatFails
  <2>2. /\ UNCHANGED <<isReady, connMu, statusMu, heartbeatCancel, isOver, sends>> /\ Fails
    BY <1>9 DEF ReconnectAsked, SessionInvalid, BeatFails, mutexes
  <2> QED
    BY <1>1, <1>2, <2>1, <2>2 DEF OtherBounds
<1>10. CASE \E c \in Conn : BeatStarts(c) \/ BeatEnds(c)
  <2>1. /\ heartbeatCancel' \in {heartbeatCancel} \cup Conn
        /\ UNCHANGED <<isReady, connMu, statusMu, canceled, isOver, failures, sends>>
    BY <1>10 DEF BeatStarts, BeatEnds, beats, counters, mutexes
  <2> QED
    BY <1>1, <2>1 DEF OtherBounds
<1>11. CASE SendBegins \/ SendEnds
  <2>1. /\ statusMu' \in {Sender, Unlocked}
        /\ sends' = sends \/ (sends < MaxSends /\ sends' = sends + 1)
        /\ UNCHANGED <<isReady, connMu, heartbeatCancel, canceled, isOver, failures>>
    BY <1>11 DEF SendBegins, SendEnds, beats, counters
  <2>2. sends' \in 0 .. MaxSends
    BY <1>1, <2>1
  <2>3. Sender \in GatewayTask
    BY TasksApart
  <2> QED
    BY <1>1, <2>1, <2>2, <2>3 DEF OtherBounds
<1>12. CASE EmitEvent
  BY <1>1, <1>12 DEF EmitEvent, mutexes, beats, counters, OtherBounds
<1> QED
  BY <1>3, <1>4, <1>5, <1>6, <1>8, <1>9, <1>10, <1>11, <1>12 DEF GatewayNext, GatewayGoesOn, DiscordSays

\* The gateway keeps its type.
LEMMA TypesStep == GatewayTypes /\ [GatewayNext]_gatewayVars => GatewayTypes'
BY GatewayStep, EventsBounded, OthersBounded DEF GatewayTypes

\* What follows is the type of the module.
LEMMA GatewayTypesFollow == GatewayTypes => GatewayTypeOK
<1> SUFFICES ASSUME GatewayTypes PROVE GatewayTypeOK
  OBVIOUS
<1>1. GatewayShape /\ EventBounds /\ OtherBounds
  BY DEF GatewayTypes, GatewayInv
<1>2. serves \in [Conn -> [of : Conn \cup {None}, next : 1 .. MaxEvents + 1]]
  <2>1. ASSUME NEW c \in Conn
        PROVE  serves[c] \in [of : Conn \cup {None}, next : 1 .. MaxEvents + 1]
    <3>1. serves[c] \in [of : Conn \cup {None}, next : Nat \ {0}] /\ serves[c].next \in 1 .. MaxEvents + 1
      BY <1>1 DEF GatewayShape, EventBounds
    <3> QED
      BY <3>1
  <2> QED
    BY <1>1, <2>1 DEF GatewayShape
<1>3. emitted \in [Conn -> 0 .. MaxEvents]
  BY <1>1 DEF GatewayShape, EventBounds
<1> QED
  BY <1>1, <1>2, <1>3 DEF GatewayTypeOK, GatewayShape, EventBounds, OtherBounds, TaskState

-----------------------------------------------------------------------------
(* The services together *)

\* A step of the program is one of one part, and for the others none.
LEMMA PartsMove ==
  ASSUME [Next]_serviceVars
  PROVE  /\ [SavedNext]_savedVars /\ [UserNext]_userVars
         /\ [CacheNext]_cacheVars /\ [IntakeNext]_intakeVars
         /\ [ReceiverNext]_receiverVars /\ [TranscriberNext]_transcriberVars
         /\ [GatewayNext]_gatewayVars /\ [DashboardNext]_dashboardVars
         /\ [MixerNext]_mixerVars /\ [MediaNext]_mediaVars /\ [SoundNext]_soundVars
BY DEF Next, OthersRest, serviceVars, MixerPart

\* A step of a service, or none of it, keeps its invariant.
LEMMA MediaStep ==
  ASSUME MediaInv, [MediaNext]_mediaVars
  PROVE  MediaInv'
BY MediaKept, MediaRests

\* So for the sound of a capture.
LEMMA SoundStep ==
  ASSUME SoundInv, [SoundNext]_soundVars
  PROVE  SoundInv'
BY CaptureSoundKept, CaptureSoundRests

\* All services keep their types, for every value of their constants; so the gateway hands out
\* no event that was not emitted, and no sample is read twice.
THEOREM ServicesKeepTypes == Spec => []TypeOK
<1> DEFINE Inv == /\ SavedInv /\ UserInv /\ CacheInv /\ IntakeInv /\ MixerInv
                  /\ ReceiverInv /\ TranscriberInv /\ MediaInv /\ SoundInv
                  /\ GatewayTypes /\ DashboardInv
<1>1. Init => Inv
  BY SavedInitially, UserInitially, CacheInitially, IntakeInitially, MixerInitially,
     ReceiverInitially, TranscriberInitially, MediaInitially, CaptureSoundInitially,
     TypesInitially, DashboardInitially DEF Init
<1>2. Inv /\ [Next]_serviceVars => Inv'
  BY PartsMove, SavedStep, UserStep, CacheStep, IntakeStep, MixerStep, ReceiverStep,
     TranscriberStep, MediaStep, SoundStep, TypesStep, DashboardStep
<1>3. Inv => TypeOK
  BY UserTypesFollow, MixerFollows, MediaFollows, CaptureSoundFollows, GatewayTypesFollow
  DEF SavedInv, CacheInv, IntakeInv, ReceiverInv, TranscriberInv, DashboardInv, TypeOK
<1> HIDE DEF Inv
<1> QED
  BY <1>1, <1>2, <1>3, PTL DEF Spec

\* A guild never has more saved queues than it may have, and as long as nobody wrote from an
\* outdated copy the document holds what every command was told (Structs/Saved.go:299).
THEOREM SavedQueuesStay == Spec => []SavedQueuesKept
<1>1. Init => SavedInv
  BY SavedInitially DEF Init
<1>2. SavedInv /\ [Next]_serviceVars => SavedInv'
  BY PartsMove, SavedStep
<1>3. SavedInv => SavedQueuesKept
  BY DEF SavedInv, SavedQueuesKept
<1> QED
  BY <1>1, <1>2, <1>3, PTL DEF Spec

\* Every play of a user is accounted for: it is in the record, on its way there, or among those
\* that a failed write or a restart took (Structs/User.go:315, :341); what autocomplete offers
\* has no repetitions (:177); a record that is there stays, and having said that this is not the
\* first use it never says so again (:94).
THEOREM UserRecordsStay == Spec => UserRecordKept
<1>1. Init => UserInv
  BY UserInitially DEF Init
<1>2. UserInv /\ [Next]_serviceVars => UserInv'
  BY PartsMove, UserStep
<1>3. UserInv => PlaysAccountedFor /\ RecentSearchesDistinct
  BY RecordsFollow
<1>4. UserInv /\ [Next]_serviceVars =>
        [\A r \in user : \E q \in user' : q.first => r.first]_userVars
  BY PartsMove, UserStep
<1> QED
  BY <1>1, <1>2, <1>3, <1>4, PTL DEF Spec, UserRecordKept, NeverNewAgain

\* Whatever token a request gets outlasts it, and of the callers who wait for the same key only
\* one asks the service (APIs/Tidal/Fetcher.go:157).
THEOREM CachesServe == Spec => CacheKept
<1>1. Init => CacheInv
  BY CacheInitially DEF Init
<1>2. CacheInv /\ [Next]_serviceVars => CacheInv'
  BY PartsMove, CacheStep
<1>3. CacheInv => TokenOutlastsRequest
  BY DEF CacheInv
<1>4. CacheInv /\ [Next]_serviceVars =>
        [\A c \in Caller : callers[c].pc = "checking" /\ callers'[c].pc = "asking"
           => ~ Live(callers[c].key)]_cacheVars
  BY PartsMove, AsksOnce
<1> QED
  BY <1>1, <1>2, <1>3, <1>4, PTL DEF Spec, CacheKept, AskedOncePerLife

\* The songs of a playlist are added in its order, none twice, and none that was found is
\* lost, however many playlists come at a time and whichever search ends first.
THEOREM PlaylistsComeWhole == Spec => []PlaylistKept
<1>1. Init => IntakeInv
  BY IntakeInitially DEF Init
<1>2. IntakeInv /\ [Next]_serviceVars => IntakeInv'
  BY PartsMove, IntakeStep
<1>3. IntakeInv => PlaylistKept
  BY PlaylistsFollow DEF PlaylistKept
<1> QED
  BY <1>1, <1>2, <1>3, PTL DEF Spec

\* Sound is whole from end to end: the samples of a song are those of its longest track, every
\* one from where it lies (Audio/Probe.go:352, Audio/Streamer.go:436), and a file that can be
\* found is found; the mixer plays every place of a source once, at any speeds, nothing of an
\* old source under a new one, and every overlay to its end (Audio/Mixer.go:324, :428); what a
\* speaker says to the bot reaches the transcriber without a gap (Receive/Session.go:438).
THEOREM SoundStaysWhole == Spec => []SoundIsWhole
<1>1. Init => MixerInv /\ MediaInv /\ SoundInv
  BY MixerInitially, MediaInitially, CaptureSoundInitially DEF Init
<1>2. MixerInv /\ MediaInv /\ SoundInv /\ [Next]_serviceVars => MixerInv' /\ MediaInv' /\ SoundInv'
  BY PartsMove, MixerStep, MediaStep, SoundStep
<1>3. MixerInv /\ MediaInv /\ SoundInv => SoundIsWhole
  BY MixerFollows, MediaFollows, CaptureSoundFollows DEF SoundIsWhole
<1> QED
  BY <1>1, <1>2, <1>3, PTL DEF Spec

\* The result of a capture is what was said, and no session, stream or connection is left
\* without somebody who closes it.
THEOREM TranscriptsAreTrue == Spec => []TranscriptKept
<1>1. Init => ReceiverInv /\ TranscriberInv
  BY ReceiverInitially, TranscriberInitially DEF Init
<1>2. ReceiverInv /\ TranscriberInv /\ [Next]_serviceVars => ReceiverInv' /\ TranscriberInv'
  BY PartsMove, ReceiverStep, TranscriberStep
<1>3. ReceiverInv /\ TranscriberInv => TranscriptKept
  BY TranscriptFollows DEF ReceiverInv, TranscriptKept
<1> QED
  BY <1>1, <1>2, <1>3, PTL DEF Spec

\* When every handler has run, a connected page on whose link no two writes have met has been
\* told the newest lists and the newest state at some time, though maybe not last; a page shows
\* the song it was told last, if there was one and it did not come before the one before it was
\* rendered: for any number of pages and changes (Structs/Queue.go:64, Web/src/App.tsx:225).
THEOREM DashboardsAreTold == Spec => []PagesKept
<1>1. Init => DashboardInv
  BY DashboardInitially DEF Init
<1>2. DashboardInv /\ [Next]_serviceVars => DashboardInv'
  BY PartsMove, DashboardStep
<1>3. DashboardInv => PagesKept
  BY PagesFollow DEF PagesKept
<1> QED
  BY <1>1, <1>2, <1>3, PTL DEF Spec

\* The events of a session are handled once and in order over all the connections that resume
\* it, none before a later one left out, and no more than one connection is open
\* (Modules/disgo/gateway/gateway.go:213, :641).
THEOREM EventsAreHandledOnce == Spec => []GatewayKept
<1>1. Init => GatewayInv
  BY GatewayInitially DEF Init
<1>2. GatewayInv /\ [Next]_serviceVars => GatewayInv'
  BY PartsMove, GatewayStep
<1>3. GatewayInv => GatewayKept
  BY DEF GatewayInv, KnownIsOpen, GatewayKept
<1> QED
  BY <1>1, <1>2, <1>3, PTL DEF Spec

-----------------------------------------------------------------------------
(* Some services by themselves.  MCServices begins with few of the initial *)
(* states they have; what they promise holds from each of them.            *)

\* A guild that begins with any saved queues within the limit keeps them (Structs/Saved.go:299).
THEOREM SavedQueuesHold == SavedSpec => []SavedQueuesKept
<1>1. SavedInv /\ [SavedNext]_savedVars => SavedInv'
  BY SavedStep
<1>2. SavedInv => SavedQueuesKept
  BY DEF SavedInv, SavedQueuesKept
<1> QED
  BY SavedInitially, <1>1, <1>2, PTL DEF SavedSpec

\* In a file of any layout, on a server of any kind, the samples that are read are those of its
\* longest track, and a song that can be found is (Audio/Probe.go:167, :352, Audio/Streamer.go:436).
THEOREM FilesAreRead == MediaSpec => [](SamplesAreRead /\ PlayableIsFound)
<1>1. MediaInit => MediaInv
  BY MediaInitially
<1>2. MediaInv /\ [MediaNext]_mediaVars => MediaInv'
  BY MediaStep
<1>3. MediaInv => SamplesAreRead /\ PlayableIsFound
  BY MediaFollows
<1> QED
  BY <1>1, <1>2, <1>3, PTL DEF MediaSpec

\* Whichever frames are silent, and however long a speaker goes on, every frame of a capture
\* reaches its transcriber in order and no other one, but for the oldest of those that waited for
\* it and found the buffer full (Receive/Session.go:438, Receive/Transcribe.go:220).
THEOREM CapturesAreWhole == SoundSpec => [](CaptureSoundWhole /\ FramesHeardOnce)
<1>1. SoundInit => SoundInv
  BY CaptureSoundInitially
<1>2. SoundInv /\ [SoundNext]_soundVars => SoundInv'
  BY SoundStep
<1>3. SoundInv => CaptureSoundWhole /\ FramesHeardOnce
  BY CaptureSoundFollows
<1> QED
  BY <1>1, <1>2, <1>3, PTL DEF SoundSpec

=============================================================================
