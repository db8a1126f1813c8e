-------------------------- MODULE QueueOps_proofs --------------------------
(***************************************************************************)
(* Facts about the queue operations, for any set of songs and queues of    *)
(* any length: each turns a queue into a queue without songs behind an     *)
(* empty Current slot, and going back does not change the listening order. *)
(***************************************************************************)
EXTENDS QueueOps, TLAPS, SequenceTheorems, FiniteSetTheorems

\* Queues in which nothing waits behind an empty Current slot.
SettledQueues == { q \in Queues : q.cur = NoSong => q.up = <<>> }

-----------------------------------------------------------------------------
(* Sequences of songs                                                      *)

\* The Current slot as a sequence of at most one song.
LEMMA NowPlayingType ==
  ASSUME NEW q \in Queues
  PROVE  NowPlaying(q) \in Seq(Song)
<1>1. CASE q.cur = NoSong
  BY <1>1 DEF NowPlaying
<1>2. CASE q.cur # NoSong
  <2>1. q.cur \in Song
    BY <1>2 DEF Queues
  <2> QED
    BY <2>1, <1>2 DEF NowPlaying
<1> QED
  BY <1>1, <1>2

\* A stretch of a sequence of songs is a sequence of songs.
LEMMA StretchType ==
  ASSUME NEW S, NEW s \in Seq(S), NEW m \in 1 .. Len(s) + 1, NEW n \in 0 .. Len(s)
  PROVE  SubSeq(s, m, n) \in Seq(S)
<1>1. \A i \in m .. n : s[i] \in S
  BY ElementOfSeq
<1> QED
  BY <1>1, SubSeqProperties

\* A sequence is what precedes one of its elements, that element, and the rest.
LEMMA SplitAt ==
  ASSUME NEW S, NEW s \in Seq(S), NEW k \in 0 .. Len(s) - 1
  PROVE  SubSeq(s, 1, k) \o <<s[k + 1]>> \o SubSeq(s, k + 2, Len(s)) = s
<1>1. s[k + 1] \in S /\ \A i \in k + 1 .. k + 1 : s[i] \in S
  BY ElementOfSeq
<1>2. SubSeq(s, k + 1, k + 1) = <<s[k + 1]>>
  <2> DEFINE stretch == SubSeq(s, k + 1, k + 1)
             single  == <<s[k + 1]>>
  <2>1. stretch \in Seq(S) /\ Len(stretch) = 1 /\ stretch[1] = s[k + 1]
    BY <1>1, SubSeqProperties
  <2>2. single \in Seq(S) /\ Len(single) = 1 /\ single[1] = s[k + 1]
    BY <1>1
  <2> HIDE DEF stretch, single
  <2>3. \A i \in 1 .. Len(stretch) : stretch[i] = single[i]
    BY <2>1, <2>2
  <2>4. stretch = single
    BY <2>1, <2>2, <2>3, SeqEqual
  <2> QED
    BY <2>4 DEF stretch, single
<1>3. SubSeq(s, 1, k) \o SubSeq(s, k + 1, k + 1) = SubSeq(s, 1, k + 1)
  <2>1. 1 \in 1 .. Len(s) + 1 /\ k \in 1 - 1 .. Len(s) /\ k + 1 \in k .. Len(s)
    OBVIOUS
  <2> QED
    BY <2>1, ConcatAdjacentSubSeq
<1>4. SubSeq(s, 1, k + 1) \o SubSeq(s, (k + 1) + 1, Len(s)) = SubSeq(s, 1, Len(s))
  <2>1. 1 \in 1 .. Len(s) + 1 /\ k + 1 \in 1 - 1 .. Len(s) /\ Len(s) \in k + 1 .. Len(s)
    OBVIOUS
  <2> QED
    BY <2>1, ConcatAdjacentSubSeq
<1>5. (k + 1) + 1 = k + 2
  OBVIOUS
<1>6. SubSeq(s, 1, k) \o <<s[k + 1]>> = SubSeq(s, 1, k + 1)
  BY <1>2, <1>3, Zenon
<1>7. SubSeq(s, 1, Len(s)) = s
  BY SubSeqFull
<1> QED
  BY <1>4, <1>5, <1>6, <1>7, Zenon

-----------------------------------------------------------------------------
(* Going back                                                              *)

\* Going back to a song leaves a settled queue (moveTo, the backward branch).
LEMMA ResumeAtSettled ==
  ASSUME NEW q \in Queues, NEW index, CanReplay(q, index)
  PROVE  ResumeAt(q, index) \in SettledQueues
<1>1. q.prev \in Seq(Song) /\ q.up \in Seq(Song) /\ index \in 0 .. Len(q.prev) - 1
  BY DEF Queues, CanReplay
<1>2. q.prev[index + 1] \in Song
  BY <1>1, ElementOfSeq
<1>3. SubSeq(q.prev, 1, index) \in Seq(Song)
  BY <1>1, StretchType
<1>4. SubSeq(q.prev, index + 2, Len(q.prev)) \in Seq(Song)
  BY <1>1, StretchType
<1>5. SubSeq(q.prev, index + 2, Len(q.prev)) \o NowPlaying(q) \o q.up \in Seq(Song)
  BY <1>1, <1>4, NowPlayingType, ConcatProperties
<1> QED
  BY <1>2, <1>3, <1>5, NoSongAssumption DEF ResumeAt, Queues, SettledQueues

\* Replay by index and Last by distance are the same move.
LEMMA ReplayIsResume ==
  ASSUME NEW q \in Queues, NEW index, CanReplay(q, index)
  PROVE  ReplayAt(q, index) = ResumeAt(q, index)
<1> DEFINE after == SubSeq(q.prev, index + 2, Len(q.prev))
           now   == NowPlaying(q)
           up    == q.up
<1>1. q.prev \in Seq(Song) /\ up \in Seq(Song) /\ index \in 0 .. Len(q.prev) - 1
  BY DEF Queues, CanReplay
<1>2. after \in Seq(Song) /\ now \in Seq(Song)
  BY <1>1, StretchType, NowPlayingType
<1>3. after \o (now \o up) = after \o now \o up
  <2> HIDE DEF after, now, up
  <2> QED
    BY <1>1, <1>2, SMTT(60)
<1> QED
  BY <1>3, Zenon DEF ReplayAt, ResumeAt

\* Last by n is a return to the song n from the end of Previous.
LEMMA GoBackIsResume ==
  ASSUME NEW q \in Queues, NEW n, CanGoBack(q, n)
  PROVE  CanReplay(q, Len(q.prev) - n) /\ GoBack(q, n) = ResumeAt(q, Len(q.prev) - n)
<1>1. CanReplay(q, Len(q.prev) - n)
  BY DEF Queues, CanGoBack, CanReplay
<1> QED
  BY <1>1, Zenon DEF GoBack

\* Going back moves the Current marker along an unchanged timeline.
LEMMA ResumeAtKeepsTimeline ==
  ASSUME NEW q \in Queues, NEW index, CanReplay(q, index)
  PROVE  Timeline(ResumeAt(q, index)) = Timeline(q)
<1> DEFINE before == SubSeq(q.prev, 1, index)
           one    == <<q.prev[index + 1]>>
           after  == SubSeq(q.prev, index + 2, Len(q.prev))
           now    == NowPlaying(q)
           up     == q.up
           past   == before \o one
           future == after \o now
<1>1. q.prev \in Seq(Song) /\ up \in Seq(Song) /\ index \in 0 .. Len(q.prev) - 1
  BY DEF Queues, CanReplay
<1>2. q.prev[index + 1] \in Song
  BY <1>1, ElementOfSeq
<1>3. /\ before \in Seq(Song) /\ one \in Seq(Song)
      /\ after \in Seq(Song) /\ now \in Seq(Song)
  BY <1>1, <1>2, StretchType, NowPlayingType
<1>4. past \in Seq(Song) /\ future \in Seq(Song)
  <2> HIDE DEF before, one, after, now
  <2> QED
    BY <1>3, ConcatProperties
<1>5. past \o after = q.prev
  BY <1>1, SplitAt
<1>6. Timeline(ResumeAt(q, index)) = past \o (future \o up)
  <2>1. NowPlaying(ResumeAt(q, index)) = one
    BY <1>2, NoSongAssumption DEF NowPlaying, ResumeAt
  <2>2. ResumeAt(q, index).prev = before /\ ResumeAt(q, index).up = future \o up
    BY DEF ResumeAt
  <2> QED
    BY <2>1, <2>2, Zenon DEF Timeline
<1>7. Timeline(q) = past \o after \o now \o up
  BY <1>5, Zenon DEF Timeline
<1>8. past \o (after \o now) = past \o after \o now
  <2> HIDE DEF past, after, now
  <2> QED
    BY <1>3, <1>4, SMTT(60)
<1>9. past \o (future \o up) = past \o future \o up
  <2> HIDE DEF past, future, up
  <2> QED
    BY <1>1, <1>4, SMTT(60)
<1> QED
  BY <1>6, <1>7, <1>8, <1>9, Zenon

-----------------------------------------------------------------------------
(* The other operations turn settled queues into settled queues            *)

\* What Next shuffles or plays from is a sequence of songs.
LEMMA WaitingType ==
  ASSUME NEW q \in Queues, NEW repeatAll
  PROVE  Waiting(q, repeatAll) \in Seq(Song) /\ Len(Waiting(q, repeatAll)) >= Len(q.up)
<1>1. q.up \in Seq(Song) /\ NowPlaying(q) \in Seq(Song)
  BY NowPlayingType DEF Queues
<1> QED
  BY <1>1, ConcatProperties DEF Waiting

\* Shuffling keeps the number of songs and their type.
LEMMA ShufflesType ==
  ASSUME NEW s \in Seq(Song), NEW t \in Shuffles(s)
  PROVE  t \in Seq(Song)
<1>1. PICK p \in Bijection(1 .. Len(s), 1 .. Len(s)) : t = [i \in 1 .. Len(s) |-> s[p[i]]]
  BY DEF Shuffles
<1>2. p \in [1 .. Len(s) -> 1 .. Len(s)]
  BY DEF Bijection, Injection
<1>3. \A i \in 1 .. Len(s) : s[p[i]] \in Song
  BY <1>2, ElementOfSeq
<1> QED
  BY <1>1, <1>3

\* Going forward leaves a settled queue, with Repeat All and Shuffle (moveTo, the forward branch).
LEMMA ForwardsSettled ==
  ASSUME NEW q \in Queues, NEW n, CanGoForward(q, n), NEW repeatAll, NEW shuffled,
         NEW r \in Forwards(q, n, repeatAll, shuffled)
  PROVE  r \in SettledQueues
<1> DEFINE waiting == Waiting(q, repeatAll)
           rest    == SubSeq(waiting, n + 1, Len(waiting))
           past    == q.prev \o NowPlaying(q)
<1>1. waiting \in Seq(Song) /\ n \in 1 .. Len(waiting)
  BY WaitingType DEF CanGoForward, Queues
<1>2. waiting[n] \in Song /\ rest \in Seq(Song)
  BY <1>1, ElementOfSeq, StretchType
<1>3. past \in Seq(Song)
  BY NowPlayingType, ConcatProperties DEF Queues
<1>4. GoForward(q, n, repeatAll) = [prev |-> past, cur |-> waiting[n], up |-> rest]
  BY DEF GoForward
<1>5. \E u \in Seq(Song) : r = [prev |-> past, cur |-> waiting[n], up |-> u]
  <2> HIDE DEF past, rest, waiting
  <2>1. CASE shuffled
    <3>1. PICK u \in Shuffles(rest) : r = [GoForward(q, n, repeatAll) EXCEPT !.up = u]
      BY <2>1, <1>4 DEF Forwards
    <3>2. u \in Seq(Song)
      BY <1>2, <3>1, ShufflesType
    <3> QED
      BY <1>4, <3>1, <3>2
  <2>2. CASE ~shuffled
    BY <2>2, <1>2, <1>4 DEF Forwards
  <2> QED
    BY <2>1, <2>2
<1> QED
  <2> HIDE DEF past, waiting
  <2> QED
    BY <1>2, <1>3, <1>5, NoSongAssumption DEF Queues, SettledQueues

\* Retiring the Current song leaves a queue.
LEMMA RetireType ==
  ASSUME NEW q \in Queues
  PROVE  /\ RetireCurrent(q) \in Queues
         /\ RetireCurrent(q).up = q.up
<1> DEFINE past == q.prev \o NowPlaying(q)
<1>1. past \in Seq(Song)
  BY NowPlayingType, ConcatProperties DEF Queues
<1>2. RetireCurrent(q) = [q EXCEPT !.prev = past, !.cur = NoSong]
  BY DEF RetireCurrent
<1> HIDE DEF past
<1> QED
  BY <1>1, <1>2 DEF Queues

\* Adding a song leaves a settled queue (Queue.Add).
LEMMA AddSongSettled ==
  ASSUME NEW q \in SettledQueues, NEW s \in Song
  PROVE  AddSong(q, s) \in SettledQueues
<1>1. CASE q.cur = NoSong
  BY <1>1, NoSongAssumption DEF AddSong, Queues, SettledQueues
<1>2. CASE q.cur # NoSong
  <2>1. Append(q.up, s) \in Seq(Song)
    BY AppendProperties DEF Queues, SettledQueues
  <2> QED
    BY <1>2, <2>1 DEF AddSong, Queues, SettledQueues
<1> QED
  BY <1>1, <1>2

\* Adding a song to any queue leaves a queue.
LEMMA AddSongType ==
  ASSUME NEW q \in Queues, NEW s \in Song
  PROVE  AddSong(q, s) \in Queues
<1>1. Append(q.up, s) \in Seq(Song)
  BY AppendProperties DEF Queues
<1> QED
  BY <1>1 DEF AddSong, Queues

\* Taking a song out of a sequence, and putting one in.
LEMMA WithoutType ==
  ASSUME NEW s \in Seq(Song), NEW i \in 1 .. Len(s)
  PROVE  RemoveAt(s, i) \in Seq(Song) /\ Len(RemoveAt(s, i)) = Len(s) - 1
<1> DEFINE before == SubSeq(s, 1, i - 1)
           after  == SubSeq(s, i + 1, Len(s))
<1>1. /\ before \in Seq(Song) /\ Len(before) = i - 1
      /\ after \in Seq(Song) /\ Len(after) = Len(s) - i
  BY StretchType, SubSeqProperties
<1>2. RemoveAt(s, i) = before \o after
  BY Zenon DEF RemoveAt
<1> HIDE DEF before, after
<1>3. before \o after \in Seq(Song) /\ Len(before \o after) = Len(s) - 1
  BY <1>1, ConcatProperties
<1> QED
  BY <1>2, <1>3, Zenon

\* A sequence with one more song in it is a sequence of songs.
LEMMA WithType ==
  ASSUME NEW s \in Seq(Song), NEW i \in 1 .. Len(s) + 1, NEW e \in Song
  PROVE  InsertAt(s, i, e) \in Seq(Song)
<1>1. SubSeq(s, 1, i - 1) \in Seq(Song) /\ SubSeq(s, i, Len(s)) \in Seq(Song)
  BY StretchType
<1>2. <<e>> \in Seq(Song)
  OBVIOUS
<1> QED
  BY <1>1, <1>2, ConcatProperties DEF InsertAt

\* Remove leaves a settled queue.
LEMMA RemoveUpcomingSettled ==
  ASSUME NEW q \in SettledQueues, NEW index, InUpcoming(q, index)
  PROVE  RemoveUpcoming(q, index) \in SettledQueues
<1>1. RemoveAt(q.up, index + 1) \in Seq(Song)
  BY WithoutType DEF InUpcoming, Queues, SettledQueues
<1>2. q.cur # NoSong
  BY DEF InUpcoming, Queues, SettledQueues
<1> QED
  BY <1>1, <1>2 DEF RemoveUpcoming, Queues, SettledQueues

\* Move leaves a settled queue.
LEMMA MoveUpcomingSettled ==
  ASSUME NEW q \in SettledQueues, NEW from, NEW to, InUpcoming(q, from), InUpcoming(q, to)
  PROVE  MoveUpcoming(q, from, to) \in SettledQueues
<1> DEFINE rest  == RemoveAt(q.up, from + 1)
           dest  == IF to > from THEN to - 1 ELSE to
           moved == InsertAt(rest, dest + 1, q.up[from + 1])
<1>1. q.up \in Seq(Song) /\ q.cur # NoSong /\ from \in 0 .. Len(q.up) - 1 /\ to \in 0 .. Len(q.up) - 1
  BY DEF InUpcoming, Queues, SettledQueues
<1>2. rest \in Seq(Song) /\ Len(rest) = Len(q.up) - 1 /\ q.up[from + 1] \in Song
  <2>1. from + 1 \in 1 .. Len(q.up)
    BY <1>1
  <2> QED
    BY <1>1, <2>1, WithoutType, ElementOfSeq
<1>3. CASE from = to
  BY <1>3 DEF MoveUpcoming
<1>4. CASE from # to
  <2>1. dest + 1 \in 1 .. Len(rest) + 1
    BY <1>1, <1>2
  <2>2. moved \in Seq(Song)
    <3> HIDE DEF rest, dest
    <3> QED
      BY <1>2, <2>1, WithType
  <2>3. MoveUpcoming(q, from, to) = [q EXCEPT !.up = moved]
    BY <1>4, Zenon DEF MoveUpcoming
  <2> HIDE DEF moved
  <2> QED
    BY <1>1, <2>2, <2>3 DEF Queues, SettledQueues
<1> QED
  BY <1>3, <1>4

-----------------------------------------------------------------------------
(* Forward and back                                                        *)

\* Last after Next gives the queue back (moveTo, both branches).
LEMMA BackUndoesForward ==
  ASSUME NEW q \in Queues, q.cur # NoSong, CanGoForward(q, 1)
  PROVE  GoBack(GoForward(q, 1, FALSE), 1) = q
<1> DEFINE now  == <<q.cur>>
           past == q.prev \o now
           rest == SubSeq(q.up, 2, Len(q.up))
           one  == <<q.up[1]>>
           size == Len(q.prev)
<1>1. /\ q.prev \in Seq(Song) /\ q.up \in Seq(Song) /\ q.cur \in Song
      /\ size \in Nat /\ 1 \in 1 .. Len(q.up)
  BY LenProperties DEF Queues, CanGoForward
<1>2. q.up[1] \in Song /\ rest \in Seq(Song)
  BY <1>1, ElementOfSeq, StretchType
<1>3. GoForward(q, 1, FALSE) = [prev |-> past, cur |-> q.up[1], up |-> rest]
  BY DEF GoForward, Waiting, NowPlaying
<1>4. past \in Seq(Song) /\ Len(past) = size + 1 /\ past[size + 1] = q.cur
  <2>1. now \in Seq(Song) /\ Len(now) = 1 /\ now[1] = q.cur
    BY <1>1
  <2> HIDE DEF now
  <2>2. /\ past \in Seq(Song) /\ Len(past) = Len(q.prev) + Len(now)
        /\ \A i \in 1 .. Len(q.prev) + Len(now) :
             past[i] = IF i <= Len(q.prev) THEN q.prev[i] ELSE now[i - Len(q.prev)]
    BY <1>1, <2>1, ConcatProperties
  <2>3. /\ size + 1 \in 1 .. Len(q.prev) + Len(now) /\ Len(q.prev) + Len(now) = size + 1
        /\ ~(size + 1 <= size) /\ (size + 1) - size = 1
    BY <1>1, <2>1
  <2> QED
    BY <2>1, <2>2, <2>3
<1>5. SubSeq(past, 1, size) = q.prev
  <2>1. now \in Seq(Song)
    BY <1>1
  <2>2. CASE size = 0
    <3>1. q.prev = <<>>
      BY <1>1, <2>2, EmptySeq
    <3>2. SubSeq(past, 1, size) = <<>>
      BY <2>2, SubSeqEmpty
    <3> QED
      BY <3>1, <3>2
  <2>3. CASE size # 0
    <3> HIDE DEF now
    <3>1. 1 \in 1 .. Len(q.prev) /\ size \in 1 .. Len(q.prev)
      BY <1>1, <2>3
    <3>2. SubSeq(past, 1, Len(q.prev)) = SubSeq(q.prev, 1, Len(q.prev))
      BY <1>1, <2>1, <3>1, SubSeqOfConcat1
    <3> QED
      BY <1>1, <3>2, SubSeqFull
  <2> QED
    BY <2>2, <2>3
<1>6. SubSeq(past, size + 2, size + 1) = <<>>
  BY <1>1, SubSeqEmpty
<1>7. one \o rest = q.up
  <2>1. SubSeq(q.up, 1, Len(q.up)) = one \o SubSeq(q.up, 1 + 1, Len(q.up))
    BY <1>1, SubSeqRecursiveFirst
  <2> QED
    BY <1>1, <2>1, SubSeqFull
<1>8. <<>> \o one \o rest = q.up
  <2>1. one \in Seq(Song)
    BY <1>2
  <2> HIDE DEF one, rest
  <2> QED
    BY <1>7, <2>1, ConcatEmptySeq
<1> DEFINE r == [prev |-> past, cur |-> q.up[1], up |-> rest]
<1>9. GoBack(r, 1) = [prev |-> q.prev, cur |-> q.cur, up |-> q.up]
  <2>1. NowPlaying(r) = one
    BY <1>2, NoSongAssumption DEF NowPlaying
  <2>2. /\ r.prev = past /\ r.up = rest
        /\ Len(past) - 1 = size /\ size + 2 = Len(past) + 1
    BY <1>1, <1>4
  <2> HIDE DEF past, one, rest, size, r
  <2> QED
    BY <1>4, <1>5, <1>6, <1>8, <2>1, <2>2 DEF GoBack, ResumeAt
<1> QED
  BY <1>3, <1>9 DEF Queues

\* Going back n songs at once is going back one and then n - 1 (moveTo).
LEMMA BackInSteps ==
  ASSUME NEW q \in Queues, NEW n \in 2 .. Len(q.prev)
  PROVE  GoBack(q, n) = GoBack(GoBack(q, 1), n - 1)
<1> DEFINE size  == Len(q.prev)
           last  == <<q.prev[size]>>
           now   == NowPlaying(q)
           fore  == SubSeq(q.prev, 1, size - 1)
           up    == q.up
           back  == [prev |-> fore, cur |-> q.prev[size], up |-> now \o up]
           mid   == SubSeq(q.prev, size - n + 2, size - 1)
<1>1. /\ q.prev \in Seq(Song) /\ up \in Seq(Song) /\ now \in Seq(Song)
      /\ size \in Nat /\ n \in 2 .. size
  BY NowPlayingType, LenProperties DEF Queues
<1>2. \A i \in 1 .. size : q.prev[i] \in Song
  BY <1>1, ElementOfSeq
<1>3. GoBack(q, 1) = back
  <2>1. SubSeq(q.prev, size + 1, size) = <<>>
    BY <1>1, SubSeqEmpty
  <2>2. <<>> \o now = now
    BY <1>1, ConcatEmptySeq
  <2>3. /\ (size - 1) + 1 = size /\ (size - 1) + 2 = size + 1
    BY <1>1
  <2>4. GoBack(q, 1) = [prev |-> fore, cur |-> q.prev[(size - 1) + 1],
                        up |-> SubSeq(q.prev, (size - 1) + 2, size) \o now \o up]
    BY Zenon DEF GoBack, ResumeAt
  <2> HIDE DEF now, up, fore, size
  <2> QED
    BY <2>1, <2>2, <2>3, <2>4
<1>4. fore \in Seq(Song) /\ Len(fore) = size - 1 /\ \A i \in 1 .. size - 1 : fore[i] = q.prev[i]
  BY <1>1, <1>2, SubSeqProperties
<1>5. SubSeq(fore, 1, size - n) = SubSeq(q.prev, 1, size - n)
  <2>1. CASE n = size
    BY <1>1, <2>1, SubSeqEmpty
  <2>2. CASE n # size
    <3>1. /\ 1 \in 1 .. Len(q.prev) /\ size - 1 \in 1 .. Len(q.prev)
          /\ 1 \in 1 .. (size - 1) - 1 + 1 /\ size - n \in 1 .. (size - 1) - 1 + 1
          /\ 1 + 1 - 1 = 1 /\ 1 + (size - n) - 1 = size - n
      BY <1>1, <2>2
    <3>2. SubSeq(SubSeq(q.prev, 1, size - 1), 1, size - n) = SubSeq(q.prev, 1 + 1 - 1, 1 + (size - n) - 1)
      BY <1>1, <3>1, SubSeqOfSubSeq
    <3> QED
      BY <3>1, <3>2
  <2> QED
    BY <2>1, <2>2
<1>6. SubSeq(fore, size - n + 2, size - 1) = mid
  <2>1. CASE n = 2
    BY <1>1, <2>1, SubSeqEmpty
  <2>2. CASE n # 2
    <3>1. /\ 1 \in 1 .. Len(q.prev) /\ size - 1 \in 1 .. Len(q.prev)
          /\ size - n + 2 \in 1 .. (size - 1) - 1 + 1 /\ size - 1 \in 1 .. (size - 1) - 1 + 1
          /\ 1 + (size - n + 2) - 1 = size - n + 2 /\ 1 + (size - 1) - 1 = size - 1
      BY <1>1, <2>2
    <3>2. SubSeq(SubSeq(q.prev, 1, size - 1), size - n + 2, size - 1)
            = SubSeq(q.prev, 1 + (size - n + 2) - 1, 1 + (size - 1) - 1)
      BY <1>1, <3>1, SubSeqOfSubSeq
    <3> QED
      BY <3>1, <3>2
  <2> QED
    BY <2>1, <2>2
<1>7. mid \o last = SubSeq(q.prev, size - n + 2, size)
  <2>1. size - n + 2 \in 1 .. Len(q.prev) /\ size \in size - n + 2 .. Len(q.prev)
    BY <1>1
  <2> QED
    BY <1>1, <2>1, SubSeqRecursiveSecond
<1>8. GoBack(back, n - 1) = [prev |-> SubSeq(q.prev, 1, size - n), cur |-> q.prev[size - n + 1],
                             up |-> mid \o last \o (now \o up)]
  <2>1. NowPlaying(back) = last
    BY <1>1, <1>2, NoSongAssumption DEF NowPlaying
  <2>2. /\ back.prev = fore /\ back.up = now \o up
        /\ Len(fore) - (n - 1) = size - n
        /\ fore[size - n + 1] = q.prev[size - n + 1]
    <3>1. back.prev = fore /\ back.up = now \o up
      OBVIOUS
    <3> HIDE DEF back
    <3>2. Len(fore) - (n - 1) = size - n
      BY <1>1, <1>4
    <3>3. fore[size - n + 1] = q.prev[size - n + 1]
      BY <1>1, <1>4
    <3> QED
      BY <3>1, <3>2, <3>3
  <2> HIDE DEF fore, mid, last, now, up, back, size
  <2> QED
    BY <1>4, <1>5, <1>6, <2>1, <2>2 DEF GoBack, ResumeAt
<1>9. mid \o last \o (now \o up) = SubSeq(q.prev, size - n + 2, size) \o now \o up
  <2>1. SubSeq(q.prev, size - n + 2, size) \in Seq(Song)
    BY <1>1, StretchType
  <2>2. (SubSeq(q.prev, size - n + 2, size) \o now) \o up = SubSeq(q.prev, size - n + 2, size) \o (now \o up)
    <3> HIDE DEF now, up, size
    <3> QED
      BY <1>1, <2>1, ConcatAssociative
  <2> QED
    BY <1>7, <2>2, Zenon
<1> QED
  BY <1>3, <1>8, <1>9, Zenon DEF GoBack, ResumeAt

-----------------------------------------------------------------------------
(* Move                                                                    *)

\* What is where after an element was taken out.
LEMMA Without ==
  ASSUME NEW s \in Seq(Song), NEW i \in 1 .. Len(s)
  PROVE  \A j \in 1 .. Len(s) - 1 : RemoveAt(s, i)[j] = IF j < i THEN s[j] ELSE s[j + 1]
<1> DEFINE before == SubSeq(s, 1, i - 1)
           after  == SubSeq(s, i + 1, Len(s))
<1>0. Len(s) \in Nat /\ \A j \in 1 .. Len(s) : s[j] \in Song
  BY ElementOfSeq, LenProperties
<1>1. /\ before \in Seq(Song) /\ Len(before) = i - 1
      /\ \A j \in 1 .. i - 1 : before[j] = s[j]
  BY <1>0, SubSeqProperties
<1>2. /\ after \in Seq(Song) /\ Len(after) = Len(s) - i
      /\ \A j \in 1 .. Len(s) - i : after[j] = s[i + j]
  <2>1. /\ \A j \in i + 1 .. Len(s) : s[j] \in Song
    BY <1>0
  <2>2. /\ after \in Seq(Song) /\ Len(after) = IF i + 1 <= Len(s) THEN Len(s) - (i + 1) + 1 ELSE 0
        /\ \A j \in 1 .. Len(s) - (i + 1) + 1 : after[j] = s[(i + 1) + j - 1]
    BY <1>0, <2>1, SubSeqProperties
  <2> HIDE DEF after
  <2> QED
    BY <1>0, <2>2
<1>3. RemoveAt(s, i) = before \o after
  BY Zenon DEF RemoveAt
<1> HIDE DEF before, after
<1>4. \A j \in 1 .. (i - 1) + (Len(s) - i) :
        (before \o after)[j] = IF j <= i - 1 THEN before[j] ELSE after[j - (i - 1)]
  BY <1>1, <1>2, ConcatProperties
<1>5. ASSUME NEW j \in 1 .. Len(s) - 1
      PROVE  (before \o after)[j] = IF j < i THEN s[j] ELSE s[j + 1]
  <2>1. j \in 1 .. (i - 1) + (Len(s) - i)
    BY <1>0
  <2>2. CASE j < i
    BY <1>0, <1>1, <1>4, <2>1, <2>2
  <2>3. CASE ~(j < i)
    <3>1. /\ j - (i - 1) \in 1 .. Len(s) - i /\ i + (j - (i - 1)) = j + 1
          /\ ~(j <= i - 1)
      BY <1>0, <2>3
    <3> QED
      BY <1>2, <1>4, <2>1, <2>3, <3>1
  <2> QED
    BY <2>2, <2>3
<1> QED
  BY <1>3, <1>5

\* What is where after an element was put in.
LEMMA With ==
  ASSUME NEW s \in Seq(Song), NEW i \in 1 .. Len(s) + 1, NEW e \in Song
  PROVE  /\ Len(InsertAt(s, i, e)) = Len(s) + 1
         /\ \A j \in 1 .. Len(s) + 1 :
              InsertAt(s, i, e)[j] = IF j < i THEN s[j] ELSE IF j = i THEN e ELSE s[j - 1]
<1> DEFINE before == SubSeq(s, 1, i - 1)
           one    == <<e>>
           after  == SubSeq(s, i, Len(s))
           start  == before \o one
<1>0. Len(s) \in Nat /\ \A j \in 1 .. Len(s) : s[j] \in Song
  BY ElementOfSeq, LenProperties
<1>1. /\ before \in Seq(Song) /\ Len(before) = i - 1
      /\ \A j \in 1 .. i - 1 : before[j] = s[j]
  BY <1>0, SubSeqProperties
<1>2. /\ after \in Seq(Song) /\ Len(after) = Len(s) - i + 1
      /\ \A j \in 1 .. Len(s) - i + 1 : after[j] = s[i + j - 1]
  <2>1. /\ \A j \in i .. Len(s) : s[j] \in Song
    BY <1>0
  <2> QED
    BY <1>0, <2>1, SubSeqProperties
<1>3. one \in Seq(Song) /\ Len(one) = 1 /\ one[1] = e
  OBVIOUS
<1>4. InsertAt(s, i, e) = start \o after
  BY Zenon DEF InsertAt
<1> HIDE DEF before, one, after
<1>5. /\ start \in Seq(Song) /\ Len(start) = i
      /\ \A j \in 1 .. i : start[j] = IF j <= i - 1 THEN before[j] ELSE one[j - (i - 1)]
  <2>1. Len(before) + Len(one) = i
    BY <1>0, <1>1, <1>3
  <2>2. /\ before \o one \in Seq(Song) /\ Len(before \o one) = Len(before) + Len(one)
        /\ \A j \in 1 .. Len(before) + Len(one) :
             (before \o one)[j] = IF j <= Len(before) THEN before[j] ELSE one[j - Len(before)]
    BY <1>1, <1>3, ConcatProperties
  <2> QED
    BY <1>1, <2>1, <2>2
<1> HIDE DEF start
<1>6. /\ Len(start \o after) = Len(s) + 1
      /\ \A j \in 1 .. Len(s) + 1 : (start \o after)[j] = IF j <= i THEN start[j] ELSE after[j - i]
  BY <1>0, <1>2, <1>5, ConcatProperties
<1> QED
  BY <1>0, <1>1, <1>2, <1>3, <1>4, <1>5, <1>6

\* Where a song lands that is moved from one index to another.
Landing(from, to) == IF to > from THEN to ELSE to + 1

\* moved is up with its element at index from taken out, which leaves rest, and put back
\* to be at landing.
LandsAt(up, moved, rest, from, landing) ==
  /\ moved \in Seq(Song) /\ Len(moved) = Len(up)
  /\ rest \in Seq(Song) /\ Len(rest) = Len(up) - 1
  /\ landing \in 1 .. Len(up)
  /\ \A j \in 1 .. Len(up) - 1 : rest[j] = IF j < from + 1 THEN up[j] ELSE up[j + 1]
  /\ \A j \in 1 .. Len(up) :
       moved[j] = IF j < landing THEN rest[j]
                  ELSE IF j = landing THEN up[from + 1] ELSE rest[j - 1]

\* The song lands there, and what is around it has closed up behind it.
LEMMA MovedUpcoming ==
  ASSUME NEW q \in Queues, NEW from, NEW to, InUpcoming(q, from), InUpcoming(q, to)
  PROVE  LandsAt(q.up, MoveUpcoming(q, from, to).up, RemoveAt(q.up, from + 1), from,
                 Landing(from, to))
<1> DEFINE up      == q.up
           moved   == MoveUpcoming(q, from, to).up
           landing == Landing(from, to)
           rest    == RemoveAt(up, from + 1)
<1>1. /\ up \in Seq(Song) /\ Len(up) \in Nat
      /\ from \in 0 .. Len(up) - 1 /\ to \in 0 .. Len(up) - 1
  BY LenProperties DEF InUpcoming, Queues
<1>2. landing \in 1 .. Len(up)
  BY <1>1 DEF Landing
<1>3. /\ rest \in Seq(Song) /\ Len(rest) = Len(up) - 1
      /\ \A j \in 1 .. Len(up) - 1 : rest[j] = IF j < from + 1 THEN up[j] ELSE up[j + 1]
  <2>1. from + 1 \in 1 .. Len(up)
    BY <1>1
  <2> QED
    BY <1>1, <2>1, WithoutType, Without
<1>4. up[from + 1] \in Song
  BY <1>1, ElementOfSeq
<1> HIDE DEF rest
<1>5. CASE from = to
  <2>1. moved = up /\ landing = from + 1
    BY <1>5, <1>1 DEF MoveUpcoming, Landing
  <2> HIDE DEF moved, landing, up
  <2>2. \A j \in 1 .. Len(up) :
          moved[j] = IF j < landing THEN rest[j]
                     ELSE IF j = landing THEN up[from + 1] ELSE rest[j - 1]
    <3> SUFFICES ASSUME NEW j \in 1 .. Len(up)
                 PROVE  moved[j] = IF j < landing THEN rest[j]
                                   ELSE IF j = landing THEN up[from + 1] ELSE rest[j - 1]
      OBVIOUS
    <3>1. j < from + 1 => rest[j] = up[j]
      BY <1>1, <1>3
    <3>2. j > from + 1 => j - 1 \in 1 .. Len(up) - 1 /\ ~(j - 1 < from + 1) /\ (j - 1) + 1 = j
      BY <1>1
    <3>3. j > from + 1 => rest[j - 1] = up[j]
      BY <1>3, <3>2
    <3> QED
      BY <1>1, <2>1, <3>1, <3>3
  <2> QED
    BY <1>1, <1>2, <1>3, <2>1, <2>2 DEF LandsAt, moved, landing, up, rest
<1>6. CASE from # to
  <2>1. (IF to > from THEN to - 1 ELSE to) + 1 = landing
    BY <1>1 DEF Landing
  <2>2. MoveUpcoming(q, from, to)
          = [q EXCEPT !.up = InsertAt(rest, (IF to > from THEN to - 1 ELSE to) + 1, q.up[from + 1])]
    BY <1>6, Zenon DEF MoveUpcoming, rest
  <2>3. moved = InsertAt(rest, landing, up[from + 1])
    <3>1. MoveUpcoming(q, from, to) = [q EXCEPT !.up = InsertAt(rest, landing, q.up[from + 1])]
      BY <2>1, <2>2, Zenon
    <3> DEFINE inserted == InsertAt(rest, landing, q.up[from + 1])
    <3> HIDE DEF inserted
    <3>2. MoveUpcoming(q, from, to).up = inserted
      BY <3>1 DEF inserted, Queues
    <3> QED
      BY <3>2 DEF inserted
  <2> HIDE DEF moved, landing
  <2>4. /\ moved \in Seq(Song) /\ Len(moved) = Len(rest) + 1
        /\ \A j \in 1 .. Len(rest) + 1 :
             moved[j] = IF j < landing THEN rest[j]
                        ELSE IF j = landing THEN up[from + 1] ELSE rest[j - 1]
    <3>1. landing \in 1 .. Len(rest) + 1
      BY <1>1, <1>2, <1>3
    <3> DEFINE inserted == InsertAt(rest, landing, up[from + 1])
    <3>2. inserted \in Seq(Song)
      BY <1>3, <1>4, <3>1, WithType
    <3>3. /\ Len(inserted) = Len(rest) + 1
          /\ \A j \in 1 .. Len(rest) + 1 :
               inserted[j] = IF j < landing THEN rest[j]
                             ELSE IF j = landing THEN up[from + 1] ELSE rest[j - 1]
      <4> HIDE DEF up
      <4> QED
        BY <1>3, <1>4, <3>1, With
    <3>4. moved = inserted
      BY <2>3
    <3> HIDE DEF inserted
    <3> QED
      BY <3>2, <3>3, <3>4
  <2>5. Len(rest) + 1 = Len(up)
    BY <1>1, <1>3
  <2> QED
    <3>1. LandsAt(up, moved, rest, from, landing)
      BY <1>2, <1>3, <2>4, <2>5, Zenon DEF LandsAt, landing
    <3> QED
      BY <3>1, Zenon DEF moved, landing, rest
<1> QED
  BY <1>5, <1>6

-----------------------------------------------------------------------------
(* Nothing is lost                                                         *)

\* Every element of t has its own place in u.
Embeds(t, u) ==
  \E f \in [1 .. Len(t) -> 1 .. Len(u)] :
    /\ \A i, j \in 1 .. Len(t) : f[i] = f[j] => i = j
    /\ \A i \in 1 .. Len(t) : u[f[i]] = t[i]

Places(s, t) == { i \in DOMAIN t : t[i] = s }

\* What embeds in a sequence occurs in it as often, at least.
LEMMA EmbedsCount ==
  ASSUME NEW t \in Seq(Song), NEW u \in Seq(Song), Embeds(t, u), NEW s
  PROVE  Cardinality(Places(s, t)) <= Cardinality(Places(s, u))
<1>1. PICK f \in [1 .. Len(t) -> 1 .. Len(u)] :
        /\ \A i, j \in 1 .. Len(t) : f[i] = f[j] => i = j
        /\ \A i \in 1 .. Len(t) : u[f[i]] = t[i]
  BY DEF Embeds
<1>2. DOMAIN t = 1 .. Len(t) /\ DOMAIN u = 1 .. Len(u) /\ Len(u) \in Nat
  BY LenProperties
<1>3. IsFiniteSet(Places(s, u))
  <2>1. IsFiniteSet(1 .. Len(u))
    BY <1>2, FS_Interval
  <2>2. Places(s, u) \in SUBSET (1 .. Len(u))
    BY <1>2 DEF Places
  <2> QED
    BY <2>1, <2>2, FS_Subset
<1> DEFINE g == [i \in Places(s, t) |-> f[i]]
<1>4. g \in [Places(s, t) -> Places(s, u)]
  BY <1>1, <1>2 DEF Places
<1>5. \A i, j \in Places(s, t) : g[i] = g[j] => i = j
  BY <1>1, <1>2 DEF Places
<1>6. g \in Injection(Places(s, t), Places(s, u))
  BY <1>4, <1>5 DEF Injection, IsInjective
<1> QED
  BY <1>3, <1>6, FS_Injection

\* A sequence embeds in itself, and embedding composes.
LEMMA EmbedsOrder ==
  ASSUME NEW t \in Seq(Song), NEW u \in Seq(Song), NEW v \in Seq(Song)
  PROVE  /\ Embeds(t, t)
         /\ Embeds(t, u) /\ Embeds(u, v) => Embeds(t, v)
<1>1. Embeds(t, t)
  <2> DEFINE f == [i \in 1 .. Len(t) |-> i]
  <2>1. f \in [1 .. Len(t) -> 1 .. Len(t)] /\ \A i \in 1 .. Len(t) : f[i] = i
    OBVIOUS
  <2> HIDE DEF f
  <2> QED
    BY <2>1 DEF Embeds
<1>2. ASSUME Embeds(t, u), Embeds(u, v) PROVE Embeds(t, v)
  <2>1. PICK f \in [1 .. Len(t) -> 1 .. Len(u)] :
          /\ \A i, j \in 1 .. Len(t) : f[i] = f[j] => i = j
          /\ \A i \in 1 .. Len(t) : u[f[i]] = t[i]
    BY <1>2 DEF Embeds
  <2>2. PICK g \in [1 .. Len(u) -> 1 .. Len(v)] :
          /\ \A i, j \in 1 .. Len(u) : g[i] = g[j] => i = j
          /\ \A i \in 1 .. Len(u) : v[g[i]] = u[i]
    BY <1>2 DEF Embeds
  <2> DEFINE h == [i \in 1 .. Len(t) |-> g[f[i]]]
  <2>3. h \in [1 .. Len(t) -> 1 .. Len(v)]
    BY <2>1, <2>2
  <2>4. \A i \in 1 .. Len(t) : h[i] = g[f[i]] /\ f[i] \in 1 .. Len(u)
    BY <2>1
  <2> HIDE DEF h
  <2>5. \A i, j \in 1 .. Len(t) : h[i] = h[j] => i = j
    BY <2>1, <2>2, <2>4
  <2>6. \A i \in 1 .. Len(t) : v[h[i]] = t[i]
    BY <2>1, <2>2, <2>4
  <2> QED
    BY <2>3, <2>5, <2>6 DEF Embeds
<1> QED
  BY <1>1, <1>2

\* A sequence embeds in any longer one that it begins.
LEMMA EmbedsInExtension ==
  ASSUME NEW t \in Seq(Song), NEW v \in Seq(Song)
  PROVE  Embeds(t, t \o v)
<1>1. /\ Len(t) \in Nat /\ Len(v) \in Nat /\ Len(t \o v) = Len(t) + Len(v)
      /\ \A i \in 1 .. Len(t) + Len(v) : (t \o v)[i] = IF i <= Len(t) THEN t[i] ELSE v[i - Len(t)]
  BY LenProperties, ConcatProperties
<1> DEFINE u == t \o v
           f == [i \in 1 .. Len(t) |-> i]
<1>2. f \in [1 .. Len(t) -> 1 .. Len(u)] /\ \A i \in 1 .. Len(t) : f[i] = i
  BY <1>1
<1>3. \A i \in 1 .. Len(t) : u[i] = t[i]
  BY <1>1
<1> HIDE DEF f, u
<1>4. Embeds(t, u)
  BY <1>2, <1>3 DEF Embeds
<1> QED
  BY <1>4 DEF u

\* What goes before the two makes no difference.
LEMMA EmbedsBehind ==
  ASSUME NEW a \in Seq(Song), NEW t \in Seq(Song), NEW u \in Seq(Song), Embeds(t, u)
  PROVE  Embeds(a \o t, a \o u)
<1>1. PICK f \in [1 .. Len(t) -> 1 .. Len(u)] :
        /\ \A i, j \in 1 .. Len(t) : f[i] = f[j] => i = j
        /\ \A i \in 1 .. Len(t) : u[f[i]] = t[i]
  BY DEF Embeds
<1> DEFINE x == a \o t
           y == a \o u
           m == Len(a)
           g == [i \in 1 .. Len(x) |-> IF i <= m THEN i ELSE m + f[i - m]]
<1>2. /\ m \in Nat /\ Len(t) \in Nat /\ Len(u) \in Nat
      /\ Len(x) = m + Len(t) /\ Len(y) = m + Len(u)
      /\ \A i \in 1 .. m + Len(t) : x[i] = IF i <= m THEN a[i] ELSE t[i - m]
      /\ \A i \in 1 .. m + Len(u) : y[i] = IF i <= m THEN a[i] ELSE u[i - m]
  BY LenProperties, ConcatProperties
<1>3. \A i \in 1 .. Len(x) : g[i] = IF i <= m THEN i ELSE m + f[i - m]
  OBVIOUS
<1> HIDE DEF x, y, m
<1>4. ASSUME NEW i \in 1 .. Len(x), ~(i <= m)
      PROVE  i - m \in 1 .. Len(t) /\ f[i - m] \in 1 .. Len(u) /\ m + f[i - m] \in m + 1 .. m + Len(u)
  <2>1. i - m \in 1 .. Len(t)
    BY <1>2, <1>4
  <2>2. f[i - m] \in 1 .. Len(u)
    BY <1>1, <2>1
  <2> QED
    BY <1>2, <2>1, <2>2
<1>5. g \in [1 .. Len(x) -> 1 .. Len(y)]
  <2>1. ASSUME NEW i \in 1 .. Len(x)
        PROVE  (IF i <= m THEN i ELSE m + f[i - m]) \in 1 .. Len(y)
    BY <1>2, <1>4
  <2> QED
    BY <2>1
<1> HIDE DEF g
<1>6. ASSUME NEW i \in 1 .. Len(x), NEW j \in 1 .. Len(x), g[i] = g[j]
      PROVE  i = j
  <2>1. CASE i <= m
    BY <1>2, <1>3, <1>4, <1>6, <2>1
  <2>2. CASE j <= m
    BY <1>2, <1>3, <1>4, <1>6, <2>2
  <2>3. CASE ~(i <= m) /\ ~(j <= m)
    <3>1. f[i - m] = f[j - m]
      BY <1>2, <1>3, <1>4, <1>6, <2>3
    <3>2. i - m = j - m
      BY <1>1, <1>4, <2>3, <3>1
    <3> QED
      BY <1>2, <3>2
  <2> QED
    BY <2>1, <2>2, <2>3
<1>7. ASSUME NEW i \in 1 .. Len(x)
      PROVE  y[g[i]] = x[i]
  <2>1. CASE i <= m
    BY <1>2, <1>3, <2>1
  <2>2. CASE ~(i <= m)
    <3>1. /\ g[i] = m + f[i - m] /\ m + f[i - m] \in 1 .. m + Len(u)
          /\ ~(m + f[i - m] <= m) /\ (m + f[i - m]) - m = f[i - m]
      BY <1>2, <1>3, <1>4, <2>2
    <3>2. y[g[i]] = u[f[i - m]]
      BY <1>2, <3>1
    <3> QED
      BY <1>1, <1>2, <1>4, <2>2, <3>2
  <2> QED
    BY <2>1, <2>2
<1>8. Embeds(x, y)
  BY <1>5, <1>6, <1>7 DEF Embeds
<1> QED
  BY <1>8 DEF x, y

\* Shuffling keeps every song (ShuffleUpcoming).
LEMMA ShuffleEmbeds ==
  ASSUME NEW s \in Seq(Song), NEW t \in Shuffles(s)
  PROVE  Embeds(s, t)
<1>1. PICK p \in Bijection(1 .. Len(s), 1 .. Len(s)) : t = [i \in 1 .. Len(s) |-> s[p[i]]]
  BY DEF Shuffles
<1>2. /\ p \in [1 .. Len(s) -> 1 .. Len(s)]
      /\ \A k \in 1 .. Len(s) : \E i \in 1 .. Len(s) : p[i] = k
  BY DEF Bijection, Injection, Surjection
<1>3. Len(t) = Len(s)
  <2>1. Len(s) \in Nat /\ \A i \in 1 .. Len(s) : s[p[i]] \in Song
    BY <1>2, ElementOfSeq, LenProperties
  <2> QED
    BY <1>1, <2>1
<1> DEFINE f == [k \in 1 .. Len(s) |-> CHOOSE i \in 1 .. Len(s) : p[i] = k]
<1>4. \A k \in 1 .. Len(s) : f[k] \in 1 .. Len(s) /\ p[f[k]] = k
  BY <1>2
<1>5. f \in [1 .. Len(s) -> 1 .. Len(s)]
  BY <1>4
<1> HIDE DEF f
<1>6. \A k \in 1 .. Len(s) : t[f[k]] = s[k]
  BY <1>1, <1>4
<1>7. \A i, j \in 1 .. Len(s) : f[i] = f[j] => i = j
  BY <1>4
<1>8. /\ f \in [1 .. Len(s) -> 1 .. Len(t)]
      /\ \A i, j \in 1 .. Len(s) : f[i] = f[j] => i = j
      /\ \A i \in 1 .. Len(s) : t[f[i]] = s[i]
  BY <1>3, <1>5, <1>6, <1>7
<1> QED
  BY <1>8, Zenon DEF Embeds

\* Moving a song keeps every song of Upcoming (Move).
LEMMA MoveEmbeds ==
  ASSUME NEW q \in Queues, NEW from, NEW to, InUpcoming(q, from), InUpcoming(q, to)
  PROVE  Embeds(q.up, MoveUpcoming(q, from, to).up)
<1> DEFINE up      == q.up
           moved   == MoveUpcoming(q, from, to).up
           landing == Landing(from, to)
           rest    == RemoveAt(up, from + 1)
           place   == [i \in 1 .. Len(up) |-> IF i < from + 1 THEN i ELSE i - 1]
           f       == [i \in 1 .. Len(up) |->
                         IF i = from + 1 THEN landing
                         ELSE IF place[i] < landing THEN place[i] ELSE place[i] + 1]
<1>0. LandsAt(up, moved, rest, from, landing)
  BY MovedUpcoming, Zenon
<1>2. up \in Seq(Song) /\ Len(up) \in Nat /\ from \in 0 .. Len(up) - 1
  BY LenProperties DEF InUpcoming, Queues
<1> HIDE DEF up, moved, landing, rest
<1>1. /\ Len(moved) = Len(up) /\ landing \in 1 .. Len(up)
      /\ \A j \in 1 .. Len(up) - 1 : rest[j] = IF j < from + 1 THEN up[j] ELSE up[j + 1]
      /\ \A j \in 1 .. Len(up) : moved[j] = IF j < landing THEN rest[j]
                                            ELSE IF j = landing THEN up[from + 1] ELSE rest[j - 1]
  BY <1>0, Zenon DEF LandsAt
<1>3. /\ \A i \in 1 .. Len(up) : place[i] = IF i < from + 1 THEN i ELSE i - 1
      /\ \A i \in 1 .. Len(up) \ {from + 1} : place[i] \in 1 .. Len(up) - 1
      /\ \A i, j \in 1 .. Len(up) \ {from + 1} : place[i] = place[j] => i = j
  BY <1>2
<1>4. \A i \in 1 .. Len(up) : f[i] = IF i = from + 1 THEN landing
                                     ELSE IF place[i] < landing THEN place[i] ELSE place[i] + 1
  OBVIOUS
<1> HIDE DEF place, f
<1>5. ASSUME NEW i \in 1 .. Len(up) PROVE f[i] \in 1 .. Len(up)
  <2>1. CASE i = from + 1
    BY <1>1, <1>4, <2>1
  <2>2. CASE i # from + 1
    <3>1. place[i] \in 1 .. Len(up) - 1
      BY <1>3, <2>2
    <3>2. f[i] = place[i] \/ f[i] = place[i] + 1
      BY <1>4, <2>2
    <3> QED
      BY <1>2, <3>1, <3>2
  <2> QED
    BY <2>1, <2>2
<1>6. f \in [1 .. Len(up) -> 1 .. Len(up)]
  BY <1>5 DEF f
<1>7. ASSUME NEW i \in 1 .. Len(up), NEW j \in 1 .. Len(up), f[i] = f[j] PROVE i = j
  <2>1. ASSUME NEW k \in 1 .. Len(up), k # from + 1 PROVE f[k] # landing
    <3>1. place[k] \in 1 .. Len(up) - 1
      BY <1>3, <2>1
    <3>2. f[k] = IF place[k] < landing THEN place[k] ELSE place[k] + 1
      BY <1>4, <2>1
    <3> QED
      BY <1>1, <1>2, <3>1, <3>2
  <2>2. CASE i # from + 1 /\ j # from + 1
    <3>1. place[i] = place[j]
      BY <1>1, <1>2, <1>3, <1>4, <1>7, <2>2
    <3> QED
      BY <1>3, <2>2, <3>1
  <2> QED
    BY <1>2, <1>4, <1>7, <2>1, <2>2
<1>8. ASSUME NEW i \in 1 .. Len(up) PROVE moved[f[i]] = up[i]
  <2>1. CASE i = from + 1
    BY <1>1, <1>2, <1>4, <2>1
  <2>2. CASE i # from + 1
    <3>1. rest[place[i]] = up[i]
      <4>1. place[i] \in 1 .. Len(up) - 1 /\ place[i] = IF i < from + 1 THEN i ELSE i - 1
        BY <1>3, <2>2
      <4>2. CASE i < from + 1
        BY <1>1, <4>1, <4>2
      <4>3. CASE i > from + 1
        <5>1. place[i] = i - 1 /\ ~(i - 1 < from + 1) /\ (i - 1) + 1 = i
          BY <1>2, <4>1, <4>3
        <5> QED
          BY <1>1, <4>1, <5>1
      <4> QED
        BY <1>2, <2>2, <4>2, <4>3
    <3>2. moved[f[i]] = rest[place[i]]
      BY <1>1, <1>2, <1>3, <1>4, <1>5, <2>2
    <3> QED
      BY <3>1, <3>2
  <2> QED
    BY <2>1, <2>2
<1>9. Embeds(up, moved)
  BY <1>1, <1>6, <1>7, <1>8 DEF Embeds
<1> QED
  BY <1>9 DEF up, moved

=============================================================================
