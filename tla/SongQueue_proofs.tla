-------------------------- MODULE SongQueue_proofs --------------------------
(***************************************************************************)
(* Facts about the queue that hold for any set of songs and any length:    *)
(* its type, that nothing ever waits behind an empty Current slot, and     *)
(* that going back never changes the listening order.                      *)
(***************************************************************************)
EXTENDS SongQueue, QueueOps_proofs

(* The strengthening that makes "nothing waits" inductive: Advance may     *)
(* leave the slot empty only because the queue it looked at was a queue at *)
(* all, so the type of every variable is part of it.                       *)
IInv == TypeOK /\ queue \in SettledQueues

-----------------------------------------------------------------------------
(* Autoplay                                                                *)

\* A list of suggestions is a sequence of songs (Queue.Suggestions).
LEMMA SuggestionListsType == SuggestionLists \subseteq Seq(Song)
BY BoundsAssumption DEF SuggestionLists

\* What a refresh may leave in Suggestions is a sequence of songs.
LEMMA RegeneratedType ==
  ASSUME NEW q \in Queues, NEW old \in Seq(Song), NEW sg \in Regenerated(q, old)
  PROVE  sg \in Seq(Song)
BY SuggestionListsType DEF Regenerated, Fetched

\* Pulling a suggestion keeps queue and suggestions well formed (Next, the Autoplay branch).
LEMMA PullSuggestionType ==
  ASSUME NEW q \in Queues, NEW sg \in Seq(Song)
  PROVE  PullSuggestion(q, sg).queue \in Queues /\ PullSuggestion(q, sg).sugg \in Seq(Song)
<1>1. CASE autoplay /\ q.up = <<>> /\ sg # <<>>
  <2>1. Head(sg) \in Song /\ Tail(sg) \in Seq(Song)
    BY <1>1, HeadTailProperties
  <2>2. <<Head(sg)>> \in Seq(Song)
    BY <2>1
  <2>3. PullSuggestion(q, sg) = [queue |-> [q EXCEPT !.up = <<Head(sg)>>], sugg |-> Tail(sg)]
    BY <1>1, Zenon DEF PullSuggestion
  <2>4. [q EXCEPT !.up = <<Head(sg)>>] \in Queues
    BY <2>2 DEF Queues
  <2> QED
    BY <2>1, <2>3, <2>4
<1>2. CASE ~(autoplay /\ q.up = <<>> /\ sg # <<>>)
  BY <1>2 DEF PullSuggestion
<1> QED
  BY <1>1, <1>2

\* Whatever Next finds, the queue it leaves is settled: either a song moved into
\* the slot, or there was none to move and Upcoming is empty.
LEMMA AdvanceSettled ==
  ASSUME NEW q \in Queues, suggestions \in Seq(Song), refreshQueued \in BOOLEAN,
         Advance(q, suggestions)
  PROVE  /\ queue' \in SettledQueues
         /\ suggestions' \in Seq(Song)
         /\ refreshQueued' \in BOOLEAN
         /\ refreshSeeds' = refreshSeeds
<1>1. PICK fresh \in (IF autoplay /\ q.up = <<>> /\ suggestions = <<>>
                      THEN Regenerated(q, suggestions) ELSE {suggestions}) :
        /\ suggestions' = PullSuggestion(q, fresh).sugg
        /\ \/ /\ CanGoForward(PullSuggestion(q, fresh).queue, 1)
              /\ queue' \in Forwards(PullSuggestion(q, fresh).queue, 1, repeat = "All", shuffle)
           \/ /\ ~CanGoForward(PullSuggestion(q, fresh).queue, 1)
              /\ queue' = RetireCurrent(PullSuggestion(q, fresh).queue)
        /\ Updated(queue', suggestions')
  BY Zenon DEF Advance
<1>2. fresh \in Seq(Song)
  BY RegeneratedType
<1> DEFINE pulled == PullSuggestion(q, fresh).queue
<1>3. pulled \in Queues /\ suggestions' \in Seq(Song)
  BY <1>1, <1>2, PullSuggestionType
<1>4. queue' \in SettledQueues
  <2> HIDE DEF pulled
  <2>1. CASE CanGoForward(pulled, 1) /\ queue' \in Forwards(pulled, 1, repeat = "All", shuffle)
    BY <1>3, <2>1, ForwardsSettled
  <2>2. CASE ~CanGoForward(pulled, 1) /\ queue' = RetireCurrent(pulled)
    <3>1. pulled.up = <<>>
      BY <1>3, <2>2 DEF CanGoForward, Queues
    <3> QED
      BY <1>3, <2>2, <3>1, RetireType DEF SettledQueues
  <2> QED
    BY <1>1, <2>1, <2>2 DEF pulled
<1> QED
  BY <1>1, <1>3, <1>4 DEF Updated, refreshes

\* The same for the operations that only edit the lists.
LEMMA EditSettled ==
  ASSUME NEW q \in SettledQueues, IInv, Edit(q)
  PROVE  IInv'
BY DEF IInv, TypeOK, Edit, Updated, features, SettledQueues

-----------------------------------------------------------------------------
\* A new guild has an empty queue (NewGuild).
LEMMA Initially == Init => IInv
<1>1. EmptyQueue \in SettledQueues
  BY DEF EmptyQueue, SettledQueues, Queues
<1>2. EmptyQueue \in Queues /\ <<>> \in Seq(Song)
  BY <1>1 DEF SettledQueues
<1> QED
  BY <1>1, <1>2 DEF Init, IInv, TypeOK, Repeats

\* Every operation keeps the invariant.
LEMMA Inductive == IInv /\ [Next]_vars => IInv'
<1> SUFFICES ASSUME IInv, [Next]_vars PROVE IInv'
  OBVIOUS
<1> USE DEF IInv
<1>1. queue \in Queues /\ suggestions \in Seq(Song) /\ refreshQueued \in BOOLEAN
  BY DEF TypeOK
<1>2. CASE NextCommand
  <2>1. queue' \in SettledQueues /\ suggestions' \in Seq(Song) /\ refreshQueued' \in BOOLEAN
        /\ refreshSeeds' = refreshSeeds
    BY <1>1, <1>2, AdvanceSettled DEF NextCommand
  <2> QED
    BY <1>2, <2>1 DEF NextCommand, TypeOK, features, SettledQueues
<1>3. CASE SongEnds
  <2>1. CASE repeat = "One" /\ UNCHANGED <<queue, suggestions, refreshes>>
    BY <1>3, <2>1 DEF SongEnds, TypeOK, features, refreshes
  <2>2. CASE repeat # "One" /\ Advance(RetireCurrent(queue), suggestions)
    <3>1. queue' \in SettledQueues /\ suggestions' \in Seq(Song) /\ refreshQueued' \in BOOLEAN
          /\ refreshSeeds' = refreshSeeds
      BY <1>1, <2>2, RetireType, AdvanceSettled
    <3> QED
      BY <1>3, <3>1 DEF SongEnds, TypeOK, features, SettledQueues
  <2> QED
    BY <1>3, <2>1, <2>2 DEF SongEnds
<1>4. CASE LastSong
  <2>1. GoBack(queue, 1) \in SettledQueues
    BY <1>1, <1>4, GoBackIsResume, ResumeAtSettled DEF LastSong
  <2> QED
    BY <1>4, <2>1, EditSettled DEF LastSong
<1>5. CASE Clear
  <2>1. EmptyQueue \in SettledQueues
    BY DEF EmptyQueue, SettledQueues, Queues
  <2> QED
    BY <1>5, <2>1, EditSettled DEF Clear
<1>6. CASE EnableAutoplay
  <2>1. PICK sg \in (IF suggestions = <<>> THEN Regenerated(queue, suggestions) ELSE {suggestions}) :
          IF queue.cur = NoSong /\ queue.up = <<>> /\ sg # <<>>
          THEN /\ suggestions' = Tail(sg)
               /\ queue' = [queue EXCEPT !.cur = Head(sg)]
               /\ refreshQueued' = (refreshQueued \/ Len(Tail(sg)) < 2)
               /\ UNCHANGED refreshSeeds
          ELSE /\ suggestions' = sg
               /\ UNCHANGED <<queue, refreshes>>
    BY <1>6, Zenon DEF EnableAutoplay
  <2>2. sg \in Seq(Song)
    BY <1>1, RegeneratedType
  <2>3. CASE queue.cur = NoSong /\ queue.up = <<>> /\ sg # <<>>
    <3>1. Head(sg) \in Song /\ Tail(sg) \in Seq(Song)
      BY <2>2, <2>3, HeadTailProperties
    <3>2. queue' \in SettledQueues
      BY <1>1, <2>1, <2>3, <3>1, NoSongAssumption DEF Queues, SettledQueues
    <3>3. suggestions' \in Seq(Song) /\ refreshQueued' \in BOOLEAN /\ refreshSeeds' = refreshSeeds
      BY <1>1, <2>1, <2>3, <3>1
    <3> QED
      BY <1>6, <3>2, <3>3 DEF EnableAutoplay, TypeOK, SettledQueues
  <2>4. CASE ~(queue.cur = NoSong /\ queue.up = <<>> /\ sg # <<>>)
    BY <1>6, <2>1, <2>2, <2>4 DEF EnableAutoplay, TypeOK, refreshes
  <2> QED
    BY <2>3, <2>4
<1>7. CASE DisableAutoplay
  BY <1>7 DEF DisableAutoplay, TypeOK, refreshes
<1>8. CASE RefreshStarts
  <2>1. Seeds(queue) \subseteq Song
    BY <1>1, ElementOfSeq DEF Seeds, Queues
  <2> QED
    BY <1>8, <2>1 DEF RefreshStarts, TypeOK, features
<1>9. ASSUME NEW s \in Song, Add(s) PROVE IInv'
  BY <1>9, AddSongSettled, EditSettled DEF Add
<1>10. ASSUME NEW s \in Song, RefreshReturns(s) PROVE IInv'
  <2>1. suggestions' \in Seq(Song)
    BY <1>1, <1>10, SuggestionListsType DEF RefreshReturns, Fetched
  <2> QED
    BY <1>10, <2>1 DEF RefreshReturns, TypeOK, features
<1>11. ASSUME NEW i \in Positions, Replay(i) PROVE IInv'
  <2>1. ReplayAt(queue, i) \in SettledQueues
    BY <1>1, <1>11, ReplayIsResume, ResumeAtSettled DEF Replay
  <2> QED
    BY <1>11, <2>1, EditSettled DEF Replay
<1>12. ASSUME NEW i \in Positions, RemoveSong(i) PROVE IInv'
  BY <1>12, RemoveUpcomingSettled, EditSettled DEF RemoveSong
<1>13. ASSUME NEW i \in Positions, Jump(i + 1) PROVE IInv'
  <2>1. PICK q \in Forwards(queue, i + 1, repeat = "All", shuffle) : Edit(q)
    BY <1>13 DEF Jump
  <2>2. q \in SettledQueues
    BY <1>1, <1>13, ForwardsSettled DEF Jump
  <2> QED
    BY <2>1, <2>2, EditSettled
<1>14. ASSUME NEW i \in Positions, NEW j \in Positions, MoveSong(i, j) PROVE IInv'
  BY <1>14, MoveUpcomingSettled, EditSettled DEF MoveSong
<1>15. ASSUME NEW mode \in RepeatModes, SetRepeat(mode) PROVE IInv'
  BY <1>15, ModesAssumption DEF SetRepeat, TypeOK, refreshes
<1>16. ASSUME NEW on \in ShuffleModes, SetShuffle(on) PROVE IInv'
  BY <1>16, ModesAssumption DEF SetShuffle, TypeOK, refreshes
<1>17. CASE UNCHANGED vars
  BY <1>17 DEF vars, TypeOK
<1> QED
  BY <1>2, <1>3, <1>4, <1>5, <1>6, <1>7, <1>8, <1>9, <1>10, <1>11, <1>12, <1>13,
     <1>14, <1>15, <1>16, <1>17 DEF Next

\* The reachable queues are settled and every variable keeps its type.
THEOREM Invariance == Spec => []IInv
BY Initially, Inductive, PTL DEF Spec

\* Every operation of the queue turns well-formed queues into well-formed queues.
THEOREM TypeCorrect == Spec => []TypeOK
<1>1. IInv => TypeOK
  BY DEF IInv
<1> QED
  BY <1>1, Invariance, PTL

\* No sequence of commands, of songs ending and of late suggestion fetches leaves
\* a song waiting behind an empty Current slot (Queue.Add relies on it).
THEOREM NothingWaits == Spec => []NothingWaitsBehindEmptySlot
<1>1. IInv => NothingWaitsBehindEmptySlot
  BY DEF IInv, SettledQueues, NothingWaitsBehindEmptySlot
<1> QED
  BY <1>1, Invariance, PTL

\* Last and Replay leave the listening order of all songs as it was, however long
\* the history and the queue are (moveTo's negative branch, Replay).
THEOREM GoingBack == Spec => GoingBackKeepsTimeline
<1>1. ASSUME IInv, LastSong PROVE Timeline(queue') = Timeline(queue)
  <2>1. queue \in Queues /\ CanGoBack(queue, 1) /\ queue' = GoBack(queue, 1)
    BY <1>1 DEF IInv, TypeOK, LastSong, Edit
  <2> QED
    BY <2>1, GoBackIsResume, ResumeAtKeepsTimeline
<1>2. ASSUME IInv, NEW i \in Positions, Replay(i) PROVE Timeline(queue') = Timeline(queue)
  <2>1. queue \in Queues /\ CanReplay(queue, i) /\ queue' = ReplayAt(queue, i)
    BY <1>2 DEF IInv, TypeOK, Replay, Edit
  <2> QED
    BY <2>1, ReplayIsResume, ResumeAtKeepsTimeline
<1>3. IInv =>
        [LastSong \/ (\E i \in Positions : Replay(i)) => Timeline(queue') = Timeline(queue)]_vars
  BY <1>1, <1>2
<1> QED
  BY <1>3, Invariance, PTL DEF GoingBackKeepsTimeline

\* Last undoes Next, and however far Last and Replay go back, they agree, in every queue
\* that the commands lead to (moveTo in both directions, Replay).
THEOREM BackAndForth == Spec => []BackAndForthAgree
<1>1. ASSUME NEW q \in Queues, queue = q PROVE BackAndForthAgree
  <2>1. LastUndoesNext
    BY <1>1, BackUndoesForward DEF LastUndoesNext
  <2>2. ASSUME NEW n \in 1 .. Len(q.prev)
        PROVE  /\ GoBack(q, n) = ReplayAt(q, Len(q.prev) - n)
               /\ n > 1 => GoBack(q, n) = GoBack(GoBack(q, 1), n - 1)
    <3>1. CanGoBack(q, n)
      BY DEF CanGoBack
    <3>2. GoBack(q, n) = ReplayAt(q, Len(q.prev) - n)
      BY <3>1, GoBackIsResume, ReplayIsResume
    <3>3. n > 1 => n \in 2 .. Len(q.prev)
      OBVIOUS
    <3> QED
      BY <3>2, <3>3, BackInSteps
  <2> QED
    BY <1>1, <2>1, <2>2 DEF BackAndForthAgree, BackwardMovesAgree
<1>2. IInv => BackAndForthAgree
  BY <1>1 DEF IInv, TypeOK
<1> QED
  BY <1>2, Invariance, PTL

\* Move takes one song out and puts it back among the others in their order; towards the front
\* it lands at the index asked for (Queue.Move).
THEOREM MoveKeeps == Spec => MoveKeepsTheRest
<1>1. ASSUME IInv, NEW from \in Positions, NEW to \in Positions, MoveSong(from, to)
      PROVE  \E landing \in DOMAIN queue'.up :
               /\ queue'.up[landing] = queue.up[from + 1]
               /\ RemoveAt(queue'.up, landing) = RemoveAt(queue.up, from + 1)
               /\ to <= from => landing = to + 1
  <2> DEFINE up      == queue.up
             moved   == queue'.up
             rest    == RemoveAt(up, from + 1)
             landing == Landing(from, to)
  <2>1. /\ queue \in Queues /\ InUpcoming(queue, from) /\ InUpcoming(queue, to)
        /\ queue' = MoveUpcoming(queue, from, to)
    BY <1>1 DEF IInv, TypeOK, MoveSong, Edit
  <2>2. LandsAt(up, moved, rest, from, landing)
    BY <2>1, MovedUpcoming
  <2>3. /\ up \in Seq(Song) /\ Len(up) \in Nat
        /\ from \in 0 .. Len(up) - 1 /\ to \in 0 .. Len(up) - 1
    BY <2>1, LenProperties DEF Queues, InUpcoming
  <2> HIDE DEF up, moved, rest
  <2>4. /\ moved \in Seq(Song) /\ Len(moved) = Len(up)
        /\ rest \in Seq(Song) /\ Len(rest) = Len(up) - 1
        /\ landing \in 1 .. Len(up)
        /\ \A j \in 1 .. Len(up) - 1 : rest[j] = IF j < from + 1 THEN up[j] ELSE up[j + 1]
        /\ \A j \in 1 .. Len(up) : moved[j] = IF j < landing THEN rest[j]
                                              ELSE IF j = landing THEN up[from + 1] ELSE rest[j - 1]
    BY <2>2, Zenon DEF LandsAt
  <2>5. landing \in DOMAIN moved /\ moved[landing] = up[from + 1]
    BY <2>4, LenProperties
  <2>6. RemoveAt(moved, landing) = rest
    <3> DEFINE again == RemoveAt(moved, landing)
    <3>1. landing \in 1 .. Len(moved)
      BY <2>4
    <3>2. /\ again \in Seq(Song) /\ Len(again) = Len(moved) - 1
          /\ \A j \in 1 .. Len(moved) - 1 : again[j] = IF j < landing THEN moved[j] ELSE moved[j + 1]
      BY <2>4, <3>1, WithoutType, Without
    <3> HIDE DEF again, landing
    <3>3. ASSUME NEW j \in 1 .. Len(up) - 1 PROVE again[j] = rest[j]
      <4>1. CASE j < landing
        <5>1. j \in 1 .. Len(up) /\ j \in 1 .. Len(moved) - 1
          BY <2>3, <2>4
        <5>2. moved[j] = rest[j]
          BY <2>4, <4>1, <5>1
        <5>3. again[j] = moved[j]
          BY <3>2, <4>1, <5>1
        <5> QED
          BY <5>2, <5>3
      <4>2. CASE ~(j < landing)
        <5>1. /\ j + 1 \in 1 .. Len(up) /\ ~(j + 1 < landing) /\ j + 1 # landing
              /\ (j + 1) - 1 = j
          BY <2>3, <2>4, <4>2
        <5>2. moved[j + 1] = rest[j]
          BY <2>4, <5>1
        <5> QED
          BY <2>4, <3>2, <4>2, <5>2
      <4> QED
        BY <4>1, <4>2
    <3>4. again = rest
      BY <2>3, <2>4, <3>2, <3>3, SeqEqual
    <3> QED
      BY <3>4 DEF again
  <2>7. to <= from => landing = to + 1
    BY <2>3 DEF Landing
  <2> QED
    BY <2>5, <2>6, <2>7 DEF up, moved, rest
<1>2. IInv => [\A from, to \in Positions : MoveSong(from, to) =>
                 \E landing \in DOMAIN queue'.up :
                   /\ queue'.up[landing] = queue.up[from + 1]
                   /\ RemoveAt(queue'.up, landing) = RemoveAt(queue.up, from + 1)
                   /\ to <= from => landing = to + 1]_vars
  BY <1>1, Zenon
<1> QED
  BY <1>2, Invariance, PTL DEF MoveKeepsTheRest

\* While Autoplay has a suggestion, a song that ends is followed by another (Queue.Next).
THEOREM AutoplayGoesOn == Spec => AutoplayContinues
<1>1. ASSUME IInv, SongEnds, autoplay, suggestions # <<>> PROVE queue'.cur # NoSong
  <2>1. CASE repeat = "One" /\ UNCHANGED <<queue, suggestions, refreshes>>
    BY <1>1, <2>1 DEF SongEnds
  <2>2. CASE repeat # "One" /\ Advance(RetireCurrent(queue), suggestions)
    <3> DEFINE q == RetireCurrent(queue)
               pulled == PullSuggestion(q, suggestions).queue
    <3>1. q \in Queues /\ suggestions \in Seq(Song)
      BY <1>1, RetireType DEF IInv, TypeOK
    <3>2. pulled \in Queues
      BY <3>1, PullSuggestionType
    <3>3. CanGoForward(pulled, 1)
      <4>1. CASE q.up = <<>>
        <5>1. PullSuggestion(q, suggestions).queue = [q EXCEPT !.up = <<Head(suggestions)>>]
          BY <1>1, <4>1 DEF PullSuggestion
        <5>2. pulled.up = <<Head(suggestions)>>
          BY <3>1, <5>1 DEF Queues
        <5> HIDE DEF pulled, q
        <5> QED
          BY <5>2 DEF CanGoForward
      <4>2. CASE q.up # <<>>
        <5>1. PullSuggestion(q, suggestions).queue = q
          BY <4>2 DEF PullSuggestion
        <5>2. Len(q.up) \in Nat \ {0}
          BY <3>1, <4>2, EmptySeq DEF Queues
        <5> QED
          BY <5>1, <5>2 DEF CanGoForward
      <4> QED
        BY <4>1, <4>2
    <3>4. queue' \in Forwards(pulled, 1, repeat = "All", shuffle)
      <4>1. \E fresh \in {suggestions} :
              LET p == PullSuggestion(q, fresh)
              IN  \/ queue' \in Forwards(p.queue, 1, repeat = "All", shuffle)
                  \/ ~CanGoForward(p.queue, 1)
        BY <1>1, <2>2, Zenon DEF Advance
      <4> QED
        BY <3>3, <4>1
    <3> HIDE DEF pulled
    <3>5. queue'.cur = Waiting(pulled, repeat = "All")[1]
      <4>1. GoForward(pulled, 1, repeat = "All").cur = Waiting(pulled, repeat = "All")[1]
        BY DEF GoForward
      <4>2. \/ queue' = GoForward(pulled, 1, repeat = "All")
            \/ \E u : queue' = [GoForward(pulled, 1, repeat = "All") EXCEPT !.up = u]
        BY <3>4 DEF Forwards
      <4> QED
        BY <4>1, <4>2 DEF GoForward
    <3>6. Waiting(pulled, repeat = "All")[1] \in Song
      <4>1. /\ Waiting(pulled, repeat = "All") \in Seq(Song)
            /\ 1 \in 1 .. Len(Waiting(pulled, repeat = "All"))
        <5>1. Waiting(pulled, repeat = "All") \in Seq(Song)
              /\ Len(Waiting(pulled, repeat = "All")) >= Len(pulled.up)
          BY <3>2, WaitingType
        <5>2. Len(pulled.up) \in Nat
          BY <3>2, LenProperties DEF Queues
        <5> QED
          BY <3>3, <5>1, <5>2, LenProperties DEF CanGoForward
      <4> QED
        BY <4>1, ElementOfSeq
    <3> QED
      BY <3>5, <3>6, NoSongAssumption
  <2> QED
    BY <1>1, <2>1, <2>2 DEF SongEnds
<1>2. IInv => [SongEnds /\ autoplay /\ suggestions # <<>> => queue'.cur # NoSong]_vars
  BY <1>1
<1> QED
  BY <1>2, Invariance, PTL DEF AutoplayContinues

-----------------------------------------------------------------------------
(* Nothing is lost                                                         *)

\* The listening order is a sequence of songs.
LEMMA TimelineType ==
  ASSUME NEW q \in Queues
  PROVE  Timeline(q) \in Seq(Song) /\ q.prev \o NowPlaying(q) \in Seq(Song)
<1>1. q.prev \in Seq(Song) /\ q.up \in Seq(Song) /\ NowPlaying(q) \in Seq(Song)
  BY NowPlayingType DEF Queues
<1>2. q.prev \o NowPlaying(q) \in Seq(Song)
  BY <1>1, ConcatProperties
<1> QED
  BY <1>1, <1>2, ConcatProperties DEF Timeline

\* Retiring the Current song leaves the listening order as it is.
LEMMA RetireTimeline ==
  ASSUME NEW q \in Queues
  PROVE  Timeline(RetireCurrent(q)) = Timeline(q)
<1> DEFINE past == q.prev \o NowPlaying(q)
           r    == RetireCurrent(q)
<1>1. past \in Seq(Song)
  BY TimelineType
<1>2. r = [q EXCEPT !.prev = past, !.cur = NoSong]
  BY DEF RetireCurrent
<1>3. past \o <<>> = past
  <2> HIDE DEF past
  <2> QED
    BY <1>1, ConcatEmptySeq
<1>4. r.prev = past /\ r.up = q.up /\ NowPlaying(r) = <<>>
  <2> HIDE DEF past, r
  <2> QED
    BY <1>2 DEF NowPlaying, Queues
<1>5. Timeline(r) = past \o q.up
  <2> HIDE DEF past, r
  <2> QED
    BY <1>3, <1>4, Zenon DEF Timeline
<1> QED
  BY <1>5, Zenon DEF Timeline

\* A queue whose Upcoming alone is changed, to one that its old one embeds in.
LEMMA UpcomingEmbeds ==
  ASSUME NEW q \in Queues, NEW u \in Seq(Song), Embeds(q.up, u)
  PROVE  Embeds(Timeline(q), Timeline([q EXCEPT !.up = u]))
<1> DEFINE r == [q EXCEPT !.up = u]
<1>1. r.prev = q.prev /\ r.up = u /\ NowPlaying(r) = NowPlaying(q)
  BY DEF NowPlaying, Queues
<1>2. Timeline(r) = q.prev \o NowPlaying(q) \o u
  <2> HIDE DEF r
  <2> QED
    BY <1>1, Zenon DEF Timeline
<1>3. q.up \in Seq(Song)
  BY DEF Queues
<1>4. Embeds((q.prev \o NowPlaying(q)) \o q.up, (q.prev \o NowPlaying(q)) \o u)
  BY <1>3, TimelineType, EmbedsBehind
<1> QED
  BY <1>2, <1>4, Zenon DEF Timeline

\* Going forward by one keeps every song, with Repeat All and Shuffle (moveTo).
LEMMA ForwardEmbeds ==
  ASSUME NEW q \in Queues, CanGoForward(q, 1), NEW repeatAll, NEW shuffled,
         NEW r \in Forwards(q, 1, repeatAll, shuffled)
  PROVE  r \in Queues /\ Embeds(Timeline(q), Timeline(r))
<1> DEFINE w    == Waiting(q, repeatAll)
           past == q.prev \o NowPlaying(q)
           one  == <<w[1]>>
           rest == SubSeq(w, 2, Len(w))
           g    == GoForward(q, 1, repeatAll)
<1>1. /\ w \in Seq(Song) /\ Len(w) \in Nat /\ 1 \in 1 .. Len(w)
      /\ q.up \in Seq(Song) /\ NowPlaying(q) \in Seq(Song)
  <2>1. w \in Seq(Song) /\ Len(w) >= Len(q.up)
    BY WaitingType
  <2>2. q.up \in Seq(Song) /\ NowPlaying(q) \in Seq(Song) /\ Len(q.up) \in Nat /\ 1 <= Len(q.up)
    BY NowPlayingType, LenProperties DEF Queues, CanGoForward
  <2> QED
    BY <2>1, <2>2, LenProperties
<1>2. past \in Seq(Song) /\ w[1] \in Song /\ rest \in Seq(Song)
  BY <1>1, TimelineType, ElementOfSeq, StretchType
<1>3. one \in Seq(Song)
  BY <1>2
<1>4. g = [prev |-> past, cur |-> w[1], up |-> rest]
  BY DEF GoForward
<1>5. g \in Queues /\ NowPlaying(g) = one /\ g.prev = past /\ g.up = rest
  <2> HIDE DEF w, past, rest, g
  <2> QED
    BY <1>2, <1>4, NoSongAssumption DEF Queues, NowPlaying
<1>6. Embeds(Timeline(q), Timeline(g))
  <2>1. one \o rest = w
    <3>1. SubSeq(w, 1, Len(w)) = one \o SubSeq(w, 1 + 1, Len(w))
      BY <1>1, SubSeqRecursiveFirst
    <3> QED
      BY <1>1, <3>1, SubSeqFull
  <2>2. Timeline(g) = past \o w
    <3>1. (past \o one) \o rest = past \o (one \o rest)
      <4> HIDE DEF past, one, rest
      <4> QED
        BY <1>2, <1>3, ConcatAssociative
    <3>2. Timeline(g) = (past \o one) \o rest
      <4> HIDE DEF past, one, rest, g
      <4> QED
        BY <1>5, Zenon DEF Timeline
    <3> QED
      BY <2>1, <3>1, <3>2, Zenon
  <2>3. Embeds(q.up, w)
    <3>1. w = q.up \/ w = q.up \o NowPlaying(q)
      BY DEF Waiting
    <3> QED
      BY <1>1, <3>1, EmbedsOrder, EmbedsInExtension
  <2>4. Embeds(past \o q.up, past \o w)
    <3> HIDE DEF past, w
    <3> QED
      BY <1>1, <1>2, <2>3, EmbedsBehind
  <2> QED
    BY <2>2, <2>4, Zenon DEF Timeline
<1> HIDE DEF g
<1>7. CASE ~shuffled
  <2>1. r = g
    BY <1>7 DEF Forwards, g
  <2> QED
    BY <1>5, <1>6, <2>1
<1>8. CASE shuffled
  <2>1. PICK u \in Shuffles(g.up) : r = [g EXCEPT !.up = u]
    BY <1>8 DEF Forwards, g
  <2>2. g.up \in Seq(Song) /\ u \in Seq(Song) /\ Embeds(g.up, u)
    BY <1>5, <2>1, ShufflesType, ShuffleEmbeds DEF Queues
  <2>3. r \in Queues
    BY <1>5, <2>1, <2>2 DEF Queues
  <2>4. Embeds(Timeline(g), Timeline(r))
    BY <1>5, <2>1, <2>2, UpcomingEmbeds
  <2> QED
    BY <1>5, <1>6, <2>3, <2>4, TimelineType, EmbedsOrder
<1> QED
  BY <1>7, <1>8

\* So does Next, with the suggestion it may pull in and the song it may retire.
LEMMA AdvanceEmbeds ==
  ASSUME NEW q \in Queues, suggestions \in Seq(Song), Advance(q, suggestions)
  PROVE  Embeds(Timeline(q), Timeline(queue'))
<1>1. PICK fresh \in (IF autoplay /\ q.up = <<>> /\ suggestions = <<>>
                      THEN Regenerated(q, suggestions) ELSE {suggestions}) :
        \/ /\ CanGoForward(PullSuggestion(q, fresh).queue, 1)
           /\ queue' \in Forwards(PullSuggestion(q, fresh).queue, 1, repeat = "All", shuffle)
        \/ queue' = RetireCurrent(PullSuggestion(q, fresh).queue)
  BY Zenon DEF Advance
<1>2. fresh \in Seq(Song)
  BY RegeneratedType
<1> DEFINE pulled == PullSuggestion(q, fresh).queue
<1>3. pulled \in Queues
  BY <1>2, PullSuggestionType
<1>4. Embeds(Timeline(q), Timeline(pulled))
  <2>1. CASE autoplay /\ q.up = <<>> /\ fresh # <<>>
    <3>1. pulled = [q EXCEPT !.up = <<Head(fresh)>>]
      BY <2>1 DEF PullSuggestion
    <3>2. <<Head(fresh)>> \in Seq(Song)
      <4>1. Head(fresh) \in Song
        BY <1>2, <2>1, HeadTailProperties
      <4> QED
        BY <4>1
    <3>3. q.up \in Seq(Song) /\ q.up \o <<Head(fresh)>> = <<Head(fresh)>>
      BY <2>1, <3>2, ConcatEmptySeq DEF Queues
    <3>4. Embeds(q.up, <<Head(fresh)>>)
      BY <3>2, <3>3, EmbedsInExtension
    <3> QED
      BY <3>1, <3>2, <3>4, UpcomingEmbeds
  <2>2. CASE ~(autoplay /\ q.up = <<>> /\ fresh # <<>>)
    <3>1. pulled = q
      BY <2>2 DEF PullSuggestion
    <3> QED
      BY <3>1, TimelineType, EmbedsOrder
  <2> QED
    BY <2>1, <2>2
<1> HIDE DEF pulled
<1>5. queue' \in Queues /\ Embeds(Timeline(pulled), Timeline(queue'))
  <2>1. CASE CanGoForward(pulled, 1) /\ queue' \in Forwards(pulled, 1, repeat = "All", shuffle)
    BY <1>3, <2>1, ForwardEmbeds
  <2>2. CASE queue' = RetireCurrent(pulled)
    BY <1>3, <2>2, RetireType, RetireTimeline, TimelineType, EmbedsOrder
  <2> QED
    BY <1>1, <2>1, <2>2 DEF pulled
<1> QED
  BY <1>3, <1>4, <1>5, TimelineType, EmbedsOrder

\* The empty slot of a queue without songs to come is filled (Queue.Add, EnableAutoplay).
LEMMA FilledSlotEmbeds ==
  ASSUME NEW q \in Queues, q.cur = NoSong, q.up = <<>>, NEW s \in Song
  PROVE  Embeds(Timeline(q), Timeline([q EXCEPT !.cur = s]))
<1> DEFINE r == [q EXCEPT !.cur = s]
<1>1. /\ r.prev = q.prev /\ r.up = <<>> /\ NowPlaying(r) = <<s>>
      /\ NowPlaying(q) = <<>> /\ q.prev \in Seq(Song) /\ <<s>> \in Seq(Song)
  BY NoSongAssumption DEF NowPlaying, Queues
<1> HIDE DEF r
<1>2. Timeline(r) = q.prev \o <<s>>
  <2>1. Timeline(r) = (q.prev \o <<s>>) \o <<>>
    BY <1>1, Zenon DEF Timeline
  <2>2. q.prev \o <<s>> \in Seq(Song)
    BY <1>1, ConcatProperties
  <2> QED
    BY <2>1, <2>2, ConcatEmptySeq
<1>3. Timeline(q) = q.prev
  <2>1. Timeline(q) = (q.prev \o <<>>) \o <<>>
    BY <1>1, Zenon DEF Timeline
  <2> QED
    BY <1>1, <2>1, ConcatEmptySeq
<1>4. Embeds(q.prev, q.prev \o <<s>>)
  BY <1>1, EmbedsInExtension
<1> QED
  BY <1>2, <1>3, <1>4 DEF r

\* Every step keeps every song, apart from the commands that are there to drop some.
LEMMA StepEmbeds ==
  ASSUME IInv, [Next]_vars
  PROVE  \/ Clear
         \/ \E i \in Positions : RemoveSong(i) \/ Jump(i + 1)
         \/ Embeds(Timeline(queue), Timeline(queue'))
<1>1. queue \in Queues /\ queue \in SettledQueues /\ suggestions \in Seq(Song)
  BY DEF IInv, TypeOK
<1>2. ASSUME Timeline(queue') = Timeline(queue)
      PROVE  Embeds(Timeline(queue), Timeline(queue'))
  BY <1>1, <1>2, TimelineType, EmbedsOrder
<1>3. ASSUME queue' = queue
      PROVE  Embeds(Timeline(queue), Timeline(queue'))
  BY <1>2, <1>3
<1>4. CASE NextCommand
  BY <1>1, <1>4, AdvanceEmbeds DEF NextCommand
<1>5. CASE SongEnds
  <2>1. CASE repeat # "One" /\ Advance(RetireCurrent(queue), suggestions)
    BY <1>1, <2>1, RetireType, RetireTimeline, AdvanceEmbeds
  <2> QED
    BY <1>3, <1>5, <2>1 DEF SongEnds
<1>6. CASE LastSong
  <2>1. CanGoBack(queue, 1) /\ queue' = GoBack(queue, 1)
    BY <1>6 DEF LastSong, Edit
  <2> QED
    BY <1>1, <1>2, <2>1, GoBackIsResume, ResumeAtKeepsTimeline
<1>7. CASE EnableAutoplay
  <2>1. PICK sg \in (IF suggestions = <<>> THEN Regenerated(queue, suggestions) ELSE {suggestions}) :
          IF queue.cur = NoSong /\ queue.up = <<>> /\ sg # <<>>
          THEN queue' = [queue EXCEPT !.cur = Head(sg)]
          ELSE UNCHANGED queue
    BY <1>7, Zenon DEF EnableAutoplay
  <2>2. sg \in Seq(Song)
    BY <1>1, RegeneratedType
  <2>3. CASE queue.cur = NoSong /\ queue.up = <<>> /\ sg # <<>>
    <3>1. Head(sg) \in Song
      BY <2>2, <2>3, HeadTailProperties
    <3> QED
      BY <1>1, <2>1, <2>3, <3>1, FilledSlotEmbeds
  <2> QED
    BY <1>3, <2>1, <2>3
<1>8. CASE \/ DisableAutoplay \/ RefreshStarts
           \/ \E s \in Song : RefreshReturns(s)
           \/ \E mode \in RepeatModes : SetRepeat(mode)
           \/ \E on \in ShuffleModes : SetShuffle(on)
           \/ UNCHANGED vars
  <2>1. queue' = queue
    BY <1>8 DEF DisableAutoplay, RefreshStarts, RefreshReturns, SetRepeat, SetShuffle, vars
  <2> QED
    BY <1>3, <2>1
<1>9. ASSUME NEW s \in Song, Add(s) PROVE Embeds(Timeline(queue), Timeline(queue'))
  <2>1. queue' = AddSong(queue, s)
    BY <1>9 DEF Add, Edit
  <2>2. CASE queue.cur = NoSong
    BY <1>1, <2>1, <2>2, FilledSlotEmbeds DEF AddSong, SettledQueues
  <2>3. CASE queue.cur # NoSong
    <3>1. /\ queue' = [queue EXCEPT !.up = Append(queue.up, s)]
          /\ queue.up \in Seq(Song) /\ Append(queue.up, s) \in Seq(Song)
          /\ Append(queue.up, s) = queue.up \o <<s>> /\ <<s>> \in Seq(Song)
      BY <1>1, <2>1, <2>3, AppendProperties, AppendIsConcat DEF AddSong, Queues
    <3>2. Embeds(queue.up, Append(queue.up, s))
      BY <3>1, EmbedsInExtension
    <3> QED
      BY <1>1, <3>1, <3>2, UpcomingEmbeds
  <2> QED
    BY <2>2, <2>3
<1>10. ASSUME NEW i \in Positions, Replay(i) PROVE Embeds(Timeline(queue), Timeline(queue'))
  <2>1. CanReplay(queue, i) /\ queue' = ReplayAt(queue, i)
    BY <1>10 DEF Replay, Edit
  <2> QED
    BY <1>1, <1>2, <2>1, ReplayIsResume, ResumeAtKeepsTimeline
<1>11. ASSUME NEW i \in Positions, NEW j \in Positions, MoveSong(i, j)
       PROVE  Embeds(Timeline(queue), Timeline(queue'))
  <2>1. /\ InUpcoming(queue, i) /\ InUpcoming(queue, j)
        /\ queue' = MoveUpcoming(queue, i, j)
    BY <1>11 DEF MoveSong, Edit
  <2>2. MoveUpcoming(queue, i, j).up \in Seq(Song) /\ Embeds(queue.up, MoveUpcoming(queue, i, j).up)
    BY <1>1, <2>1, MoveUpcomingSettled, MoveEmbeds DEF SettledQueues, Queues
  <2>3. MoveUpcoming(queue, i, j) = [queue EXCEPT !.up = MoveUpcoming(queue, i, j).up]
    <3>1. \E u : MoveUpcoming(queue, i, j) = [queue EXCEPT !.up = u]
      <4>1. CASE i = j
        <5>1. MoveUpcoming(queue, i, j) = queue
          BY <4>1 DEF MoveUpcoming
        <5>2. queue = [queue EXCEPT !.up = queue.up]
          BY <1>1 DEF Queues
        <5> QED
          BY <5>1, <5>2
      <4>2. CASE i # j
        BY <4>2, Zenon DEF MoveUpcoming
      <4> QED
        BY <4>1, <4>2
    <3> QED
      BY <1>1, <3>1 DEF Queues
  <2> QED
    BY <1>1, <2>1, <2>2, <2>3, UpcomingEmbeds, Zenon
<1> QED
  BY <1>4, <1>5, <1>6, <1>7, <1>8, <1>9, <1>10, <1>11, Zenon DEF Next

\* Advancing, shuffling, repeating, moving and going back never take a song out of the
\* queue, as often as it is there; only Clear, Remove and Jump do (moveTo, Queue.Next).
THEOREM NothingLost == Spec => NothingIsLost
<1>1. ASSUME IInv, IInv', [Next]_vars
      PROVE  \/ Clear
             \/ \E i \in Positions : RemoveSong(i) \/ Jump(i + 1)
             \/ \A s \in Song : Occurrences(s, queue') >= Occurrences(s, queue)
  <2>1. CASE Embeds(Timeline(queue), Timeline(queue'))
    <3>1. Timeline(queue) \in Seq(Song) /\ Timeline(queue') \in Seq(Song)
      BY <1>1, TimelineType DEF IInv, TypeOK
    <3>2. \A s : Cardinality(Places(s, Timeline(queue))) <= Cardinality(Places(s, Timeline(queue')))
      BY <2>1, <3>1, EmbedsCount
    <3>3. \A s, q : Occurrences(s, q) = Cardinality(Places(s, Timeline(q)))
      BY Zenon DEF Occurrences, Places
    <3> QED
      BY <3>2, <3>3
  <2> QED
    BY <1>1, <2>1, StepEmbeds, Zenon
<1>2. IInv /\ IInv' /\ [Next]_vars =>
        [\/ Clear
         \/ \E i \in Positions : RemoveSong(i) \/ Jump(i + 1)
         \/ \A s \in Song : Occurrences(s, queue') >= Occurrences(s, queue)]_vars
  BY <1>1
<1> QED
  BY <1>2, Invariance, PTL DEF NothingIsLost, Spec

=============================================================================
