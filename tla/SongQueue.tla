----------------------------- MODULE SongQueue ------------------------------
(***************************************************************************)
(* One guild's queue when its operations run one after the other: slash    *)
(* commands, buttons, voice commands and the web page all end in these     *)
(* methods of Queue, and a song that ends on its own reaches the Idle      *)
(* branch of QueueStateHandler.  What the operations do to each other when *)
(* they overlap is the subject of GuildPlayback.                           *)
(*                                                                         *)
(* Suggestions are the Autoplay songs.  A refresh of them runs on its own  *)
(* goroutine: it is queued by QueueUpdatedHandler, reads its seed when it  *)
(* starts, and overwrites the list when the fetch returns.                 *)
(***************************************************************************)
EXTENDS QueueOps, FiniteSets

CONSTANTS
  RepeatModes,     \* the repeat modes users choose: a subset of Repeats
  ShuffleModes,    \* the shuffle settings users choose
  AutoplayModes,   \* the autoplay settings users choose
  MaxTimeline,     \* bound: songs held by the queue
  MaxSuggestions   \* bound: length of a fetched suggestion list (5 in the code)

Repeats == {"Off", "One", "All"}

ASSUME ModesAssumption ==
  /\ RepeatModes \subseteq Repeats
  /\ ShuffleModes \subseteq BOOLEAN
  /\ AutoplayModes \subseteq BOOLEAN
ASSUME BoundsAssumption == MaxTimeline \in Nat /\ MaxSuggestions \in Nat

VARIABLES
  queue,        \* Previous, Current, Upcoming
  suggestions,  \* Queue.Suggestions
  repeat, shuffle, autoplay,   \* Guild.Features
  refreshQueued,  \* a goroutine is about to run RegenerateSuggestions
  refreshSeeds    \* the seeds of the fetches in flight

features == <<repeat, shuffle, autoplay>>
refreshes == <<refreshQueued, refreshSeeds>>
vars == <<queue, suggestions, repeat, shuffle, autoplay, refreshQueued, refreshSeeds>>

SuggestionLists == UNION { [1 .. n -> Song] : n \in 0 .. MaxSuggestions }

TypeOK ==
  /\ queue \in Queues
  /\ suggestions \in Seq(Song)
  /\ repeat \in Repeats
  /\ shuffle \in BOOLEAN
  /\ autoplay \in BOOLEAN
  /\ refreshQueued \in BOOLEAN
  /\ refreshSeeds \in SUBSET Song

Init ==
  /\ queue = EmptyQueue
  /\ suggestions = <<>>
  /\ repeat = "Off"
  /\ shuffle = FALSE
  /\ autoplay = FALSE
  /\ refreshQueued = FALSE
  /\ refreshSeeds = {}

-----------------------------------------------------------------------------
(* Autoplay                                                                *)

\* The song RegenerateSuggestions asks similar songs for: the last one played,
\* else the one playing.
Seeds(q) ==
  IF q.prev # <<>> THEN {q.prev[Len(q.prev)]}
  ELSE IF q.cur # NoSong THEN {q.cur} ELSE {}

\* What one call of RegenerateSuggestions can leave in the list: nothing
\* changes without a seed or when a fetch fails; the seed itself is filtered.
Fetched(seed, old) ==
  {old} \cup { l \in SuggestionLists : \A i \in DOMAIN l : l[i] # seed }

Regenerated(q, old) ==
  IF Seeds(q) = {} THEN {old} ELSE UNION { Fetched(seed, old) : seed \in Seeds(q) }

\* The trailing call of QueueUpdatedHandler.
Updated(q, sg) ==
  /\ refreshQueued' = (refreshQueued \/ (/\ autoplay
                                         /\ Len(sg) < 2
                                         /\ q.cur # NoSong \/ q.prev # <<>>))
  /\ UNCHANGED refreshSeeds

-----------------------------------------------------------------------------
(* Queue.Next: with Autoplay and nothing waiting a suggestion is pulled    *)
(* into Upcoming first; moveTo(1) then advances or FinishQueue ends.       *)

\* Slip: the suggestion is taken off its list and never queued.
PullWithoutQueueing(q, sg) ==
  IF autoplay /\ q.up = <<>> /\ sg # <<>>
  THEN [queue |-> q, sugg |-> Tail(sg)]
  ELSE [queue |-> q, sugg |-> sg]

PullSuggestion(q, sg) ==
  IF autoplay /\ q.up = <<>> /\ sg # <<>>
  THEN [queue |-> [q EXCEPT !.up = <<Head(sg)>>], sugg |-> Tail(sg)]
  ELSE [queue |-> q, sugg |-> sg]

Advance(q, sg) ==
  \E fresh \in (IF autoplay /\ q.up = <<>> /\ sg = <<>> THEN Regenerated(q, sg) ELSE {sg}) :
    LET pulled == PullSuggestion(q, fresh)
    IN  /\ suggestions' = pulled.sugg
        /\ \/ /\ CanGoForward(pulled.queue, 1)
              /\ queue' \in Forwards(pulled.queue, 1, repeat = "All", shuffle)
           \/ /\ ~CanGoForward(pulled.queue, 1)
              /\ queue' = RetireCurrent(pulled.queue)
        /\ Updated(queue', suggestions')

\* Room for a song that Repeat All or Autoplay adds to the timeline.
HasRoom == Len(Timeline(queue)) < MaxTimeline

NextCommand ==
  /\ HasRoom
  /\ Advance(queue, suggestions)
  /\ UNCHANGED features

\* Playback finished by itself: the Idle branch of QueueStateHandler.  Repeat
\* One plays the song again; otherwise the song is retired before Next runs.
SongEnds ==
  /\ queue.cur # NoSong
  /\ HasRoom
  /\ \/ /\ repeat = "One"
        /\ UNCHANGED <<queue, suggestions, refreshes>>
     \/ /\ repeat # "One"
        /\ Advance(RetireCurrent(queue), suggestions)
  /\ UNCHANGED features

-----------------------------------------------------------------------------
(* The other operations.                                                   *)

Edit(q) ==
  /\ queue' = q
  /\ Updated(q, suggestions)
  /\ UNCHANGED <<suggestions, features>>

Add(s) == HasRoom /\ Edit(AddSong(queue, s))

LastSong == CanGoBack(queue, 1) /\ Edit(GoBack(queue, 1))

\* Slip: the song that was playing goes to the end of Upcoming, not to its front.
ReplayRequeueing(index) ==
  /\ CanReplay(queue, index)
  /\ Edit([ReplayAt(queue, index) EXCEPT
            !.up = SubSeq(queue.prev, index + 2, Len(queue.prev)) \o queue.up \o NowPlaying(queue)])

Replay(index) == CanReplay(queue, index) /\ Edit(ReplayAt(queue, index))

Jump(n) ==
  /\ HasRoom
  /\ CanGoForward(queue, n)
  /\ \E q \in Forwards(queue, n, repeat = "All", shuffle) : Edit(q)

RemoveSong(index) == InUpcoming(queue, index) /\ Edit(RemoveUpcoming(queue, index))

MoveSong(from, to) ==
  /\ InUpcoming(queue, from)
  /\ InUpcoming(queue, to)
  /\ Edit(MoveUpcoming(queue, from, to))

Clear == Edit(EmptyQueue)

SetRepeat(mode) ==
  /\ repeat' = mode
  /\ UNCHANGED <<queue, suggestions, shuffle, autoplay, refreshes>>

SetShuffle(on) ==
  /\ shuffle' = on
  /\ UNCHANGED <<queue, suggestions, repeat, autoplay, refreshes>>

DisableAutoplay ==
  /\ autoplay' = FALSE
  /\ UNCHANGED <<queue, suggestions, repeat, shuffle, refreshes>>

\* Turning Autoplay on fills an empty list, and starts playing from it when the
\* queue holds nothing.  Next is read with Autoplay already on.
EnableAutoplay ==
  /\ HasRoom
  /\ autoplay' = TRUE
  /\ UNCHANGED <<repeat, shuffle>>
  /\ \E sg \in (IF suggestions = <<>> THEN Regenerated(queue, suggestions) ELSE {suggestions}) :
       IF queue.cur = NoSong /\ queue.up = <<>> /\ sg # <<>>
       THEN /\ suggestions' = Tail(sg)
            /\ queue' = [queue EXCEPT !.cur = Head(sg)]
            /\ refreshQueued' = (refreshQueued \/ Len(Tail(sg)) < 2)
            /\ UNCHANGED refreshSeeds
       ELSE /\ suggestions' = sg
            /\ UNCHANGED <<queue, refreshes>>

\* The refresh goroutine starts: without Autoplay or a seed it returns at once.
RefreshStarts ==
  /\ refreshQueued
  /\ refreshQueued' = FALSE
  /\ refreshSeeds' = refreshSeeds \cup (IF autoplay THEN Seeds(queue) ELSE {})
  /\ UNCHANGED <<queue, suggestions, features>>

RefreshReturns(seed) ==
  /\ seed \in refreshSeeds
  /\ refreshSeeds' = refreshSeeds \ {seed}
  /\ suggestions' \in Fetched(seed, suggestions)
  /\ UNCHANGED <<queue, features, refreshQueued>>

Positions == 0 .. MaxTimeline - 1

Next ==
  \/ NextCommand
  \/ SongEnds
  \/ LastSong
  \/ Clear
  \/ EnableAutoplay /\ TRUE \in AutoplayModes
  \/ DisableAutoplay
  \/ RefreshStarts
  \/ \E s \in Song : Add(s) \/ RefreshReturns(s)
  \/ \E i \in Positions : Replay(i) \/ RemoveSong(i) \/ Jump(i + 1)
  \/ \E i, j \in Positions : MoveSong(i, j)
  \/ \E mode \in RepeatModes : SetRepeat(mode)
  \/ \E on \in ShuffleModes : SetShuffle(on)

Spec == Init /\ [][Next]_vars

-----------------------------------------------------------------------------
(* Properties                                                              *)

\* Nothing waits behind an empty Current slot: whatever sequence of commands
\* ran, a queue without a current song has no upcoming song either, so that Add
\* may put a new song straight into the slot (Queue.Add) and HandleURI may take
\* position 0 as the order to start playing.
NothingWaitsBehindEmptySlot == queue.cur = NoSong => queue.up = <<>>

\* "Last" after "Next" restores the queue exactly: the positive and the negative
\* branch of moveTo are inverse to each other.
LastUndoesNext ==
  queue.cur # NoSong /\ CanGoForward(queue, 1) =>
    GoBack(GoForward(queue, 1, FALSE), 1) = queue

\* Replay and moveTo address the same history in different ways (0-based from
\* the oldest, 1-based from the newest) and agree on the resulting queue; going
\* back n songs at once is going back n times.
BackwardMovesAgree ==
  \A n \in 1 .. Len(queue.prev) :
    /\ GoBack(queue, n) = ReplayAt(queue, Len(queue.prev) - n)
    /\ n > 1 => GoBack(queue, n) = GoBack(GoBack(queue, 1), n - 1)

\* The moves in both directions fit together, in every queue that commands can
\* lead to.
BackAndForthAgree == LastUndoesNext /\ BackwardMovesAgree

\* Going back, by Last or by Replay, only moves the Current marker: the
\* listening order of all songs stays as it was.
GoingBackKeepsTimeline ==
  [][LastSong \/ (\E i \in Positions : Replay(i)) => Timeline(queue') = Timeline(queue)]_vars

Occurrences(s, q) == Cardinality({ i \in DOMAIN Timeline(q) : Timeline(q)[i] = s })

\* Only Clear, Remove and Jump (which drops the songs it skips) take a song out
\* of the queue; advancing, shuffling, repeating, moving and going back never do.
NothingIsLost ==
  [][\/ Clear
     \/ \E i \in Positions : RemoveSong(i) \/ Jump(i + 1)
     \/ \A s \in Song : Occurrences(s, queue') >= Occurrences(s, queue)]_vars

\* With Autoplay on and suggestions at hand, a song that ends on its own is always
\* followed by another one.
AutoplayContinues ==
  [][SongEnds /\ autoplay /\ suggestions # <<>> => queue'.cur # NoSong]_vars

\* Move takes one song out of Upcoming and puts it back: the songs around it keep their
\* order, none is lost or doubled, and a move towards the front ends at the index asked for.
MoveKeepsTheRest ==
  [][\A from, to \in Positions : MoveSong(from, to) =>
       \E landing \in DOMAIN queue'.up :
         /\ queue'.up[landing] = queue.up[from + 1]
         /\ RemoveAt(queue'.up, landing) = RemoveAt(queue.up, from + 1)
         /\ to <= from => landing = to + 1]_vars

=============================================================================
