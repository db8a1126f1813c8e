------------------------------ MODULE QueueOps ------------------------------
(***************************************************************************)
(* The song list of one guild (Structs/Queue.go) as a value, and what each *)
(* queue operation makes of it.  A queue is the history Previous (oldest   *)
(* first), the song in the Current slot, and Upcoming (next first).        *)
(*                                                                         *)
(* Nothing here is a step of the program: the operators are the data part  *)
(* of the steps taken in SongQueue and GuildPlayback.                      *)
(***************************************************************************)
EXTENDS Integers, SequencesExt

CONSTANTS
  Song,    \* the songs that can be queued (Tidal.Song pointers)
  NoSong   \* the nil Current pointer

ASSUME NoSongAssumption == NoSong \notin Song

Queues == [prev : Seq(Song), cur : Song \cup {NoSong}, up : Seq(Song)]

EmptyQueue == [prev |-> <<>>, cur |-> NoSong, up |-> <<>>]

NowPlaying(q) == IF q.cur = NoSong THEN <<>> ELSE <<q.cur>>

\* Everything the queue holds, in listening order.
Timeline(q) == q.prev \o NowPlaying(q) \o q.up

-----------------------------------------------------------------------------
(* moveTo with a negative index, n songs back.  The song that was playing  *)
(* and the history that is skipped over become upcoming again.             *)

CanGoBack(q, n) == n \in 1 .. Len(q.prev)

\* Slip: the interrupted song is not put back in front of Upcoming.
GoBackDroppingCurrent(q, n) ==
  LET index == Len(q.prev) - n
  IN  [prev |-> SubSeq(q.prev, 1, index),
       cur  |-> q.prev[index + 1],
       up   |-> SubSeq(q.prev, index + 2, Len(q.prev)) \o q.up]

\* The song at the 0-based index of the history plays; what follows it in the
\* history is to come again.
ResumeAt(q, index) ==
  [prev |-> SubSeq(q.prev, 1, index),
   cur  |-> q.prev[index + 1],
   up   |-> SubSeq(q.prev, index + 2, Len(q.prev)) \o NowPlaying(q) \o q.up]

GoBack(q, n) == ResumeAt(q, Len(q.prev) - n)

(* Replay addresses the same history by its 0-based index from the front. *)

CanReplay(q, index) == index \in 0 .. Len(q.prev) - 1

\* Slip: the history is trimmed one song too late.
ReplayKeepingTarget(q, index) ==
  [prev |-> SubSeq(q.prev, 1, index + 1),
   cur  |-> q.prev[index + 1],
   up   |-> SubSeq(q.prev, index + 2, Len(q.prev)) \o (NowPlaying(q) \o q.up)]

ReplayAt(q, index) ==
  [prev |-> SubSeq(q.prev, 1, index),
   cur  |-> q.prev[index + 1],
   up   |-> SubSeq(q.prev, index + 2, Len(q.prev)) \o (NowPlaying(q) \o q.up)]

-----------------------------------------------------------------------------
(* moveTo with a positive index.  The bounds are checked before Repeat All *)
(* puts the outgoing song at the end; the songs jumped over are dropped.   *)

CanGoForward(q, n) == n \in 1 .. Len(q.up)

Waiting(q, repeatAll) ==
  IF repeatAll THEN q.up \o NowPlaying(q) ELSE q.up

\* Slip: the song that was playing does not enter the history.
ForwardForgettingCurrent(q, n, repeatAll) ==
  LET waiting == Waiting(q, repeatAll)
  IN  [prev |-> q.prev,
       cur  |-> waiting[n],
       up   |-> SubSeq(waiting, n + 1, Len(waiting))]

GoForward(q, n, repeatAll) ==
  LET waiting == Waiting(q, repeatAll)
  IN  [prev |-> q.prev \o NowPlaying(q),
       cur  |-> waiting[n],
       up   |-> SubSeq(waiting, n + 1, Len(waiting))]

\* What ShuffleUpcoming can turn a sequence into.
Shuffles(s) ==
  { [i \in 1 .. Len(s) |-> s[p[i]]] : p \in Bijection(1 .. Len(s), 1 .. Len(s)) }

Forwards(q, n, repeatAll, shuffled) ==
  LET r == GoForward(q, n, repeatAll)
  IN  IF shuffled THEN { [r EXCEPT !.up = u] : u \in Shuffles(r.up) } ELSE {r}

\* Slip: appended without the nil check.
RetireEvenNil(q) == [q EXCEPT !.prev = Append(q.prev, q.cur), !.cur = NoSong]

\* The song in the Current slot moves to the history and leaves the slot empty.
RetireCurrent(q) ==
  [q EXCEPT !.prev = q.prev \o NowPlaying(q), !.cur = NoSong]

-----------------------------------------------------------------------------
(* Edits.  Indices are 0-based, as in the code.                            *)

InUpcoming(q, index) == index \in 0 .. Len(q.up) - 1

RemoveUpcoming(q, index) == [q EXCEPT !.up = RemoveAt(q.up, index + 1)]

\* Slip: the two songs trade places.
SwapUpcoming(q, from, to) ==
  [q EXCEPT !.up[to + 1] = q.up[from + 1], !.up[from + 1] = q.up[to + 1]]

\* Remove the song, close the gap, step the target back when the gap was
\* before it, insert.
MoveUpcoming(q, from, to) ==
  LET song == q.up[from + 1]
      rest == RemoveAt(q.up, from + 1)
      dest == IF to > from THEN to - 1 ELSE to
  IN  IF from = to THEN q ELSE [q EXCEPT !.up = InsertAt(rest, dest + 1, song)]

\* Slip: an empty Current slot is not filled.
AddBehind(q, s) == [q EXCEPT !.up = Append(q.up, s)]

AddSong(q, s) ==
  IF q.cur = NoSong THEN [q EXCEPT !.cur = s] ELSE [q EXCEPT !.up = Append(q.up, s)]

\* The position Add reports: 1-based in Upcoming, computed from its old length.
AddPosition(q) == IF q.cur = NoSong THEN Len(q.up) ELSE Len(q.up) + 1

=============================================================================
