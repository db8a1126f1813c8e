--------------------------- MODULE PlaylistIntake ---------------------------
(* How an album or a playlist comes into the queue (HandleURI): the first  *)
(* item at once, the rest in a goroutine that resolves them and then adds  *)
(* them one by one, while other requests do the same and the playback      *)
(* takes songs out.  There are three ways to resolve the rest:             *)
(*   whole     the service gave all songs with the first (Tidal, mixes,    *)
(*             favourites, artists);                                       *)
(*   serial    one search after the other (YouTube, YouTube Music);        *)
(*   parallel  one goroutine per item (Spotify, Apple Music), whose songs  *)
(*             are put in the order of the playlist when all have ended.   *)
(* Searches are external and any of them may find nothing.  Queue.Add is   *)
(* one step, as in SongQueue.                                              *)
EXTENDS Naturals, FiniteSets, SequencesExt

CONSTANTS
  Request,   \* calls of HandleURI
  MaxItems   \* bound: items in a playlist

ASSUME IntakeAssumption == IsFiniteSet(Request) /\ MaxItems \in Nat \ {0}

VARIABLES
  requests,  \* what each call and its goroutine have done
  added      \* every song Queue.Add was called with, in order

intakeVars == <<requests, added>>

Item == 0 .. MaxItems - 1
Way  == {"whole", "serial", "parallel"}

\* running holds the items whose goroutine or turn has not ended; found is the
\* slice of songs; missing, those that were not found.
RequestPcs == {"new", "resolving", "adding", "done"}
RequestState == [pc : RequestPcs, way : Way, items : 1 .. MaxItems,
                 running : SUBSET Item, found : Seq(Item), missing : SUBSET Item]

IntakeTypeOK ==
  /\ requests \in [Request -> RequestState]
  /\ added \in Seq(Request \X Item)

IntakeInit ==
  /\ requests \in [Request -> {[pc |-> "new", way |-> w, items |-> n, running |-> {},
                                found |-> <<>>, missing |-> {}] :
                                 w \in Way, n \in 1 .. MaxItems}]
  /\ added = <<>>

-----------------------------------------------------------------------------
Rest(r) == 1 .. requests[r].items - 1

\* Nothing is added if the first item is not found.
FirstFails(r) ==
  /\ requests[r].pc = "new"
  /\ requests' = [requests EXCEPT ![r].pc = "done", ![r].missing = {0} \cup Rest(r)]
  /\ UNCHANGED added

\* Slip: one song more than there are.
BeginWholeOneMore(r) ==
  /\ requests[r].pc = "new" /\ requests[r].way = "whole"
  /\ added' = Append(added, <<r, 0>>)
  /\ requests' = [requests EXCEPT ![r].pc = "adding",
                                  ![r].found = [i \in 1 .. requests[r].items |-> i]]

\* The first song is added by the command, and the goroutine started: with all
\* songs in hand, ...
BeginWhole(r) ==
  /\ requests[r].pc = "new" /\ requests[r].way = "whole"
  /\ added' = Append(added, <<r, 0>>)
  /\ requests' = [requests EXCEPT ![r].pc = "adding", ![r].found = [i \in Rest(r) |-> i]]

ResolveRest(r) ==
  /\ added' = Append(added, <<r, 0>>)
  /\ requests' = [requests EXCEPT ![r].pc = "resolving", ![r].running = Rest(r)]

\* ... with the titles of videos to search, ...
BeginSerial(r) ==
  requests[r].pc = "new" /\ requests[r].way = "serial" /\ ResolveRest(r)

\* ... or with IDs of another service to convert.
BeginParallel(r) ==
  requests[r].pc = "new" /\ requests[r].way = "parallel" /\ ResolveRest(r)

\* GetAllItems fails, or there is nothing but the first item.
RestFails(r) ==
  /\ requests[r].pc = "resolving"
  /\ requests[r].running = Rest(r) /\ requests[r].way = "parallel"
  /\ requests' = [requests EXCEPT ![r].pc = "done", ![r].running = {},
                                  ![r].missing = Rest(r)]
  /\ UNCHANGED added

\* Which item may end next: any, or the one whose turn it is.
MayEnd(r, i) ==
  /\ requests[r].pc = "resolving" /\ i \in requests[r].running
  /\ requests[r].way = "serial" => \A k \in requests[r].running : i <= k

ItemFound(r, i) ==
  /\ MayEnd(r, i)
  /\ requests' = [requests EXCEPT ![r].running = @ \ {i}, ![r].found = Append(@, i)]
  /\ UNCHANGED added

ItemMissing(r, i) ==
  /\ MayEnd(r, i)
  /\ requests' = [requests EXCEPT ![r].running = @ \ {i}, ![r].missing = @ \cup {i}]
  /\ UNCHANGED added

\* slices.SortFunc by Playlist.Index, which no two songs of a playlist share.
Sorted(songs) ==
  CHOOSE t \in [DOMAIN songs -> Range(songs)] :
    Range(t) = Range(songs) /\ \A i, j \in DOMAIN t : i < j => t[i] < t[j]

\* Slip: the songs stay in the order in which the goroutines ended.
AddAsFound(r) ==
  /\ requests[r].pc = "resolving" /\ requests[r].running = {}
  /\ requests' = [requests EXCEPT ![r].pc = "adding"]
  /\ UNCHANGED added

\* Slip: nobody waits for the goroutines.
SortWithoutWait(r) ==
  /\ requests[r].pc = "resolving"
  /\ requests' = [requests EXCEPT ![r].pc = "adding", ![r].running = {},
                                  ![r].found = Sorted(@)]
  /\ UNCHANGED added

\* Slip: the WaitGroup is told only of the songs that are found.
SortWhenAllFound(r) ==
  /\ requests[r].pc = "resolving" /\ requests[r].running = {} /\ requests[r].missing = {}
  /\ requests' = [requests EXCEPT ![r].pc = "adding",
                                  ![r].found = Sorted(@)]
  /\ UNCHANGED added

\* WaitGroup.Wait and slices.SortFunc; a serial search has found them in order.
SortRest(r) ==
  /\ requests[r].pc = "resolving" /\ requests[r].running = {}
  /\ requests' = [requests EXCEPT ![r].pc = "adding",
                                  ![r].found = Sorted(@)]
  /\ UNCHANGED added

AddNext(r) ==
  /\ requests[r].pc = "adding" /\ requests[r].found # <<>>
  /\ added' = Append(added, <<r, Head(requests[r].found)>>)
  /\ requests' = [requests EXCEPT ![r].found = Tail(@)]

AddingEnds(r) ==
  /\ requests[r].pc = "adding" /\ requests[r].found = <<>>
  /\ requests' = [requests EXCEPT ![r].pc = "done"]
  /\ UNCHANGED added

\* What the goroutine does by itself.  Nothing makes an answer of Spotify or Apple
\* Music come, whose clients have no time limit.
RequestGoesOn(r) == SortRest(r) \/ AddNext(r) \/ AddingEnds(r)

RequestStep(r) ==
  \/ FirstFails(r) \/ BeginWhole(r) \/ BeginSerial(r) \/ BeginParallel(r)
  \/ RestFails(r) \/ \E i \in Item : ItemFound(r, i) \/ ItemMissing(r, i)
  \/ RequestGoesOn(r)

IntakeNext == \E r \in Request : RequestStep(r)

IntakeSpec == IntakeInit /\ [][IntakeNext]_intakeVars

-----------------------------------------------------------------------------
(* Properties *)

\* In the order in which songs are added, those of one playlist come in its
\* order and none comes twice, whichever search ends first and whatever other
\* requests add in between.
PlaylistOrderKept ==
  \A i, j \in DOMAIN added :
    i < j /\ added[i][1] = added[j][1] => added[i][2] < added[j][2]

\* Of a request that has begun, every item is added, waiting to be added, still
\* looked for, or was not found: when it has ended, all that was found is added.
NothingFoundIsLost ==
  \A r \in Request : requests[r].pc # "new" =>
    0 .. requests[r].items - 1 =
      {added[i][2] : i \in {j \in DOMAIN added : added[j][1] = r}}
        \cup Range(requests[r].found) \cup requests[r].running \cup requests[r].missing

\* A request whose searches have all been answered, with songs or without, has put the
\* songs in order and added them: it waits for nothing but answers.
IntakeOver ==
  \A r \in Request :
    /\ requests[r].pc = "resolving" => requests[r].running # {}
    /\ requests[r].pc # "adding"
=============================================================================
