----------------------------- MODULE Dashboard -----------------------------
(* What a dashboard in a browser knows of a guild's queue: the server that *)
(* registers its websocket and writes the initial state                    *)
(* (HandleWSConnections), the handlers that tell every websocket of a      *)
(* change (SendToWebsockets), and the client that takes messages in        *)
(* (App.tsx).                                                              *)
(*                                                                         *)
(* Each change is told by a goroutine of its own, which takes the lists    *)
(* when it runs and writes them when it has SocketMutex, so that messages  *)
(* overtake each other.  The initial state is written without the mutex:   *)
(* it may come after newer news, and it may meet the write of a handler,   *)
(* which the websocket library answers with a panic in one of the two.     *)
(* Contents are a version and the title of the current song; the state of  *)
(* the player is a version.                                                *)
EXTENDS Naturals, FiniteSets

CONSTANTS
  Page,         \* dashboards that are open in a browser
  Title,        \* songs
  NoTitle,      \* no current song (null)
  MaxChanges,   \* bound: changes of the lists
  MaxStates,    \* bound: changes of the state
  MaxLinks,     \* bound: websockets
  MaxAttempts   \* attempts to connect that may fail one after the other (3)

ASSUME DashboardAssumption ==
  /\ NoTitle \notin Title /\ MaxAttempts \in Nat
  /\ MaxChanges \in Nat /\ MaxStates \in Nat /\ MaxLinks \in Nat

VARIABLES
  contents,    \* the lists of the queue and the state of the player
  notices,     \* handlers that have yet to tell of a change
  webSockets,  \* Queue.WebSockets, and whether a handler reads of the socket
  pages        \* what each page has been told, and shows

dashboardVars == <<contents, notices, webSockets, pages>>

Shown == Title \cup {NoTitle}
Contents == [queue : 0 .. MaxChanges, player : 0 .. MaxStates, title : Shown]
Notice == [kind : {"queue"}, of : 1 .. MaxChanges, at : {"begun", "taken"}, data : Contents]
            \cup [kind : {"player"}, of : 1 .. MaxStates, at : {"taken"}, data : Contents]
SocketNo == 1 .. MaxLinks

\* told holds the newest versions that came over the present link and last the title that
\* came last; ref is CurrentSongIdRef, due a render that is to come.  Two facts are kept for
\* the properties: missed, a write to the link has met another; hasty, the last message
\* came while a render was due.
PageState ==
  [at : {"away", "registered", "writing", "open", "ended"}, link : 0 .. MaxLinks,
   attempts : 0 .. MaxAttempts + 1, snapshot : Contents, told : [queue : 0 .. MaxChanges,
   player : 0 .. MaxStates], last : Shown, shown : Shown, ref : Shown, due : BOOLEAN,
   missed : BOOLEAN, hasty : BOOLEAN]

NoContents == [queue |-> 0, player |-> 0, title |-> NoTitle]

NewPage == [at |-> "away", link |-> 0, attempts |-> 0, snapshot |-> NoContents,
            told |-> [queue |-> 0, player |-> 0], last |-> NoTitle, shown |-> NoTitle,
            ref |-> NoTitle, due |-> FALSE, missed |-> FALSE, hasty |-> FALSE]

DashboardTypeOK ==
  /\ contents \in Contents
  /\ notices \subseteq Notice
  /\ webSockets \in [SocketNo -> {"unused", "served", "deserted", "gone"}]
  /\ pages \in [Page -> PageState]

\* A page may find any contents, and may have given up before.
DashboardInit ==
  /\ contents \in Contents /\ notices = {}
  /\ webSockets = [l \in SocketNo |-> "unused"]
  /\ pages \in [Page -> {NewPage, [NewPage EXCEPT !.at = "ended"]}]

-----------------------------------------------------------------------------
(* Changes and the handlers that tell of them *)

\* Every operation on the lists ends with a call of the handler, of its own
\* goroutine or of another.
ChangeQueue(t) ==
  /\ contents.queue < MaxChanges
  /\ contents' = [contents EXCEPT !.queue = @ + 1, !.title = t]
  /\ notices' = notices \cup {[kind |-> "queue", of |-> contents.queue + 1,
                               at |-> "begun", data |-> NoContents]}
  /\ UNCHANGED <<webSockets, pages>>

\* SetState: the new state is an argument of the goroutine.
ChangeState ==
  /\ contents.player < MaxStates
  /\ contents' = [contents EXCEPT !.player = @ + 1]
  /\ notices' = notices \cup {[kind |-> "player", of |-> contents.player + 1, at |-> "taken",
                               data |-> [NoContents EXCEPT !.player = contents.player + 1]]}
  /\ UNCHANGED <<webSockets, pages>>

\* QueueUpdatedHandler: the lists are read before the mutex is taken.
TakeLists(n) ==
  /\ n.at = "begun"
  /\ notices' = (notices \ {n}) \cup
       {[n EXCEPT !.at = "taken", !.data = [contents EXCEPT !.player = 0]]}
  /\ UNCHANGED <<contents, webSockets, pages>>

AtLeast(a, b) == IF a < b THEN b ELSE a

Hears(page, data) ==
  [page EXCEPT !.told = [queue |-> AtLeast(@.queue, data.queue),
                         player |-> AtLeast(@.player, data.player)]]

\* Event_QueueUpdated in the client: a song that is not null and not the one in
\* CurrentSongIdRef is shown.
TakesUpdate(page, data) ==
  LET changed == data.title \notin {NoTitle, page.ref}
  IN  [Hears(page, data) EXCEPT
         !.last = data.title, !.hasty = page.due,
         !.shown = IF changed THEN data.title ELSE @, !.due = @ \/ changed]

\* Event_StateChanged.
Takes(page, n) ==
  IF n.kind = "queue" THEN TakesUpdate(page, n.data) ELSE Hears(page, n.data)

\* Slip: a page is registered when its initial state has been written.
OnLinkOnceOpen(p, L) == pages[p].at = "open" /\ pages[p].link \in L

\* The pages behind the keys of Queue.WebSockets.
OnLink(p, L) == pages[p].at \in {"registered", "writing", "open"} /\ pages[p].link \in L
Registered == {l \in SocketNo : webSockets[l] \in {"served", "deserted"}}
Stale == {l \in Registered : ~ \E p \in Page : OnLink(p, {l})}

\* SendToWebsockets, under SocketMutex: every socket is written to, and one of
\* a page that is gone may fail and is then closed and deleted.
SendToWebsockets(n, failing) ==
  /\ n.at = "taken" /\ failing \subseteq Stale
  /\ notices' = notices \ {n}
  /\ webSockets' = [l \in SocketNo |-> IF l \in failing THEN "gone" ELSE webSockets[l]]
  /\ pages' = [p \in Page |-> IF OnLink(p, Registered) THEN Takes(pages[p], n) ELSE pages[p]]
  /\ UNCHANGED contents

\* The write meets that of the initial state to page p and panics; the handler recovers,
\* and of the other pages it has told some.
SendPanics(n, p, before) ==
  /\ n.at = "taken" /\ pages[p].at = "writing" /\ p \notin before
  /\ \A q \in before : OnLink(q, Registered)
  /\ notices' = notices \ {n}
  /\ pages' = [q \in Page |->
       IF q \in before THEN Takes(pages[q], n)
       ELSE IF OnLink(q, Registered) THEN [pages[q] EXCEPT !.missed = TRUE] ELSE pages[q]]
  /\ UNCHANGED <<contents, webSockets>>

-----------------------------------------------------------------------------
(* A page connects *)

FreeLinks == {l \in SocketNo : webSockets[l] = "unused"}

\* HandleWSConnections up to the registration; onopen in the client.
Register(p) ==
  /\ pages[p].at = "away" /\ FreeLinks # {}
  /\ LET l == CHOOSE x \in FreeLinks : \A y \in FreeLinks : x <= y
     IN  /\ webSockets' = [webSockets EXCEPT ![l] = "served"]
         /\ pages' = [pages EXCEPT ![p].at = "registered", ![p].link = l, ![p].attempts = 0]
  /\ UNCHANGED <<contents, notices>>

\* The initial state is put together without a lock.
TakeInitial(p) ==
  /\ pages[p].at = "registered"
  /\ pages' = [pages EXCEPT ![p].at = "writing", ![p].snapshot = contents]
  /\ UNCHANGED <<contents, notices, webSockets>>

\* Event_Initial in the client: shown as it is.
TakesInitial(page) ==
  [Hears(page, page.snapshot) EXCEPT
     !.at = "open", !.snapshot = NoContents, !.last = page.snapshot.title,
     !.shown = page.snapshot.title, !.due = TRUE, !.hasty = FALSE]

WriteInitial(p) ==
  /\ pages[p].at = "writing"
  /\ pages' = [pages EXCEPT ![p] = TakesInitial(@)]
  /\ UNCHANGED <<contents, notices, webSockets>>

\* onclose: after the last attempt the page says that the queue has ended.
Closed(page) ==
  [page EXCEPT !.attempts = @ + 1, !.snapshot = NoContents, !.link = 0, !.missed = FALSE,
               !.told = [queue |-> 0, player |-> 0],
               !.at = IF page.attempts + 1 > MaxAttempts THEN "ended" ELSE "away"]

\* The write of the initial state meets that of a handler and panics instead.  The
\* socket is closed by the deferred call, and stays in the map.
InitialPanics(p, n) ==
  /\ pages[p].at = "writing" /\ n.at = "taken"
  /\ webSockets' = [webSockets EXCEPT ![pages[p].link] = "deserted"]
  /\ pages' = [pages EXCEPT ![p] = Closed(@)]
  /\ UNCHANGED <<contents, notices>>

\* A link breaks, ...
LoseLink(p) ==
  /\ pages[p].at \in {"registered", "writing", "open"}
  /\ pages' = [pages EXCEPT ![p] = Closed(@)]
  /\ UNCHANGED <<contents, notices, webSockets>>

\* ... which the server learns when its read fails.
Unregister(l) ==
  /\ l \in Stale /\ webSockets[l] = "served"
  /\ webSockets' = [webSockets EXCEPT ![l] = "gone"]
  /\ UNCHANGED <<contents, notices, pages>>

ConnectFails(p) ==
  /\ pages[p].at = "away"
  /\ pages' = [pages EXCEPT ![p] = Closed(@)]
  /\ UNCHANGED <<contents, notices, webSockets>>

\* Slip: the ID stays when there is no song.
RenderSongOnly(p) ==
  /\ pages[p].due
  /\ pages' = [pages EXCEPT ![p].due = FALSE,
                 ![p].ref = IF pages[p].shown = NoTitle THEN @ ELSE pages[p].shown]
  /\ UNCHANGED <<contents, notices, webSockets>>

\* The effect that runs after a render keeps the ID of the song that is shown.
Render(p) ==
  /\ pages[p].due
  /\ pages' = [pages EXCEPT ![p].due = FALSE, ![p].ref = pages[p].shown]
  /\ UNCHANGED <<contents, notices, webSockets>>

DashboardGoesOn ==
  \/ \E n \in notices : TakeLists(n) \/ \E failing \in SUBSET Stale : SendToWebsockets(n, failing)
  \/ \E p \in Page : TakeInitial(p) \/ WriteInitial(p) \/ Render(p)
  \/ \E l \in SocketNo : Unregister(l)

DashboardNext ==
  \/ ChangeState \/ \E t \in Shown : ChangeQueue(t)
  \/ \E n \in notices, p \in Page :
       InitialPanics(p, n) \/ \E before \in SUBSET Page : SendPanics(n, p, before)
  \/ \E p \in Page : Register(p) \/ LoseLink(p) \/ ConnectFails(p)
  \/ DashboardGoesOn

DashboardSpec == DashboardInit /\ [][DashboardNext]_dashboardVars

-----------------------------------------------------------------------------
(* Properties *)

\* When every handler has run, a page that is connected has been told the newest lists and
\* the newest state at some time, by a handler or by the initial state: no change falls between
\* the two (Server/Socket.go:86 registers first and reads afterwards).  Nothing is said of a
\* page to whose link two writes have met, nor of what came to the page last.
PagesAreTold ==
  \A p \in Page :
    notices = {} /\ pages[p].at = "open" /\ ~pages[p].missed
      => pages[p].told = [queue |-> contents.queue, player |-> contents.player]

\* A page shows the song it was told last (App.tsx:225), over all its connections.  Nothing
\* is said when the last message names no song, or came before the change of the one before
\* it was rendered.
ShownIsTold ==
  \A p \in Page : pages[p].last # NoTitle /\ ~pages[p].hasty => pages[p].shown = pages[p].last

\* Every handler has told and every page that registered has its initial state.
PagesOver ==
  notices = {} /\ \A p \in Page : pages[p].at \notin {"registered", "writing"} /\ ~pages[p].due
=============================================================================
