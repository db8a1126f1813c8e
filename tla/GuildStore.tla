----------------------------- MODULE GuildStore -----------------------------
(* The store of guilds (Structs/Guild.go) at one ID, the guild objects it  *)
(* has held, and the goroutines that work on them: a command that connects,*)
(* one that leaves, a timer, the handler of Discord's voice events         *)
(* (Handlers/Loader.go), the close of a voice gateway, and a dashboard's   *)
(* websocket (Server/Socket.go).  A goroutine that has looked a guild up   *)
(* keeps the object, whether or not the store still has it.                *)
EXTENDS VoiceConn

CONSTANTS Worker, MaxConnects, MaxCalls

\* MaxConnects bounds the commands that connect, and there is an object and a
\* connection for each; MaxCalls bounds the other commands, the dashboards,
\* the gateways that fail and the kicks.
ASSUME StoreAssumption ==
  /\ MaxConnects \in Nat \ {0} /\ MaxConnects <= MaxConns
  /\ MaxCalls \in Nat

Object  == 1 .. MaxConnects   \* guild objects, in the order of their creation
NoGuild == 0

VARIABLES
  store,     \* GuildStore at this ID
  created,   \* how many objects there are
  guilds,    \* what each object holds
  workers,   \* the goroutines
  listeners, \* voice events given to the loader's goroutine, by their cause
  connects,  \* commands begun that connect, and
  calls      \* the others, for the bounds

counters  == <<connects, calls>>
storeVars == <<store, created, guilds, workers, listeners, counters>>
vars == <<voiceVars, storeVars>>

\* mutex is StreamerMutex, conn VoiceConnection; sockets is WebSockets, which
\* is nil once gone; socketMutex is "dead" when its holder panicked.
Guild == [mutex : BOOLEAN, conn : Conn \cup {NoConn}, disconnecting : BOOLEAN,
          timer : BOOLEAN, sockets : SUBSET Worker, gone : BOOLEAN,
          socketMutex : {"free", "dead"}]

NewObject == [mutex |-> FALSE, conn |-> NoConn, disconnecting |-> FALSE,
              timer |-> FALSE, sockets |-> {}, gone |-> FALSE,
              socketMutex |-> "free"]

Idle == [at |-> "idle", guild |-> NoGuild, conn |-> NoConn]

\* Where a goroutine is: with nothing looked up yet, with a guild, opening a
\* connection for its guild, or in a Close, which a gateway's goroutine
\* calls without a guild.
Looking  == [at : {"create"}, guild : {NoGuild}, conn : {NoConn}]
OnGuild  == [at : {"connect", "cleanup", "sockets", "receiver", "voice",
                   "register", "reading", "unregister"},
             guild : Object, conn : {NoConn}]
OnBoth   == [at : {"opening"}, guild : Object, conn : Conn]
OnConn   == [at : {"closing", "removing", "shutting"},
             guild : Object \cup {NoGuild}, conn : Conn]
Task     == {Idle} \cup Looking \cup OnGuild \cup OnBoth \cup OnConn

StoreTypeOK ==
  /\ store \in Object \cup {NoGuild}
  /\ created \in 0 .. MaxConnects
  /\ guilds \in [Object -> Guild]
  /\ workers \in [Worker -> Task]
  /\ listeners \in Seq(Cause)
  /\ connects \in 0 .. MaxConnects /\ calls \in 0 .. MaxCalls

TypeOK == VoiceTypeOK /\ StoreTypeOK

Init ==
  /\ VoiceInit
  /\ store = NoGuild /\ created = 0
  /\ guilds = [g \in Object |-> NewObject]
  /\ workers = [w \in Worker |-> Idle]
  /\ listeners = <<>> /\ connects = 0 /\ calls = 0

-----------------------------------------------------------------------------

At(w, where)   == workers[w].at = where
Of(w)          == workers[w].guild
Goes(w, where) == workers' = [workers EXCEPT ![w].at = where]
Ends(w)        == workers' = [workers EXCEPT ![w] = Idle]

Begins(w, where, g, c) ==
  workers' = [workers EXCEPT ![w] = [at |-> where, guild |-> g, conn |-> c]]

Called ==
  /\ calls < MaxCalls
  /\ calls' = calls + 1
  /\ UNCHANGED connects

(* GetGuild with Create: the store is read under its mutex, which is given *)
(* up before the guild is looked up at Discord and made.                   *)
ConnectCommand(w) ==
  /\ At(w, "idle") /\ connects < MaxConnects
  /\ connects' = connects + 1
  /\ IF store # NoGuild THEN Begins(w, "connect", store, NoConn)
                        ELSE Begins(w, "create", NoGuild, NoConn)
  /\ UNCHANGED <<voiceVars, store, created, guilds, listeners, calls>>

(* NewGuild replaces whatever the store has by now.                        *)
NewGuild(w) ==
  /\ At(w, "create") /\ created < MaxConnects
  /\ created' = created + 1
  /\ store' = created'
  /\ Begins(w, "connect", created', NoConn)
  /\ UNCHANGED <<voiceVars, guilds, listeners, counters>>

(* Connect, on a guild that has a connection already: the Connect command  *)
(* arms the inactivity timer, Play does not.                               *)
Connected(w) ==
  /\ At(w, "connect") /\ ~guilds[Of(w)].mutex /\ guilds[Of(w)].conn # NoConn
  /\ \E armed \in BOOLEAN :
       guilds' = [guilds EXCEPT ![Of(w)].timer = @ \/ armed]
  /\ Ends(w)
  /\ UNCHANGED <<voiceVars, store, created, listeners, counters>>

(* Connect holds StreamerMutex while it waits for the connection.          *)
OpenConn(w) ==
  /\ At(w, "connect") /\ ~guilds[Of(w)].mutex /\ guilds[Of(w)].conn = NoConn
  /\ \E c \in Conn :
       /\ CreateConn(c)
       /\ Begins(w, "opening", Of(w), c)
  /\ guilds' = [guilds EXCEPT ![Of(w)].mutex = TRUE]
  /\ RequestJoin
  /\ UNCHANGED <<conns, store, created, listeners, counters>>

ConnOpened(w) ==
  /\ At(w, "opening")
  /\ TakeOpened(workers[w].conn)
  /\ \E armed \in BOOLEAN :
       guilds' = [guilds EXCEPT ![Of(w)].conn = workers[w].conn,
                                ![Of(w)].mutex = FALSE,
                                ![Of(w)].timer = @ \/ armed]
  /\ Ends(w)
  /\ UNCHANGED <<made, manager, inVoice, events, store, created,
                 listeners, counters>>

\* Slip: a Connect that fails returns without closing the connection.
GiveUpOpen(w) ==
  /\ At(w, "opening")
  /\ guilds' = [guilds EXCEPT ![Of(w)].mutex = FALSE]
  /\ Ends(w)
  /\ UNCHANGED <<voiceVars, store, created, listeners, counters>>

(* Ten seconds have passed: the connection is closed again.                *)
OpenTimesOut(w) ==
  /\ At(w, "opening")
  /\ RequestLeave("other")
  /\ Goes(w, "closing")
  /\ UNCHANGED <<conns, made, manager, store, created, guilds,
                 listeners, counters>>

-----------------------------------------------------------------------------
(* Cleanup, and who calls it                                               *)

LeaveCommand(w) ==
  /\ At(w, "idle") /\ Called /\ store # NoGuild
  /\ Begins(w, "cleanup", store, NoConn)
  /\ UNCHANGED <<voiceVars, store, created, guilds, listeners>>

(* The timer calls Disconnect, which sets the flag before Cleanup does.    *)
TimerFires(w) ==
  /\ At(w, "idle")
  /\ \E g \in Object :
       /\ guilds[g].timer
       /\ guilds' = [guilds EXCEPT ![g].timer = FALSE,
                                   ![g].disconnecting = TRUE]
       /\ Begins(w, "cleanup", g, NoConn)
  /\ UNCHANGED <<voiceVars, store, created, listeners, counters>>

(* The bot's voice state has no channel: the manager's connection is told, *)
(* and then the loader's goroutine starts.                                 *)
VoiceLeft ==
  /\ HandleLeft
  /\ listeners' = Append(listeners, Head(events).cause)
  /\ UNCHANGED <<store, created, guilds, workers, counters>>

VoiceJoined == HandleJoined /\ UNCHANGED storeVars

\* Slip: the handler does not look whether the store has a guild.
LoaderCleansMissing(w) ==
  /\ At(w, "idle") /\ listeners # <<>>
  /\ listeners' = Tail(listeners)
  /\ Begins(w, "cleanup", store, NoConn)
  /\ UNCHANGED <<voiceVars, store, created, guilds, counters>>

(* The loader takes whatever guild the store has when it gets to look.     *)
LoaderHandles(w) ==
  /\ At(w, "idle") /\ listeners # <<>>
  /\ listeners' = Tail(listeners)
  /\ IF store # NoGuild /\ ~guilds[store].disconnecting
     THEN Begins(w, "cleanup", store, NoConn)
     ELSE UNCHANGED workers
  /\ UNCHANGED <<voiceVars, store, created, guilds, counters>>

\* Slip: the guild stays in the store until its connection is closed.
CleanupInStore(w) ==
  /\ At(w, "cleanup") /\ ~guilds[Of(w)].mutex
  /\ guilds' = [guilds EXCEPT ![Of(w)].mutex = TRUE,
                              ![Of(w)].disconnecting = TRUE,
                              ![Of(w)].timer = FALSE]
  /\ Goes(w, "sockets")
  /\ UNCHANGED <<voiceVars, store, created, listeners, counters>>

(* The entry at the ID goes, whichever guild it is.                        *)
Cleanup(w) ==
  /\ At(w, "cleanup") /\ ~guilds[Of(w)].mutex
  /\ guilds' = [guilds EXCEPT ![Of(w)].mutex = TRUE,
                              ![Of(w)].disconnecting = TRUE,
                              ![Of(w)].timer = FALSE]
  /\ store' = NoGuild
  /\ Goes(w, "sockets")
  /\ UNCHANGED <<voiceVars, created, listeners, counters>>

CloseSockets(w) ==
  /\ At(w, "sockets") /\ guilds[Of(w)].socketMutex = "free"
  /\ guilds' = [guilds EXCEPT ![Of(w)].sockets = {}, ![Of(w)].gone = TRUE]
  /\ Goes(w, "receiver")
  /\ UNCHANGED <<voiceVars, store, created, listeners, counters>>

(* VoiceReceiver.Close waits for the workers of all speakers with          *)
(* StreamerMutex held, which a worker may want itself: CaptureSession has  *)
(* the wait, and here it may end at any time or never.                     *)
CloseReceiver(w) ==
  /\ At(w, "receiver")
  /\ Goes(w, "voice")
  /\ UNCHANGED <<voiceVars, store, created, guilds, listeners, counters>>

NothingToClose(w) ==
  /\ At(w, "voice") /\ guilds[Of(w)].conn = NoConn
  /\ guilds' = [guilds EXCEPT ![Of(w)].mutex = FALSE]
  /\ Ends(w)
  /\ UNCHANGED <<voiceVars, store, created, listeners, counters>>

BeginClose(w) ==
  /\ At(w, "voice") /\ guilds[Of(w)].conn # NoConn
  /\ Begins(w, "closing", Of(w), guilds[Of(w)].conn)
  /\ guilds' = [guilds EXCEPT ![Of(w)].conn = NoConn]
  /\ RequestLeave("cleanup")
  /\ UNCHANGED <<conns, made, manager, store, created, listeners,
                 counters>>

-----------------------------------------------------------------------------
(* Close of a connection, for the Connect that gives up, the Cleanup, and  *)
(* a voice gateway that ends without the bot's doing: handleGatewayClose   *)

GatewayClosed(w) ==
  /\ At(w, "idle") /\ Called
  /\ \E c \in Conn :
       /\ conns[c].up
       /\ conns' = [conns EXCEPT ![c].up = FALSE]
       /\ Begins(w, "closing", NoGuild, c)
  /\ RequestLeave("other")
  /\ UNCHANGED <<made, manager, store, created, guilds, listeners>>

CloseWaits(w) ==
  /\ At(w, "closing")
  /\ AwaitClosed(workers[w].conn)
  /\ Goes(w, "removing")
  /\ UNCHANGED <<made, inVoice, events, store, created, guilds,
                 listeners, counters>>

CloseRemoves(w) ==
  /\ At(w, "removing")
  /\ ForgetConn(workers[w].conn)
  /\ Goes(w, "shutting")
  /\ UNCHANGED <<made, inVoice, events, store, created, guilds,
                 listeners, counters>>

(* The deferred calls, and the return of whoever called Close, which gives *)
(* StreamerMutex up if it has it.                                          *)
CloseReturns(w) ==
  /\ At(w, "shutting")
  /\ ShutGateway(workers[w].conn)
  /\ IF Of(w) = NoGuild THEN UNCHANGED guilds
     ELSE guilds' = [guilds EXCEPT ![Of(w)].mutex = FALSE]
  /\ Ends(w)
  /\ UNCHANGED <<made, manager, inVoice, events, store, created,
                 listeners, counters>>

-----------------------------------------------------------------------------
(* A dashboard: HandleWSConnections                                        *)

OpenDashboard(w) ==
  /\ At(w, "idle") /\ Called /\ store # NoGuild
  /\ Begins(w, "register", store, NoConn)
  /\ UNCHANGED <<voiceVars, store, created, guilds, listeners>>

\* Slip: a map that is nil is made again, as a guard against the panic would.
RegisterAnyway(w) ==
  /\ At(w, "register") /\ guilds[Of(w)].socketMutex = "free"
  /\ guilds' = [guilds EXCEPT ![Of(w)].sockets = @ \cup {w}]
  /\ Goes(w, "reading")
  /\ UNCHANGED <<voiceVars, store, created, listeners, counters>>

(* A write to the map of a guild that was cleaned up panics, with the      *)
(* mutex held; the socket is closed by the deferred call.                  *)
Register(w) ==
  /\ At(w, "register") /\ guilds[Of(w)].socketMutex = "free"
  /\ IF guilds[Of(w)].gone
     THEN /\ guilds' = [guilds EXCEPT ![Of(w)].socketMutex = "dead"]
          /\ Ends(w)
     ELSE /\ guilds' = [guilds EXCEPT ![Of(w)].sockets = @ \cup {w}]
          /\ Goes(w, "reading")
  /\ UNCHANGED <<voiceVars, store, created, listeners, counters>>

(* The browser closes its end, or Cleanup has closed ours.                 *)
SocketEnds(w) ==
  /\ At(w, "reading")
  /\ Goes(w, "unregister")
  /\ UNCHANGED <<voiceVars, store, created, guilds, listeners, counters>>

Unregister(w) ==
  /\ At(w, "unregister") /\ guilds[Of(w)].socketMutex = "free"
  /\ guilds' = [guilds EXCEPT ![Of(w)].sockets = @ \ {w}]
  /\ Ends(w)
  /\ UNCHANGED <<voiceVars, store, created, listeners, counters>>

-----------------------------------------------------------------------------

Runs(w) ==
  \/ NewGuild(w) \/ Connected(w) \/ OpenConn(w) \/ ConnOpened(w)
  \/ OpenTimesOut(w)
  \/ Cleanup(w) \/ CloseSockets(w) \/ NothingToClose(w) \/ BeginClose(w)
  \/ CloseWaits(w) \/ CloseRemoves(w) \/ CloseReturns(w)
  \/ Register(w) \/ Unregister(w)

Starts(w) ==
  \/ ConnectCommand(w) \/ LeaveCommand(w) \/ TimerFires(w)
  \/ GatewayClosed(w) \/ OpenDashboard(w) \/ SocketEnds(w)

Connecting(c) == GatewayOpens(c) /\ UNCHANGED storeVars

Kicked ==
  /\ Kick /\ Called
  /\ UNCHANGED <<store, created, guilds, workers, listeners>>

Next ==
  \/ \E w \in Worker : Runs(w) \/ CloseReceiver(w) \/ Starts(w) \/ LoaderHandles(w)
  \/ \E c \in Conn : Connecting(c)
  \/ VoiceLeft \/ VoiceJoined \/ Kicked

Spec == Init /\ [][Next]_vars

(* The Go scheduler runs every goroutine that can run, and timeouts fire.  *)
(* Nothing is assumed of Discord, of the goroutine that handles its        *)
(* events, and of the workers for which CloseReceiver waits.               *)
FairSpec ==
  /\ Spec
  /\ \A w \in Worker : WF_vars(Runs(w)) /\ WF_vars(LoaderHandles(w))

-----------------------------------------------------------------------------
(* Properties                                                              *)

(* A guild that Cleanup has taken out of the store never comes back to it, *)
(* and every later command gets another object: the comment of             *)
(* Guild.go:404.                                                           *)
CleanedStaysOut ==
  \A g \in Object : guilds[g].gone => store # g

(* No dashboard is registered in a guild that was cleaned up, so none      *)
(* waits for news that never come (Guild.go:421).                          *)
NoSocketInCleaned ==
  \A g \in Object : guilds[g].gone => guilds[g].sockets = {}

(* A connection that is not closed yet is the VoiceConnection of some      *)
(* guild object, which closes it in its Cleanup, or a Connect, a Cleanup   *)
(* or the library is at work on it: none is forgotten, although two        *)
(* objects may share one and a Close may be for a connection that is closed*)
(* already (Guild.go:226, :482).                                           *)
EveryConnHasOwner ==
  \A c \in Conn : c <= made /\ ~conns[c].removed =>
    \/ \E g \in Object : guilds[g].conn = c
    \/ \E w \in Worker : workers[w].conn = c

(* Once a guild is cleaned up, nothing brings it back and nobody is left in*)
(* it.                                                                     *)
CleanedIsDone == CleanedStaysOut /\ NoSocketInCleaned

(* Every connection that is not closed is known to the manager, which gives*)
(* it its events, and to somebody who will close it.                       *)
ConnsAreKept == UnclosedIsKnown /\ EveryConnHasOwner

\* A dashboard that registered too late has left its guild's SocketMutex locked.
SocketMutexLost == \E g \in Object : guilds[g].socketMutex = "dead"

\* A Cleanup waits for the workers of its guild's receiver.
WaitsForWorkers(g) == \E v \in Worker : At(v, "receiver") /\ Of(v) = g


(* The loader leaves a disconnection alone that a Cleanup asked for: the   *)
(* comment of Loader.go:641.                                               *)
OnlyKicksAreCleaned ==
  [][\A w \in Worker : LoaderHandles(w) /\ Head(listeners) = "cleanup"
        => workers'[w] = workers[w]]_vars
=============================================================================
