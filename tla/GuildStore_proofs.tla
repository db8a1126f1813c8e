-------------------------- MODULE GuildStore_proofs --------------------------
(***************************************************************************)
(* The store of guilds and the voice connections, for any number of        *)
(* goroutines, commands and connections: what was cleaned up stays out of  *)
(* the store, and no connection is forgotten.                              *)
(***************************************************************************)
EXTENDS GuildStore, TLAPS

\* The states of a goroutine that has a guild, and of one that has a connection too.
GuildAt == {"connect", "cleanup", "sockets", "receiver", "voice", "register", "reading", "unregister"}
CloseAt == {"closing", "removing", "shutting"}
ConnAt  == {"opening"} \cup CloseAt

\* What a task has, by where its goroutine is.
LEMMA TaskFacts ==
  ASSUME NEW t \in Task
  PROVE  /\ t = [at |-> t.at, guild |-> t.guild, conn |-> t.conn]
         /\ t.at \in {"idle", "create"} \cup GuildAt \cup ConnAt
         /\ t.at \in GuildAt => t.guild \in Object /\ t.conn = NoConn
         /\ t.at = "opening" => t.guild \in Object /\ t.conn \in Conn
         /\ t.at \in CloseAt => t.guild \in Object \cup {NoGuild} /\ t.conn \in Conn
         /\ t.at \in {"idle", "create"} => t.guild = NoGuild /\ t.conn = NoConn
BY DEF Task, Idle, Looking, OnGuild, OnBoth, OnConn, GuildAt, CloseAt, ConnAt

\* The tasks there are.
LEMMA TaskIs ==
  /\ Idle \in Task /\ [at |-> "create", guild |-> NoGuild, conn |-> NoConn] \in Task
  /\ \A a \in GuildAt, g \in Object : [at |-> a, guild |-> g, conn |-> NoConn] \in Task
  /\ \A g \in Object, c \in Conn : [at |-> "opening", guild |-> g, conn |-> c] \in Task
  /\ \A a \in CloseAt, g \in Object \cup {NoGuild}, c \in Conn :
       [at |-> a, guild |-> g, conn |-> c] \in Task
BY DEF Task, Idle, Looking, OnGuild, OnBoth, OnConn, GuildAt, CloseAt

\* The initial state has the type.
LEMMA TypeInit == Init => TypeOK
<1> SUFFICES ASSUME Init PROVE TypeOK
  OBVIOUS
<1>1. VoiceTypeOK
  <2>1. NewConn \in Connection
    BY DEF NewConn, Connection
  <2>2. conns \in [Conn -> Connection]
    BY <2>1 DEF Init, VoiceInit
  <2>3. events \in Seq(Event)
    BY DEF Init, VoiceInit
  <2>4. made \in 0 .. MaxConns /\ manager \in Conn \cup {NoConn}
    BY VoiceAssumption DEF Init, VoiceInit
  <2>5. inVoice \in BOOLEAN
    BY DEF Init, VoiceInit
  <2> QED
    BY <2>2, <2>3, <2>4, <2>5 DEF VoiceTypeOK
<1>2. NewObject \in Guild
  BY DEF NewObject, Guild
<1>3. StoreTypeOK
  BY <1>2, TaskIs, StoreAssumption DEF Init, StoreTypeOK
<1> QED
  BY <1>1, <1>3 DEF TypeOK

\* A goroutine that goes on keeps its guild and its connection, and the others stay.
LEMMA GoesFacts ==
  ASSUME workers \in [Worker -> Task], NEW w \in Worker, NEW a, Goes(w, a)
  PROVE  /\ workers'[w].at = a
         /\ \A v \in Worker : /\ v # w => workers'[v] = workers[v]
                              /\ workers'[v].guild = workers[v].guild
                              /\ workers'[v].conn = workers[v].conn
<1>1. workers[w] = [at |-> workers[w].at, guild |-> workers[w].guild, conn |-> workers[w].conn]
  BY TaskFacts
<1> QED
  BY <1>1 DEF Goes

\* The only steps that change the voice connections.
LEMMA VoiceSteps ==
  ASSUME [Next]_vars
  PROVE  \/ UNCHANGED voiceVars
         \/ \E w \in Worker :
              \/ OpenConn(w) \/ ConnOpened(w) \/ OpenTimesOut(w) \/ BeginClose(w)
              \/ CloseWaits(w) \/ CloseRemoves(w) \/ CloseReturns(w) \/ GatewayClosed(w)
         \/ \E c \in Conn : GatewayOpens(c)
         \/ HandleLeft \/ HandleJoined \/ Kick
BY DEF Next, Runs, Starts, NewGuild, Connected, Cleanup, CloseSockets, CloseReceiver, NothingToClose,
       Register, Unregister, ConnectCommand, LeaveCommand, TimerFires, OpenDashboard, SocketEnds, LoaderHandles, Connecting,
       VoiceLeft,
       VoiceJoined, Kicked, vars

\* The only steps that change the guild objects.
LEMMA GuildSteps ==
  ASSUME [Next]_vars
  PROVE  \/ UNCHANGED guilds
         \/ \E w \in Worker :
              \/ Connected(w) \/ OpenConn(w) \/ ConnOpened(w) \/ CloseReturns(w)
              \/ NothingToClose(w) \/ Cleanup(w) \/ CloseSockets(w) \/ BeginClose(w) \/ TimerFires(w)
              \/ Register(w) \/ Unregister(w)
BY DEF Next, Runs, Starts, NewGuild, OpenTimesOut, CloseReceiver, CloseWaits, CloseRemoves,
       ConnectCommand, LeaveCommand, GatewayClosed,
       OpenDashboard, SocketEnds, LoaderHandles, Connecting, VoiceLeft, VoiceJoined, Kicked, vars, storeVars

\* What a step does to the voice connections keeps their type.
LEMMA VoiceType ==
  ASSUME TypeOK, [Next]_vars
  PROVE  VoiceTypeOK'
<1>1. /\ conns \in [Conn -> Connection] /\ made \in 0 .. MaxConns /\ manager \in Conn \cup {NoConn}
      /\ inVoice \in BOOLEAN /\ events \in Seq(Event)
      /\ workers \in [Worker -> Task]
  BY DEF TypeOK, StoreTypeOK, VoiceTypeOK
<1>2. \A e \in Event : Append(events, e) \in Seq(Event)
  BY <1>1
<1>3. Joined \in Event /\ \A k \in {"cleanup", "other"} : Left(k) \in Event
  BY DEF Event, Cause
<1>4. ASSUME NEW k \in {"cleanup", "other"}, RequestLeave(k)
      PROVE  inVoice' \in BOOLEAN /\ events' \in Seq(Event)
  BY <1>4, <1>1, <1>2, <1>3 DEF RequestLeave, Leaves
<1>5. ASSUME NEW c \in Conn, AwaitClosed(c) \/ ForgetConn(c) \/ ShutGateway(c)
      PROVE  conns' \in [Conn -> Connection]
  <2>1. conns[c] \in Connection
    BY <1>1
  <2>2. PICK b \in BOOLEAN :
          \/ conns' = [conns EXCEPT ![c].closed = IF @ = "token" /\ ~b THEN "shut" ELSE @]
          \/ conns' = [conns EXCEPT ![c].removed = TRUE]
          \/ conns' = [conns EXCEPT ![c].up = FALSE, ![c].opening = @ /\ b]
    BY <1>5 DEF AwaitClosed, ForgetConn, ShutGateway
  <2>3. /\ [conns[c] EXCEPT !.closed = IF @ = "token" /\ ~b THEN "shut" ELSE @] \in Connection
        /\ [conns[c] EXCEPT !.removed = TRUE] \in Connection
        /\ [conns[c] EXCEPT !.up = FALSE, !.opening = @ /\ b] \in Connection
    BY <2>1 DEF Connection
  <2> QED
    BY <1>1, <2>2, <2>3
<1>6. \A w \in Worker : workers[w].at \in ConnAt => workers[w].conn \in Conn
  BY <1>1, TaskFacts DEF ConnAt
<1>7. CASE UNCHANGED voiceVars
  BY <1>7, <1>1 DEF VoiceTypeOK, voiceVars
<1>8. ASSUME NEW w \in Worker,
             OpenConn(w) \/ ConnOpened(w) \/ OpenTimesOut(w) \/ BeginClose(w) \/ GatewayClosed(w)
      PROVE  VoiceTypeOK'
  <2>1. CASE OpenConn(w)
    <3>1. made' \in 0 .. MaxConns /\ manager' \in Conn \cup {NoConn}
      BY <2>1, <1>1, VoiceAssumption DEF OpenConn, CreateConn, Conn, NoConn
    <3>2. inVoice' \in BOOLEAN /\ events' \in Seq(Event)
      BY <2>1, <1>1, <1>2, <1>3 DEF OpenConn, RequestJoin
    <3> QED
      BY <2>1, <1>1, <3>1, <3>2 DEF OpenConn, VoiceTypeOK
  <2>2. CASE ConnOpened(w)
    <3>1. workers[w].conn \in Conn
      BY <2>2, <1>6 DEF ConnOpened, At, ConnAt
    <3>2. conns[workers[w].conn] \in Connection
      BY <3>1, <1>1
    <3>3. conns' = [conns EXCEPT ![workers[w].conn].opened = FALSE]
      BY <2>2 DEF ConnOpened, TakeOpened
    <3>4. conns' \in [Conn -> Connection]
      BY <3>1, <3>2, <3>3, <1>1 DEF Connection
    <3> QED
      BY <2>2, <1>1, <3>4 DEF ConnOpened, VoiceTypeOK
  <2>3. CASE OpenTimesOut(w) \/ BeginClose(w)
    BY <2>3, <1>1, <1>4 DEF OpenTimesOut, BeginClose, VoiceTypeOK
  <2>4. CASE GatewayClosed(w)
    <3>1. PICK c \in Conn : conns' = [conns EXCEPT ![c].up = FALSE]
      BY <2>4 DEF GatewayClosed
    <3>2. conns[c] \in Connection
      BY <1>1
    <3>3. conns' \in [Conn -> Connection]
      BY <3>1, <3>2, <1>1 DEF Connection
    <3> QED
      BY <2>4, <1>1, <1>4, <3>3 DEF GatewayClosed, VoiceTypeOK
  <2> QED
    BY <1>8, <2>1, <2>2, <2>3, <2>4
<1>9. ASSUME NEW w \in Worker, CloseWaits(w) \/ CloseRemoves(w) \/ CloseReturns(w)
      PROVE  VoiceTypeOK'
  <2> DEFINE c == workers[w].conn
  <2>1. c \in Conn
    BY <1>9, <1>6 DEF CloseWaits, CloseRemoves, CloseReturns, At, ConnAt, CloseAt
  <2>2. AwaitClosed(c) \/ ForgetConn(c) \/ ShutGateway(c)
    BY <1>9 DEF CloseWaits, CloseRemoves, CloseReturns
  <2>3. manager' \in Conn \cup {NoConn} /\ UNCHANGED <<made, inVoice, events>>
    BY <1>9, <1>1 DEF CloseWaits, CloseRemoves, CloseReturns, AwaitClosed, ForgetConn
  <2> HIDE DEF c
  <2> QED
    BY <1>1, <1>5, <2>1, <2>2, <2>3 DEF VoiceTypeOK
<1>10. ASSUME NEW c \in Conn, GatewayOpens(c) PROVE VoiceTypeOK'
  BY <1>10, <1>1 DEF GatewayOpens, VoiceTypeOK, Connection
<1>11. CASE HandleLeft \/ HandleJoined
  <2>1. events' \in Seq(Event)
    <3>1. events # <<>> => Tail(events) \in Seq(Event)
      BY <1>1
    <3> QED
      BY <1>11, <3>1 DEF HandleLeft, HandleJoined
  <2>2. conns' \in [Conn -> Connection]
    <3>1. CASE manager = NoConn
      BY <3>1, <1>11, <1>1 DEF HandleLeft, HandleJoined
    <3>2. CASE manager # NoConn
      <4>1. manager \in Conn /\ conns[manager] \in Connection
        BY <3>2, <1>1
      <4>2. CASE HandleLeft
        <5>1. PICK b \in BOOLEAN :
                conns' = [conns EXCEPT ![manager].closed = "token", ![manager].up = FALSE,
                                       ![manager].opening = @ /\ b]
          BY <3>2, <4>2 DEF HandleLeft
        <5>2. [conns[manager] EXCEPT !.closed = "token", !.up = FALSE, !.opening = @ /\ b] \in Connection
          BY <4>1 DEF Connection
        <5> QED
          BY <5>1, <5>2, <4>1, <1>1
      <4>3. CASE HandleJoined
        <5>1. conns' = [conns EXCEPT ![manager].opening = @ \/ ~conns[manager].up]
          BY <3>2, <4>3 DEF HandleJoined
        <5>2. [conns[manager] EXCEPT !.opening = @ \/ ~conns[manager].up] \in Connection
          BY <4>1 DEF Connection
        <5> QED
          BY <5>1, <5>2, <4>1, <1>1
      <4> QED
        BY <4>2, <4>3, <1>11
    <3> QED
      BY <3>1, <3>2
  <2> QED
    BY <1>11, <1>1, <2>1, <2>2 DEF HandleLeft, HandleJoined, VoiceTypeOK
<1>12. CASE Kick
  BY <1>12, <1>1, <1>2, <1>3 DEF Kick, Leaves, VoiceTypeOK
<1> QED
  BY <1>7, <1>8, <1>9, <1>10, <1>11, <1>12, VoiceSteps

\* What a step does to the guild objects keeps their type.
LEMMA GuildsType ==
  ASSUME TypeOK, [Next]_vars
  PROVE  guilds' \in [Object -> Guild]
<1>1. guilds \in [Object -> Guild] /\ workers \in [Worker -> Task]
  BY DEF TypeOK, StoreTypeOK
<1>2. \A w \in Worker : workers[w].at \in GuildAt \cup {"opening"} =>
        Of(w) \in Object /\ guilds[Of(w)] \in Guild
  BY <1>1, TaskFacts DEF Of, GuildAt
<1>3. \A w \in Worker : workers[w].at = "opening" => workers[w].conn \in Conn
  BY <1>1, TaskFacts
<1>4. CASE UNCHANGED guilds
  BY <1>1, <1>4
<1>5. ASSUME NEW w \in Worker, Connected(w) PROVE guilds' \in [Object -> Guild]
  <2>1. Of(w) \in Object /\ guilds[Of(w)] \in Guild
    BY <1>2, <1>5 DEF Connected, At, GuildAt
  <2>2. PICK armed \in BOOLEAN : guilds' = [guilds EXCEPT ![Of(w)].timer = @ \/ armed]
    BY <1>5 DEF Connected
  <2>3. [guilds[Of(w)] EXCEPT !.timer = @ \/ armed] \in Guild
    BY <2>1 DEF Guild
  <2> QED
    BY <1>1, <2>1, <2>2, <2>3
<1>6. ASSUME NEW w \in Worker, OpenConn(w) PROVE guilds' \in [Object -> Guild]
  <2>1. Of(w) \in Object /\ guilds[Of(w)] \in Guild
    BY <1>2, <1>6 DEF OpenConn, At, GuildAt
  <2>2. [guilds[Of(w)] EXCEPT !.mutex = TRUE] \in Guild
    BY <2>1 DEF Guild
  <2> QED
    BY <1>1, <1>6, <2>1, <2>2 DEF OpenConn
<1>7. ASSUME NEW w \in Worker, ConnOpened(w) PROVE guilds' \in [Object -> Guild]
  <2>1. Of(w) \in Object /\ guilds[Of(w)] \in Guild /\ workers[w].conn \in Conn
    BY <1>2, <1>3, <1>7 DEF ConnOpened, At
  <2>2. PICK armed \in BOOLEAN :
          guilds' = [guilds EXCEPT ![Of(w)].conn = workers[w].conn, ![Of(w)].mutex = FALSE,
                                   ![Of(w)].timer = @ \/ armed]
    BY <1>7 DEF ConnOpened
  <2>3. [guilds[Of(w)] EXCEPT !.conn = workers[w].conn, !.mutex = FALSE, !.timer = @ \/ armed] \in Guild
    BY <2>1 DEF Guild
  <2> QED
    BY <1>1, <2>1, <2>2, <2>3
<1>8. ASSUME NEW w \in Worker, CloseReturns(w) \/ NothingToClose(w)
      PROVE  guilds' \in [Object -> Guild]
  <2>1. Of(w) \in Object \/ UNCHANGED guilds
    BY <1>1, <1>8, TaskFacts DEF CloseReturns, NothingToClose, At, Of, GuildAt, CloseAt
  <2>2. UNCHANGED guilds \/ guilds' = [guilds EXCEPT ![Of(w)].mutex = FALSE]
    BY <1>8 DEF CloseReturns, NothingToClose
  <2>3. CASE Of(w) \in Object /\ guilds' = [guilds EXCEPT ![Of(w)].mutex = FALSE]
    <3>1. [guilds[Of(w)] EXCEPT !.mutex = FALSE] \in Guild
      BY <1>1, <2>3 DEF Guild
    <3> QED
      BY <1>1, <2>3, <3>1
  <2> QED
    BY <1>1, <2>1, <2>2, <2>3
<1>9. ASSUME NEW w \in Worker, Cleanup(w) PROVE guilds' \in [Object -> Guild]
  BY <1>1, <1>2, <1>9 DEF Cleanup, At, GuildAt, Guild
<1>10. ASSUME NEW w \in Worker, CloseSockets(w) PROVE guilds' \in [Object -> Guild]
  BY <1>1, <1>2, <1>10 DEF CloseSockets, At, GuildAt, Guild
<1>11. ASSUME NEW w \in Worker, BeginClose(w) PROVE guilds' \in [Object -> Guild]
  BY <1>1, <1>2, <1>11 DEF BeginClose, At, GuildAt, Guild
<1>12. ASSUME NEW w \in Worker, TimerFires(w) PROVE guilds' \in [Object -> Guild]
  <2>1. PICK g \in Object : guilds' = [guilds EXCEPT ![g].timer = FALSE, ![g].disconnecting = TRUE]
    BY <1>12 DEF TimerFires
  <2> DEFINE stopped == [guilds EXCEPT ![g].timer = FALSE]
  <2>2. stopped \in [Object -> Guild]
    BY <1>1 DEF Guild
  <2>3. guilds' = [stopped EXCEPT ![g].disconnecting = TRUE]
    BY <2>1
  <2> HIDE DEF stopped
  <2> QED
    BY <2>2, <2>3 DEF Guild
<1>13. ASSUME NEW w \in Worker, Register(w) \/ Unregister(w) PROVE guilds' \in [Object -> Guild]
  <2>1. Of(w) \in Object /\ guilds[Of(w)] \in Guild
    BY <1>2, <1>13 DEF Register, Unregister, At, GuildAt
  <2>2. /\ [guilds[Of(w)] EXCEPT !.sockets = @ \cup {w}] \in Guild
        /\ [guilds[Of(w)] EXCEPT !.sockets = @ \ {w}] \in Guild
        /\ [guilds[Of(w)] EXCEPT !.socketMutex = "dead"] \in Guild
    BY <2>1 DEF Guild
  <2> QED
    BY <1>1, <1>13, <2>1, <2>2 DEF Register, Unregister
<1> QED
  BY <1>4, <1>5, <1>6, <1>7, <1>8, <1>9, <1>10, <1>11, <1>12, <1>13, GuildSteps

\* What a step does to the goroutines keeps their type.
LEMMA WorkersType ==
  ASSUME TypeOK, [Next]_vars
  PROVE  workers' \in [Worker -> Task]
<1>1. guilds \in [Object -> Guild] /\ workers \in [Worker -> Task] /\ store \in Object \cup {NoGuild}
  BY DEF TypeOK, StoreTypeOK
<1>2. \A w \in Worker : workers[w] \in Task
  BY <1>1
<1>3. ASSUME NEW w \in Worker, NEW t \in Task, workers' = [workers EXCEPT ![w] = t]
      PROVE  workers' \in [Worker -> Task]
  BY <1>1, <1>3
<1>4. ASSUME NEW w \in Worker, Ends(w) PROVE workers' \in [Worker -> Task]
  BY <1>3, <1>4, TaskIs DEF Ends
<1>5. ASSUME NEW w \in Worker, NEW from \in GuildAt, NEW to \in GuildAt, At(w, from), Goes(w, to)
      PROVE  workers' \in [Worker -> Task]
  <2>1. Of(w) \in Object /\ workers[w] = [at |-> from, guild |-> Of(w), conn |-> NoConn]
    BY <1>2, <1>5, TaskFacts DEF At, Of
  <2>2. [workers[w] EXCEPT !.at = to] = [at |-> to, guild |-> Of(w), conn |-> NoConn]
    BY <2>1
  <2>3. [workers[w] EXCEPT !.at = to] \in Task
    BY <2>1, <2>2, TaskIs
  <2> QED
    BY <1>1, <1>5, <2>3 DEF Goes
<1>6. ASSUME NEW w \in Worker, NEW a \in GuildAt, NEW g \in Object, Begins(w, a, g, NoConn)
      PROVE  workers' \in [Worker -> Task]
  BY <1>3, <1>6, TaskIs DEF Begins
<1>7. CASE UNCHANGED workers
  BY <1>1, <1>7
<1>8. ASSUME NEW w \in Worker,
             \/ Connected(w) \/ ConnOpened(w) \/ NothingToClose(w)
             \/ CloseReturns(w) \/ Unregister(w)
      PROVE  workers' \in [Worker -> Task]
  BY <1>4, <1>8 DEF Connected, ConnOpened, NothingToClose, CloseReturns, Unregister
<1>9. ASSUME NEW w \in Worker, Cleanup(w) \/ CloseSockets(w) \/ CloseReceiver(w) \/ SocketEnds(w)
      PROVE  workers' \in [Worker -> Task]
  BY <1>5, <1>9 DEF Cleanup, CloseSockets, CloseReceiver, SocketEnds, GuildAt
<1>10. ASSUME NEW w \in Worker, Register(w) PROVE workers' \in [Worker -> Task]
  BY <1>4, <1>5, <1>10 DEF Register, GuildAt
<1>11. ASSUME NEW w \in Worker, LeaveCommand(w) \/ OpenDashboard(w) \/ LoaderHandles(w)
       PROVE  workers' \in [Worker -> Task]
  BY <1>1, <1>6, <1>11 DEF LeaveCommand, OpenDashboard, LoaderHandles, GuildAt
<1>12. ASSUME NEW w \in Worker, TimerFires(w) PROVE workers' \in [Worker -> Task]
  BY <1>6, <1>12 DEF TimerFires, GuildAt
<1>13. ASSUME NEW w \in Worker, ConnectCommand(w) PROVE workers' \in [Worker -> Task]
  <2>1. CASE store # NoGuild
    BY <2>1, <1>1, <1>6, <1>13 DEF ConnectCommand, GuildAt
  <2>2. CASE store = NoGuild
    BY <2>2, <1>3, <1>13, TaskIs DEF ConnectCommand, Begins
  <2> QED
    BY <2>1, <2>2
<1>14. ASSUME NEW w \in Worker, NewGuild(w) PROVE workers' \in [Worker -> Task]
  <2>1. created' \in Object
    BY <1>14, StoreAssumption DEF NewGuild, Object, TypeOK, StoreTypeOK
  <2> QED
    BY <1>6, <1>14, <2>1 DEF NewGuild, GuildAt
<1>15. ASSUME NEW w \in Worker, OpenConn(w) PROVE workers' \in [Worker -> Task]
  <2>1. PICK c \in Conn : Begins(w, "opening", Of(w), c)
    BY <1>15 DEF OpenConn
  <2>2. Of(w) \in Object
    BY <1>2, <1>15, TaskFacts DEF OpenConn, At, Of, GuildAt
  <2> QED
    BY <1>3, <2>1, <2>2, TaskIs DEF Begins
<1>16. ASSUME NEW w \in Worker, OpenTimesOut(w) \/ CloseWaits(w) \/ CloseRemoves(w)
       PROVE  workers' \in [Worker -> Task]
  <2>1. PICK a \in CloseAt : Goes(w, a)
    BY <1>16 DEF OpenTimesOut, CloseWaits, CloseRemoves, CloseAt
  <2>2. /\ Of(w) \in Object \cup {NoGuild} /\ workers[w].conn \in Conn
        /\ workers[w] = [at |-> workers[w].at, guild |-> Of(w), conn |-> workers[w].conn]
    BY <1>2, <1>16, TaskFacts DEF OpenTimesOut, CloseWaits, CloseRemoves, At, Of, CloseAt
  <2>3. [workers[w] EXCEPT !.at = a] = [at |-> a, guild |-> Of(w), conn |-> workers[w].conn]
    BY <2>2
  <2>4. [workers[w] EXCEPT !.at = a] \in Task
    BY <2>2, <2>3, TaskIs
  <2> QED
    BY <1>1, <2>1, <2>4 DEF Goes
<1>17. ASSUME NEW w \in Worker, BeginClose(w) PROVE workers' \in [Worker -> Task]
  <2>1. Of(w) \in Object /\ workers[w] = [at |-> "voice", guild |-> Of(w), conn |-> NoConn]
    BY <1>2, <1>17, TaskFacts DEF BeginClose, At, Of, GuildAt
  <2>2. guilds[Of(w)].conn \in Conn
    BY <1>1, <1>17, <2>1 DEF BeginClose, Guild
  <2> QED
    BY <1>3, <1>17, <2>1, <2>2, TaskIs DEF BeginClose, Begins, CloseAt
<1>18. ASSUME NEW w \in Worker, GatewayClosed(w) PROVE workers' \in [Worker -> Task]
  BY <1>3, <1>18, TaskIs DEF GatewayClosed, Begins, CloseAt
<1> QED
  BY <1>7, <1>8, <1>9, <1>10, <1>11, <1>12, <1>13, <1>14, <1>15, <1>16, <1>17, <1>18
  DEF Next, Runs, Starts, Connecting, VoiceLeft, VoiceJoined, Kicked, vars, storeVars

\* Every step keeps the type.
LEMMA TypeStep == TypeOK /\ [Next]_vars => TypeOK'
<1> SUFFICES ASSUME TypeOK, [Next]_vars PROVE TypeOK'
  OBVIOUS
<1>1. /\ store \in Object \cup {NoGuild} /\ created \in 0 .. MaxConnects /\ listeners \in Seq(Cause)
      /\ connects \in 0 .. MaxConnects /\ calls \in 0 .. MaxCalls
      /\ events \in Seq(Event)
  BY DEF TypeOK, StoreTypeOK, VoiceTypeOK
<1>2. store' \in Object \cup {NoGuild} /\ created' \in 0 .. MaxConnects
  <2>1. ASSUME NEW w \in Worker, NewGuild(w) PROVE created' \in Object
    BY <2>1, <1>1, StoreAssumption DEF NewGuild, Object
  <2>2. \/ \E w \in Worker : NewGuild(w)
        \/ UNCHANGED created /\ (UNCHANGED store \/ store' = NoGuild)
    BY DEF Next, Runs, Starts, Connected, OpenConn, ConnOpened, OpenTimesOut,
       Cleanup, CloseSockets, CloseReceiver, NothingToClose, BeginClose, CloseWaits, CloseRemoves,
       CloseReturns, Register, Unregister, ConnectCommand, LeaveCommand, TimerFires, GatewayClosed, OpenDashboard, SocketEnds,
       LoaderHandles, Connecting, VoiceLeft, VoiceJoined, Kicked, vars, storeVars
  <2> QED
    BY <2>1, <2>2, <1>1 DEF NewGuild, Object
<1>3. connects' \in 0 .. MaxConnects /\ calls' \in 0 .. MaxCalls
  <2>1. \/ UNCHANGED counters \/ Called
        \/ connects < MaxConnects /\ connects' = connects + 1 /\ UNCHANGED calls
    BY DEF Next, Runs, Starts, NewGuild, Connected, OpenConn, ConnOpened, OpenTimesOut,
       Cleanup, CloseSockets, CloseReceiver, NothingToClose, BeginClose, CloseWaits, CloseRemoves,
       CloseReturns, Register, Unregister, ConnectCommand, LeaveCommand, TimerFires, GatewayClosed, OpenDashboard, SocketEnds,
       LoaderHandles, Connecting, VoiceLeft, VoiceJoined, Kicked, vars, storeVars
  <2> QED
    BY <2>1, <1>1, StoreAssumption DEF counters, Called
<1>4. listeners' \in Seq(Cause)
  <2>1. ASSUME NEW w \in Worker, LoaderHandles(w) PROVE listeners' \in Seq(Cause)
    BY <2>1, <1>1 DEF LoaderHandles
  <2>2. ASSUME VoiceLeft PROVE listeners' \in Seq(Cause)
    <3>1. Head(events) \in Event /\ Head(events).cause \in Cause
      BY <2>2, <1>1 DEF VoiceLeft, HandleLeft, Event, Joined, Left, Cause
    <3> QED
      BY <2>2, <3>1, <1>1 DEF VoiceLeft
  <2> QED
    BY <2>1, <2>2, <1>1 DEF Next, Runs, Starts, NewGuild, Connected, OpenConn, ConnOpened, OpenTimesOut,
     Cleanup, CloseSockets, CloseReceiver, NothingToClose, BeginClose, CloseWaits, CloseRemoves,
     CloseReturns, Register, Unregister, ConnectCommand, LeaveCommand, TimerFires, GatewayClosed, OpenDashboard, SocketEnds,
     Connecting, VoiceJoined, Kicked, vars, storeVars
<1> QED
  BY <1>2, <1>3, <1>4, VoiceType, GuildsType, WorkersType DEF TypeOK, StoreTypeOK

\* A guild ID keeps its type, whatever commands, timers, dashboards, kicks and
\* failing gateways work on it.
THEOREM TypeCorrect == FairSpec => []TypeOK
<1> QED
  BY TypeInit, TypeStep, PTL DEF FairSpec, Spec

-----------------------------------------------------------------------------
(* A guild that was cleaned up                                             *)

\* Where Cleanup is once the guild is out of the store and not yet marked.
Cleaning == {"sockets"}

\* Whatever is known of a guild, it was created.
KnownAreCreated ==
  /\ store <= created
  /\ \A w \in Worker : Of(w) <= created
  /\ \A g \in Object : guilds[g].timer \/ guilds[g].gone => g <= created

\* What a Cleanup that has begun may rely on.
CleanedInv ==
  /\ KnownAreCreated
  /\ \A w \in Worker : workers[w].at \in Cleaning => store # Of(w)
  /\ CleanedStaysOut
  /\ NoSocketInCleaned

\* A goroutine that takes up a guild takes one that was created, and none begins
\* to clean one up.
TakesCreated ==
  \A v \in Worker :
    \/ /\ workers'[v].guild = workers[v].guild
       /\ workers'[v].at \in Cleaning => workers[v].at \in Cleaning
    \/ /\ workers'[v].guild <= created
       /\ workers'[v].at \notin Cleaning

\* No guild becomes one that was cleaned up, or is found by a dashboard, and
\* timers are armed in guilds that were created.
GuildsStay ==
  \A g \in Object : /\ guilds'[g].gone = guilds[g].gone
                    /\ guilds'[g].sockets \subseteq guilds[g].sockets
                    /\ guilds'[g].timer => guilds[g].timer \/ g <= created

\* Steps that do no more than that keep what Cleanup relies on.
LEMMA CleanedKept ==
  ASSUME CleanedInv, UNCHANGED <<store, created>>, GuildsStay, TakesCreated
  PROVE  CleanedInv'
<1>1. \A v \in Worker : workers[v].guild <= created
  BY DEF CleanedInv, KnownAreCreated, Of
<1>2. \A v \in Worker : workers'[v].guild <= created'
  BY <1>1 DEF TakesCreated
<1>3. KnownAreCreated'
  <2>1. \A g \in Object : guilds'[g].timer \/ guilds'[g].gone => g <= created'
    BY DEF CleanedInv, KnownAreCreated, GuildsStay
  <2> QED
    BY <1>2, <2>1 DEF CleanedInv, KnownAreCreated, Of
<1>4. \A v \in Worker : workers'[v].at \in Cleaning => store' # workers'[v].guild
  BY DEF CleanedInv, Of, TakesCreated
<1>5. CleanedStaysOut' /\ NoSocketInCleaned'
  BY DEF CleanedInv, CleanedStaysOut, NoSocketInCleaned, GuildsStay
<1> QED
  BY <1>3, <1>4, <1>5 DEF CleanedInv, Of

\* Every step keeps it: a goroutine that is late only ever finds what was created
\* before, and Cleanup empties the store before it begins to clean.
LEMMA CleanedStep ==
  ASSUME TypeOK, CleanedInv, [Next]_vars
  PROVE  CleanedInv'
<1>1. /\ guilds \in [Object -> Guild] /\ workers \in [Worker -> Task]
      /\ store \in Object \cup {NoGuild} /\ created \in 0 .. MaxConnects
  BY DEF TypeOK, StoreTypeOK
<1>2. \A w \in Worker : workers[w] \in Task
  BY <1>1
<1>3. \A w \in Worker : workers[w].at \in GuildAt \cup {"opening"} => Of(w) \in Object
  BY <1>2, TaskFacts DEF Of, GuildAt
<1>4. Object \subseteq Nat /\ NoGuild \notin Object /\ MaxConnects \in Nat /\ NoGuild = 0
  BY StoreAssumption DEF Object, NoGuild
<1>e. ASSUME NEW w \in Worker, Ends(w) PROVE TakesCreated
  BY <1>1, <1>4, <1>e DEF TakesCreated, Ends, Idle, Cleaning
<1>g. ASSUME NEW w \in Worker, NEW a, Goes(w, a), a \notin Cleaning PROVE TakesCreated
  <2>1. \A v \in Worker : /\ workers'[v].guild = workers[v].guild
                          /\ v # w => workers'[v] = workers[v]
    BY <1>1, <1>g, GoesFacts
  <2>2. workers'[w].at = a
    BY <1>1, <1>g, GoesFacts
  <2> QED
    BY <1>g, <2>1, <2>2 DEF TakesCreated
<1>b. ASSUME NEW w \in Worker, NEW a, NEW g, NEW c, Begins(w, a, g, c),
             a \notin Cleaning, g <= created
      PROVE  TakesCreated
  BY <1>1, <1>b DEF TakesCreated, Begins
<1>k. \A v \in Worker : workers[v].guild <= created
  BY DEF CleanedInv, KnownAreCreated, Of
<1>5. ASSUME NEW w \in Worker, NewGuild(w) PROVE CleanedInv'
  <2>1. created' = created + 1 /\ store' = created' /\ UNCHANGED guilds /\ created \in Nat
    BY <1>1, <1>4, <1>5 DEF NewGuild
  <2>2. \A v \in Worker :
          \/ workers'[v] = workers[v]
          \/ workers'[v].at = "connect" /\ workers'[v].guild = created'
    BY <1>1, <1>5 DEF NewGuild, Begins
  <2>3. \A g \in Object : guilds[g].gone \/ guilds[g].timer => g <= created
    BY DEF CleanedInv, KnownAreCreated
  <2>4. \A v \in Worker : Of(v) <= created /\ Of(v) \in Nat
    BY <1>2, <1>4, TaskFacts DEF CleanedInv, KnownAreCreated, Of, ConnAt, CloseAt
  <2>5. KnownAreCreated'
    <3>1. \A v \in Worker : workers'[v].guild <= created'
      BY <2>1, <2>2, <2>4 DEF Of
    <3>2. \A g \in Object : guilds'[g].timer \/ guilds'[g].gone => g <= created'
      BY <2>1, <2>3, <1>4
    <3> QED
      BY <2>1, <3>1, <3>2 DEF KnownAreCreated, Of
  <2>6. CleanedStaysOut'
    <3>1. \A g \in Object : g <= created => store' # g
      BY <2>1, <1>4
    <3> QED
      BY <2>1, <2>3, <3>1 DEF CleanedStaysOut
  <2>7. NoSocketInCleaned'
    BY <2>1 DEF CleanedInv, NoSocketInCleaned
  <2>8. \A v \in Worker : workers'[v].at \in Cleaning => store' # workers'[v].guild
    BY <2>1, <2>2, <2>4 DEF Cleaning, Of
  <2> QED
    BY <2>5, <2>6, <2>7, <2>8 DEF CleanedInv, Of
<1>6. ASSUME NEW w \in Worker, Connected(w) PROVE CleanedInv'
  <2>1. Of(w) \in Object /\ guilds[Of(w)] \in Guild
    BY <1>1, <1>3, <1>6 DEF Connected, At, GuildAt
  <2>2. GuildsStay
    BY <1>1, <1>k, <1>6, <2>1 DEF Connected, GuildsStay, Guild, Of
  <2> QED
    BY <1>6, <1>e, <2>2, CleanedKept DEF Connected
<1>7. ASSUME NEW w \in Worker, OpenConn(w) PROVE CleanedInv'
  <2>1. Of(w) \in Object /\ guilds[Of(w)] \in Guild
    BY <1>1, <1>3, <1>7 DEF OpenConn, At, GuildAt
  <2>2. GuildsStay
    BY <1>1, <1>k, <1>7, <2>1 DEF OpenConn, GuildsStay, Guild, Of
  <2>3. PICK c \in Conn : Begins(w, "opening", Of(w), c)
    BY <1>7 DEF OpenConn
  <2>4. TakesCreated
    BY <1>b, <1>k, <2>3 DEF Of, Cleaning
  <2> QED
    BY <1>7, <2>2, <2>4, CleanedKept DEF OpenConn
<1>8. ASSUME NEW w \in Worker, ConnOpened(w) PROVE CleanedInv'
  <2>1. Of(w) \in Object /\ guilds[Of(w)] \in Guild
    BY <1>1, <1>3, <1>8 DEF ConnOpened, At, GuildAt
  <2>2. GuildsStay
    BY <1>1, <1>k, <1>8, <2>1 DEF ConnOpened, GuildsStay, Guild, Of
  <2> QED
    BY <1>8, <1>e, <2>2, CleanedKept DEF ConnOpened
<1>9. ASSUME NEW w \in Worker, Cleanup(w) PROVE CleanedInv'
  <2>1. Of(w) \in Object /\ guilds[Of(w)] \in Guild
    BY <1>1, <1>3, <1>9 DEF Cleanup, At, GuildAt
  <2>2. \A g \in Object : /\ guilds'[g].gone = guilds[g].gone /\ guilds'[g].sockets = guilds[g].sockets
                          /\ guilds'[g].timer => guilds[g].timer
    BY <1>1, <1>9, <2>1 DEF Cleanup, Guild
  <2>3. \A v \in Worker : workers'[v].guild = workers[v].guild
    BY <1>1, <1>2, <1>9, TaskFacts DEF Cleanup, Goes
  <2>4. store' = NoGuild /\ created' = created
    BY <1>9 DEF Cleanup
  <2>5. \A v \in Worker : workers'[v].at \in Cleaning => workers'[v].guild \in Object
    <3>1. workers' \in [Worker -> Task]
      BY WorkersType
    <3> QED
      BY <3>1, TaskFacts DEF Cleaning, GuildAt
  <2>6. KnownAreCreated'
    <3>1. store' <= created'
      BY <1>1, <1>4, <2>4
    <3>2. \A v \in Worker : workers'[v].guild <= created'
      BY <1>k, <2>3, <2>4
    <3>3. \A g \in Object : guilds'[g].timer \/ guilds'[g].gone => g <= created'
      BY <2>2, <2>4 DEF CleanedInv, KnownAreCreated
    <3> QED
      BY <3>1, <3>2, <3>3 DEF KnownAreCreated, Of
  <2>7. CleanedStaysOut' /\ NoSocketInCleaned'
    BY <1>4, <2>2, <2>4 DEF CleanedInv, CleanedStaysOut, NoSocketInCleaned
  <2>8. \A v \in Worker : workers'[v].at \in Cleaning => store' # workers'[v].guild
    BY <1>4, <2>4, <2>5
  <2> QED
    BY <2>6, <2>7, <2>8 DEF CleanedInv, Of
<1>10. ASSUME NEW w \in Worker, CloseSockets(w) PROVE CleanedInv'
  <2>1. Of(w) \in Object /\ guilds[Of(w)] \in Guild
    BY <1>1, <1>3, <1>10 DEF CloseSockets, At, GuildAt
  <2>2. store' = store /\ created' = created /\ store # Of(w) /\ Of(w) <= created
    BY <1>10 DEF CloseSockets, At, CleanedInv, KnownAreCreated, Cleaning
  <2>3. \A g \in Object : /\ guilds'[g].timer = guilds[g].timer
                          /\ g # Of(w) => guilds'[g] = guilds[g]
    BY <1>1, <1>10, <2>1 DEF CloseSockets, Guild
  <2>4. guilds'[Of(w)].sockets = {}
    BY <1>1, <1>10, <2>1 DEF CloseSockets, Guild
  <2>5. \A v \in Worker : /\ workers'[v].guild = workers[v].guild
                          /\ workers'[v].at \in Cleaning => workers[v].at \in Cleaning
    BY <1>1, <1>2, <1>10, TaskFacts DEF CloseSockets, Goes, At, Cleaning
  <2>6. KnownAreCreated'
    <3>1. store' <= created'
      BY <2>2 DEF CleanedInv, KnownAreCreated
    <3>2. \A v \in Worker : workers'[v].guild <= created'
      BY <1>k, <2>2, <2>5
    <3>3. \A g \in Object : guilds'[g].timer \/ guilds'[g].gone => g <= created'
      BY <2>2, <2>3 DEF CleanedInv, KnownAreCreated
    <3> QED
      BY <3>1, <3>2, <3>3 DEF KnownAreCreated, Of
  <2>7. CleanedStaysOut' /\ NoSocketInCleaned'
    BY <2>2, <2>3, <2>4 DEF CleanedInv, CleanedStaysOut, NoSocketInCleaned
  <2> QED
    BY <2>2, <2>5, <2>6, <2>7 DEF CleanedInv, Of
<1>11. ASSUME NEW w \in Worker, BeginClose(w) PROVE CleanedInv'
  <2>1. Of(w) \in Object /\ guilds[Of(w)] \in Guild
    BY <1>1, <1>3, <1>11 DEF BeginClose, At, GuildAt
  <2>2. GuildsStay
    BY <1>1, <1>k, <1>11, <2>1 DEF BeginClose, GuildsStay, Guild, Of
  <2>3. Begins(w, "closing", Of(w), guilds[Of(w)].conn)
    BY <1>11 DEF BeginClose
  <2>4. TakesCreated
    BY <1>b, <1>k, <2>3 DEF Of, Cleaning
  <2> QED
    BY <1>11, <2>2, <2>4, CleanedKept DEF BeginClose
<1>12. ASSUME NEW w \in Worker, CloseReturns(w) \/ NothingToClose(w) PROVE CleanedInv'
  <2>1. UNCHANGED guilds \/ guilds' = [guilds EXCEPT ![Of(w)].mutex = FALSE]
    BY <1>12 DEF CloseReturns, NothingToClose
  <2>2. GuildsStay
    BY <1>1, <2>1 DEF GuildsStay, Guild
  <2>3. Ends(w) /\ UNCHANGED <<store, created>>
    BY <1>12 DEF CloseReturns, NothingToClose
  <2> QED
    BY <1>e, <2>2, <2>3, CleanedKept
<1>13. ASSUME NEW w \in Worker, TimerFires(w) PROVE CleanedInv'
  <2>1. PICK g \in Object : /\ guilds[g].timer /\ Begins(w, "cleanup", g, NoConn)
                           /\ guilds' = [guilds EXCEPT ![g].timer = FALSE,
                                                       ![g].disconnecting = TRUE]
    BY <1>13 DEF TimerFires
  <2>2. g <= created /\ guilds[g] \in Guild
    BY <1>1, <2>1 DEF CleanedInv, KnownAreCreated
  <2>3. GuildsStay
    BY <1>1, <2>1, <2>2 DEF GuildsStay, Guild
  <2>4. TakesCreated
    BY <1>b, <2>1, <2>2 DEF Cleaning
  <2> QED
    BY <1>13, <2>3, <2>4, CleanedKept DEF TimerFires
<1>14. ASSUME NEW w \in Worker, Register(w) PROVE CleanedInv'
  <2>1. Of(w) \in Object /\ guilds[Of(w)] \in Guild
    BY <1>1, <1>3, <1>14 DEF Register, At, GuildAt
  <2>2. CASE guilds[Of(w)].gone
    <3>1. Ends(w) /\ UNCHANGED <<store, created>>
          /\ guilds' = [guilds EXCEPT ![Of(w)].socketMutex = "dead"]
      BY <1>14, <2>2 DEF Register
    <3>2. GuildsStay
      BY <1>1, <2>1, <3>1 DEF GuildsStay, Guild
    <3> QED
      BY <1>e, <3>1, <3>2, CleanedKept
  <2>3. CASE ~guilds[Of(w)].gone
    <3>1. Goes(w, "reading") /\ UNCHANGED <<store, created>>
          /\ guilds' = [guilds EXCEPT ![Of(w)].sockets = @ \cup {w}]
      BY <1>14, <2>3 DEF Register
    <3>2. \A g \in Object : /\ guilds'[g].timer = guilds[g].timer /\ guilds'[g].gone = guilds[g].gone
                            /\ g # Of(w) => guilds'[g].sockets = guilds[g].sockets
      BY <1>1, <2>1, <3>1 DEF Guild
    <3>3. KnownAreCreated'
      <4>1. \A v \in Worker : workers'[v].guild <= created'
        BY <1>1, <1>k, <3>1, GoesFacts
      <4>2. \A g \in Object : guilds'[g].timer \/ guilds'[g].gone => g <= created'
        BY <3>1, <3>2 DEF CleanedInv, KnownAreCreated
      <4> QED
        BY <3>1, <4>1, <4>2 DEF CleanedInv, KnownAreCreated, Of
    <3>4. CleanedStaysOut' /\ NoSocketInCleaned'
      BY <2>3, <3>1, <3>2 DEF CleanedInv, CleanedStaysOut, NoSocketInCleaned
    <3> QED
      BY <1>1, <3>1, <3>3, <3>4, GoesFacts DEF CleanedInv, Cleaning, Of
  <2> QED
    BY <2>2, <2>3
<1>15. ASSUME NEW w \in Worker, Unregister(w) PROVE CleanedInv'
  <2>1. Of(w) \in Object /\ guilds[Of(w)] \in Guild
    BY <1>1, <1>3, <1>15 DEF Unregister, At, GuildAt
  <2>2. GuildsStay
    BY <1>1, <1>15, <2>1 DEF Unregister, GuildsStay, Guild
  <2> QED
    BY <1>15, <1>e, <2>2, CleanedKept DEF Unregister
<1>16. ASSUME NEW w \in Worker,
             OpenTimesOut(w) \/ CloseReceiver(w) \/ CloseWaits(w) \/ CloseRemoves(w) \/ SocketEnds(w)
       PROVE  CleanedInv'
  <2>1. UNCHANGED <<store, created, guilds>>
    BY <1>16 DEF OpenTimesOut, CloseReceiver, CloseWaits, CloseRemoves, SocketEnds
  <2>2. TakesCreated
    <3>1. PICK a \in {"closing", "voice", "removing", "shutting", "unregister"} : Goes(w, a)
      BY <1>16 DEF OpenTimesOut, CloseReceiver, CloseWaits, CloseRemoves, SocketEnds
    <3> QED
      BY <1>g, <3>1 DEF Cleaning
  <2>3. GuildsStay
    BY <2>1 DEF GuildsStay
  <2> QED
    BY <2>1, <2>2, <2>3, CleanedKept
<1>17. ASSUME NEW w \in Worker,
             \/ ConnectCommand(w) \/ LeaveCommand(w)
             \/ GatewayClosed(w) \/ OpenDashboard(w) \/ LoaderHandles(w)
      PROVE  CleanedInv'
  <2>1. UNCHANGED <<store, created, guilds>>
    BY <1>17 DEF ConnectCommand, LeaveCommand, GatewayClosed, OpenDashboard, LoaderHandles
  <2>2. store <= created /\ NoGuild <= created
    BY <1>1, <1>4 DEF CleanedInv, KnownAreCreated
  <2>3. \/ UNCHANGED workers
        \/ \E a \in {"connect", "create", "cleanup", "closing", "register"},
              g \in {store, NoGuild}, c \in Conn \cup {NoConn} : Begins(w, a, g, c)
    BY <1>17 DEF ConnectCommand, LeaveCommand, GatewayClosed, OpenDashboard, LoaderHandles
  <2>4. TakesCreated
    <3>1. CASE UNCHANGED workers
      BY <3>1 DEF TakesCreated
    <3>2. CASE \E a \in {"connect", "create", "cleanup", "closing", "register"},
                 g \in {store, NoGuild}, c \in Conn \cup {NoConn} : Begins(w, a, g, c)
      BY <1>b, <2>2, <3>2 DEF Cleaning
    <3> QED
      BY <2>3, <3>1, <3>2
  <2>5. GuildsStay
    BY <2>1 DEF GuildsStay
  <2> QED
    BY <2>1, <2>4, <2>5, CleanedKept
<1>18. CASE UNCHANGED <<store, created, guilds, workers>>
  BY <1>18 DEF CleanedInv, KnownAreCreated, CleanedStaysOut, NoSocketInCleaned, Of
<1> QED
  BY <1>5, <1>6, <1>7, <1>8, <1>9, <1>10, <1>11, <1>12, <1>13, <1>14, <1>15, <1>16, <1>17, <1>18
  DEF Next, Runs, Starts, Connecting, VoiceLeft, VoiceJoined, Kicked, vars, storeVars

\* There is no guild at first.
LEMMA CleanedInit == Init => CleanedInv
BY StoreAssumption DEF Init, CleanedInv, KnownAreCreated, CleanedStaysOut, NoSocketInCleaned,
   NewObject, Idle, Of, Cleaning,
   NoGuild, Object

\* A guild that Cleanup took out of the store never comes back to it, and no
\* dashboard is registered in it, however late the goroutines are that had
\* looked it up.
THEOREM CleanedIsGone == FairSpec => []CleanedIsDone
<1>1. TypeOK /\ CleanedInv /\ [Next]_vars => CleanedInv'
  BY CleanedStep
<1>2. CleanedInv => CleanedIsDone
  BY DEF CleanedInv, CleanedIsDone
<1> QED
  BY <1>1, <1>2, CleanedInit, TypeCorrect, PTL DEF FairSpec, Spec

-----------------------------------------------------------------------------
(* The connections                                                         *)

\* Whatever is known of a connection, it was made.
ConnsAreMade ==
  /\ manager <= made
  /\ \A w \in Worker : workers[w].conn <= made
  /\ \A g \in Object : guilds[g].conn <= made
  /\ \A c \in Conn : conns[c].up \/ conns[c].opening => c <= made

\* Who holds StreamerMutex of a guild.
HeldAt   == {"opening", "sockets", "receiver", "voice"} \cup CloseAt
Holds(w) == workers[w].at \in HeldAt /\ Of(w) # NoGuild

\* StreamerMutex is held by one goroutine, and whoever opens a connection holds it:
\* nobody else gives its guild one meanwhile.
Exclusion ==
  /\ \A w \in Worker : Holds(w) => guilds[Of(w)].mutex
  /\ \A v, w \in Worker : Holds(v) /\ Holds(w) /\ Of(v) = Of(w) => v = w
  /\ \A w \in Worker : workers[w].at = "opening" => guilds[Of(w)].conn = NoConn

\* A Close that has come to its deferred calls has removed its connection.
ShuttingRemoved ==
  \A w \in Worker : workers[w].at = "shutting" => conns[workers[w].conn].removed

\* The inductive invariant of the connections.
ConnInv ==
  ConnsAreMade /\ Exclusion /\ ShuttingRemoved /\ UnclosedIsKnown /\ EveryConnHasOwner

\* There is no connection at first.
LEMMA ConnInit == Init => ConnInv
BY StoreAssumption DEF Init, VoiceInit, ConnInv, ConnsAreMade, Exclusion, ShuttingRemoved, UnclosedIsKnown,
   EveryConnHasOwner, NewObject, NewConn, Idle, Of, Holds, HeldAt, CloseAt, Conn, NoConn, Object

\* Every step leaves StreamerMutex with one goroutine at most.
LEMMA ExclusionStep ==
  ASSUME TypeOK, Exclusion, [Next]_vars
  PROVE  Exclusion'
<1>1. guilds \in [Object -> Guild] /\ workers \in [Worker -> Task]
  BY DEF TypeOK, StoreTypeOK
<1>2. \A w \in Worker : workers[w] \in Task
  BY <1>1
<1>3. \A w \in Worker : workers[w].at \in GuildAt \cup {"opening"} =>
        Of(w) \in Object /\ Of(w) # NoGuild /\ guilds[Of(w)] \in Guild
  BY <1>1, <1>2, TaskFacts DEF Of, GuildAt, Object, NoGuild
<1>h. \A w \in Worker : Holds(w) => Of(w) \in Object /\ guilds[Of(w)] \in Guild
  BY <1>1, <1>2, TaskFacts DEF Holds, HeldAt, CloseAt, Of, GuildAt
<1>o. \A w \in Worker : workers[w].at = "opening" => Holds(w)
  BY <1>3 DEF Holds, HeldAt
<1>f. ASSUME NEW w \in Worker, \A v \in Worker : v # w => workers'[v] = workers[v],
             workers'[w].at # "opening", Holds(w)' => Holds(w) /\ UNCHANGED Of(w),
             \A g \in Object : /\ guilds'[g].conn \in {guilds[g].conn, NoConn}
                               /\ guilds'[g].mutex = guilds[g].mutex
      PROVE  Exclusion'
  \* A goroutine that takes no mutex and gives none up.
  <2>1. \A v \in Worker : Holds(v)' => Holds(v) /\ UNCHANGED Of(v)
    BY <1>f DEF Holds, Of
  <2>2. \A v \in Worker : workers'[v].at = "opening" => workers[v].at = "opening" /\ UNCHANGED Of(v)
    BY <1>f DEF Of
  <2>3. \A v \in Worker : Holds(v)' => (guilds[Of(v)].mutex)'
    BY <1>f, <1>h, <2>1 DEF Exclusion
  <2>4. \A u, v \in Worker : (Holds(u) /\ Holds(v) /\ Of(u) = Of(v))' => u = v
    BY <2>1 DEF Exclusion
  <2>5. \A v \in Worker : workers'[v].at = "opening" => (guilds[Of(v)].conn = NoConn)'
    BY <1>f, <1>h, <1>o, <2>2 DEF Exclusion
  <2> QED
    BY <2>3, <2>4, <2>5 DEF Exclusion
<1>e. ASSUME NEW w \in Worker, Ends(w)
      PROVE  /\ \A v \in Worker : v # w => workers'[v] = workers[v]
             /\ workers'[w].at # "opening" /\ ~Holds(w)'
  BY <1>1, <1>e DEF Ends, Idle, Holds, HeldAt, CloseAt
<1>t. ASSUME NEW w \in Worker, workers[w].at \in {"connect", "cleanup"}, ~guilds[Of(w)].mutex,
             \A v \in Worker : v # w => workers'[v] = workers[v],
             UNCHANGED Of(w), Holds(w)',
             guilds[Of(w)].conn = NoConn \/ workers'[w].at # "opening",
             \A g \in Object : /\ guilds'[g].conn = guilds[g].conn
                               /\ guilds'[g].mutex = IF g = Of(w) THEN TRUE ELSE guilds[g].mutex
      PROVE  Exclusion'
  \* A goroutine that takes the mutex of its guild.
  <2>1. Of(w) \in Object /\ ~Holds(w)
    BY <1>3, <1>t DEF GuildAt, Holds, HeldAt, CloseAt
  <2>2. \A v \in Worker : v # w => UNCHANGED Of(v) /\ Holds(v)' = Holds(v)
    BY <1>t DEF Holds, Of
  <2>3. \A v \in Worker : Holds(v) => Of(v) \in Object /\ Of(v) # Of(w)
    BY <1>h, <1>t DEF Exclusion
  <2>4. \A v \in Worker : Holds(v)' => (guilds[Of(v)].mutex)'
    BY <1>t, <2>1, <2>2, <2>3 DEF Exclusion
  <2>5. \A u, v \in Worker : (Holds(u) /\ Holds(v) /\ Of(u) = Of(v))' => u = v
    BY <1>t, <2>2, <2>3 DEF Exclusion
  <2>6. \A v \in Worker : workers'[v].at = "opening" => (guilds[Of(v)].conn = NoConn)'
    <3>1. \A v \in Worker : v # w /\ workers'[v].at = "opening" =>
            workers[v].at = "opening" /\ UNCHANGED Of(v) /\ Of(v) \in Object
      BY <1>t, <1>3, <2>2
    <3> QED
      BY <1>t, <2>1, <3>1 DEF Exclusion
  <2> QED
    BY <2>4, <2>5, <2>6 DEF Exclusion
<1>r. ASSUME NEW w \in Worker, Holds(w), Ends(w),
             \A g \in Object : g # Of(w) => guilds'[g] = guilds[g]
      PROVE  Exclusion'
  \* A goroutine that gives the mutex of its guild up.
  <2>1. \A v \in Worker : v # w => workers'[v] = workers[v]
    BY <1>r, <1>e
  <2>2. ~Holds(w)' /\ workers'[w].at # "opening"
    BY <1>r, <1>e
  <2>3. \A v \in Worker : Holds(v)' => v # w /\ Holds(v) /\ UNCHANGED Of(v)
    BY <2>1, <2>2 DEF Holds, Of
  <2>4. \A v \in Worker : Holds(v)' => UNCHANGED guilds[Of(v)]
    BY <1>r, <1>h, <2>3 DEF Exclusion
  <2>5. \A v \in Worker : workers'[v].at = "opening" => Holds(v)' /\ workers[v].at = "opening"
    BY <1>o, <2>1, <2>2 DEF Holds, Of
  <2>6. \A v \in Worker : Holds(v)' => (guilds[Of(v)].mutex)'
    BY <2>3, <2>4 DEF Exclusion
  <2>7. \A u, v \in Worker : (Holds(u) /\ Holds(v) /\ Of(u) = Of(v))' => u = v
    BY <2>3 DEF Exclusion
  <2>8. \A v \in Worker : workers'[v].at = "opening" => (guilds[Of(v)].conn = NoConn)'
    BY <2>3, <2>4, <2>5 DEF Exclusion
  <2> QED
    BY <2>6, <2>7, <2>8 DEF Exclusion
<1>4. ASSUME NEW w \in Worker, Connected(w) \/ Unregister(w) PROVE Exclusion'
  <2>1. Of(w) \in Object /\ guilds[Of(w)] \in Guild
    BY <1>3, <1>4 DEF Connected, Unregister, At, GuildAt
  <2>2. \A g \in Object : guilds'[g].conn = guilds[g].conn /\ guilds'[g].mutex = guilds[g].mutex
    BY <1>1, <1>4, <2>1 DEF Connected, Unregister, Guild
  <2>3. Ends(w)
    BY <1>4 DEF Connected, Unregister
  <2> QED
    BY <1>e, <1>f, <2>2, <2>3
<1>5. ASSUME NEW w \in Worker, OpenConn(w) PROVE Exclusion'
  <2>1. /\ Of(w) \in Object /\ Of(w) # NoGuild /\ guilds[Of(w)] \in Guild /\ ~guilds[Of(w)].mutex
        /\ workers[w].at = "connect" /\ guilds[Of(w)].conn = NoConn
    BY <1>3, <1>5 DEF OpenConn, At, GuildAt
  <2>2. PICK c \in Conn : Begins(w, "opening", Of(w), c)
    BY <1>5 DEF OpenConn
  <2>3. /\ \A v \in Worker : v # w => workers'[v] = workers[v]
        /\ UNCHANGED Of(w) /\ workers'[w].at = "opening"
    BY <1>1, <2>2 DEF Begins, Of
  <2>4. Holds(w)'
    BY <2>1, <2>3 DEF Holds, HeldAt
  <2>5. \A g \in Object : /\ guilds'[g].conn = guilds[g].conn
                          /\ guilds'[g].mutex = IF g = Of(w) THEN TRUE ELSE guilds[g].mutex
    BY <1>1, <1>5, <2>1 DEF OpenConn, Guild
  <2> QED
    BY <1>t, <2>1, <2>3, <2>4, <2>5
<1>6. ASSUME NEW w \in Worker, ConnOpened(w) \/ NothingToClose(w) PROVE Exclusion'
  <2>1. Holds(w) /\ Ends(w)
    BY <1>3, <1>6 DEF ConnOpened, NothingToClose, At, GuildAt, Holds, HeldAt
  <2>2. \A g \in Object : g # Of(w) => guilds'[g] = guilds[g]
    BY <1>1, <1>6 DEF ConnOpened, NothingToClose
  <2> QED
    BY <1>r, <2>1, <2>2
<1>7. ASSUME NEW w \in Worker, Cleanup(w) PROVE Exclusion'
  <2>1. /\ Of(w) \in Object /\ Of(w) # NoGuild /\ guilds[Of(w)] \in Guild /\ ~guilds[Of(w)].mutex
        /\ workers[w].at = "cleanup" /\ Goes(w, "sockets")
    BY <1>3, <1>7 DEF Cleanup, At, GuildAt
  <2>2. \A g \in Object : /\ guilds'[g].conn = guilds[g].conn
                          /\ guilds'[g].mutex = IF g = Of(w) THEN TRUE ELSE guilds[g].mutex
    BY <1>1, <1>7, <2>1 DEF Cleanup, Guild
  <2>3. /\ \A v \in Worker : v # w => workers'[v] = workers[v]
        /\ UNCHANGED Of(w) /\ workers'[w].at = "sockets"
    BY <1>1, <2>1, GoesFacts DEF Of
  <2>4. Holds(w)'
    BY <2>1, <2>3 DEF Holds, HeldAt
  <2> QED
    BY <1>t, <2>1, <2>2, <2>3, <2>4
<1>8. ASSUME NEW w \in Worker,
             CloseSockets(w) \/ CloseReceiver(w) \/ OpenTimesOut(w) \/ CloseWaits(w) \/ CloseRemoves(w)
      PROVE  Exclusion'
  <2>1. PICK a \in {"receiver", "voice", "closing", "removing", "shutting"} : Goes(w, a)
    BY <1>8 DEF CloseSockets, CloseReceiver, OpenTimesOut, CloseWaits, CloseRemoves
  <2>2. /\ \A v \in Worker : v # w => workers'[v] = workers[v]
        /\ UNCHANGED Of(w) /\ workers'[w].at # "opening"
    BY <1>1, <2>1, GoesFacts DEF Of
  <2>3. workers[w].at \in HeldAt
    BY <1>8 DEF CloseSockets, CloseReceiver, OpenTimesOut, CloseWaits, CloseRemoves, At, HeldAt, CloseAt
  <2>4. \A g \in Object : guilds'[g].conn = guilds[g].conn /\ guilds'[g].mutex = guilds[g].mutex
    BY <1>1, <1>8 DEF CloseSockets, CloseReceiver, OpenTimesOut, CloseWaits, CloseRemoves, Guild
  <2> QED
    BY <1>f, <2>2, <2>3, <2>4 DEF Holds
<1>9. ASSUME NEW w \in Worker, BeginClose(w) PROVE Exclusion'
  <2>1. /\ \A v \in Worker : v # w => workers'[v] = workers[v]
        /\ UNCHANGED Of(w) /\ workers'[w].at # "opening"
    BY <1>1, <1>9 DEF BeginClose, Begins, Of
  <2>2. workers[w].at \in HeldAt
    BY <1>9 DEF BeginClose, At, HeldAt
  <2>3. \A g \in Object : /\ guilds'[g].conn \in {guilds[g].conn, NoConn}
                          /\ guilds'[g].mutex = guilds[g].mutex
    BY <1>1, <1>9 DEF BeginClose, Guild
  <2> QED
    BY <1>f, <2>1, <2>2, <2>3 DEF Holds
<1>10. ASSUME NEW w \in Worker, CloseReturns(w) PROVE Exclusion'
  <2>1. Ends(w) /\ workers[w].at \in HeldAt
    BY <1>10 DEF CloseReturns, At, HeldAt, CloseAt
  <2>2. CASE Of(w) = NoGuild
    <3>1. UNCHANGED guilds
      BY <1>10, <2>2 DEF CloseReturns
    <3> QED
      BY <1>e, <1>f, <2>1, <3>1
  <2>3. CASE Of(w) # NoGuild
    <3>1. \A g \in Object : g # Of(w) => guilds'[g] = guilds[g]
      BY <1>1, <1>10, <2>3 DEF CloseReturns
    <3> QED
      BY <1>r, <2>1, <2>3, <3>1 DEF Holds
  <2> QED
    BY <2>2, <2>3
<1>11. ASSUME NEW w \in Worker, TimerFires(w) PROVE Exclusion'
  <2>1. PICK g \in Object : /\ Begins(w, "cleanup", g, NoConn)
                            /\ guilds' = [guilds EXCEPT ![g].timer = FALSE, ![g].disconnecting = TRUE]
    BY <1>11 DEF TimerFires
  <2>2. /\ \A v \in Worker : v # w => workers'[v] = workers[v]
        /\ workers'[w].at # "opening" /\ ~Holds(w)'
    BY <1>1, <2>1 DEF Begins, Holds, HeldAt, CloseAt
  <2>3. \A h \in Object : guilds'[h].conn = guilds[h].conn /\ guilds'[h].mutex = guilds[h].mutex
    BY <1>1, <2>1 DEF Guild
  <2> QED
    BY <1>f, <2>2, <2>3
<1>12. ASSUME NEW w \in Worker, Register(w) PROVE Exclusion'
  <2>1. Of(w) \in Object /\ guilds[Of(w)] \in Guild
    BY <1>3, <1>12 DEF Register, At, GuildAt
  <2>2. \A g \in Object : guilds'[g].conn = guilds[g].conn /\ guilds'[g].mutex = guilds[g].mutex
    BY <1>1, <1>12, <2>1 DEF Register, Guild
  <2>3. /\ \A v \in Worker : v # w => workers'[v] = workers[v]
        /\ workers'[w].at # "opening" /\ ~Holds(w)'
    <3>1. CASE Goes(w, "reading")
      BY <1>1, <3>1, GoesFacts DEF Holds, HeldAt, CloseAt
    <3>2. CASE Ends(w)
      BY <1>e, <3>2
    <3> QED
      BY <1>12, <3>1, <3>2 DEF Register
  <2> QED
    BY <1>f, <2>2, <2>3
<1>16. ASSUME NEW w \in Worker, SocketEnds(w) PROVE Exclusion'
  <2>1. Goes(w, "unregister") /\ UNCHANGED guilds
    BY <1>16 DEF SocketEnds
  <2>2. /\ \A v \in Worker : v # w => workers'[v] = workers[v]
        /\ workers'[w].at # "opening" /\ ~Holds(w)'
    BY <1>1, <2>1, GoesFacts DEF Holds, HeldAt, CloseAt
  <2> QED
    BY <1>f, <2>1, <2>2
<1>17. ASSUME NEW w \in Worker,
             \/ NewGuild(w) \/ ConnectCommand(w) \/ LeaveCommand(w)
             \/ GatewayClosed(w) \/ OpenDashboard(w) \/ LoaderHandles(w)
      PROVE  Exclusion'
  <2>1. UNCHANGED guilds
    BY <1>17 DEF NewGuild, ConnectCommand, LeaveCommand, GatewayClosed, OpenDashboard, LoaderHandles
  <2>2. CASE UNCHANGED workers
    BY <2>1, <2>2 DEF Exclusion, Holds, Of
  <2>3. CASE \E a \in {"connect", "create", "cleanup", "register"} : \E g, c : Begins(w, a, g, c)
    <3>1. /\ \A v \in Worker : v # w => workers'[v] = workers[v]
          /\ workers'[w].at # "opening" /\ ~Holds(w)'
      BY <1>1, <2>3 DEF Begins, Holds, HeldAt, CloseAt
    <3> QED
      BY <1>f, <2>1, <3>1
  <2>4. CASE \E c \in Conn : Begins(w, "closing", NoGuild, c)
    <3>1. /\ \A v \in Worker : v # w => workers'[v] = workers[v]
          /\ workers'[w].at # "opening" /\ ~Holds(w)'
      BY <1>1, <2>4 DEF Begins, Holds, Of
    <3> QED
      BY <1>f, <2>1, <3>1
  <2> QED
    BY <1>17, <2>2, <2>3, <2>4
    DEF NewGuild, ConnectCommand, LeaveCommand, GatewayClosed, OpenDashboard, LoaderHandles
<1>18. CASE UNCHANGED <<guilds, workers>>
  BY <1>18 DEF Exclusion, Holds, Of
<1> QED
  BY <1>4, <1>5, <1>6, <1>7, <1>8, <1>9, <1>10, <1>11, <1>12, <1>16, <1>17, <1>18
  DEF Next, Runs, Starts, Connecting, VoiceLeft, VoiceJoined, Kicked, vars, storeVars

\* Nothing undoes a removal.
LEMMA RemovedStays ==
  ASSUME TypeOK, [Next]_vars
  PROVE  \A c \in Conn : conns[c].removed => conns'[c].removed
<1>1. conns \in [Conn -> Connection] /\ workers \in [Worker -> Task] /\ manager \in Conn \cup {NoConn}
  BY DEF TypeOK, StoreTypeOK, VoiceTypeOK
<1>2. \A w \in Worker : workers[w].at \in ConnAt => workers[w].conn \in Conn
  BY <1>1, TaskFacts DEF ConnAt
<1>3. ASSUME NEW w \in Worker, OpenConn(w) \/ OpenTimesOut(w) \/ BeginClose(w) \/ GatewayClosed(w)
      PROVE  \A c \in Conn : conns[c].removed => conns'[c].removed
  BY <1>1, <1>3 DEF OpenConn, OpenTimesOut, BeginClose, GatewayClosed, Connection
<1>4. ASSUME NEW w \in Worker, CloseWaits(w) \/ CloseRemoves(w) \/ CloseReturns(w)
      PROVE  \A c \in Conn : conns[c].removed => conns'[c].removed
  <2>1. CASE CloseWaits(w)
    BY <1>1, <2>1 DEF CloseWaits, AwaitClosed, Connection
  <2>2. CASE CloseRemoves(w)
    BY <1>1, <2>2 DEF CloseRemoves, ForgetConn, Connection
  <2>3. CASE CloseReturns(w)
    BY <1>1, <2>3 DEF CloseReturns, ShutGateway, Connection
  <2> QED
    BY <1>4, <2>1, <2>2, <2>3
<1>5. ASSUME NEW c \in Conn, GatewayOpens(c)
      PROVE  \A d \in Conn : conns[d].removed => conns'[d].removed
  BY <1>1, <1>5 DEF GatewayOpens, Connection
<1>6. ASSUME NEW w \in Worker, ConnOpened(w)
      PROVE  \A c \in Conn : conns[c].removed => conns'[c].removed
  BY <1>1, <1>6 DEF ConnOpened, TakeOpened, Connection
<1>7. ASSUME HandleLeft \/ HandleJoined
      PROVE  \A c \in Conn : conns[c].removed => conns'[c].removed
  BY <1>1, <1>7 DEF HandleLeft, HandleJoined, Connection
<1>8. ASSUME Kick \/ UNCHANGED voiceVars
      PROVE  \A c \in Conn : conns[c].removed => conns'[c].removed
  BY <1>8 DEF Kick, voiceVars
<1> QED
  BY <1>3, <1>4, <1>5, <1>6, <1>7, <1>8, VoiceSteps

\* A goroutine comes to the deferred calls of Close by the removal alone.
LEMMA ShuttingSteps ==
  ASSUME TypeOK, [Next]_vars, NEW w \in Worker, workers'[w].at = "shutting"
  PROVE  workers'[w] = workers[w] \/ CloseRemoves(w)
<1>1. workers \in [Worker -> Task]
  BY DEF TypeOK, StoreTypeOK
<1>2. ASSUME NEW v \in Worker, Runs(v) \/ CloseReceiver(v) \/ Starts(v) \/ LoaderHandles(v)
      PROVE  workers'[w] = workers[w] \/ CloseRemoves(w)
  <2>1. \/ CloseRemoves(v) \/ Ends(v) \/ UNCHANGED workers
        \/ \E a \in {"create", "cleanup", "sockets", "receiver", "voice", "closing", "removing",
                     "reading", "unregister"} : Goes(v, a)
        \/ \E a \in {"connect", "create", "opening", "cleanup", "closing", "register"} : \E g, c :
             Begins(v, a, g, c)
    BY <1>2 DEF Runs, Starts, NewGuild, Connected, OpenConn, ConnOpened, OpenTimesOut, Cleanup,
       CloseSockets, CloseReceiver, NothingToClose, BeginClose, CloseWaits, CloseReturns, Register,
       Unregister, ConnectCommand, LeaveCommand, TimerFires, GatewayClosed, OpenDashboard, SocketEnds,
       LoaderHandles
  <2>2. CASE v = w
    <3>1. ~Ends(v)
      BY <1>1, <2>2 DEF Ends, Idle
    <3>2. \A a : Goes(v, a) => a = "shutting"
      BY <1>1, <2>2, GoesFacts
    <3>3. \A a, g, c : Begins(v, a, g, c) => a = "shutting"
      BY <1>1, <2>2 DEF Begins
    <3> QED
      BY <2>1, <2>2, <3>1, <3>2, <3>3
  <2>3. CASE v # w
    <3>1. CASE CloseRemoves(v)
      BY <1>1, <2>3, <3>1, GoesFacts DEF CloseRemoves
    <3> QED
      BY <1>1, <2>1, <2>3, <3>1 DEF Ends, Goes, Begins
  <2> QED
    BY <2>2, <2>3
<1>3. CASE UNCHANGED workers
  BY <1>3
<1> QED
  BY <1>2, <1>3 DEF Next, Connecting, VoiceLeft, VoiceJoined, Kicked, vars, storeVars

\* Every step keeps what a Close has removed.
LEMMA ShuttingStep ==
  ASSUME TypeOK, ShuttingRemoved, [Next]_vars
  PROVE  ShuttingRemoved'
<1> SUFFICES ASSUME NEW w \in Worker, workers'[w].at = "shutting"
             PROVE  conns'[workers'[w].conn].removed
  BY DEF ShuttingRemoved
<1>1. /\ conns \in [Conn -> Connection] /\ workers \in [Worker -> Task] /\ workers' \in [Worker -> Task]
  BY WorkersType DEF TypeOK, StoreTypeOK, VoiceTypeOK
<1>2. workers'[w].conn \in Conn
  BY <1>1, TaskFacts DEF CloseAt
<1>3. CASE workers'[w] = workers[w]
  BY <1>2, <1>3, RemovedStays DEF ShuttingRemoved
<1>4. CASE CloseRemoves(w)
  <2>1. workers'[w].conn = workers[w].conn
    BY <1>1, <1>4, GoesFacts DEF CloseRemoves
  <2> QED
    BY <1>1, <1>2, <1>4, <2>1 DEF CloseRemoves, ForgetConn, Connection
<1> QED
  BY <1>3, <1>4, ShuttingSteps

\* What all steps but six leave alone: whose the connections are.  A gateway opens only
\* on the connection that the manager knows.
OwnersStay ==
  /\ UNCHANGED <<made, manager>>
  /\ \A w \in Worker : workers'[w].conn = workers[w].conn
  /\ \A g \in Object : guilds'[g].conn = guilds[g].conn
  /\ \A c \in Conn : /\ conns'[c].removed = conns[c].removed
                     /\ conns'[c].up => conns[c].up \/ conns[c].opening
                     /\ conns'[c].opening => conns[c].opening \/ c = manager

\* The six steps that change who has a connection.
LEMMA OwnerSteps ==
  ASSUME TypeOK, [Next]_vars
  PROVE  \/ OwnersStay
         \/ \E w \in Worker :
              \/ OpenConn(w) \/ ConnOpened(w) \/ BeginClose(w) \/ GatewayClosed(w)
              \/ CloseRemoves(w) \/ CloseReturns(w)
<1>1. /\ conns \in [Conn -> Connection] /\ guilds \in [Object -> Guild] /\ workers \in [Worker -> Task]
      /\ manager \in Conn \cup {NoConn}
  BY DEF TypeOK, StoreTypeOK, VoiceTypeOK
<1>2. \A w \in Worker :
        /\ workers[w].at \in GuildAt \cup {"idle", "create"} => workers[w].conn = NoConn
        /\ workers[w].at \in GuildAt => Of(w) \in Object /\ guilds[Of(w)] \in Guild
  BY <1>1, TaskFacts DEF Of
<1>3. ASSUME NEW w \in Worker, NEW a, NEW g, workers[w].conn = NoConn,
             Begins(w, a, g, NoConn) \/ Ends(w) \/ UNCHANGED workers
      PROVE  \A v \in Worker : workers'[v].conn = workers[v].conn
  BY <1>1, <1>3 DEF Begins, Ends, Idle
<1>4. ASSUME NEW w \in Worker, NEW a, Goes(w, a)
      PROVE  \A v \in Worker : workers'[v].conn = workers[v].conn
  BY <1>1, <1>4, GoesFacts
<1>5. ASSUME UNCHANGED conns
      PROVE  \A c \in Conn : /\ conns'[c].removed = conns[c].removed
                             /\ conns'[c].up => conns[c].up \/ conns[c].opening
                             /\ conns'[c].opening => conns[c].opening \/ c = manager
  BY <1>5
<1>6. ASSUME NEW w \in Worker,
             NewGuild(w) \/ ConnectCommand(w) \/ LeaveCommand(w) \/ OpenDashboard(w) \/ LoaderHandles(w)
      PROVE  OwnersStay
  <2>1. workers[w].conn = NoConn
    BY <1>2, <1>6 DEF NewGuild, ConnectCommand, LeaveCommand, OpenDashboard, LoaderHandles, At
  <2>2. \A v \in Worker : workers'[v].conn = workers[v].conn
    BY <1>3, <1>6, <2>1 DEF NewGuild, ConnectCommand, LeaveCommand, OpenDashboard, LoaderHandles
  <2> QED
    BY <1>5, <1>6, <2>2 DEF NewGuild, ConnectCommand, LeaveCommand, OpenDashboard, LoaderHandles,
       OwnersStay, voiceVars
<1>7. ASSUME NEW w \in Worker, TimerFires(w) PROVE OwnersStay
  <2>1. PICK g \in Object : /\ guilds' = [guilds EXCEPT ![g].timer = FALSE, ![g].disconnecting = TRUE]
                            /\ Begins(w, "cleanup", g, NoConn)
    BY <1>7 DEF TimerFires
  <2>2. \A v \in Worker : workers'[v].conn = workers[v].conn
    BY <1>2, <1>3, <1>7, <2>1 DEF TimerFires, At
  <2>3. \A h \in Object : guilds'[h].conn = guilds[h].conn
    BY <1>1, <2>1 DEF Guild
  <2> QED
    BY <1>5, <1>7, <2>2, <2>3 DEF TimerFires, OwnersStay, voiceVars
<1>8. ASSUME NEW w \in Worker, Connected(w) \/ NothingToClose(w) \/ Unregister(w) PROVE OwnersStay
  <2>1. workers[w].conn = NoConn /\ Of(w) \in Object /\ guilds[Of(w)] \in Guild
    BY <1>2, <1>8 DEF Connected, NothingToClose, Unregister, At, GuildAt
  <2>2. \A v \in Worker : workers'[v].conn = workers[v].conn
    BY <1>3, <1>8, <2>1 DEF Connected, NothingToClose, Unregister
  <2>3. \A h \in Object : guilds'[h].conn = guilds[h].conn
    BY <1>1, <1>8, <2>1 DEF Connected, NothingToClose, Unregister, Guild
  <2> QED
    BY <1>5, <1>8, <2>2, <2>3 DEF Connected, NothingToClose, Unregister, OwnersStay, voiceVars
<1>9. ASSUME NEW w \in Worker, Cleanup(w) \/ CloseSockets(w) \/ CloseReceiver(w) PROVE OwnersStay
  <2>1. Of(w) \in Object /\ guilds[Of(w)] \in Guild
    BY <1>2, <1>9 DEF Cleanup, CloseSockets, CloseReceiver, At, GuildAt
  <2>2. \A v \in Worker : workers'[v].conn = workers[v].conn
    BY <1>4, <1>9 DEF Cleanup, CloseSockets, CloseReceiver
  <2>3. \A h \in Object : guilds'[h].conn = guilds[h].conn
    BY <1>1, <1>9, <2>1 DEF Cleanup, CloseSockets, CloseReceiver, Guild
  <2> QED
    BY <1>5, <1>9, <2>2, <2>3 DEF Cleanup, CloseSockets, CloseReceiver, OwnersStay, voiceVars
<1>10. ASSUME NEW w \in Worker, Register(w) PROVE OwnersStay
  <2>1. workers[w].conn = NoConn /\ Of(w) \in Object /\ guilds[Of(w)] \in Guild
    BY <1>2, <1>10 DEF Register, At, GuildAt
  <2>2. \A v \in Worker : workers'[v].conn = workers[v].conn
    BY <1>3, <1>4, <1>10, <2>1 DEF Register
  <2>3. \A h \in Object : guilds'[h].conn = guilds[h].conn
    BY <1>1, <1>10, <2>1 DEF Register, Guild
  <2> QED
    BY <1>5, <1>10, <2>2, <2>3 DEF Register, OwnersStay, voiceVars
<1>11. ASSUME NEW w \in Worker, OpenTimesOut(w) PROVE OwnersStay
  BY <1>4, <1>5, <1>11 DEF OpenTimesOut, OwnersStay
<1>12. ASSUME NEW w \in Worker, SocketEnds(w) PROVE OwnersStay
  BY <1>4, <1>5, <1>12 DEF SocketEnds, OwnersStay, voiceVars
<1>13. ASSUME NEW c \in Conn, GatewayOpens(c), UNCHANGED storeVars PROVE OwnersStay
  BY <1>1, <1>13 DEF GatewayOpens, OwnersStay, storeVars, Connection
<1>14. ASSUME HandleJoined, UNCHANGED <<guilds, workers>> PROVE OwnersStay
  <2>1. CASE manager = NoConn
    BY <1>5, <1>14, <2>1 DEF HandleJoined, OwnersStay
  <2>2. CASE manager # NoConn
    BY <1>1, <1>14, <2>2 DEF HandleJoined, OwnersStay, Connection
  <2> QED
    BY <2>1, <2>2
<1>15. ASSUME HandleLeft, UNCHANGED <<guilds, workers>> PROVE OwnersStay
  <2>1. CASE manager = NoConn
    BY <1>5, <1>15, <2>1 DEF HandleLeft, OwnersStay
  <2>2. CASE manager # NoConn
    BY <1>1, <1>15, <2>2 DEF HandleLeft, OwnersStay, Connection
  <2> QED
    BY <2>1, <2>2
<1>16. ASSUME UNCHANGED <<conns, made, manager, guilds, workers>> PROVE OwnersStay
  BY <1>5, <1>16 DEF OwnersStay
<1>17. ASSUME NEW w \in Worker, CloseWaits(w) PROVE OwnersStay
  <2>1. workers[w].conn \in Conn
    BY <1>1, <1>17, TaskFacts DEF CloseWaits, At, CloseAt
  <2>2. \A c \in Conn : /\ conns'[c].removed = conns[c].removed
                        /\ conns'[c].up = conns[c].up /\ conns'[c].opening = conns[c].opening
    BY <1>1, <1>17, <2>1 DEF CloseWaits, AwaitClosed, Connection
  <2> QED
    BY <1>4, <1>17, <2>2 DEF CloseWaits, AwaitClosed, OwnersStay
<1> QED
  BY <1>6, <1>7, <1>8, <1>9, <1>10, <1>11, <1>12, <1>13, <1>14, <1>15, <1>16, <1>17
  DEF Next, Runs, Starts, Connecting, VoiceLeft, VoiceJoined, Kicked, Kick, vars, voiceVars, storeVars

\* Every step keeps it: a connection passes from the Connect that opens it to its guild,
\* from there to the Cleanup that closes it, and the first Close of all removes it.
LEMMA ConnStep ==
  ASSUME TypeOK, ConnInv, [Next]_vars
  PROVE  ConnInv'
<1>1. /\ conns \in [Conn -> Connection] /\ guilds \in [Object -> Guild] /\ workers \in [Worker -> Task]
      /\ made \in 0 .. MaxConns /\ manager \in Conn \cup {NoConn}
  BY DEF TypeOK, StoreTypeOK, VoiceTypeOK
<1>2. Conn \subseteq Nat \ {0} /\ MaxConns \in Nat /\ NoConn = 0
  BY VoiceAssumption DEF Conn, NoConn
<1>3. \A w \in Worker :
        /\ workers[w].at \in GuildAt \cup {"idle", "create"} => workers[w].conn = NoConn
        /\ workers[w].at \in GuildAt \cup {"opening"} => Of(w) \in Object /\ guilds[Of(w)] \in Guild
        /\ workers[w].at \in ConnAt => workers[w].conn \in Conn
  BY <1>1, TaskFacts DEF Of, ConnAt
<1>4. ASSUME NEW w \in Worker, NEW a, NEW g, NEW c, Begins(w, a, g, c)
      PROVE  workers'[w].conn = c /\ \A v \in Worker : v # w => workers'[v] = workers[v]
  BY <1>1, <1>4 DEF Begins
<1>5. ASSUME NEW w \in Worker, Ends(w)
      PROVE  workers'[w].conn = NoConn /\ \A v \in Worker : v # w => workers'[v] = workers[v]
  BY <1>1, <1>5 DEF Ends, Idle
<1>6. Exclusion' /\ ShuttingRemoved'
  BY ExclusionStep, ShuttingStep DEF ConnInv
<1>7. \A w \in Worker : workers[w].conn \in Conn \cup {NoConn}
  BY <1>1, TaskFacts DEF ConnAt
<1>8. CASE OwnersStay
  <2>1. ConnsAreMade'
    BY <1>8 DEF OwnersStay, ConnInv, ConnsAreMade
  <2>2. UnclosedIsKnown' /\ EveryConnHasOwner'
    BY <1>8 DEF OwnersStay, ConnInv, UnclosedIsKnown, EveryConnHasOwner
  <2> QED
    BY <1>6, <2>1, <2>2 DEF ConnInv
<1>9. ASSUME NEW w \in Worker, OpenConn(w) PROVE ConnInv'
  <2>1. PICK c \in Conn : CreateConn(c) /\ Begins(w, "opening", Of(w), c)
    BY <1>9 DEF OpenConn
  <2>2. UNCHANGED conns /\ \A g \in Object : guilds'[g].conn = guilds[g].conn
    BY <1>1, <1>3, <1>9 DEF OpenConn, At, GuildAt, Guild
  <2>3. workers[w].conn = NoConn
    BY <1>3, <1>9 DEF OpenConn, At, GuildAt
  <2>4. /\ made' \in Nat /\ made <= made' /\ c <= made' /\ manager' = c
        /\ \A d \in Conn : d <= made' => d <= made \/ d = c
    BY <1>1, <1>2, <2>1 DEF CreateConn, ConnInv, ConnsAreMade
  <2>5. ConnsAreMade'
    <3>1. /\ \A v \in Worker : workers[v].conn \in Nat /\ workers[v].conn <= made
          /\ \A g \in Object : guilds[g].conn \in Nat /\ guilds[g].conn <= made
      <4>1. \A g \in Object : guilds[g].conn \in Conn \cup {NoConn}
        BY <1>1 DEF Guild
      <4>2. Conn \cup {NoConn} \subseteq Nat
        BY <1>2
      <4>3. (\A v \in Worker : workers[v].conn \in Nat) /\ \A g \in Object : guilds[g].conn \in Nat
        BY <1>7, <4>1, <4>2
      <4>4. (\A v \in Worker : workers[v].conn <= made) /\ \A g \in Object : guilds[g].conn <= made
        BY DEF ConnInv, ConnsAreMade
      <4> QED
        BY <4>3, <4>4
    <3>2. \A v \in Worker : workers'[v].conn <= made'
      BY <1>1, <1>2, <1>4, <2>1, <2>4, <3>1
    <3>3. \A g \in Object : guilds'[g].conn <= made'
      BY <1>1, <1>2, <2>2, <2>4, <3>1
    <3>4. \A d \in Conn : conns'[d].up \/ conns'[d].opening => d <= made'
      <4>1. \A d \in Conn : conns[d].up \/ conns[d].opening => d <= made
        BY DEF ConnInv, ConnsAreMade
      <4>2. \A d \in Conn : d <= made => d <= made'
        BY <1>1, <1>2, <2>4
      <4> QED
        BY <2>2, <4>1, <4>2
    <3> QED
      BY <1>2, <2>1, <2>4, <3>2, <3>3, <3>4 DEF ConnsAreMade
  <2>6. UnclosedIsKnown'
    BY <1>2, <2>1, <2>2, <2>4 DEF ConnInv, UnclosedIsKnown, CreateConn
  <2>7. EveryConnHasOwner'
    BY <1>2, <1>4, <2>1, <2>2, <2>3, <2>4 DEF ConnInv, EveryConnHasOwner
  <2> QED
    BY <1>6, <2>5, <2>6, <2>7 DEF ConnInv
<1>10. ASSUME NEW w \in Worker, ConnOpened(w) PROVE ConnInv'
  <2>1. /\ Of(w) \in Object /\ guilds[Of(w)] \in Guild /\ workers[w].conn \in Conn
        /\ guilds[Of(w)].conn = NoConn
    BY <1>3, <1>10 DEF ConnOpened, At, ConnAt, ConnInv, Exclusion
  <2>2. \A g \in Object : guilds'[g].conn = IF g = Of(w) THEN workers[w].conn ELSE guilds[g].conn
    BY <1>1, <1>10, <2>1 DEF ConnOpened, Guild
  <2>3. \A c \in Conn : /\ conns'[c].removed = conns[c].removed
                        /\ conns'[c].up = conns[c].up /\ conns'[c].opening = conns[c].opening
    BY <1>1, <1>10, <2>1 DEF ConnOpened, TakeOpened, Connection
  <2>4. UNCHANGED <<made, manager>> /\ Ends(w)
    BY <1>10 DEF ConnOpened
  <2>5. ConnsAreMade'
    BY <1>1, <1>2, <1>5, <2>1, <2>2, <2>3, <2>4 DEF ConnInv, ConnsAreMade
  <2>6. UnclosedIsKnown'
    BY <2>3, <2>4 DEF ConnInv, UnclosedIsKnown
  <2>7. EveryConnHasOwner'
    <3> SUFFICES ASSUME NEW c \in Conn, c <= made, ~conns[c].removed
                 PROVE  \/ \E g \in Object : guilds'[g].conn = c
                        \/ \E v \in Worker : workers'[v].conn = c
      BY <2>3, <2>4 DEF EveryConnHasOwner
    <3>1. CASE \E g \in Object : guilds[g].conn = c
      BY <1>2, <2>1, <2>2, <3>1
    <3>2. CASE \E v \in Worker : workers[v].conn = c
      BY <1>5, <2>1, <2>2, <2>4, <3>2
    <3> QED
      BY <3>1, <3>2 DEF ConnInv, EveryConnHasOwner
  <2> QED
    BY <1>6, <2>5, <2>6, <2>7 DEF ConnInv
<1>11. ASSUME NEW w \in Worker, BeginClose(w) PROVE ConnInv'
  <2>1. Of(w) \in Object /\ guilds[Of(w)] \in Guild /\ workers[w].conn = NoConn
    BY <1>3, <1>11 DEF BeginClose, At, GuildAt
  <2>2. \A g \in Object : guilds'[g].conn = IF g = Of(w) THEN NoConn ELSE guilds[g].conn
    BY <1>1, <1>11, <2>1 DEF BeginClose, Guild
  <2>3. UNCHANGED <<conns, made, manager>> /\ Begins(w, "closing", Of(w), guilds[Of(w)].conn)
    BY <1>11 DEF BeginClose
  <2>4. ConnsAreMade'
    BY <1>1, <1>2, <1>4, <2>1, <2>2, <2>3 DEF ConnInv, ConnsAreMade
  <2>5. UnclosedIsKnown'
    BY <2>3 DEF ConnInv, UnclosedIsKnown
  <2>6. EveryConnHasOwner'
    <3> SUFFICES ASSUME NEW c \in Conn, c <= made, ~conns[c].removed
                 PROVE  \/ \E g \in Object : guilds'[g].conn = c
                        \/ \E v \in Worker : workers'[v].conn = c
      BY <2>3 DEF EveryConnHasOwner
    <3>1. CASE \E g \in Object : guilds[g].conn = c
      BY <1>4, <2>2, <2>3, <3>1
    <3>2. CASE \E v \in Worker : workers[v].conn = c
      BY <1>2, <1>4, <2>1, <2>3, <3>2
    <3> QED
      BY <3>1, <3>2 DEF ConnInv, EveryConnHasOwner
  <2> QED
    BY <1>6, <2>4, <2>5, <2>6 DEF ConnInv
<1>12. ASSUME NEW w \in Worker, GatewayClosed(w) PROVE ConnInv'
  <2>1. PICK c \in Conn : /\ conns[c].up /\ conns' = [conns EXCEPT ![c].up = FALSE]
                          /\ Begins(w, "closing", NoGuild, c)
    BY <1>12 DEF GatewayClosed
  <2>2. \A d \in Conn : /\ conns'[d].removed = conns[d].removed /\ conns'[d].opening = conns[d].opening
                        /\ conns'[d].up => conns[d].up
    BY <1>1, <2>1 DEF Connection
  <2>3. UNCHANGED <<made, manager, guilds>> /\ workers[w].conn = NoConn
    BY <1>3, <1>12 DEF GatewayClosed, At
  <2>4. ConnsAreMade'
    BY <1>1, <1>2, <1>4, <2>1, <2>2, <2>3 DEF ConnInv, ConnsAreMade
  <2>5. UnclosedIsKnown'
    BY <2>2, <2>3 DEF ConnInv, UnclosedIsKnown
  <2>6. EveryConnHasOwner'
    BY <1>2, <1>4, <2>1, <2>2, <2>3 DEF ConnInv, EveryConnHasOwner
  <2> QED
    BY <1>6, <2>4, <2>5, <2>6 DEF ConnInv
<1>13. ASSUME NEW w \in Worker, CloseRemoves(w) PROVE ConnInv'
  <2> DEFINE c == workers[w].conn
  <2>1. c \in Conn /\ ForgetConn(c) /\ Goes(w, "shutting") /\ UNCHANGED <<made, guilds>>
    BY <1>3, <1>13 DEF CloseRemoves, At, ConnAt, CloseAt
  <2>2. \A v \in Worker : workers'[v].conn = workers[v].conn
    BY <1>1, <2>1, GoesFacts
  <2>3. \A d \in Conn : /\ conns'[d].removed = (d = c \/ conns[d].removed)
                        /\ conns'[d].up = conns[d].up
                        /\ conns'[d].opening = conns[d].opening
    BY <1>1, <2>1 DEF ForgetConn, Connection
  <2>4. manager' = IF conns[c].removed THEN manager ELSE NoConn
    BY <2>1 DEF ForgetConn
  <2>5. c <= made
    BY DEF ConnInv, ConnsAreMade
  <2> HIDE DEF c
  <2>6. ConnsAreMade'
    BY <1>1, <1>2, <2>1, <2>2, <2>3, <2>4 DEF ConnInv, ConnsAreMade
  <2>7. UnclosedIsKnown'
    BY <1>2, <2>1, <2>3, <2>4, <2>5 DEF ConnInv, UnclosedIsKnown
  <2>8. EveryConnHasOwner'
    <3> SUFFICES ASSUME NEW d \in Conn, d <= made, ~conns[d].removed
                 PROVE  \/ \E g \in Object : guilds'[g].conn = d
                        \/ \E v \in Worker : workers'[v].conn = d
      BY <2>1, <2>3 DEF EveryConnHasOwner
    <3> QED
      BY <2>1, <2>2 DEF ConnInv, EveryConnHasOwner
  <2> QED
    BY <1>6, <2>6, <2>7, <2>8 DEF ConnInv
<1>14. ASSUME NEW w \in Worker, CloseReturns(w) PROVE ConnInv'
  <2> DEFINE c == workers[w].conn
  <2>1. c \in Conn /\ ShutGateway(c) /\ Ends(w) /\ UNCHANGED <<made, manager>>
    BY <1>3, <1>14 DEF CloseReturns, At, ConnAt, CloseAt
  <2>2. \A g \in Object : guilds'[g].conn = guilds[g].conn
    BY <1>1, <1>14 DEF CloseReturns, Guild
  <2>3. \A d \in Conn : /\ conns'[d].removed = conns[d].removed
                        /\ conns'[d].up => conns[d].up
                        /\ conns'[d].opening => conns[d].opening
    BY <1>1, <2>1 DEF ShutGateway, Connection
  <2>4. conns[c].removed
    BY <1>14 DEF ConnInv, ShuttingRemoved, CloseReturns, At
  <2> HIDE DEF c
  <2>5. ConnsAreMade'
    BY <1>1, <1>2, <1>5, <2>1, <2>2, <2>3 DEF ConnInv, ConnsAreMade
  <2>6. UnclosedIsKnown'
    BY <2>1, <2>3 DEF ConnInv, UnclosedIsKnown
  <2>7. EveryConnHasOwner'
    <3> SUFFICES ASSUME NEW d \in Conn, d <= made, ~conns[d].removed
                 PROVE  \/ \E g \in Object : guilds'[g].conn = d
                        \/ \E v \in Worker : workers'[v].conn = d
      BY <2>1, <2>3 DEF EveryConnHasOwner
    <3>1. d # c
      BY <2>4
    <3>2. CASE \E v \in Worker : workers[v].conn = d
      BY <1>5, <2>1, <3>1, <3>2 DEF c
    <3> QED
      BY <2>2, <3>2 DEF ConnInv, EveryConnHasOwner
  <2> QED
    BY <1>6, <2>5, <2>6, <2>7 DEF ConnInv
<1> QED
  BY <1>8, <1>9, <1>10, <1>11, <1>12, <1>13, <1>14, OwnerSteps

\* The manager knows every connection that is not closed, and each of them has somebody
\* who will close it: whatever commands and kicks overlap, none is forgotten.
THEOREM NoConnForgotten == FairSpec => []ConnsAreKept
<1>1. TypeOK /\ ConnInv /\ [Next]_vars => ConnInv'
  BY ConnStep
<1>2. ConnInv => ConnsAreKept
  BY DEF ConnInv, ConnsAreKept
<1> QED
  BY <1>1, <1>2, ConnInit, TypeCorrect, PTL DEF FairSpec, Spec

=============================================================================
