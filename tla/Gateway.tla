------------------------------- MODULE Gateway -------------------------------
(* The bot's connection to Discord (Modules/disgo/gateway/gateway.go): one  *)
(* goroutine opens a connection, one reads its messages, one sends its      *)
(* heartbeats, and commands send on it.  Each of the first three may find   *)
(* that the connection is of no use, close it and have another opened,      *)
(* which resumes the session behind the last event that was received.       *)
(*                                                                          *)
(* connMu and statusMu are taken in steps of their own where one is waited  *)
(* for while the other is held, and are only looked at where a goroutine    *)
(* holds one for a moment.  Discord is external: it numbers the events of a *)
(* session, keeps them for a session that is resumed, and may at any time   *)
(* end a connection in one of the ways listen knows.  A session has the     *)
(* number of the connection on which it began, and Ready is its event 1.    *)
EXTENDS Naturals, SequencesExt

CONSTANTS
  MaxConns,    \* bounds: connections,
  MaxOpeners,  \* calls of doReconnect at a time,
  MaxEvents,   \* events of a session,
  MaxFailures, \* ends of a connection that come from outside, and dials that fail,
  MaxSends     \* messages of commands

ASSUME GatewayAssumption ==
  /\ MaxConns \in Nat /\ {MaxOpeners, MaxEvents} \subseteq Nat \ {0}
  /\ MaxFailures \in Nat \ {0} /\ MaxSends \in Nat

Conn == 1 .. MaxConns
None == 0

VARIABLES
  current,         \* g.conn
  isReady,         \* status = StatusReady
  session,         \* SessionID and ResumeURL
  lastSeq,         \* LastSequenceReceived
  connMu, statusMu,
  gatewayTasks,    \* the goroutines
  heartbeatCancel, \* whose heartbeat it ends, and which have been told to end
  canceled,
  link,            \* each connection as it is on our side
  serves,          \* what Discord gives on it: the session, and its next event
  emitted,         \* events of each session so far
  handled,         \* those that eventHandlerFunc was given
  garbled,         \* the event of the first session that cannot be parsed
  isOver,          \* CloseHandler was called for a connection closed for good
  failures, sends

gatewayVars == <<current, isReady, session, lastSeq, connMu, statusMu, gatewayTasks,
                 heartbeatCancel, canceled, link, serves, emitted, handled, garbled,
                 isOver, failures, sends>>

Openers   == {<<"opener", i>> : i \in 1 .. MaxOpeners}
Reader(c) == <<"reader", c>>
Beat(c)   == <<"beat", c>>
Sender    == <<"sender", 1>>
GatewayTask == Openers \cup {Reader(c) : c \in Conn} \cup {Beat(c) : c \in Conn} \cup {Sender}
Unlocked  == <<"nobody", 0>>

\* on: the connection an opener waits for; normal: the code with which the task closes;
\* next: what it does after that.
NoTask == [pc |-> "none", on |-> None, normal |-> FALSE, next |-> "end"]

GatewayPcs == {"none", "done", "waiting", "connecting", "dialing", "awaiting",
               "hello", "handshake", "reading", "starting", "beating", "sending",
               "closing", "closed"}

GatewayTypeOK ==
  /\ current \in Conn \cup {None} /\ isReady \in BOOLEAN /\ isOver \in BOOLEAN
  /\ session \in Conn \cup {None} /\ lastSeq \in 0 .. MaxEvents
  /\ {connMu, statusMu} \subseteq GatewayTask \cup {Unlocked}
  /\ gatewayTasks \in [GatewayTask -> [pc : GatewayPcs, on : Conn \cup {None}, normal : BOOLEAN,
                                 next : {"end", "retry", "reconnect", "beat", "tell"}]]
  /\ heartbeatCancel \in Conn \cup {None} /\ canceled \subseteq Conn
  /\ link \in [Conn -> {"none", "open", "closed"}]
  /\ serves \in [Conn -> [of : Conn \cup {None}, next : 1 .. MaxEvents + 1]]
  /\ emitted \in [Conn -> 0 .. MaxEvents] /\ garbled \in 0 .. MaxEvents
  /\ \A s \in Conn : handled[s] \in Seq(1 .. emitted[s])
  /\ failures \in 0 .. MaxFailures /\ sends \in 0 .. MaxSends

GatewayInit ==
  /\ current = None /\ isReady = FALSE /\ session = None /\ lastSeq = 0
  /\ connMu = Unlocked /\ statusMu = Unlocked
  /\ gatewayTasks = [t \in GatewayTask |->
       IF t = <<"opener", 1>> THEN [NoTask EXCEPT !.pc = "waiting"] ELSE NoTask]
  /\ heartbeatCancel = None /\ canceled = {}
  /\ link = [c \in Conn |-> "none"]
  /\ serves = [c \in Conn |-> [of |-> None, next |-> 1]]
  /\ emitted = [s \in Conn |-> 0] /\ handled = [s \in Conn |-> <<>>]
  /\ garbled \in {0} \cup 2 .. MaxEvents
  /\ isOver = FALSE /\ sends = 0
  /\ failures = IF garbled = 0 THEN 0 ELSE 1  \* an event that is garbled is one of them

-----------------------------------------------------------------------------
resumeData == <<session, lastSeq>>
mutexes    == <<connMu, statusMu>>
beats      == <<heartbeatCancel, canceled>>
outside    == <<link, serves, emitted, handled, garbled>>
counters   == <<failures, sends>>

Pc(t) == gatewayTasks[t].pc

GoesTo(t, pc) == gatewayTasks' = [gatewayTasks EXCEPT ![t].pc = pc]

\* CloseWithCode, before it takes a lock: the heartbeat is told to end.
CallsClose(ts, t, normal, next) ==
  /\ gatewayTasks' = [ts EXCEPT ![t].pc = "closing", ![t].normal = normal, ![t].next = next]
  /\ canceled' = canceled \cup ({heartbeatCancel} \ {None})

Clear(when) ==
  /\ session' = IF when THEN None ELSE session
  /\ lastSeq' = IF when THEN 0 ELSE lastSeq

Fails == failures < MaxFailures /\ failures' = failures + 1

\* A second is more than a goroutine needs that waits for nothing.
Settled ==
  /\ \A t \in GatewayTask : Pc(t) \notin {"closing", "closed", "starting"}
  /\ \A c \in Conn : link[c] = "closed" => Pc(Reader(c)) \in {"none", "done"}
  /\ \A c \in canceled : Pc(Beat(c)) # "beating"

-----------------------------------------------------------------------------
(* CloseWithCode                                                            *)

\* The connection, if there is one: closing it normally gives up the session.
CloseConn(t) ==
  /\ Pc(t) = "closing" /\ connMu = Unlocked /\ connMu' = t
  /\ current' = None
  /\ link' = [c \in Conn |-> IF c = current THEN "closed" ELSE link[c]]
  /\ Clear(current # None /\ gatewayTasks[t].normal)
  /\ GoesTo(t, "closed")
  /\ UNCHANGED <<isReady, statusMu, beats, serves, emitted, handled, garbled, isOver, counters>>

\* go g.reconnect()
WithReconnect(ts) ==
  LET free == CHOOSE o \in Openers : ts[o].pc \in {"none", "done"}
  IN  [ts EXCEPT ![free] = [NoTask EXCEPT !.pc = "waiting"]]

\* The status, with connMu held, and what the caller does next.
CloseStatus(t) ==
  /\ Pc(t) = "closed" /\ statusMu = Unlocked
  /\ gatewayTasks[t].next \in {"reconnect", "beat"} =>  \* bound: MaxOpeners
       \E o \in Openers : Pc(o) \in {"none", "done"}
  /\ isReady' = FALSE /\ connMu' = Unlocked
  /\ gatewayTasks' =
       CASE gatewayTasks[t].next = "retry" -> [gatewayTasks EXCEPT ![t].pc = "waiting"]
         [] gatewayTasks[t].next = "reconnect" ->
              WithReconnect([gatewayTasks EXCEPT ![t].pc = "done"])
         [] gatewayTasks[t].next = "beat" ->
              WithReconnect([gatewayTasks EXCEPT ![t].pc = "beating"])
         [] OTHER -> [gatewayTasks EXCEPT ![t].pc = "done"]
  /\ isOver' = (isOver \/ gatewayTasks[t].next = "tell")
  /\ UNCHANGED <<current, resumeData, statusMu, beats, outside, counters>>

-----------------------------------------------------------------------------
(* doReconnect and open: o is an opener                                     *)

\* Slip: it is not looked whether there is a connection.
OpenAnyway(o) ==
  /\ Pc(o) = "waiting" /\ Settled /\ connMu = Unlocked
  /\ connMu' = o /\ GoesTo(o, "connecting")
  /\ UNCHANGED <<current, isReady, resumeData, statusMu, beats, outside, isOver, counters>>

\* The timer fires.  With ErrGatewayAlreadyConnected it is over.
OpenBegins(o) ==
  /\ Pc(o) = "waiting" /\ Settled /\ connMu = Unlocked
  /\ IF current # None THEN GoesTo(o, "done") /\ UNCHANGED connMu
     ELSE GoesTo(o, "connecting") /\ connMu' = o
  /\ UNCHANGED <<current, isReady, resumeData, statusMu, beats, outside, isOver, counters>>

OpenConnects(o) ==
  /\ Pc(o) = "connecting" /\ statusMu = Unlocked
  /\ isReady' = FALSE /\ GoesTo(o, "dialing")
  /\ UNCHANGED <<current, resumeData, mutexes, beats, outside, isOver, counters>>

DialSucceeds(o) ==
  /\ Pc(o) = "dialing" /\ statusMu = Unlocked
  /\ \E c \in Conn :
       /\ link[c] = "none" /\ \A d \in Conn : d < c => link[d] # "none"
       /\ current' = c /\ link' = [link EXCEPT ![c] = "open"]
       /\ gatewayTasks' = [gatewayTasks EXCEPT ![o].pc = "awaiting", ![o].on = c,
                                               ![Reader(c)].pc = "hello"]
  /\ connMu' = Unlocked /\ isReady' = FALSE
  /\ UNCHANGED <<resumeData, statusMu, beats, serves, emitted, handled, garbled, isOver, counters>>

DialFails(o) ==
  /\ Pc(o) = "dialing" /\ statusMu = Unlocked /\ Fails
  /\ connMu' = Unlocked /\ isReady' = FALSE /\ GoesTo(o, "waiting")
  /\ UNCHANGED <<current, resumeData, statusMu, beats, outside, isOver, sends>>

-----------------------------------------------------------------------------
(* listen, on connection c                                                  *)

Awaits(o, c) == Pc(o) = "awaiting" /\ gatewayTasks[o].on = c

\* ready(nil): open returns.
ReportsReady(c) ==
  gatewayTasks' = [t \in GatewayTask |->
    IF t \in Openers /\ Awaits(t, c) THEN [gatewayTasks[t] EXCEPT !.pc = "done"]
    ELSE IF t = Reader(c) THEN [gatewayTasks[t] EXCEPT !.pc = "reading"] ELSE gatewayTasks[t]]

\* Slip: listen ends and does not tell open.
ReportsNothing(c, forGood) ==
  gatewayTasks' = [gatewayTasks EXCEPT ![Reader(c)].pc = "done"] /\ UNCHANGED canceled

\* ready(err): listen ends, and open, if it waits, closes normally and tries again, unless
\* the connection was closed for good.
ReportsError(c, forGood) ==
  LET ended == [gatewayTasks EXCEPT ![Reader(c)].pc = "done"]
  IN  IF \E o \in Openers : Awaits(o, c)
        THEN CallsClose(ended, CHOOSE o \in Openers : Awaits(o, c), TRUE,
                        IF forGood THEN "tell" ELSE "retry")
        ELSE gatewayTasks' = ended /\ UNCHANGED canceled

\* OpcodeHello: the heartbeats begin, and the session is resumed or begun.
ReceiveHello(c) ==
  /\ Pc(Reader(c)) = "hello" /\ link[c] = "open"
  /\ connMu = Unlocked /\ statusMu = Unlocked /\ isReady' = FALSE
  /\ serves' = [serves EXCEPT ![c] = IF session = None \/ lastSeq = 0
                  THEN [of |-> c, next |-> 1] ELSE [of |-> session, next |-> lastSeq + 1]]
  /\ gatewayTasks' = [gatewayTasks EXCEPT ![Reader(c)].pc = "handshake",
                                          ![Beat(c)].pc = "starting"]
  /\ UNCHANGED <<current, resumeData, mutexes, beats, link, emitted, handled, garbled,
                 isOver, counters>>

\* EventReady, for a session that begins.
ReceiveReady(c) ==
  /\ Pc(Reader(c)) = "handshake" /\ link[c] = "open" /\ serves[c].of = c
  /\ statusMu = Unlocked /\ isReady' = TRUE
  /\ session' = c /\ lastSeq' = 1
  /\ emitted' = [emitted EXCEPT ![c] = 1] /\ handled' = [handled EXCEPT ![c] = <<1>>]
  /\ serves' = [serves EXCEPT ![c].next = 2]
  /\ ReportsReady(c)
  /\ UNCHANGED <<current, mutexes, beats, link, garbled, isOver, counters>>

\* EventResumed, after what was missed.
ReceiveResumed(c) ==
  /\ Pc(Reader(c)) = "handshake" /\ link[c] = "open"
  /\ serves[c].of # c /\ serves[c].next > emitted[serves[c].of]
  /\ statusMu = Unlocked /\ isReady' = TRUE
  /\ ReportsReady(c)
  /\ UNCHANGED <<current, resumeData, mutexes, beats, outside, isOver, counters>>

\* An event of its session has arrived on c.
EventHasCome(c) ==
  /\ link[c] = "open" /\ Pc(Reader(c)) \in {"handshake", "reading"}
  /\ serves[c].of # None /\ serves[c].next <= emitted[serves[c].of]

IsGarbled(c) == serves[c].of = 1 /\ serves[c].next = garbled

\* Slip: the number is kept only of events that come after Ready.
ReceiveEventWhenReady(c) ==
  /\ EventHasCome(c) /\ ~ IsGarbled(c)
  /\ lastSeq' = IF isReady THEN serves[c].next ELSE lastSeq
  /\ handled' = [handled EXCEPT ![serves[c].of] = Append(@, serves[c].next)]
  /\ serves' = [serves EXCEPT ![c].next = @ + 1]
  /\ UNCHANGED <<current, isReady, session, mutexes, gatewayTasks, beats, link, emitted, garbled,
                 isOver, counters>>

\* OpcodeDispatch: its number is kept, and the event handled.
ReceiveEvent(c) ==
  /\ EventHasCome(c) /\ ~ IsGarbled(c)
  /\ lastSeq' = serves[c].next
  /\ handled' = [handled EXCEPT ![serves[c].of] = Append(@, serves[c].next)]
  /\ serves' = [serves EXCEPT ![c].next = @ + 1]
  /\ UNCHANGED <<current, isReady, session, mutexes, gatewayTasks, beats, link, emitted, garbled,
                 isOver, counters>>

\* ReceiveMessage fails.
ReadError(c, forGood, badSeq) ==
  /\ statusMu = Unlocked
  /\ IF ~ isReady THEN ReportsError(c, forGood) /\ UNCHANGED resumeData
     ELSE /\ connMu = Unlocked
          /\ IF current # c
               THEN GoesTo(Reader(c), "done") /\ UNCHANGED <<resumeData, canceled>>
               ELSE /\ Clear(badSeq)
                    /\ CallsClose(gatewayTasks, Reader(c), FALSE,
                                  IF forGood THEN "tell" ELSE "reconnect")
  /\ UNCHANGED <<current, isReady, mutexes, heartbeatCancel, outside, isOver, sends>>

Listens(c) == Pc(Reader(c)) \in {"hello", "handshake", "reading"}

\* We have closed the connection ourselves.
ReadClosed(c) ==
  /\ Listens(c) /\ link[c] = "closed" /\ ReadError(c, FALSE, FALSE) /\ UNCHANGED failures

\* What cannot be parsed counts as an error of the connection.
ReadGarbled(c) ==
  /\ EventHasCome(c) /\ IsGarbled(c) /\ ReadError(c, FALSE, FALSE) /\ UNCHANGED failures

\* The network fails, or Discord closes the connection, with a code after which one may
\* connect again (and for 4007 must not resume) or not.
ConnectionEnds(c) ==
  /\ Listens(c) /\ link[c] = "open" /\ Fails
  /\ \E forGood \in BOOLEAN, badSeq \in BOOLEAN :
       ~ (forGood /\ badSeq) /\ ReadError(c, forGood, badSeq)

\* OpcodeReconnect
ReconnectAsked(c) ==
  /\ Listens(c) /\ link[c] = "open" /\ Fails /\ statusMu = Unlocked
  /\ IF ~ isReady THEN ReportsError(c, FALSE)
     ELSE CallsClose(gatewayTasks, Reader(c), FALSE, "reconnect")
  /\ UNCHANGED <<current, isReady, resumeData, mutexes, heartbeatCancel, outside, isOver, sends>>

\* OpcodeInvalidSession
SessionInvalid(c) ==
  /\ Pc(Reader(c)) \in {"handshake", "reading"} /\ link[c] = "open" /\ Fails
  /\ statusMu = Unlocked
  /\ \E canResume \in BOOLEAN :
       /\ Clear(~ canResume)
       /\ IF ~ isReady THEN ReportsError(c, FALSE)
          ELSE CallsClose(gatewayTasks, Reader(c), ~ canResume, "reconnect")
  /\ UNCHANGED <<current, isReady, mutexes, heartbeatCancel, outside, isOver, sends>>

-----------------------------------------------------------------------------
(* heartbeat                                                                *)

BeatStarts(c) ==
  /\ Pc(Beat(c)) = "starting" /\ heartbeatCancel' = c /\ GoesTo(Beat(c), "beating")
  /\ UNCHANGED <<current, isReady, resumeData, mutexes, canceled, outside, isOver, counters>>

BeatEnds(c) ==
  /\ Pc(Beat(c)) = "beating" /\ c \in canceled /\ GoesTo(Beat(c), "done")
  /\ UNCHANGED <<current, isReady, resumeData, mutexes, beats, outside, isOver, counters>>

\* The last heartbeat was not answered, or this one cannot be sent.
BeatFails(c) ==
  /\ Pc(Beat(c)) = "beating" /\ Fails
  /\ \/ CallsClose(gatewayTasks, Beat(c), FALSE, "reconnect")
     \/ /\ connMu = Unlocked /\ current # None
        /\ CallsClose(gatewayTasks, Beat(c), FALSE, "beat")
  /\ UNCHANGED <<current, isReady, resumeData, mutexes, heartbeatCancel, outside, isOver, sends>>

-----------------------------------------------------------------------------
(* Send, by a command, and Discord                                          *)

SendBegins ==
  /\ Pc(Sender) = "none" /\ sends < MaxSends /\ sends' = sends + 1
  /\ statusMu = Unlocked /\ isReady
  /\ statusMu' = Sender /\ GoesTo(Sender, "sending")
  /\ UNCHANGED <<current, isReady, resumeData, connMu, beats, outside, isOver, failures>>

\* sendInternal, which takes connMu while statusMu is held.
SendEnds ==
  /\ Pc(Sender) = "sending" /\ connMu = Unlocked
  /\ statusMu' = Unlocked /\ GoesTo(Sender, "none")
  /\ UNCHANGED <<current, isReady, resumeData, connMu, beats, outside, isOver, counters>>

\* Something happens, in the session that began last.
EmitEvent ==
  /\ \E s \in Conn :
       /\ emitted[s] \in 1 .. MaxEvents - 1 /\ \A r \in Conn : r > s => emitted[r] = 0
       /\ emitted' = [emitted EXCEPT ![s] = @ + 1]
  /\ UNCHANGED <<current, isReady, resumeData, mutexes, gatewayTasks, beats, link, serves, handled,
                 garbled, isOver, counters>>

\* What the goroutines of the gateway do by themselves.  A dial has a time limit, and
\* those that fail are bounded.
GatewayGoesOn ==
  \/ \E t \in GatewayTask : CloseConn(t) \/ CloseStatus(t)
  \/ \E o \in Openers : OpenBegins(o) \/ OpenConnects(o) \/ DialSucceeds(o)
  \/ \E c \in Conn : ReadClosed(c) \/ BeatStarts(c) \/ BeatEnds(c)
  \/ SendEnds

\* What Discord says, which nothing makes it say: a read has no time limit.
DiscordSays ==
  \E c \in Conn :
    \/ ReceiveHello(c) \/ ReceiveReady(c) \/ ReceiveResumed(c)
    \/ ReceiveEvent(c) \/ ReadGarbled(c)

GatewayNext ==
  \/ GatewayGoesOn \/ DiscordSays
  \/ \E o \in Openers : DialFails(o)
  \/ \E c \in Conn : ConnectionEnds(c) \/ ReconnectAsked(c) \/ SessionInvalid(c) \/ BeatFails(c)
  \/ SendBegins \/ EmitEvent

GatewaySpec ==
  GatewayInit /\ [][GatewayNext]_gatewayVars /\ WF_gatewayVars(GatewayGoesOn)

-----------------------------------------------------------------------------
(* Properties                                                               *)

\* Across connections that fail and are resumed the events of a session are handled in
\* order, each once and none left out (gateway.go:641): what is resumed begins behind the
\* last one.  Those that come when the session was given up (gateway.go:298, :334) are
\* never handled.
EventsKept ==
  \A s \in Conn :
    /\ handled[s] = [i \in 1 .. Len(handled[s]) |-> i]
    /\ session = s /\ lastSeq # 0 => lastSeq = Len(handled[s])

\* However many goroutines want to reconnect, no connection is open besides the one the
\* gateway knows (gateway.go:213).
OneConnection == \A c \in Conn : link[c] = "open" => current = c

\* A command holds statusMu and waits for connMu, and who closes the connection holds
\* connMu and waits for statusMu.
Entangled == statusMu = Sender /\ \E t \in GatewayTask : Pc(t) = "closed" /\ connMu = t

\* The gateway is connected, or it was told that it may not be, or it has a connection
\* on which Discord has not yet said what makes it ready.
Connected   == current # None /\ isReady /\ Pc(Reader(current)) = "reading"
AwaitsDiscord ==
  current # None /\ link[current] = "open" /\ Pc(Reader(current)) \in {"hello", "handshake"}
GatewayOver == Connected \/ AwaitsDiscord \/ isOver

\* The gateway reconnects by itself or tells that it does not
\* (gateway_config.go:49), after everything that may happen to it: it waits for
\* nobody but Discord.
Reconnects == <>[]GatewayOver
=============================================================================
