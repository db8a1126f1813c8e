----------------------------- MODULE VoiceConn ------------------------------
(* The voice connections of one guild ID, as the bot's vendored Discord    *)
(* library keeps them (Modules/disgo/voice/manager.go, conn.go): a manager *)
(* that knows one connection by the ID, connections that are opened and    *)
(* closed by asking Discord, and two channels with room for one token each *)
(* through which Discord's answer reaches whoever waits for it.            *)
(*                                                                         *)
(* Discord is external: whether the bot is in a voice channel, and the     *)
(* events it has sent and the bot has not handled yet, in order.  Whoever  *)
(* waits may give up at any time, so that an answer that never comes and   *)
(* one that comes too late are the same.  Sound is left out.               *)
EXTENDS Naturals, Sequences

CONSTANT MaxConns

ASSUME VoiceAssumption == MaxConns \in Nat \ {0}

Conn   == 1 .. MaxConns   \* connections, in the order of their creation
NoConn == 0

VARIABLES
  conns,     \* what each connection holds
  made,      \* how many there are
  manager,   \* managerImpl.conns at this ID
  inVoice,   \* Discord has the bot in a channel
  events     \* Discord's events, not yet handled

voiceVars == <<conns, made, manager, inVoice, events>>

\* opened is openedChan, closed is closedChan; up is the voice gateway with
\* its UDP socket; opening is the goroutine that connects it; removed is the
\* sync.Once of the connection's removeFunc.
Connection == [opened : BOOLEAN, closed : {"empty", "token", "shut"},
               up : BOOLEAN, opening : BOOLEAN, removed : BOOLEAN]

NewConn == [opened |-> FALSE, closed |-> "empty", up |-> FALSE,
            opening |-> FALSE, removed |-> FALSE]

\* Why the bot left: a Cleanup asked for it, or anything else did.
Cause == {"cleanup", "other"}

Joined      == [kind |-> "joined", cause |-> "other"]
Left(cause) == [kind |-> "left", cause |-> cause]
Event       == {Joined} \cup {Left(cause) : cause \in Cause}

VoiceTypeOK ==
  /\ conns \in [Conn -> Connection]
  /\ made \in 0 .. MaxConns
  /\ manager \in Conn \cup {NoConn}
  /\ inVoice \in BOOLEAN
  /\ events \in Seq(Event)

VoiceInit ==
  /\ conns = [c \in Conn |-> NewConn]
  /\ made = 0 /\ manager = NoConn
  /\ inVoice = FALSE /\ events = <<>>

-----------------------------------------------------------------------------
(* Discord: a bot that asks for the channel it is in, or to leave when it  *)
(* is in none, gets no event.  A request may fail; Open then gives up as   *)
(* it does when no answer comes, and Close goes on.                        *)
Leaves(cause) ==
  /\ inVoice' = FALSE
  /\ events' = IF inVoice THEN Append(events, Left(cause)) ELSE events

RequestJoin ==
  \/ /\ inVoice' = TRUE
     /\ events' = IF inVoice THEN events ELSE Append(events, Joined)
  \/ UNCHANGED <<inVoice, events>>

RequestLeave(cause) == Leaves(cause) \/ UNCHANGED <<inVoice, events>>

Kick ==
  /\ inVoice
  /\ Leaves("other")
  /\ UNCHANGED <<conns, made, manager>>

-----------------------------------------------------------------------------
(* The manager and the connections                                         *)

(* CreateConn returns the connection the manager knows, whatever state it  *)
(* is in, and makes one only if there is none.                             *)
CreateConn(c) ==
  \/ /\ manager # NoConn /\ c = manager
     /\ UNCHANGED <<made, manager>>
  \/ /\ manager = NoConn /\ made < MaxConns /\ c = made + 1
     /\ made' = c /\ manager' = c

(* Open returns when the token of the session description arrives.         *)
TakeOpened(c) ==
  /\ conns[c].opened
  /\ conns' = [conns EXCEPT ![c].opened = FALSE]


(* Close, once its request is sent: a token was there and the channel is   *)
(* shut, or it was shut before, or the wait is given up.                   *)
AwaitClosed(c) ==
  /\ \E gaveUp \in BOOLEAN :
       /\ conns[c].closed = "empty" => gaveUp
       /\ conns' = [conns EXCEPT
            ![c].closed = IF @ = "token" /\ ~gaveUp THEN "shut" ELSE @]
  /\ UNCHANGED manager

\* Slip: every Close removes whatever connection the manager knows.
ForgetAny(c) ==
  /\ conns' = [conns EXCEPT ![c].removed = TRUE]
  /\ manager' = NoConn

(* removeConnFunc: the first Close of a connection removes whatever the    *)
(* manager knows by the ID.                                                *)
ForgetConn(c) ==
  /\ conns' = [conns EXCEPT ![c].removed = TRUE]
  /\ manager' = IF conns[c].removed THEN manager ELSE NoConn

(* Gateway and socket close.  A goroutine that is connecting the gateway is*)
(* cut off, unless it is between two attempts or has not come to its first.*)
ShutGateway(c) ==
  \E goesOn \in BOOLEAN :
    conns' = [conns EXCEPT ![c].up = FALSE, ![c].opening = @ /\ goesOn]

(* The goroutine of HandleVoiceServerUpdate: the gateway connects and      *)
(* describes the session, which puts the token.  One that fails is one     *)
(* that is never seen to open.                                             *)
GatewayOpens(c) ==
  /\ conns[c].opening /\ ~conns[c].opened
  /\ conns' = [conns EXCEPT ![c].opening = FALSE, ![c].up = TRUE,
                            ![c].opened = TRUE]
  /\ UNCHANGED <<made, manager, inVoice, events>>

(* HandleVoiceServerUpdate, which comes with the news that the bot joined: *)
(* a gateway that is connected refuses to open.                            *)
HandleJoined ==
  /\ events # <<>> /\ Head(events).kind = "joined"
  /\ events' = Tail(events)
  /\ conns' = IF manager = NoConn THEN conns
              ELSE [conns EXCEPT ![manager].opening = @ \/ ~conns[manager].up]
  /\ UNCHANGED <<made, manager, inVoice>>

(* HandleVoiceStateUpdate without a channel: gateway and socket close, and *)
(* a token goes to whoever closes the connection.  While one is there that *)
(* nobody took, the goroutine of Discord's events waits; a channel that is *)
(* shut takes no token, and the panic ends the program.                    *)
HandleLeft ==
  /\ events # <<>> /\ Head(events).kind = "left"
  /\ events' = Tail(events)
  /\ IF manager = NoConn THEN UNCHANGED conns
     ELSE /\ conns[manager].closed = "empty"
          /\ \E goesOn \in BOOLEAN :
               conns' = [conns EXCEPT ![manager].closed = "token",
                                      ![manager].up = FALSE,
                                      ![manager].opening = @ /\ goesOn]
  /\ UNCHANGED <<made, manager, inVoice>>

-----------------------------------------------------------------------------
(* Properties                                                              *)

(* The manager knows every connection that is not closed, so there is only *)
(* one: a late Close of an old connection never makes it forget a newer    *)
(* one (manager.go:94 and :121).                                           *)
UnclosedIsKnown ==
  \A c \in Conn : c <= made /\ ~conns[c].removed => manager = c
=============================================================================
