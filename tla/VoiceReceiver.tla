--------------------------- MODULE VoiceReceiver ---------------------------
(* The receivers of one guild ID (Receive/Receiver.go): each belongs to one *)
(* voice connection, whose frames it hands to one session per speaker.     *)
(* Three goroutines meet in a receiver: the one that reads the frames of   *)
(* the connection (audio_receiver.go), the one that reads the messages of  *)
(* its voice gateway (conn.go), and the Cleanup of the guild.  A session is *)
(* what the receiver knows of it: its worker, and its stream in the wake   *)
(* word detector, another process (Modules/pico), which has one stream for *)
(* each speaker.  CaptureSession has what a session does with the sound.   *)
(*                                                                         *)
(* A worker that was told to end may do so at any time or never, here: what *)
(* it may wait for is the subject of CaptureSession.                       *)
EXTENDS Naturals

CONSTANTS Speaker, NoSpeaker, MaxReceivers, MaxSessions

ASSUME ReceiverAssumption ==
  /\ NoSpeaker \notin Speaker
  /\ MaxReceivers \in Nat \ {0} /\ MaxSessions \in Nat \ {0}

Receiver   == 1 .. MaxReceivers  \* in the order in which they are attached
NoReceiver == 0
Session    == 1 .. MaxSessions   \* in the order of their creation
NoSession  == 0

VARIABLES
  registry,   \* receiverRegistry at the guild's ID
  receivers,  \* what each receiver holds
  links,      \* the voice connection of each receiver
  sessions,   \* the sessions, of all receivers
  streams,    \* the speakers the wake word detector has a stream for
  tasks       \* the goroutines of each receiver

receiverVars == <<registry, receivers, links, sessions, streams, tasks>>

\* The map of a receiver; a connection that has not been closed, and the
\* speakers whose frames it can tell (ssrcs).
ReceiverState == [at : {"new", "open", "closed"},
                  map : [Speaker -> Session \cup {NoSession}]]
Link == [up : BOOLEAN, ssrcs : SUBSET Speaker]

\* A session whose closed flag is set is "closing" until its Close returns.
SessionState == [at : {"new", "open", "closing", "closed"}, worker : BOOLEAN,
                 of : Receiver \cup {NoReceiver},
                 user : Speaker \cup {NoSpeaker}]

\* left are the sessions a goroutine has in hand, now the one whose worker it
\* waits for, next what it does when they are closed.
Goroutine == {"frames", "gateway", "guild"}
Task == [at : {"idle", "packet", "frame", "checking", "storing", "deregister",
               "detach", "closing", "waiting", "stuck", "done"},
         user : Speaker \cup {NoSpeaker}, left : SUBSET Session,
         now : Session \cup {NoSession}, next : {"idle", "done"}]

Resting(where) == [at |-> where, user |-> NoSpeaker, left |-> {},
                   now |-> NoSession, next |-> "idle"]

ReceiverTypeOK ==
  /\ registry \in Receiver \cup {NoReceiver}
  /\ receivers \in [Receiver -> ReceiverState]
  /\ links \in [Receiver -> Link]
  /\ sessions \in [Session -> SessionState]
  /\ streams \subseteq Speaker
  /\ tasks \in [Receiver -> [Goroutine -> Task]]

ReceiverInit ==
  /\ registry = NoReceiver
  /\ receivers = [r \in Receiver |->
       [at |-> "new", map |-> [u \in Speaker |-> NoSession]]]
  /\ links = [r \in Receiver |-> [up |-> FALSE, ssrcs |-> {}]]
  /\ sessions = [s \in Session |-> [at |-> "new", worker |-> FALSE,
                                    of |-> NoReceiver, user |-> NoSpeaker]]
  /\ streams = {}
  /\ tasks = [r \in Receiver |-> [g \in Goroutine |-> Resting("idle")]]

-----------------------------------------------------------------------------

In(r, g, where) == tasks[r][g].at = where
Turns(r, g, task) == tasks' = [tasks EXCEPT ![r][g] = task]
Goes(r, g, where) == Turns(r, g, [tasks[r][g] EXCEPT !.at = where])

\* ssrcsMu is held by the gateway's goroutine while it handles a message.
SsrcsFree(r) == tasks[r]["gateway"].at = "idle"

(* AttachReceiver, of a guild that connects: the guild before it is out of  *)
(* the store, so that its Cleanup has begun.                               *)
AttachReceiver(r) ==
  /\ receivers[r].at = "new"
  /\ r > 1 => receivers[r - 1].at # "new" /\ ~In(r - 1, "guild", "idle")
  /\ receivers' = [receivers EXCEPT ![r].at = "open"]
  /\ registry' = r
  /\ links' = [links EXCEPT ![r].up = TRUE]
  /\ UNCHANGED <<sessions, streams, tasks>>

(* The connection closes its socket: Discord has disconnected the bot, the *)
(* gateway has failed, or Cleanup has come to it.                          *)
LinkEnds(r) ==
  /\ links[r].up
  /\ links' = [links EXCEPT ![r].up = FALSE]
  /\ UNCHANGED <<registry, receivers, sessions, streams, tasks>>

-----------------------------------------------------------------------------
(* The frames of a connection: defaultAudioReceiver                        *)

PacketArrives(r) ==
  /\ In(r, "frames", "idle") /\ links[r].up
  /\ Goes(r, "frames", "packet")
  /\ UNCHANGED <<registry, receivers, links, sessions, streams>>

(* UserIDBySSRC; a frame of nobody known is dropped.                       *)
UserIDBySSRC(r) ==
  /\ In(r, "frames", "packet") /\ SsrcsFree(r)
  /\ \/ Goes(r, "frames", "idle")
     \/ \E u \in links[r].ssrcs :
          Turns(r, "frames", [Resting("frame") EXCEPT !.user = u])
  /\ UNCHANGED <<registry, receivers, links, sessions, streams>>

(* getOrCreateSession: the receiver is closed, or has a session, or needs  *)
(* one; its mutex is given up before one is made.                          *)
GetSession(r) ==
  /\ In(r, "frames", "frame")
  /\ IF receivers[r].at = "open"
        /\ receivers[r].map[tasks[r]["frames"].user] = NoSession
     THEN Goes(r, "frames", "checking")
     ELSE Turns(r, "frames", Resting("idle"))
  /\ UNCHANGED <<registry, receivers, links, sessions, streams>>

(* The speaker has opted out, or there is no decoder.                      *)
NoNewSession(r) ==
  /\ In(r, "frames", "checking")
  /\ Turns(r, "frames", Resting("idle"))
  /\ UNCHANGED <<registry, receivers, links, sessions, streams>>

(* NewSession opens the stream and starts the worker.                      *)
NewSession(r) ==
  /\ In(r, "frames", "checking")
  /\ \E s \in Session :
       /\ sessions[s].at = "new" /\ \A b \in 1 .. (s - 1) : sessions[b].at # "new"
       /\ sessions' = [sessions EXCEPT ![s] =
            [at |-> "open", worker |-> TRUE, of |-> r,
             user |-> tasks[r]["frames"].user]]
       /\ Turns(r, "frames",
                [tasks[r]["frames"] EXCEPT !.at = "storing", !.left = {s}])
  /\ streams' = streams \cup {tasks[r]["frames"].user}
  /\ UNCHANGED <<registry, receivers, links>>

\* Slip: the receiver is not looked at again.
StoreAnyway(r) ==
  /\ In(r, "frames", "storing")
  /\ receivers' = [receivers EXCEPT ![r].map[tasks[r]["frames"].user] =
                     CHOOSE s \in tasks[r]["frames"].left : TRUE]
  /\ Turns(r, "frames", Resting("idle"))
  /\ UNCHANGED <<registry, links, sessions, streams>>

\* Slip: what cannot be stored is left to itself.
StoreOrForget(r) ==
  /\ In(r, "frames", "storing")
  /\ receivers' = IF receivers[r].at = "closed" THEN receivers
                  ELSE [receivers EXCEPT ![r].map[tasks[r]["frames"].user] =
                          CHOOSE s \in tasks[r]["frames"].left : TRUE]
  /\ Turns(r, "frames", Resting("idle"))
  /\ UNCHANGED <<registry, links, sessions, streams>>

(* The receiver may have been closed meanwhile: the session is closed too. *)
(* Nobody else creates sessions of this receiver.                          *)
StoreSession(r) ==
  /\ In(r, "frames", "storing")
  /\ IF receivers[r].at = "closed"
     THEN Goes(r, "frames", "closing") /\ UNCHANGED receivers
     ELSE /\ Turns(r, "frames", Resting("idle"))
          /\ receivers' = [receivers EXCEPT
               ![r].map[tasks[r]["frames"].user] =
                 CHOOSE s \in tasks[r]["frames"].left : TRUE]
  /\ UNCHANGED <<registry, links, sessions, streams>>

(* The socket is closed: so is the receiver, and the loop ends.            *)
FramesEnd(r) ==
  /\ In(r, "frames", "idle") /\ receivers[r].at # "new" /\ ~links[r].up
  /\ Turns(r, "frames", [Resting("deregister") EXCEPT !.next = "done"])
  /\ UNCHANGED <<registry, receivers, links, sessions, streams>>

-----------------------------------------------------------------------------
(* The messages of the voice gateway: connImpl.handleMessage               *)

(* A speaker is made known, and a session is told.                         *)
Speaking(r, u) ==
  /\ In(r, "gateway", "idle") /\ links[r].up
  /\ links' = [links EXCEPT ![r].ssrcs = @ \cup {u}]
  /\ UNCHANGED <<registry, receivers, sessions, streams, tasks>>

(* A message without a speaker: the handler asks for one by UserIDBySSRC,  *)
(* whose mutex the goroutine holds itself.                                 *)
SpeakingUnknown(r) ==
  /\ In(r, "gateway", "idle") /\ links[r].up
  /\ Goes(r, "gateway", "stuck")
  /\ UNCHANGED <<registry, receivers, links, sessions, streams>>

\* Slip: whatever is in the map is closed, a session or not.
DisconnectAnyway(r, u) ==
  /\ In(r, "gateway", "idle") /\ links[r].up
  /\ links' = [links EXCEPT ![r].ssrcs = @ \ {u}]
  /\ receivers' = [receivers EXCEPT ![r].map[u] = NoSession]
  /\ Turns(r, "gateway", [Resting("closing") EXCEPT
                            !.left = {receivers[r].map[u]}])
  /\ UNCHANGED <<registry, sessions, streams>>

(* CleanupUser, when a speaker leaves the channel: the mutex of the ssrcs  *)
(* is kept until the session is closed.                                    *)
ClientDisconnect(r, u) ==
  /\ In(r, "gateway", "idle") /\ links[r].up
  /\ links' = [links EXCEPT ![r].ssrcs = @ \ {u}]
  /\ receivers' = [receivers EXCEPT ![r].map[u] = NoSession]
  /\ IF receivers[r].map[u] = NoSession THEN UNCHANGED tasks
     ELSE Turns(r, "gateway", [Resting("closing") EXCEPT
                                 !.left = {receivers[r].map[u]}])
  /\ UNCHANGED <<registry, sessions, streams>>

-----------------------------------------------------------------------------
(* Close, by Cleanup or when the socket is closed                          *)

Cleanup(r) ==
  /\ In(r, "guild", "idle") /\ receivers[r].at # "new"
  /\ Turns(r, "guild", [Resting("deregister") EXCEPT !.next = "done"])
  /\ UNCHANGED <<registry, receivers, links, sessions, streams>>

(* The registry loses whatever receiver the guild has by now.              *)
Deregister(r, g) ==
  /\ In(r, g, "deregister")
  /\ registry' = NoReceiver
  /\ Goes(r, g, "detach")
  /\ UNCHANGED <<receivers, links, sessions, streams>>

Detach(r, g) ==
  /\ In(r, g, "detach")
  /\ IF receivers[r].at = "closed"
     THEN Goes(r, g, "done") /\ UNCHANGED receivers
     ELSE /\ receivers' = [receivers EXCEPT ![r] =
               [at |-> "closed", map |-> [u \in Speaker |-> NoSession]]]
          /\ Turns(r, g, [tasks[r][g] EXCEPT !.at = "closing",
               !.left = {receivers[r].map[u] : u \in Speaker} \ {NoSession}])
  /\ UNCHANGED <<registry, links, sessions, streams>>

(* Session.Close: the first to set the flag waits for the worker.          *)
CloseSession(r, g) ==
  /\ In(r, g, "closing")
  /\ \E s \in tasks[r][g].left :
       IF sessions[s].at = "open"
       THEN /\ sessions' = [sessions EXCEPT ![s].at = "closing"]
            /\ Turns(r, g, [tasks[r][g] EXCEPT !.at = "waiting", !.now = s])
       ELSE /\ Turns(r, g, [tasks[r][g] EXCEPT !.left = @ \ {s}])
            /\ UNCHANGED sessions
  /\ UNCHANGED <<registry, receivers, links, streams>>

\* Slip: the stream is closed at once, while the worker may still feed it.
SessionClosedAtOnce(r, g) ==
  /\ In(r, g, "waiting")
  /\ LET s == tasks[r][g].now IN
       /\ sessions' = [sessions EXCEPT ![s].at = "closed"]
       /\ streams' = streams \ {sessions[s].user}
       /\ Turns(r, g, [tasks[r][g] EXCEPT !.at = "closing", !.now = NoSession,
                                          !.left = @ \ {s}])
  /\ UNCHANGED <<registry, receivers, links>>

SessionClosed(r, g) ==
  /\ In(r, g, "waiting") /\ ~sessions[tasks[r][g].now].worker
  /\ LET s == tasks[r][g].now IN
       /\ sessions' = [sessions EXCEPT ![s].at = "closed"]
       /\ streams' = streams \ {sessions[s].user}
       /\ Turns(r, g, [tasks[r][g] EXCEPT !.at = "closing", !.now = NoSession,
                                          !.left = @ \ {s}])
  /\ UNCHANGED <<registry, receivers, links>>

AllClosed(r, g) ==
  /\ In(r, g, "closing") /\ tasks[r][g].left = {}
  /\ Turns(r, g, Resting(tasks[r][g].next))
  /\ UNCHANGED <<registry, receivers, links, sessions, streams>>

-----------------------------------------------------------------------------
(* The worker of a session                                                 *)

(* The detector makes a stream it does not have.                           *)
WorkerFeeds(s) ==
  /\ sessions[s].worker
  /\ streams' = streams \cup {sessions[s].user}
  /\ UNCHANGED <<registry, receivers, links, sessions, tasks>>

WorkerEnds(s) ==
  /\ sessions[s].worker /\ sessions[s].at # "open"
  /\ sessions' = [sessions EXCEPT ![s].worker = FALSE]
  /\ UNCHANGED <<registry, receivers, links, streams, tasks>>

-----------------------------------------------------------------------------

FramesGoOn(r) ==
  UserIDBySSRC(r) \/ GetSession(r) \/ NoNewSession(r) \/ NewSession(r)
  \/ StoreSession(r) \/ FramesEnd(r)

Closing(r, g) ==
  Deregister(r, g) \/ Detach(r, g) \/ CloseSession(r, g)
  \/ SessionClosed(r, g) \/ AllClosed(r, g)

\* The guild closes the connection after the receiver.
GuildHangsUp(r) == In(r, "guild", "done") /\ LinkEnds(r)

(* What runs without anybody's doing and comes to an end: what closes, and *)
(* the frames of a connection that is closed.  A worker that was told to   *)
(* end may not, if what it does waits for the guild.                       *)
ReceiverGoesOn ==
  \/ \E r \in Receiver :
       \/ GuildHangsUp(r)
       \/ ~links[r].up /\ FramesGoOn(r)
       \/ \E g \in Goroutine : Closing(r, g)

ReceiverNext ==
  \/ \E r \in Receiver :
       \/ AttachReceiver(r) \/ LinkEnds(r) \/ PacketArrives(r)
       \/ FramesGoOn(r) \/ SpeakingUnknown(r) \/ Cleanup(r)
       \/ \E u \in Speaker : Speaking(r, u) \/ ClientDisconnect(r, u)
       \/ \E g \in Goroutine : Closing(r, g)
  \/ \E s \in Session : WorkerFeeds(s) \/ WorkerEnds(s)

-----------------------------------------------------------------------------
(* Properties                                                              *)

(* An open session is in the map of a receiver that will close it, or in   *)
(* the hands of a goroutine that is about to store or to close it: none is *)
(* left behind by a Close that comes while it is made (Receiver.go:318).   *)
SessionHasOwner ==
  \A s \in Session : sessions[s].at = "open" =>
    LET r == sessions[s].of IN
    \/ receivers[r].at = "open" /\ receivers[r].map[sessions[s].user] = s
    \/ \E g \in Goroutine : s \in tasks[r][g].left

(* The wake word detector has no stream without a session, so none that    *)
(* nobody will close: the worker has ended before its stream is closed,    *)
(* although the detector makes a stream for any sound it gets              *)
(* (Session.go:230, Modules/pico/src/index.ts:56).                         *)
NoStreamLeaks ==
  \A u \in streams : \E s \in Session :
    sessions[s].user = u /\ sessions[s].at \in {"open", "closing"}

(* A receiver whose Cleanup has begun has wound down: every session of it  *)
(* is closed, those that a late frame creates too, and the goroutine of    *)
(* the frames has ended, unless a message without a speaker has stopped    *)
(* the gateway with the mutex it needs, or one of the goroutines waits for *)
(* a worker that does not end.                                             *)
WoundDown(r) ==
  /\ \A s \in Session : sessions[s].of = r => sessions[s].at = "closed"
  /\ In(r, "frames", "done") \/ In(r, "gateway", "stuck")

WaitsForWorker(r) ==
  \E g \in Goroutine : In(r, g, "waiting") /\ sessions[tasks[r][g].now].worker

ReceiversOver ==
  \A r \in Receiver : In(r, "guild", "idle") \/ WoundDown(r) \/ WaitsForWorker(r)
=============================================================================
