---------------------------- MODULE GuildPlayback ----------------------------
(***************************************************************************)
(* One connected guild from the moment Connect has returned: the           *)
(* goroutines that play its songs, the streaming sessions they start, the  *)
(* handlers that SetState spawns, the inactivity timer, and the commands   *)
(* of users, all interleaved.                                              *)
(*                                                                         *)
(* StreamerMutex is held across several steps only by Guild.Play; every    *)
(* other critical section is one step that waits for the mutex to be free. *)
(* What the code does outside the mutex is a step of its own.  The queue   *)
(* operations themselves are one step each (SongQueue looks inside them),  *)
(* and a command finds the guild in the store when it acts (GuildStore     *)
(* models a guild that is held longer).  Shuffle, Repeat All and Autoplay  *)
(* are off: they change which song comes next, not who starts or stops it. *)
(***************************************************************************)
EXTENDS QueueOps, FiniteSets

CONSTANTS
  Session,       \* MP4Playback objects, one per started stream
  NoSession,     \* the nil PlaybackSession and the nil mixer source
  Player,        \* goroutines inside Queue.Play or Guild.Play
  NoPlayer,      \* StreamerMutex is not held by one of them
  RepeatOne,     \* Features.Repeat may be RepeatOne when a song ends
  NetworkFails,  \* streams may break, Discord may refuse, an encoder may fail
  MaxCommands,   \* bound: user commands in a behaviour
  MaxTimeline,   \* bound: songs held by the queue
  MaxPending     \* bound: unfinished handlers of one kind

ASSUME NoSessionAssumption == NoSession \notin Session
ASSUME NoPlayerAssumption == NoPlayer \notin Player
ASSUME SwitchesAssumption == RepeatOne \in BOOLEAN /\ NetworkFails \in BOOLEAN
ASSUME BoundsAssumption ==
  MaxCommands \in Nat /\ MaxTimeline \in Nat /\ MaxPending \in Nat

VARIABLES
  queue,        \* Previous, Current, Upcoming
  state,        \* Queue.State
  handlers,     \* how many QueueStateHandler goroutines of each kind are pending
  finishes,     \* FinishQueue calls on their way to the mutex
  idling,       \* FinishQueue calls past the mutex that have yet to start the timer
  session,      \* Queue.PlaybackSession
  source,       \* whose frames the mixer pulls
  sess,         \* the sessions and the streaming goroutine of each
  players,      \* the goroutines that play a song
  mutex,        \* the player that holds StreamerMutex
  timer,        \* Internal.InactivityTimer
  expired,      \* timer callbacks on their way to Disconnect
  stored,       \* the guild is in GuildStore; Cleanup takes it out
  commands      \* user commands so far (bound)

vars == <<queue, state, handlers, finishes, idling, session, source, sess, players, mutex,
          timer, expired, stored, commands>>

States == {"Idle", "Playing", "Paused"}

(* A streaming goroutine (PlayMP4) opens the stream, sends frames, waits   *)
(* until the mixer has taken the last one, and calls OnFinished; or it     *)
(* fails and calls OnStreamingError.                                       *)
Phases == {"unused", "opening", "streaming", "draining", "ended", "clearing", "failing", "over"}
Streaming == {"opening", "streaming", "draining"}

Sessions == [phase     : Phases,
             song      : Song \cup {NoSong},
             stopped   : BOOLEAN,   \* MP4Playback.Stopped
             cancelled : BOOLEAN,   \* the streamer's context and channel are closed
             paused    : BOOLEAN,   \* MP4Streamer.Paused
             finish    : BOOLEAN]   \* ShouldCallFinished

Pcs == {"free", "called", "resolving", "waiting", "wiring", "sourced", "speaking", "failed"}
Origins == {"queue", "uri"}

Players == [pc   : Pcs,
            via  : Origins,
            song : Song \cup {NoSong},        \* the argument of Guild.Play
            sid  : Session \cup {NoSession}]  \* its Playback

TypeOK ==
  /\ queue \in Queues
  /\ state \in States
  /\ handlers \in [States -> Nat]
  /\ finishes \in Nat
  /\ idling \in Nat
  /\ session \in Session \cup {NoSession}
  /\ source \in Session \cup {NoSession}
  /\ sess \in [Session -> Sessions]
  /\ players \in [Player -> Players]
  /\ mutex \in Player \cup {NoPlayer}
  /\ timer \in {"off", "armed", "spent"}
  /\ expired \in Nat
  /\ stored \in BOOLEAN
  /\ commands \in Nat

Unused == [phase |-> "unused", song |-> NoSong, stopped |-> FALSE, cancelled |-> FALSE,
           paused |-> FALSE, finish |-> FALSE]
Resting == [pc |-> "free", via |-> "queue", song |-> NoSong, sid |-> NoSession]

\* Connect has just stored the connection and given it a mixer without a source.
Init ==
  /\ queue = EmptyQueue
  /\ state = "Idle"
  /\ handlers = [k \in States |-> 0]
  /\ finishes = 0
  /\ idling = 0
  /\ session = NoSession
  /\ source = NoSession
  /\ sess = [s \in Session |-> Unused]
  /\ players = [p \in Player |-> Resting]
  /\ mutex = NoPlayer
  /\ timer = "off"
  /\ expired = 0
  /\ stored = TRUE
  /\ commands = 0

-----------------------------------------------------------------------------
(* Pieces of the steps                                                     *)

MutexFree == mutex = NoPlayer

\* Slip: stopping a playback leaves its streaming goroutine running.
StoppedButStreaming(ss, s) ==
  IF s = NoSession THEN ss ELSE [ss EXCEPT ![s].stopped = TRUE]

\* MP4Playback.Stop on a session, if there is one.
Stopped(ss, s) ==
  IF s = NoSession THEN ss
  ELSE [ss EXCEPT ![s].stopped = TRUE, ![s].cancelled = TRUE]

\* MixerProvider.Close closes the streamer of its source, not the playback.
SourceClosed(ss, s) ==
  IF s = NoSession THEN ss ELSE [ss EXCEPT ![s].cancelled = TRUE]

\* SetState stores the state and leaves the reaction to a goroutine.
SetState(k) ==
  /\ handlers[k] < MaxPending
  /\ state' = k
  /\ handlers' = [handlers EXCEPT ![k] = @ + 1]

HandlerEnds(k) == handlers' = [handlers EXCEPT ![k] = @ - 1]

\* A goroutine for Queue.Play, which looks at Current when it runs.
GoPlay ==
  \E p \in Player :
    /\ players[p].pc = "free"
    /\ players' = [players EXCEPT ![p].pc = "called"]

\* The goroutine of HandleURI, which plays the song that was added.
GoPlaySong(s) ==
  \E p \in Player :
    /\ players[p].pc = "free"
    /\ players' = [players EXCEPT ![p] = [pc |-> "resolving", via |-> "uri", song |-> s,
                                          sid |-> NoSession]]

\* A user command arrives: it has found the guild in the store.
Command ==
  /\ stored
  /\ commands < MaxCommands
  /\ commands' = commands + 1

\* What Cleanup does to the sessions: the playback is stopped, and closing the
\* mixer closes the source.
StopAll == SourceClosed(Stopped(sess, session), source)

\* The rest of Cleanup.
Cleanup ==
  /\ MutexFree
  /\ stored' = FALSE
  /\ timer' = "off"
  /\ session' = NoSession
  /\ source' = NoSession
  /\ queue' = EmptyQueue

-----------------------------------------------------------------------------
(* User commands                                                           *)

\* HandleURI: the song is added, and played at once when it got the Current slot
\* of a queue that is not playing.
PlaySong(s) ==
  /\ Command
  /\ Len(Timeline(queue)) < MaxTimeline
  /\ queue' = AddSong(queue, s)
  /\ IF AddPosition(queue) = 0 /\ state # "Playing" THEN GoPlaySong(s) ELSE UNCHANGED players
  /\ UNCHANGED <<state, handlers, finishes, session, source, sess, idling, mutex, timer,
                 expired, stored>>

\* The album and artist buttons: Clear, Add for every song, Play.
PlayAlbum(s, t) ==
  /\ Command
  /\ queue' = AddSong(AddSong(EmptyQueue, s), t)
  /\ GoPlay
  /\ UNCHANGED <<state, handlers, finishes, session, source, sess, idling, mutex, timer,
                 expired, stored>>

\* Queue.Next as NextSong and the Idle handler call it: play what comes next, or
\* go and finish the queue.
Advance(q) ==
  \/ /\ CanGoForward(q, 1)
     /\ queue' = GoForward(q, 1, FALSE)
     /\ GoPlay
     /\ UNCHANGED finishes
  \/ /\ ~CanGoForward(q, 1)
     /\ queue' = q
     /\ finishes < MaxPending
     /\ finishes' = finishes + 1
     /\ UNCHANGED players

NextSong ==
  /\ Command
  /\ Advance(queue)
  /\ UNCHANGED <<state, handlers, session, source, sess, idling, mutex, timer, expired,
                 stored>>

LastSong ==
  /\ Command
  /\ CanGoBack(queue, 1)
  /\ queue' = GoBack(queue, 1)
  /\ GoPlay
  /\ UNCHANGED <<state, handlers, finishes, session, source, sess, idling, mutex, timer,
                 expired, stored>>

Pause ==
  /\ Command
  /\ SetState("Paused")
  /\ UNCHANGED <<queue, finishes, session, source, sess, players, idling, mutex, timer,
                 expired, stored>>

Resume ==
  /\ Command
  /\ SetState("Playing")
  /\ UNCHANGED <<queue, finishes, session, source, sess, players, idling, mutex, timer,
                 expired, stored>>

\* ApplySavedQueue with a snapshot of one song or none.
LoadSaved(cur) ==
  /\ Command
  /\ MutexFree
  /\ sess' = Stopped(sess, session)
  /\ session' = NoSession
  /\ source' = NoSession
  /\ queue' = [EmptyQueue EXCEPT !.cur = cur]
  /\ state' = "Idle"
  /\ IF cur # NoSong THEN GoPlay ELSE UNCHANGED players
  /\ UNCHANGED <<handlers, finishes, idling, mutex, timer, expired, stored>>

\* The leave command, the Disconnect button, or the bot removed from the channel.
Leave ==
  /\ Command
  /\ Cleanup
  /\ sess' = StopAll
  /\ UNCHANGED <<state, handlers, finishes, players, idling, mutex, expired>>

\* Any slash command restarts the inactivity timer when there is one.
TouchTimer ==
  /\ Command
  /\ timer # "off"
  /\ timer' = "armed"
  /\ UNCHANGED <<queue, state, handlers, finishes, session, source, sess, players,
                 idling, mutex,
                 expired, stored>>

\* Connect and the Autoplay switch start the timer, whatever is playing.
StartTimer ==
  /\ Command
  /\ timer' = "armed"
  /\ UNCHANGED <<queue, state, handlers, finishes, idling, session, source, sess, players,
                 mutex, expired, stored>>

UserStep ==
  \/ \E s \in Song : PlaySong(s)
  \/ \E s, t \in Song : PlayAlbum(s, t)
  \/ NextSong
  \/ LastSong
  \/ Pause
  \/ Resume
  \/ \E cur \in Song \cup {NoSong} : LoadSaved(cur)
  \/ Leave
  \/ TouchTimer
  \/ StartTimer

-----------------------------------------------------------------------------
(* QueueStateHandler, one goroutine per SetState, and FinishQueue          *)

\* The handler asks GuildStore for the guild; a guild that is gone ends it.  The
\* repeat mode is what users have last set it to.
IdleHandler ==
  /\ handlers["Idle"] > 0
  /\ HandlerEnds("Idle")
  /\ \/ /\ ~stored
        /\ UNCHANGED <<queue, players, finishes>>
     \/ /\ stored
        /\ RepeatOne /\ queue.cur # NoSong
        /\ GoPlay
        /\ UNCHANGED <<queue, finishes>>
     \/ /\ stored
        /\ Advance(RetireCurrent(queue))
  /\ UNCHANGED <<state, session, source, sess, idling, mutex, timer, expired, stored,
                 commands>>

PausedHandler ==
  /\ handlers["Paused"] > 0
  /\ HandlerEnds("Paused")
  /\ sess' = IF session = NoSession THEN sess ELSE [sess EXCEPT ![session].paused = TRUE]
  /\ timer' = IF stored THEN "armed" ELSE timer
  /\ UNCHANGED <<queue, state, finishes, session, source, players, idling, mutex,
                 expired, stored, commands>>

PlayingHandler ==
  /\ handlers["Playing"] > 0
  /\ HandlerEnds("Playing")
  /\ sess' = IF session = NoSession THEN sess ELSE [sess EXCEPT ![session].paused = FALSE]
  /\ UNCHANGED <<queue, state, finishes, session, source, players, idling, mutex, timer,
                 expired,
                 stored, commands>>

\* FinishQueue has the guild and takes the mutex: stop, retire, go idle without a
\* handler.  Or it finds no guild; the Idle handler that called it still has one,
\* and goes on to the inactivity timer.
FinishQueue ==
  /\ finishes > 0
  /\ finishes' = finishes - 1
  /\ \/ /\ ~stored
        /\ idling' \in {idling, idling + 1}
        /\ UNCHANGED <<queue, state, session, source, sess>>
     \/ /\ MutexFree
        /\ sess' = Stopped(sess, session)
        /\ session' = NoSession
        /\ source' = NoSession
        /\ queue' = RetireCurrent(queue)
        /\ state' = "Idle"
        /\ idling' = idling + 1
  /\ UNCHANGED <<handlers, players, mutex, timer, expired, stored, commands>>

\* After it has told the websockets and prefetched, it starts the inactivity
\* timer of that guild, which may have been cleaned up since.
AwaitInactivity ==
  /\ idling > 0
  /\ idling' = idling - 1
  /\ timer' = "armed"
  /\ UNCHANGED <<queue, state, handlers, finishes, session, source, sess, players, mutex,
                 expired, stored, commands>>

-----------------------------------------------------------------------------
(* Playing a song                                                          *)

At(p, pc) == players[p].pc = pc
Goes(p, pc) == players' = [players EXCEPT ![p].pc = pc]
Leaves(p) == players' = [players EXCEPT ![p] = Resting]

\* Queue.Play looks at Current and at the store, then hands over to Guild.Play.
PlayStarts(p) ==
  /\ At(p, "called")
  /\ IF queue.cur # NoSong /\ stored
     THEN players' = [players EXCEPT ![p] = [@ EXCEPT !.pc = "resolving", !.song = queue.cur]]
     ELSE Leaves(p)
  /\ UNCHANGED <<queue, state, handlers, finishes, session, source, sess, idling, mutex, timer,
                 expired, stored, commands>>

\* Queue.Play sets the queue idle when the song cannot be played; HandleURI only
\* logs it.
Fails(p) == IF players[p].via = "queue" THEN Goes(p, "failed") ELSE Leaves(p)

\* ResolveStreamURL, without the mutex.
StreamResolved(p) ==
  /\ At(p, "resolving")
  /\ Goes(p, "waiting")
  /\ UNCHANGED <<queue, state, handlers, finishes, session, source, sess, idling, mutex, timer,
                 expired, stored, commands>>

StreamUnavailable(p) ==
  /\ NetworkFails
  /\ At(p, "resolving")
  /\ Fails(p)
  /\ UNCHANGED <<queue, state, handlers, finishes, session, source, sess, idling, mutex, timer,
                 expired, stored, commands>>

\* A new playback takes the place of the old one, which `stopping' has dealt with.
Replaces(p, stopping) ==
  /\ session' = NoSession
  /\ \E s \in Session :
       /\ sess[s].phase = "unused"
       /\ sess' = [stopping EXCEPT ![s] = [@ EXCEPT !.phase = "opening", !.song = players[p].song]]
       /\ players' = [players EXCEPT ![p] = [@ EXCEPT !.pc = "wiring", !.sid = s]]
  /\ mutex' = p

\* Cleanup drops connection and store entry together: Play finds no connection.
GivesUp(p) ==
  /\ ~stored
  /\ Fails(p)
  /\ UNCHANGED <<session, sess, mutex>>

\* What entering Play leaves alone.
OnlyPlayback ==
  UNCHANGED <<queue, state, handlers, finishes, idling, source, timer, expired, stored, commands>>

\* Slip: the playback that is running is forgotten, not stopped.
EnterPlayWithoutStop(p) ==
  /\ At(p, "waiting")
  /\ MutexFree
  /\ GivesUp(p) \/ (stored /\ Replaces(p, sess))
  /\ OnlyPlayback

\* Slip: the connection is not looked at again once the stream is resolved.
EnterPlayUnchecked(p) ==
  /\ At(p, "waiting")
  /\ MutexFree
  /\ Replaces(p, Stopped(sess, session))
  /\ OnlyPlayback

\* With the mutex: without a connection give up, else stop the old playback and
\* start the stream of the new one.
EnterPlay(p) ==
  /\ At(p, "waiting")
  /\ MutexFree
  /\ GivesUp(p) \/ (stored /\ Replaces(p, Stopped(sess, session)))
  /\ OnlyPlayback

\* There is no mixer, because Connect could not make one (nothing has a source
\* then), and Play cannot make one either.
MixerFails(p) ==
  /\ NetworkFails
  /\ At(p, "wiring") /\ source = NoSession
  /\ sess' = Stopped(sess, players[p].sid)
  /\ mutex' = NoPlayer
  /\ Fails(p)
  /\ UNCHANGED <<queue, state, handlers, finishes, idling, session, source, timer, expired,
                 stored, commands>>

SetSource(p) ==
  /\ At(p, "wiring")
  /\ source' = players[p].sid
  /\ Goes(p, "sourced")
  /\ UNCHANGED <<queue, state, handlers, finishes, session, sess, idling, mutex, timer,
                 expired,
                 stored, commands>>

SpeakingFails(p) ==
  /\ NetworkFails
  /\ At(p, "sourced")
  /\ sess' = Stopped(sess, players[p].sid)
  /\ mutex' = NoPlayer
  /\ Fails(p)
  /\ UNCHANGED <<queue, state, handlers, finishes, idling, session, source, timer, expired,
                 stored, commands>>

\* The state is published before the session is.
Speaking(p) ==
  /\ At(p, "sourced")
  /\ SetState("Playing")
  /\ Goes(p, "speaking")
  /\ UNCHANGED <<queue, finishes, session, source, sess, idling, mutex, timer, expired,
                 stored, commands>>

PlayReturns(p) ==
  /\ At(p, "speaking")
  /\ session' = players[p].sid
  /\ timer' = "off"
  /\ mutex' = NoPlayer
  /\ Leaves(p)
  /\ UNCHANGED <<queue, state, handlers, finishes, idling, source, sess, expired, stored,
                 commands>>

\* Queue.Play after an error.
SetIdle(p) ==
  /\ At(p, "failed")
  /\ MutexFree
  /\ SetState("Idle")
  /\ Leaves(p)
  /\ UNCHANGED <<queue, finishes, session, source, sess, idling, mutex, timer, expired,
                 stored, commands>>

PlayerStep(p) ==
  \/ PlayStarts(p)
  \/ StreamResolved(p)
  \/ StreamUnavailable(p)
  \/ EnterPlay(p)
  \/ MixerFails(p)
  \/ SetSource(p)
  \/ SpeakingFails(p)
  \/ Speaking(p)
  \/ PlayReturns(p)
  \/ SetIdle(p)

-----------------------------------------------------------------------------
(* The streaming goroutine of a session                                    *)

In(s, phase) == sess[s].phase = phase
Phase(s, phase) == sess' = [sess EXCEPT ![s].phase = phase]

\* Nothing but the session itself changes.
OnlySession ==
  UNCHANGED <<queue, state, handlers, finishes, session, source, players, idling, mutex, timer,
              expired, stored, commands>>

FirstFrame(s) ==
  /\ In(s, "opening")
  /\ Phase(s, "streaming")
  /\ OnlySession

\* StreamFromURL returns an error: the network failed, or the context was
\* cancelled under a request, or the stream ended before its first frame.
StreamFails(s) ==
  /\ sess[s].phase \in {"opening", "streaming"}
  /\ NetworkFails \/ sess[s].cancelled
  /\ sess' = [Stopped(sess, s) EXCEPT ![s].phase = "failing"]
  /\ OnlySession

\* Slip: OnFinished is called for stopped playbacks too.
StreamEndsAlwaysFinishing(s) ==
  /\ In(s, "streaming")
  /\ sess' = [sess EXCEPT ![s].phase = "draining", ![s].finish = TRUE]
  /\ OnlySession

\* StreamFromURL returns nil; whether OnFinished will be called is decided now.
StreamEnds(s) ==
  /\ In(s, "streaming")
  /\ sess' = [sess EXCEPT ![s].phase = "draining", ![s].finish = ~sess[s].stopped]
  /\ OnlySession

\* Slip: the loop that waits for the mixer does not look at the context.
DrainedByMixer(s) ==
  /\ In(s, "draining")
  /\ source = s /\ ~sess[s].paused
  /\ Phase(s, IF sess[s].finish THEN "ended" ELSE "over")
  /\ OnlySession

\* The channel is empty or the context cancelled.
Drained(s) ==
  /\ In(s, "draining")
  /\ sess[s].cancelled \/ (source = s /\ ~sess[s].paused)
  /\ Phase(s, IF sess[s].finish THEN "ended" ELSE "over")
  /\ OnlySession

\* Slip: OnFinished does not compare the session with its own playback.
OnFinishedUnchecked(s) ==
  /\ In(s, "ended")
  /\ MutexFree
  /\ IF stored
     THEN /\ session' = NoSession
          /\ SetState("Idle")
          /\ Phase(s, "clearing")
     ELSE /\ Phase(s, "over")
          /\ UNCHANGED <<session, state, handlers>>
  /\ UNCHANGED <<queue, finishes, source, players, idling, mutex, timer, expired, stored,
                 commands>>

OnFinished(s) ==
  /\ In(s, "ended")
  /\ MutexFree
  /\ IF stored /\ session = s
     THEN /\ session' = NoSession
          /\ SetState("Idle")
          /\ Phase(s, "clearing")
     ELSE /\ Phase(s, "over")
          /\ UNCHANGED <<session, state, handlers>>
  /\ UNCHANGED <<queue, finishes, source, players, idling, mutex, timer, expired, stored,
                 commands>>

\* OnFinished after it has unlocked: SetSource(nil) on the guild's mixer.
ClearSource(s) ==
  /\ In(s, "clearing")
  /\ source' = NoSession
  /\ Phase(s, "over")
  /\ UNCHANGED <<queue, state, handlers, finishes, session, players, idling, mutex,
                 timer, expired,
                 stored, commands>>

\* OnStreamingError: the guild disconnects, whichever playback failed.
OnStreamingError(s) ==
  /\ In(s, "failing")
  /\ Cleanup
  /\ sess' = [StopAll EXCEPT ![s].phase = "over"]
  /\ UNCHANGED <<state, handlers, finishes, players, idling, mutex, expired, commands>>

SessionStep(s) ==
  \/ FirstFrame(s)
  \/ StreamFails(s)
  \/ StreamEnds(s)
  \/ Drained(s)
  \/ OnFinished(s)
  \/ ClearSource(s)
  \/ OnStreamingError(s)

-----------------------------------------------------------------------------
(* The inactivity timer                                                    *)

TimerFires ==
  /\ timer = "armed"
  /\ timer' = "spent"
  /\ expired < MaxPending
  /\ expired' = expired + 1
  /\ UNCHANGED <<queue, state, handlers, finishes, session, source, sess, players,
                 idling, mutex,
                 stored, commands>>

\* The callback's Disconnect.
Expire ==
  /\ expired > 0
  /\ expired' = expired - 1
  /\ Cleanup
  /\ sess' = StopAll
  /\ UNCHANGED <<state, handlers, finishes, players, idling, mutex, commands>>

-----------------------------------------------------------------------------
HandlerStep == IdleHandler \/ PausedHandler \/ PlayingHandler \/ FinishQueue \/ AwaitInactivity

Next ==
  \/ UserStep
  \/ HandlerStep
  \/ \E p \in Player : PlayerStep(p)
  \/ \E s \in Session : SessionStep(s)
  \/ TimerFires
  \/ Expire

Spec == Init /\ [][Next]_vars

-----------------------------------------------------------------------------
(* Safety                                                                  *)

\* Streaming, and nobody has told it to stop.
Live(s) == sess[s].phase \in Streaming /\ ~sess[s].stopped

\* The player that holds the mutex has started this session and not yet published it.
InTheMaking(s) == mutex # NoPlayer /\ players[mutex].sid = s

\* However commands, song ends, stream failures and Play calls interleave, at most
\* one session streams without having been told to stop, and it is the one that
\* Queue.PlaybackSession names or that a Play in its critical section is about to
\* store there: no song is left streaming with nothing able to stop it.
OneLiveSession ==
  \A s \in Session : Live(s) => session = s \/ InTheMaking(s)

\* After Cleanup nothing streams, nothing is heard and no session is published,
\* whatever Play calls were under way when it ran.
QuietAfterCleanup ==
  ~stored => session = NoSession /\ source = NoSession /\ \A s \in Session : ~Live(s)

\* A playback that was stopped never reports the end of its song: the Idle state
\* it would set skips a song nobody has heard.
StoppedSessionIsSilent ==
  [][\A s \in Session : OnFinished(s) /\ sess[s].stopped => handlers' = handlers]_vars

(* The goroutine of a session, as PlaybackSession describes it. *)
Goroutine(s) == INSTANCE PlaybackSession
  WITH phase <- CASE In(s, "unused")   -> "opening"
                  [] In(s, "clearing") -> "ended"
                  [] OTHER             -> sess[s].phase,
       stopped <- sess[s].stopped, cancelled <- sess[s].cancelled, finish <- sess[s].finish

\* The guild counts on nothing that the goroutine of a playback does not promise:
\* what the sessions do here, PlaybackSession allows, and Streamer is shown to do.
SessionsKeepContract ==
  /\ \A s \in Session : Goroutine(s)!Init
  /\ [][\A s \in Session : [Goroutine(s)!Next]_(Goroutine(s)!session)]_vars

-----------------------------------------------------------------------------
(* What the comments promise                                               *)

\* "FinishQueue ... keeps the bot in voice until inactivity timeout": with a
\* working network the bot leaves for a command or for inactivity.
StaysInVoice == [][stored /\ ~stored' => Leave \/ Expire]_vars

\* "Double-check we aren't interfering with a new session": the Idle state that the
\* end of a song has set does not move the queue on while another song is playing.
EndKeepsNewSong == [][IdleHandler => ~\E s \in Session : session = s /\ Live(s)]_vars

-----------------------------------------------------------------------------
(* Liveness.  Goroutines run: one that can go on does, and Play gives the  *)
(* mutex back to those that wait for it.  A stream whose context is        *)
(* cancelled returns, and one that the mixer pulls from is pulled dry.     *)
(* Users, the network and the timer owe nothing.                           *)

\* What the streaming goroutine does without waiting for the network.
Returns(s) ==
  \/ sess[s].cancelled /\ (StreamFails(s) \/ StreamEnds(s))
  \/ Drained(s)
  \/ OnFinished(s)
  \/ ClearSource(s)
  \/ OnStreamingError(s)

Fairness ==
  /\ WF_vars(IdleHandler) /\ WF_vars(PausedHandler) /\ WF_vars(PlayingHandler)
  /\ WF_vars(FinishQueue) /\ WF_vars(AwaitInactivity) /\ WF_vars(Expire)
  /\ \A p \in Player : WF_vars(PlayerStep(p))
  /\ \A s \in Session : WF_vars(Returns(s))

FairSpec == Spec /\ Fairness

\* A session that was stopped, by whoever and in whatever phase, lets go: its
\* goroutine ends even if it was paused, full, or about to report its end.
StoppedSessionsEnd ==
  <>[]\A s \in Session : sess[s].stopped => sess[s].phase = "over"

WoundDown ==
  /\ \A k \in States : handlers[k] = 0
  /\ finishes = 0 /\ idling = 0 /\ expired = 0
  /\ \A p \in Player : At(p, "free")
  /\ \A s \in Session : sess[s].phase \in {"unused", "over"}

\* Cleanup leaves nothing behind: every goroutine of the guild ends, for good.
CleanupWindsDown == <>[](stored \/ WoundDown)

=============================================================================
