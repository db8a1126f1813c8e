------------------------ MODULE GuildPlayback_proofs ------------------------
(***************************************************************************)
(* What StreamerMutex guarantees, for any number of songs, sessions,       *)
(* players, commands and pending handlers: one live session at most,       *)
(* silence after Cleanup, no report from a stopped playback; and that the  *)
(* sessions use no more than the contract of PlaybackSession.              *)
(***************************************************************************)
EXTENDS GuildPlayback, QueueOps_proofs

\* The steps of Guild.Play between Lock and Unlock.
Holding == {"wiring", "sourced", "speaking"}

(* Who is in the critical section, and what it may rely on there: it has   *)
(* unpublished the old session, and nobody can run Cleanup.                *)
Exclusion ==
  /\ \A p \in Player : players[p].pc \in Holding => mutex = p
  /\ mutex # NoPlayer => /\ players[mutex].pc \in Holding
                         /\ players[mutex].sid \in Session
                         /\ session = NoSession
                         /\ stored

\* The published session, and the one about to be published, have started, and are
\* only ever stopped by the failure of their own stream.
StoppedByFailure ==
  /\ \A s \in Session : sess[s].phase = "unused"
       => ~sess[s].stopped /\ session # s /\ ~InTheMaking(s)
  /\ session # NoSession /\ sess[session].stopped => sess[session].phase = "failing"
  /\ mutex # NoPlayer /\ sess[players[mutex].sid].stopped
       => sess[players[mutex].sid].phase = "failing"

IInv ==
  /\ TypeOK
  /\ Exclusion
  /\ OneLiveSession
  /\ QuietAfterCleanup
  /\ StoppedByFailure

-----------------------------------------------------------------------------
(* The pieces the steps are made of                                        *)

\* A function of sessions keeps its type when one session is replaced.
LEMMA StoppedFacts ==
  ASSUME NEW ss \in [Session -> Sessions], NEW s \in Session \cup {NoSession}
  PROVE  /\ Stopped(ss, s) \in [Session -> Sessions]
         /\ \A t \in Session :
              /\ Stopped(ss, s)[t].phase = ss[t].phase
              /\ Stopped(ss, s)[t].stopped = (ss[t].stopped \/ t = s)
<1>1. CASE s = NoSession
  BY <1>1, NoSessionAssumption DEF Stopped, Sessions
<1>2. CASE s # NoSession
  BY <1>2 DEF Stopped, Sessions
<1> QED
  BY <1>1, <1>2

\* Closing the mixer cancels the session of its source and marks none as stopped
\* (MixerProvider.Close).
LEMMA SourceClosedFacts ==
  ASSUME NEW ss \in [Session -> Sessions], NEW s \in Session \cup {NoSession}
  PROVE  /\ SourceClosed(ss, s) \in [Session -> Sessions]
         /\ \A t \in Session :
              /\ SourceClosed(ss, s)[t].phase = ss[t].phase
              /\ SourceClosed(ss, s)[t].stopped = ss[t].stopped
BY DEF SourceClosed, Sessions

\* Cleanup stops the session of the queue and cancels that of the mixer.
LEMMA StopAllFacts ==
  ASSUME TypeOK
  PROVE  /\ StopAll \in [Session -> Sessions]
         /\ \A t \in Session :
              /\ StopAll[t].phase = sess[t].phase
              /\ StopAll[t].stopped = (sess[t].stopped \/ t = session)
<1>1. sess \in [Session -> Sessions] /\ session \in Session \cup {NoSession}
      /\ source \in Session \cup {NoSession}
  BY DEF TypeOK
<1>2. Stopped(sess, session) \in [Session -> Sessions]
  BY <1>1, StoppedFacts
<1> QED
  BY <1>1, <1>2, StoppedFacts, SourceClosedFacts DEF StopAll

\* The types of what a step does to states, handlers and players.
LEMMA SetStateType ==
  ASSUME TypeOK, NEW k \in States, SetState(k)
  PROVE  state' \in States /\ handlers' \in [States -> Nat]
BY DEF TypeOK, SetState

\* A state handler that returns keeps the type of the pending handlers.
LEMMA HandlerEndsType ==
  ASSUME TypeOK, NEW k \in States, handlers[k] > 0, HandlerEnds(k)
  PROVE  handlers' \in [States -> Nat]
BY DEF TypeOK, HandlerEnds

\* A goroutine that starts to play is outside the critical section.
LEMMA GoPlayFacts ==
  ASSUME TypeOK, GoPlay
  PROVE  /\ players' \in [Player -> Players]
         /\ \A p \in Player : \/ players'[p] = players[p]
                              \/ players[p].pc = "free" /\ players'[p].pc = "called"
BY DEF TypeOK, GoPlay, Players, Pcs

\* The same for the goroutine that HandleURI starts.
LEMMA GoPlaySongFacts ==
  ASSUME TypeOK, NEW s \in Song, GoPlaySong(s)
  PROVE  /\ players' \in [Player -> Players]
         /\ \A p \in Player : \/ players'[p] = players[p]
                              \/ players[p].pc = "free" /\ players'[p].pc = "resolving"
BY DEF TypeOK, GoPlaySong, Players, Pcs, Origins

\* What Queue.Next, as the handlers and NextSong call it, does to the queue.
LEMMA AdvanceFacts ==
  ASSUME TypeOK, NEW q \in Queues, Advance(q)
  PROVE  /\ queue' \in Queues
         /\ finishes' \in Nat
         /\ players' \in [Player -> Players]
         /\ \A p \in Player : \/ players'[p] = players[p]
                              \/ players[p].pc = "free" /\ players'[p].pc = "called"
<1>1. CASE CanGoForward(q, 1) /\ queue' = GoForward(q, 1, FALSE) /\ GoPlay /\ UNCHANGED finishes
  <2>1. GoForward(q, 1, FALSE) \in Forwards(q, 1, FALSE, FALSE)
    BY Zenon DEF Forwards
  <2>2. queue' \in SettledQueues
    BY <1>1, <2>1, ForwardsSettled
  <2> QED
    BY <1>1, <2>2, GoPlayFacts DEF SettledQueues, TypeOK
<1>2. CASE ~CanGoForward(q, 1) /\ queue' = q /\ finishes' = finishes + 1 /\ UNCHANGED players
  BY <1>2 DEF TypeOK
<1> QED
  BY <1>1, <1>2 DEF Advance

\* The queue that Cleanup leaves is a queue.
LEMMA EmptyQueueType == EmptyQueue \in Queues
BY DEF EmptyQueue, Queues

\* Cleanup, whoever runs it.
LEMMA CleanupFacts ==
  ASSUME Cleanup
  PROVE  /\ mutex = NoPlayer /\ stored' = FALSE /\ timer' = "off"
         /\ session' = NoSession /\ source' = NoSession /\ queue' \in Queues
BY EmptyQueueType DEF Cleanup, MutexFree

\* What the user's commands do to the type of the variables.
LEMMA UserType == TypeOK /\ UserStep => TypeOK'
<1> SUFFICES ASSUME TypeOK, UserStep PROVE TypeOK'
  OBVIOUS
<1>1. commands \in Nat /\ queue \in Queues /\ session \in Session \cup {NoSession}
      /\ sess \in [Session -> Sessions] /\ players \in [Player -> Players]
  BY DEF TypeOK
<1>2. ASSUME NEW s \in Song, PlaySong(s) PROVE TypeOK'
  <2>1. AddSong(queue, s) \in Queues
    BY <1>1, AddSongType
  <2>2. players' \in [Player -> Players]
    BY <1>1, <1>2, GoPlaySongFacts DEF PlaySong
  <2> QED
    BY <1>2, <2>1, <2>2 DEF PlaySong, Command, TypeOK
<1>3. ASSUME NEW s \in Song, NEW t \in Song, PlayAlbum(s, t) PROVE TypeOK'
  <2>1. AddSong(AddSong(EmptyQueue, s), t) \in Queues
    BY EmptyQueueType, AddSongType
  <2> QED
    BY <1>3, <2>1, GoPlayFacts DEF PlayAlbum, Command, TypeOK
<1>4. CASE NextSong
  BY <1>1, <1>4, AdvanceFacts DEF NextSong, Command, TypeOK
<1>5. CASE LastSong
  <2>1. GoBack(queue, 1) \in Queues
    BY <1>1, <1>5, GoBackIsResume, ResumeAtSettled DEF LastSong, SettledQueues
  <2> QED
    BY <1>5, <2>1, GoPlayFacts DEF LastSong, Command, TypeOK
<1>6. CASE Pause
  BY <1>6, SetStateType DEF Pause, Command, TypeOK, States
<1>7. CASE Resume
  BY <1>7, SetStateType DEF Resume, Command, TypeOK, States
<1>8. ASSUME NEW cur \in Song \cup {NoSong}, LoadSaved(cur) PROVE TypeOK'
  <2>1. [EmptyQueue EXCEPT !.cur = cur] \in Queues
    BY EmptyQueueType DEF Queues
  <2>2. players' \in [Player -> Players]
    BY <1>1, <1>8, GoPlayFacts DEF LoadSaved
  <2> QED
    BY <1>1, <1>8, <2>1, <2>2, StoppedFacts DEF LoadSaved, Command, TypeOK, States
<1>9. CASE Leave
  BY <1>9, CleanupFacts, StopAllFacts DEF Leave, Command, TypeOK
<1>10. CASE TouchTimer
  BY <1>10 DEF TouchTimer, Command, TypeOK
<1>11. CASE StartTimer
  BY <1>11 DEF StartTimer, Command, TypeOK
<1> QED
  BY <1>2, <1>3, <1>4, <1>5, <1>6, <1>7, <1>8, <1>9, <1>10, <1>11 DEF UserStep

\* What the state handlers, FinishQueue and its timer do to the type.
LEMMA HandlerType == TypeOK /\ HandlerStep => TypeOK'
<1> SUFFICES ASSUME TypeOK, HandlerStep PROVE TypeOK'
  OBVIOUS
<1>1. queue \in Queues /\ session \in Session \cup {NoSession} /\ finishes \in Nat
      /\ idling \in Nat /\ sess \in [Session -> Sessions] /\ players \in [Player -> Players]
  BY DEF TypeOK
<1>2. CASE IdleHandler
  <2>1. handlers' \in [States -> Nat]
    BY <1>2, HandlerEndsType DEF IdleHandler, States
  <2>2. RetireCurrent(queue) \in Queues
    BY <1>1, RetireType
  <2>3. queue' \in Queues /\ players' \in [Player -> Players] /\ finishes' \in Nat
    BY <1>1, <1>2, <2>2, GoPlayFacts, AdvanceFacts DEF IdleHandler
  <2> QED
    BY <1>2, <2>1, <2>3 DEF IdleHandler, TypeOK
<1>3. CASE PausedHandler
  <2>1. handlers' \in [States -> Nat]
    BY <1>3, HandlerEndsType DEF PausedHandler, States
  <2>2. sess' \in [Session -> Sessions]
    BY <1>1, <1>3 DEF PausedHandler, Sessions
  <2> QED
    BY <1>3, <2>1, <2>2 DEF PausedHandler, TypeOK
<1>4. CASE PlayingHandler
  <2>1. handlers' \in [States -> Nat]
    BY <1>4, HandlerEndsType DEF PlayingHandler, States
  <2>2. sess' \in [Session -> Sessions]
    BY <1>1, <1>4 DEF PlayingHandler, Sessions
  <2> QED
    BY <1>4, <2>1, <2>2 DEF PlayingHandler, TypeOK
<1>5. CASE FinishQueue
  <2>1. finishes' \in Nat /\ idling' \in Nat
    BY <1>1, <1>5 DEF FinishQueue
  <2>2. queue' \in Queues /\ sess' \in [Session -> Sessions]
    BY <1>1, <1>5, RetireType, StoppedFacts DEF FinishQueue
  <2> QED
    BY <1>5, <2>1, <2>2 DEF FinishQueue, TypeOK, States
<1>6. CASE AwaitInactivity
  BY <1>1, <1>6 DEF AwaitInactivity, TypeOK
<1> QED
  BY <1>2, <1>3, <1>4, <1>5, <1>6 DEF HandlerStep

\* A player moves on to another place, or leaves.
LEMMA GoesType ==
  ASSUME TypeOK, NEW p \in Player, NEW pc \in Pcs, Goes(p, pc)
  PROVE  players' \in [Player -> Players]
BY DEF TypeOK, Goes, Players

\* A player that returns keeps the type.
LEMMA LeavesType ==
  ASSUME TypeOK, NEW p \in Player, Leaves(p)
  PROVE  players' \in [Player -> Players]
BY DEF TypeOK, Leaves, Players, Pcs, Origins, Resting

\* A player that fails keeps the type, whichever caller it returns to.
LEMMA FailsType ==
  ASSUME TypeOK, NEW p \in Player, Fails(p)
  PROVE  players' \in [Player -> Players]
<1>1. "failed" \in Pcs
  BY DEF Pcs
<1> QED
  BY <1>1, GoesType, LeavesType DEF Fails

\* A session moves on to another phase.
LEMMA PhaseType ==
  ASSUME TypeOK, NEW s \in Session, NEW phase \in Phases, Phase(s, phase)
  PROVE  sess' \in [Session -> Sessions]
BY DEF TypeOK, Phase, Sessions

\* An unused session is opened and becomes the player's own.
LEMMA ReplacesFacts ==
  ASSUME TypeOK, NEW p \in Player, NEW ss \in [Session -> Sessions], Replaces(p, ss)
  PROVE  /\ sess' \in [Session -> Sessions] /\ players' \in [Player -> Players]
         /\ players'[p].pc = "wiring" /\ players'[p].sid \in Session
         /\ sess[players'[p].sid].phase = "unused"
         /\ sess'[players'[p].sid].phase = "opening"
         /\ sess'[players'[p].sid].stopped = ss[players'[p].sid].stopped
         /\ \A t \in Session : t # players'[p].sid => sess'[t] = ss[t]
         /\ \A q \in Player : q # p => players'[q] = players[q]
<1>1. PICK s \in Session :
        /\ sess[s].phase = "unused"
        /\ sess' = [ss EXCEPT ![s] = [@ EXCEPT !.phase = "opening", !.song = players[p].song]]
        /\ players' = [players EXCEPT ![p] = [@ EXCEPT !.pc = "wiring", !.sid = s]]
  BY DEF Replaces
<1>2. players \in [Player -> Players] /\ players[p].song \in Song \cup {NoSong}
  BY DEF TypeOK, Players
<1> DEFINE newSession == [ss[s] EXCEPT !.phase = "opening", !.song = players[p].song]
           newPlayer  == [players[p] EXCEPT !.pc = "wiring", !.sid = s]
<1>3. /\ newSession \in Sessions
      /\ newSession.phase = "opening" /\ newSession.stopped = ss[s].stopped
  BY <1>2 DEF Sessions, Phases
<1>4. newPlayer \in Players /\ newPlayer.pc = "wiring" /\ newPlayer.sid = s
  BY <1>2 DEF Players, Pcs
<1>5. sess' = [ss EXCEPT ![s] = newSession] /\ players' = [players EXCEPT ![p] = newPlayer]
  BY <1>1
<1> HIDE DEF newSession, newPlayer
<1>6. players'[p] = newPlayer /\ players' \in [Player -> Players]
      /\ \A q \in Player : q # p => players'[q] = players[q]
  BY <1>2, <1>4, <1>5
<1>7. sess'[s] = newSession /\ sess' \in [Session -> Sessions]
      /\ \A t \in Session : t # s => sess'[t] = ss[t]
  BY <1>3, <1>5
<1> QED
  BY <1>1, <1>3, <1>4, <1>6, <1>7

\* What the steps of Guild.Play do to the type.
LEMMA PlayerType ==
  ASSUME TypeOK, NEW p \in Player, PlayerStep(p)
  PROVE  TypeOK'
<1>1. queue \in Queues /\ session \in Session \cup {NoSession} /\ sess \in [Session -> Sessions]
      /\ players \in [Player -> Players] /\ players[p].sid \in Session \cup {NoSession}
      /\ players[p].song \in Song \cup {NoSong}
  BY DEF TypeOK, Players
<1>2. CASE PlayStarts(p)
  <2>1. players' \in [Player -> Players]
    <3>1. CASE queue.cur # NoSong /\ stored
      <4> DEFINE new == [players[p] EXCEPT !.pc = "resolving", !.song = queue.cur]
      <4>1. new \in Players
        BY <1>1 DEF Players, Pcs, Queues
      <4>2. players' = [players EXCEPT ![p] = new]
        BY <1>2, <3>1 DEF PlayStarts
      <4> HIDE DEF new
      <4> QED
        BY <1>1, <4>1, <4>2
    <3>2. CASE ~(queue.cur # NoSong /\ stored)
      BY <1>2, <3>2, LeavesType DEF PlayStarts
    <3> QED
      BY <3>1, <3>2
  <2> QED
    BY <1>2, <2>1 DEF PlayStarts, TypeOK
<1>3. CASE StreamResolved(p)
  BY <1>3, GoesType DEF StreamResolved, TypeOK, Pcs
<1>4. CASE StreamUnavailable(p)
  BY <1>4, FailsType DEF StreamUnavailable, TypeOK
<1>5. CASE EnterPlay(p)
  <2>1. CASE GivesUp(p)
    BY <1>5, <2>1, FailsType DEF EnterPlay, GivesUp, OnlyPlayback, TypeOK
  <2>2. CASE Replaces(p, Stopped(sess, session))
    <3>1. Stopped(sess, session) \in [Session -> Sessions]
      BY <1>1, StoppedFacts
    <3>2. sess' \in [Session -> Sessions] /\ players' \in [Player -> Players]
      BY <2>2, <3>1, ReplacesFacts
    <3> QED
      BY <1>5, <2>2, <3>2 DEF EnterPlay, Replaces, OnlyPlayback, TypeOK
  <2> QED
    BY <1>5, <2>1, <2>2 DEF EnterPlay
<1>6. CASE SetSource(p)
  BY <1>1, <1>6, GoesType DEF SetSource, TypeOK, Pcs
<1>7. CASE MixerFails(p) \/ SpeakingFails(p)
  <2>1. sess' \in [Session -> Sessions]
    BY <1>1, <1>7, StoppedFacts DEF MixerFails, SpeakingFails
  <2> QED
    BY <1>7, <2>1, FailsType DEF MixerFails, SpeakingFails, TypeOK
<1>8. CASE Speaking(p)
  <2>1. state' \in States /\ handlers' \in [States -> Nat]
    BY <1>8, SetStateType DEF Speaking, States
  <2> QED
    BY <1>8, <2>1, GoesType DEF Speaking, TypeOK, Pcs
<1>9. CASE PlayReturns(p)
  BY <1>1, <1>9, LeavesType DEF PlayReturns, TypeOK
<1>10. CASE SetIdle(p)
  <2>1. state' \in States /\ handlers' \in [States -> Nat]
    BY <1>10, SetStateType DEF SetIdle, States
  <2> QED
    BY <1>10, <2>1, LeavesType DEF SetIdle, TypeOK
<1> QED
  BY <1>2, <1>3, <1>4, <1>5, <1>6, <1>7, <1>8, <1>9, <1>10 DEF PlayerStep

\* What the steps of a playback goroutine do to the type.
LEMMA SessionType ==
  ASSUME TypeOK, NEW s \in Session, SessionStep(s)
  PROVE  TypeOK'
<1>1. sess \in [Session -> Sessions] /\ sess[s] \in Sessions
  BY DEF TypeOK
<1>2. CASE FirstFrame(s)
  BY <1>2, PhaseType DEF FirstFrame, OnlySession, TypeOK, Phases
<1>3. CASE StreamFails(s)
  <2>1. sess' \in [Session -> Sessions]
    <3> DEFINE stopping == Stopped(sess, s)
    <3>1. stopping \in [Session -> Sessions] /\ sess' = [stopping EXCEPT ![s].phase = "failing"]
      BY <1>1, <1>3, StoppedFacts DEF StreamFails
    <3> HIDE DEF stopping
    <3> QED
      BY <3>1 DEF Sessions, Phases
  <2> QED
    BY <1>3, <2>1 DEF StreamFails, OnlySession, TypeOK
<1>4. CASE StreamEnds(s)
  <2>1. sess' \in [Session -> Sessions]
    BY <1>1, <1>4 DEF StreamEnds, Sessions, Phases
  <2> QED
    BY <1>4, <2>1 DEF StreamEnds, OnlySession, TypeOK
<1>5. CASE Drained(s)
  BY <1>5, PhaseType DEF Drained, OnlySession, TypeOK, Phases
<1>6. CASE OnFinished(s)
  <2>1. sess' \in [Session -> Sessions]
    BY <1>6, PhaseType DEF OnFinished, Phases
  <2>2. state' \in States /\ handlers' \in [States -> Nat]
    BY <1>6, SetStateType DEF OnFinished, States, TypeOK
  <2> QED
    BY <1>6, <2>1, <2>2 DEF OnFinished, TypeOK
<1>7. CASE ClearSource(s)
  BY <1>7, PhaseType DEF ClearSource, TypeOK, Phases
<1>8. CASE OnStreamingError(s)
  <2>1. sess' \in [Session -> Sessions]
    <3>1. StopAll \in [Session -> Sessions] /\ sess' = [StopAll EXCEPT ![s].phase = "over"]
      BY <1>8, StopAllFacts DEF OnStreamingError
    <3> QED
      BY <3>1 DEF Sessions, Phases
  <2> QED
    BY <1>8, <2>1, CleanupFacts DEF OnStreamingError, TypeOK
<1> QED
  BY <1>2, <1>3, <1>4, <1>5, <1>6, <1>7, <1>8 DEF SessionStep

\* Every step keeps the type.
LEMMA TypeStep == TypeOK /\ [Next]_vars => TypeOK'
<1> SUFFICES ASSUME TypeOK, [Next]_vars PROVE TypeOK'
  OBVIOUS
<1>1. CASE TimerFires
  BY <1>1 DEF TimerFires, TypeOK
<1>2. CASE Expire
  <2>1. expired' \in Nat
    BY <1>2 DEF Expire, TypeOK
  <2> QED
    BY <1>2, <2>1, CleanupFacts, StopAllFacts DEF Expire, TypeOK
<1>3. CASE UNCHANGED vars
  BY <1>3 DEF vars, TypeOK
<1> QED
  BY <1>1, <1>2, <1>3, UserType, HandlerType, PlayerType, SessionType DEF Next

-----------------------------------------------------------------------------
(* Steps of one kind keep the invariant for one reason                     *)

Core == Exclusion /\ OneLiveSession /\ QuietAfterCleanup /\ StoppedByFailure

\* A step outside the critical section that touches neither the connection nor
\* what streams.
Aside ==
  /\ UNCHANGED <<session, source, mutex, stored>>
  /\ \A s \in Session : sess'[s].phase = sess[s].phase /\ sess'[s].stopped = sess[s].stopped
  /\ \A p \in Player : \/ players'[p] = players[p]
                       \/ players[p].pc \notin Holding /\ players'[p].pc \notin Holding

\* The published session is stopped and unpublished.
Silence ==
  /\ mutex = NoPlayer /\ mutex' = NoPlayer
  /\ session' = NoSession /\ source' = NoSession
  /\ stored' \in {stored, FALSE}
  /\ \A s \in Session : /\ sess'[s].phase \in {sess[s].phase, "over"}
                        /\ sess'[s].stopped = (sess[s].stopped \/ s = session)
  /\ \A p \in Player : \/ players'[p] = players[p]
                       \/ players[p].pc \notin Holding /\ players'[p].pc \notin Holding

\* The stream of one session goes on, and stops only by failing.
Streams(s) ==
  /\ UNCHANGED <<session, source, mutex, stored, players>>
  /\ \A t \in Session : t # s => sess'[t] = sess[t]
  /\ sess[s].phase # "unused" /\ sess'[s].phase # "unused"
  /\ sess[s].phase # "failing"
  /\ sess'[s].stopped => sess[s].stopped \/ sess'[s].phase = "failing"
  /\ sess'[s].phase \in Streaming => sess[s].phase \in Streaming /\ sess'[s].stopped = sess[s].stopped

\* A step aside keeps the invariant.
LEMMA AsideKeeps ==
  ASSUME IInv, TypeOK', Aside
  PROVE  Core'
<1> USE DEF IInv, Aside
<1>1. mutex \in Player \cup {NoPlayer} /\ NoPlayer \notin Player
  BY NoPlayerAssumption DEF TypeOK
<1>2. mutex # NoPlayer => mutex \in Player /\ players'[mutex] = players[mutex]
  BY <1>1 DEF Exclusion
<1>3. Exclusion'
  BY <1>1, <1>2 DEF Exclusion
<1>4. \A s \in Session : Live(s)' = Live(s) /\ InTheMaking(s)' = InTheMaking(s)
  BY <1>2 DEF Live, InTheMaking
<1>5. OneLiveSession' /\ QuietAfterCleanup'
  BY <1>4 DEF OneLiveSession, QuietAfterCleanup
<1>6. StoppedByFailure'
  <2>1. session \in Session \cup {NoSession}
    BY DEF TypeOK
  <2>2. mutex # NoPlayer => players[mutex].sid \in Session
    BY DEF Exclusion
  <2> QED
    BY <1>2, <1>4, <2>1, <2>2 DEF StoppedByFailure
<1> QED
  BY <1>3, <1>5, <1>6 DEF Core

\* A step that stops what streams keeps the invariant.
LEMMA SilenceKeeps ==
  ASSUME IInv, TypeOK', Silence
  PROVE  Core'
<1> USE DEF IInv, Silence
<1>1. NoPlayer \notin Player
  BY NoPlayerAssumption
<1>2. Exclusion'
  BY <1>1 DEF Exclusion
<1>3. \A s \in Session : ~Live(s)'
  BY DEF Live, OneLiveSession, InTheMaking, Streaming
<1>4. OneLiveSession' /\ QuietAfterCleanup'
  BY <1>3 DEF OneLiveSession, QuietAfterCleanup
<1>5. StoppedByFailure'
  BY NoSessionAssumption DEF StoppedByFailure, InTheMaking
<1> QED
  BY <1>2, <1>4, <1>5 DEF Core

\* A step of one session that stops or ends keeps the invariant.
LEMMA StreamsKeeps ==
  ASSUME IInv, TypeOK', NEW s \in Session, Streams(s)
  PROVE  Core'
<1> USE DEF IInv, Streams
<1>1. Exclusion'
  BY DEF Exclusion
<1>2. \A t \in Session : (Live(t)' => Live(t)) /\ InTheMaking(t)' = InTheMaking(t)
  BY DEF Live, InTheMaking
<1>3. OneLiveSession' /\ QuietAfterCleanup'
  BY <1>2 DEF OneLiveSession, QuietAfterCleanup
<1>4. StoppedByFailure'
  <2>1. session \in Session \cup {NoSession}
    BY DEF TypeOK
  <2>2. mutex # NoPlayer => players[mutex].sid \in Session
    BY DEF Exclusion
  <2> QED
    BY <1>2, <2>1, <2>2 DEF StoppedByFailure
<1> QED
  BY <1>1, <1>3, <1>4 DEF Core

-----------------------------------------------------------------------------
(* Every step is of one of these kinds, or one of the four steps of        *)
(* Guild.Play in its critical section                                      *)

\* A player outside the critical section moves on outside it.
LEMMA OutsideMoves ==
  ASSUME TypeOK, NEW p \in Player, players[p].pc \notin Holding,
         \/ \E pc \in Pcs \ Holding : Goes(p, pc)
         \/ Leaves(p)
         \/ Fails(p)
  PROVE  \A q \in Player : \/ players'[q] = players[q]
                           \/ players[q].pc \notin Holding /\ players'[q].pc \notin Holding
<1>1. Leaves(p) => players'[p].pc = "free" /\ \A q \in Player : q # p => players'[q] = players[q]
  BY DEF TypeOK, Leaves, Resting
<1>2. ASSUME NEW pc \in Pcs, Goes(p, pc)
      PROVE  players'[p].pc = pc /\ \A q \in Player : q # p => players'[q] = players[q]
  BY <1>2 DEF TypeOK, Goes, Players
<1>3. Fails(p) => Goes(p, "failed") \/ Leaves(p)
  BY DEF Fails
<1> QED
  BY <1>1, <1>2, <1>3 DEF Holding, Pcs

\* A goroutine that starts to play, or a step that starts none.
LEMMA NewPlayers ==
  ASSUME TypeOK, GoPlay \/ (\E s \in Song : GoPlaySong(s)) \/ UNCHANGED players
  PROVE  \A q \in Player : \/ players'[q] = players[q]
                           \/ players[q].pc \notin Holding /\ players'[q].pc \notin Holding
BY GoPlayFacts, GoPlaySongFacts DEF Holding

\* Queue.Next starts at most one player, outside the critical section.
LEMMA AdvanceStartsOutside ==
  ASSUME TypeOK, NEW q \in Queues, Advance(q)
  PROVE  GoPlay \/ UNCHANGED players
BY DEF Advance

\* Cleanup, from whichever caller, is a step that stops what streams.
LEMMA CleanupSilences ==
  ASSUME TypeOK, Cleanup, sess' = StopAll, UNCHANGED <<mutex, players>>
  PROVE  Silence
BY CleanupFacts, StopAllFacts DEF Silence

\* The user's commands keep the invariant.
LEMMA UserKeeps ==
  ASSUME IInv, TypeOK', UserStep
  PROVE  Core'
<1>1. TypeOK /\ queue \in Queues /\ sess \in [Session -> Sessions]
      /\ session \in Session \cup {NoSession}
  BY DEF IInv, TypeOK
<1>2. ASSUME NEW s \in Song, PlaySong(s) PROVE Aside
  BY <1>1, <1>2, NewPlayers DEF PlaySong, Aside
<1>3. ASSUME NEW s \in Song, NEW t \in Song, PlayAlbum(s, t) PROVE Aside
  BY <1>1, <1>3, NewPlayers DEF PlayAlbum, Aside
<1>4. CASE NextSong
  <2>1. Aside
    BY <1>1, <1>4, AdvanceStartsOutside, NewPlayers DEF NextSong, Aside
  <2> QED
    BY <2>1, AsideKeeps
<1>5. CASE LastSong
  <2>1. Aside
    BY <1>1, <1>5, NewPlayers DEF LastSong, Aside
  <2> QED
    BY <2>1, AsideKeeps
<1>6. CASE Pause \/ Resume \/ TouchTimer \/ StartTimer
  <2>1. Aside
    BY <1>6 DEF Pause, Resume, TouchTimer, StartTimer, Aside
  <2> QED
    BY <2>1, AsideKeeps
<1>7. ASSUME NEW cur \in Song \cup {NoSong}, LoadSaved(cur) PROVE Silence
  <2>1. GoPlay \/ UNCHANGED players
    BY <1>7 DEF LoadSaved
  <2> QED
    BY <1>1, <1>7, <2>1, NewPlayers, StoppedFacts DEF LoadSaved, MutexFree, Silence
<1>8. CASE Leave
  <2>1. Silence
    BY <1>1, <1>8, CleanupSilences DEF Leave
  <2> QED
    BY <2>1, SilenceKeeps
<1> QED
  BY <1>2, <1>3, <1>4, <1>5, <1>6, <1>7, <1>8, AsideKeeps, SilenceKeeps DEF UserStep

\* The state handlers keep the invariant.
LEMMA HandlerKeeps ==
  ASSUME IInv, TypeOK', HandlerStep
  PROVE  Core'
<1>1. TypeOK /\ queue \in Queues /\ sess \in [Session -> Sessions]
      /\ session \in Session \cup {NoSession}
  BY DEF IInv, TypeOK
<1>2. CASE IdleHandler
  <2>1. GoPlay \/ UNCHANGED players
    BY <1>1, <1>2, RetireType, AdvanceStartsOutside DEF IdleHandler
  <2>2. Aside
    BY <1>1, <1>2, <2>1, NewPlayers DEF IdleHandler, Aside
  <2> QED
    BY <2>2, AsideKeeps
<1>3. CASE PausedHandler \/ PlayingHandler
  <2>1. \A s \in Session : sess'[s].phase = sess[s].phase /\ sess'[s].stopped = sess[s].stopped
    BY <1>1, <1>3 DEF PausedHandler, PlayingHandler, Sessions
  <2>2. Aside
    BY <1>3, <2>1 DEF PausedHandler, PlayingHandler, Aside
  <2> QED
    BY <2>2, AsideKeeps
<1>4. CASE FinishQueue
  <2>1. CASE UNCHANGED <<session, source, sess>>
    <3>1. Aside
      BY <1>4, <2>1 DEF FinishQueue, Aside
    <3> QED
      BY <3>1, AsideKeeps
  <2>2. CASE MutexFree /\ sess' = Stopped(sess, session) /\ session' = NoSession /\ source' = NoSession
    <3>1. Silence
      BY <1>1, <1>4, <2>2, StoppedFacts DEF FinishQueue, MutexFree, Silence
    <3> QED
      BY <3>1, SilenceKeeps
  <2> QED
    BY <1>4, <2>1, <2>2 DEF FinishQueue
<1>5. CASE AwaitInactivity
  <2>1. Aside
    BY <1>5 DEF AwaitInactivity, Aside
  <2> QED
    BY <2>1, AsideKeeps
<1> QED
  BY <1>2, <1>3, <1>4, <1>5 DEF HandlerStep

\* The playback goroutines keep the invariant.
LEMMA SessionKeeps ==
  ASSUME IInv, TypeOK', NEW s \in Session, SessionStep(s)
  PROVE  Core'
<1>1. TypeOK /\ sess \in [Session -> Sessions] /\ sess[s] \in Sessions
      /\ session \in Session \cup {NoSession}
  BY DEF IInv, TypeOK
<1>2. ASSUME NEW phase, Phase(s, phase)
      PROVE  /\ sess'[s].phase = phase /\ sess'[s].stopped = sess[s].stopped
             /\ \A t \in Session : t # s => sess'[t] = sess[t]
  BY <1>1, <1>2 DEF Phase, Sessions
<1>3. CASE FirstFrame(s) \/ Drained(s)
  <2>1. Streams(s)
    BY <1>2, <1>3 DEF FirstFrame, Drained, OnlySession, In, Streams, Streaming
  <2> QED
    BY <2>1, StreamsKeeps
<1>4. CASE StreamFails(s)
  <2> DEFINE stopping == Stopped(sess, s)
  <2>1. sess' = [stopping EXCEPT ![s].phase = "failing"]
    BY <1>4 DEF StreamFails
  <2>2. stopping \in [Session -> Sessions]
        /\ \A t \in Session : t # s => stopping[t] = sess[t]
    BY <1>1, NoSessionAssumption, StoppedFacts DEF Stopped
  <2> HIDE DEF stopping
  <2>3. sess'[s].phase = "failing" /\ \A t \in Session : t # s => sess'[t] = sess[t]
    BY <2>1, <2>2 DEF Sessions
  <2>4. Streams(s)
    BY <1>4, <2>3 DEF StreamFails, OnlySession, Streams, Streaming
  <2> QED
    BY <2>4, StreamsKeeps
<1>5. CASE StreamEnds(s)
  <2>1. sess'[s].phase = "draining" /\ sess'[s].stopped = sess[s].stopped
        /\ \A t \in Session : t # s => sess'[t] = sess[t]
    BY <1>1, <1>5 DEF StreamEnds, Sessions
  <2>2. Streams(s)
    BY <1>5, <2>1 DEF StreamEnds, OnlySession, In, Streams, Streaming
  <2> QED
    BY <2>2, StreamsKeeps
<1>6. CASE OnFinished(s)
  <2>1. CASE UNCHANGED session /\ Phase(s, "over")
    <3>1. Streams(s)
      BY <1>2, <1>6, <2>1 DEF OnFinished, In, Streams, Streaming
    <3> QED
      BY <3>1, StreamsKeeps
  <2>2. CASE session' = NoSession /\ Phase(s, "clearing") /\ session = s /\ stored
    <3>1. \A t \in Session : ~Live(t)'
      BY <1>2, <1>6, <2>2 DEF IInv, OneLiveSession, InTheMaking, OnFinished, MutexFree, In,
                              Live, Streaming
    <3>2. mutex' = NoPlayer /\ stored' /\ UNCHANGED <<mutex, players>>
      BY <1>6, <2>2 DEF OnFinished, MutexFree
    <3>3. Exclusion'
      BY <3>2 DEF IInv, Exclusion
    <3>4. OneLiveSession' /\ QuietAfterCleanup'
      BY <3>1, <3>2 DEF OneLiveSession, QuietAfterCleanup
    <3>5. StoppedByFailure'
      BY <1>2, <1>6, <2>2, <3>2, NoSessionAssumption
      DEF IInv, StoppedByFailure, InTheMaking, OnFinished, In
    <3> QED
      BY <3>3, <3>4, <3>5 DEF Core
  <2> QED
    BY <1>6, <2>1, <2>2 DEF OnFinished
<1>7. CASE ClearSource(s)
  <2>1. sess'[s].phase = "over" /\ sess'[s].stopped = sess[s].stopped
        /\ \A t \in Session : t # s => sess'[t] = sess[t]
    BY <1>2, <1>7 DEF ClearSource
  <2>2. UNCHANGED <<session, mutex, stored, players>> /\ sess[s].phase = "clearing"
        /\ source' = NoSession
    BY <1>7 DEF ClearSource, In
  <2>3. Exclusion'
    BY <2>2 DEF IInv, Exclusion
  <2>4. \A t \in Session : (Live(t)' => Live(t)) /\ InTheMaking(t)' = InTheMaking(t)
    BY <2>1, <2>2 DEF Live, InTheMaking, Streaming
  <2>5. OneLiveSession' /\ QuietAfterCleanup'
    BY <2>2, <2>4 DEF IInv, OneLiveSession, QuietAfterCleanup
  <2>6. StoppedByFailure'
    <3>1. mutex # NoPlayer => players[mutex].sid \in Session
      BY DEF IInv, Exclusion
    <3> QED
      BY <1>1, <2>1, <2>2, <2>4, <3>1 DEF IInv, StoppedByFailure
  <2> QED
    BY <2>3, <2>5, <2>6 DEF Core
<1>8. CASE OnStreamingError(s)
  <2>1. StopAll \in [Session -> Sessions] /\ sess' = [StopAll EXCEPT ![s].phase = "over"]
    BY <1>1, <1>8, StopAllFacts DEF OnStreamingError
  <2>2. \A t \in Session : /\ sess'[t].phase \in {StopAll[t].phase, "over"}
                           /\ sess'[t].stopped = StopAll[t].stopped
    BY <2>1 DEF Sessions
  <2>3. Silence
    BY <1>1, <1>8, <2>2, CleanupFacts, StopAllFacts DEF OnStreamingError, Silence
  <2> QED
    BY <2>3, SilenceKeeps
<1> QED
  BY <1>3, <1>4, <1>5, <1>6, <1>7, <1>8 DEF SessionStep

\* Guild.Play keeps the invariant, inside and outside its critical section.
LEMMA PlayerKeeps ==
  ASSUME IInv, TypeOK', NEW p \in Player, PlayerStep(p)
  PROVE  Core'
<1> USE NoPlayerAssumption, NoSessionAssumption
<1>1. TypeOK /\ sess \in [Session -> Sessions] /\ players \in [Player -> Players]
      /\ session \in Session \cup {NoSession} /\ mutex \in Player \cup {NoPlayer}
  BY DEF IInv, TypeOK
<1>2. CASE PlayStarts(p)
  <2>1. \A q \in Player : \/ players'[q] = players[q]
                          \/ players[q].pc \notin Holding /\ players'[q].pc \notin Holding
    <3>1. CASE Leaves(p)
      BY <1>1, <1>2, <3>1, OutsideMoves DEF PlayStarts, At, Holding
    <3>2. CASE ~Leaves(p)
      <4> DEFINE new == [players[p] EXCEPT !.pc = "resolving", !.song = queue.cur]
      <4>1. players' = [players EXCEPT ![p] = new]
        BY <1>2, <3>2 DEF PlayStarts
      <4>2. new.pc = "resolving"
        BY <1>1 DEF Players
      <4> HIDE DEF new
      <4> QED
        BY <1>1, <1>2, <4>1, <4>2 DEF PlayStarts, At, Holding
    <3> QED
      BY <3>1, <3>2
  <2>2. Aside
    BY <1>2, <2>1 DEF PlayStarts, Aside
  <2> QED
    BY <2>2, AsideKeeps
<1>3. CASE StreamResolved(p) \/ StreamUnavailable(p) \/ SetIdle(p)
  <2>1. Aside
    BY <1>1, <1>3, OutsideMoves
    DEF StreamResolved, StreamUnavailable, SetIdle, At, Holding, Pcs, Aside
  <2> QED
    BY <2>1, AsideKeeps
<1>4. CASE EnterPlay(p) /\ GivesUp(p)
  <2>1. Aside
    BY <1>1, <1>4, OutsideMoves DEF EnterPlay, GivesUp, OnlyPlayback, At, Holding, Aside
  <2> QED
    BY <2>1, AsideKeeps
<1>5. CASE EnterPlay(p) /\ stored /\ Replaces(p, Stopped(sess, session))
  <2> DEFINE stopping == Stopped(sess, session)
             new      == players'[p].sid
  <2>1. /\ stopping \in [Session -> Sessions]
        /\ \A t \in Session : /\ stopping[t].phase = sess[t].phase
                              /\ stopping[t].stopped = (sess[t].stopped \/ t = session)
    BY <1>1, StoppedFacts
  <2>2. /\ mutex = NoPlayer /\ mutex' = p /\ session' = NoSession /\ stored'
        /\ Replaces(p, stopping)
    BY <1>5 DEF EnterPlay, MutexFree, Replaces, OnlyPlayback
  <2> HIDE DEF stopping
  <2>3. /\ players'[p].pc = "wiring" /\ new \in Session
        /\ sess[new].phase = "unused" /\ sess'[new].phase = "opening"
        /\ sess'[new].stopped = stopping[new].stopped
        /\ \A t \in Session : t # new => sess'[t] = stopping[t]
        /\ \A q \in Player : q # p => players'[q] = players[q]
    BY <1>1, <2>1, <2>2, ReplacesFacts
  <2> HIDE DEF new
  <2>4. ~sess'[new].stopped
    BY <2>1, <2>2, <2>3 DEF IInv, StoppedByFailure
  <2>5. Exclusion'
    BY <2>2, <2>3 DEF IInv, Exclusion, Holding, new
  <2>6. \A t \in Session : t # new => ~Live(t)'
    BY <2>1, <2>2, <2>3 DEF IInv, OneLiveSession, InTheMaking, Live
  <2>7. OneLiveSession' /\ QuietAfterCleanup'
    BY <2>2, <2>6 DEF OneLiveSession, QuietAfterCleanup, InTheMaking, new
  <2>8. StoppedByFailure'
    BY <2>1, <2>2, <2>3, <2>4 DEF IInv, StoppedByFailure, InTheMaking, new
  <2> QED
    BY <2>5, <2>7, <2>8 DEF Core
<1>6. ASSUME NEW pc \in Holding, Goes(p, pc), players[p].pc \in Holding,
             UNCHANGED <<session, sess, mutex, stored>>
      PROVE  Core'
  <2>1. mutex = p /\ stored
    BY <1>6 DEF IInv, Exclusion
  <2>2. /\ players'[p].pc = pc /\ players'[p].sid = players[p].sid
        /\ \A q \in Player : q # p => players'[q] = players[q]
    BY <1>1, <1>6 DEF Goes, Players
  <2>3. Exclusion'
    BY <1>6, <2>1, <2>2 DEF IInv, Exclusion
  <2>4. \A t \in Session : Live(t)' = Live(t) /\ InTheMaking(t)' = InTheMaking(t)
    BY <1>6, <2>1, <2>2 DEF Live, InTheMaking
  <2>5. OneLiveSession' /\ QuietAfterCleanup'
    BY <1>6, <2>1, <2>4 DEF IInv, OneLiveSession, QuietAfterCleanup
  <2>6. StoppedByFailure'
    BY <1>6, <2>1, <2>2, <2>4 DEF IInv, StoppedByFailure
  <2> QED
    BY <2>3, <2>5, <2>6 DEF Core
<1>7. CASE SetSource(p) \/ Speaking(p)
  BY <1>6, <1>7 DEF SetSource, Speaking, At, Holding
<1>8. ASSUME players[p].pc \in Holding, mutex' = NoPlayer, UNCHANGED stored,
             players'[p].pc \notin Holding,
             \A q \in Player : q # p => players'[q] = players[q]
      PROVE  mutex = p /\ stored' /\ Exclusion'
  BY <1>8 DEF IInv, Exclusion
<1>9. CASE MixerFails(p) \/ SpeakingFails(p)
  <2> DEFINE sid == players[p].sid
  <2>1. players[p].pc \in {"wiring", "sourced"} /\ sess' = Stopped(sess, sid) /\ mutex' = NoPlayer
        /\ UNCHANGED <<session, stored>> /\ Fails(p)
    BY <1>9 DEF MixerFails, SpeakingFails, At
  <2>2. players'[p].pc \notin Holding /\ \A q \in Player : q # p => players'[q] = players[q]
    BY <1>1, <2>1 DEF Fails, Goes, Leaves, Resting, Holding, Players
  <2>3. mutex = p /\ stored' /\ Exclusion'
    BY <1>8, <2>1, <2>2 DEF Holding
  <2>4. sid \in Session /\ session = NoSession
    BY <2>3 DEF IInv, Exclusion
  <2> HIDE DEF sid
  <2>5. \A t \in Session : /\ sess'[t].phase = sess[t].phase
                           /\ sess'[t].stopped = (sess[t].stopped \/ t = sid)
    BY <1>1, <2>1, <2>4, StoppedFacts
  <2>6. \A t \in Session : ~Live(t)'
    BY <2>3, <2>4, <2>5 DEF IInv, OneLiveSession, InTheMaking, Live, sid
  <2>7. OneLiveSession' /\ QuietAfterCleanup'
    BY <2>3, <2>6 DEF OneLiveSession, QuietAfterCleanup
  <2>8. StoppedByFailure'
    BY <2>1, <2>3, <2>4, <2>5 DEF IInv, StoppedByFailure, InTheMaking, sid
  <2> QED
    BY <2>3, <2>7, <2>8 DEF Core
<1>10. CASE PlayReturns(p)
  <2>1. players[p].pc = "speaking" /\ session' = players[p].sid /\ mutex' = NoPlayer
        /\ UNCHANGED <<sess, stored>> /\ Leaves(p)
    BY <1>10 DEF PlayReturns, At
  <2>2. players'[p].pc \notin Holding /\ \A q \in Player : q # p => players'[q] = players[q]
    BY <1>1, <2>1 DEF Leaves, Resting, Holding
  <2>3. mutex = p /\ stored' /\ Exclusion'
    BY <1>8, <2>1, <2>2 DEF Holding
  <2>4. session = NoSession /\ players[p].sid \in Session
    BY <2>3 DEF IInv, Exclusion
  <2>5. \A t \in Session : Live(t)' => session' = t
    BY <2>1, <2>3, <2>4 DEF IInv, OneLiveSession, InTheMaking, Live
  <2>6. OneLiveSession' /\ QuietAfterCleanup'
    BY <2>3, <2>5 DEF OneLiveSession, QuietAfterCleanup
  <2>7. StoppedByFailure'
    BY <2>1, <2>3, <2>4 DEF IInv, StoppedByFailure, InTheMaking
  <2> QED
    BY <2>3, <2>6, <2>7 DEF Core
<1> QED
  BY <1>2, <1>3, <1>4, <1>5, <1>7, <1>9, <1>10 DEF PlayerStep, EnterPlay

-----------------------------------------------------------------------------
(* The theorems                                                            *)

\* A guild that has just connected satisfies the invariant (Connect).
LEMMA Initially == Init => IInv
<1> SUFFICES ASSUME Init PROVE IInv
  OBVIOUS
<1>1. /\ \A s \in Session : sess[s] = Unused
      /\ \A p \in Player : players[p] = Resting
      /\ mutex = NoPlayer /\ session = NoSession /\ stored
  BY DEF Init
<1>2. TypeOK
  <2>1. Unused \in Sessions /\ Resting \in Players
    BY DEF Unused, Sessions, Phases, Resting, Players, Pcs, Origins
  <2> QED
    BY <2>1, EmptyQueueType DEF Init, TypeOK, States
<1>3. Exclusion
  BY <1>1 DEF Exclusion, Resting, Holding
<1>4. OneLiveSession /\ QuietAfterCleanup
  BY <1>1 DEF OneLiveSession, QuietAfterCleanup, Live, Unused, Streaming
<1>5. StoppedByFailure
  BY <1>1, NoSessionAssumption DEF StoppedByFailure, InTheMaking, Unused
<1> QED
  BY <1>2, <1>3, <1>4, <1>5 DEF IInv

\* Every step keeps the invariant.
LEMMA Inductive == IInv /\ [Next]_vars => IInv'
<1> SUFFICES ASSUME IInv, [Next]_vars PROVE IInv'
  OBVIOUS
<1>1. TypeOK'
  BY TypeStep DEF IInv
<1>2. CASE TimerFires
  <2>1. Aside
    BY <1>2 DEF TimerFires, Aside
  <2> QED
    BY <1>1, <2>1, AsideKeeps DEF IInv, Core
<1>3. CASE Expire
  <2>1. Silence
    BY <1>3, CleanupSilences DEF Expire, IInv
  <2> QED
    BY <1>1, <2>1, SilenceKeeps DEF IInv, Core
<1>4. CASE UNCHANGED vars
  <2>1. Aside
    BY <1>4 DEF vars, Aside
  <2> QED
    BY <1>1, <2>1, AsideKeeps DEF IInv, Core
<1>5. CASE UserStep \/ HandlerStep
  BY <1>1, <1>5, UserKeeps, HandlerKeeps DEF IInv, Core
<1>6. ASSUME NEW p \in Player, PlayerStep(p) PROVE IInv'
  BY <1>1, <1>6, PlayerKeeps DEF IInv, Core
<1>7. ASSUME NEW s \in Session, SessionStep(s) PROVE IInv'
  BY <1>1, <1>7, SessionKeeps DEF IInv, Core
<1> QED
  BY <1>2, <1>3, <1>4, <1>5, <1>6, <1>7 DEF Next

\* The inductive invariant holds for any number of sessions, players and commands.
THEOREM Invariance == Spec => []IInv
BY Initially, Inductive, PTL DEF Spec

\* Every variable keeps its type, whatever the bounds of the model.
THEOREM TypeCorrect == Spec => []TypeOK
<1>1. IInv => TypeOK
  BY DEF IInv
<1> QED
  BY <1>1, Invariance, PTL

\* At most one session streams without having been told to stop: Guild.Play, with
\* StreamerMutex, stops the old one before it starts the new one, whoever else
\* stops, fails or finishes in between.
THEOREM OneLive == Spec => []OneLiveSession
<1>1. IInv => OneLiveSession
  BY DEF IInv
<1> QED
  BY <1>1, Invariance, PTL

\* Once Cleanup has run nothing streams, and no Play that was under way starts
\* anything any more.
THEOREM CleanupSilent == Spec => []QuietAfterCleanup
<1>1. IInv => QuietAfterCleanup
  BY DEF IInv
<1> QED
  BY <1>1, Invariance, PTL

\* OnFinished of a playback that was stopped does not set the queue idle: a skip
\* is never followed by a second advance on behalf of the song it stopped.
THEOREM StoppedIsSilent == Spec => StoppedSessionIsSilent
<1>1. ASSUME IInv, NEW s \in Session, OnFinished(s), sess[s].stopped
      PROVE  handlers' = handlers
  <2>1. session # s
    BY <1>1, NoSessionAssumption DEF IInv, StoppedByFailure, OnFinished, In
  <2> QED
    BY <1>1, <2>1 DEF OnFinished
<1>2. IInv => [\A s \in Session : OnFinished(s) /\ sess[s].stopped => handlers' = handlers]_vars
  BY <1>1
<1> QED
  BY <1>2, Invariance, PTL DEF StoppedSessionIsSilent

-----------------------------------------------------------------------------
(* The sessions and the contract of a playback                             *)

\* What a step that only stops playbacks, or closes their streamers, does to the
\* goroutine of session s, told from the records before and after.
Told(old, new) ==
  /\ new.phase = old.phase
  /\ new.stopped \in {old.stopped, TRUE}
  /\ new.cancelled \in {old.cancelled, TRUE}
  /\ new.finish = old.finish

\* What the contract allows the goroutine of session s in one step.
Allowed(s) == [Goroutine(s)!Next]_(Goroutine(s)!session)

\* Stopping and closing, in any combination, tell every session no more than to stop
\* (MP4Playback.Stop, MixerProvider.Close).
LEMMA StoppedTells ==
  ASSUME NEW ss \in [Session -> Sessions], NEW s \in Session \cup {NoSession}, NEW t \in Session
  PROVE  /\ Told(ss[t], Stopped(ss, s)[t])
         /\ Told(ss[t], SourceClosed(ss, s)[t])
         /\ SourceClosed(ss, s) \in [Session -> Sessions]
BY DEF Told, Stopped, SourceClosed, Sessions

\* The same for Cleanup.
LEMMA StopAllTells ==
  ASSUME TypeOK, NEW t \in Session
  PROVE  Told(sess[t], StopAll[t])
<1>1. sess \in [Session -> Sessions] /\ session \in Session \cup {NoSession}
      /\ source \in Session \cup {NoSession}
  BY DEF TypeOK
<1>2. Stopped(sess, session) \in [Session -> Sessions]
  BY <1>1, StoppedFacts
<1>3. Told(sess[t], Stopped(sess, session)[t])
  BY <1>1, StoppedTells
<1>4. Told(Stopped(sess, session)[t], StopAll[t])
  BY <1>1, <1>2, StoppedTells DEF StopAll
<1> QED
  BY <1>3, <1>4 DEF Told

\* A session that is only told to stop does what the contract allows.
LEMMA ToldKeeps ==
  ASSUME NEW s \in Session, Told(sess[s], sess'[s])
  PROVE  Allowed(s)
<1>1. Goroutine(s)!Stop
  BY DEF Told, Goroutine!Stop, In
<1> QED
  BY <1>1 DEF Allowed, Goroutine!Next

\* A new session was stopped by nobody while it waited; its start is no step of the
\* contract, which begins with a stream that opens (Guild.Play).
LEMMA StartKeeps ==
  ASSUME NEW s \in Session, NEW old, Told(sess[s], old),
         sess[s].phase = "unused", sess'[s].phase = "opening",
         sess'[s].stopped = old.stopped, sess'[s].cancelled = old.cancelled,
         sess'[s].finish = old.finish
  PROVE  Allowed(s)
<1>1. Goroutine(s)!Stop
  BY DEF Told, Goroutine!Stop, In
<1> QED
  BY <1>1 DEF Allowed, Goroutine!Next

\* What the user does, no session notices but by being told to stop.
LEMMA UserTells ==
  ASSUME TypeOK, UserStep, NEW s \in Session
  PROVE  Told(sess[s], sess'[s])
<1>1. sess \in [Session -> Sessions] /\ session \in Session \cup {NoSession}
  BY DEF TypeOK
<1>3. CASE UNCHANGED sess
  BY <1>3 DEF Told
<1>4. ASSUME NEW cur \in Song \cup {NoSong}, LoadSaved(cur) PROVE Told(sess[s], sess'[s])
  BY <1>1, <1>4, StoppedTells DEF LoadSaved
<1>5. CASE Leave
  BY <1>5, StopAllTells DEF Leave
<1>6. CASE (\E t \in Song : PlaySong(t)) \/ (\E t, u \in Song : PlayAlbum(t, u))
  BY <1>3, <1>6 DEF PlaySong, PlayAlbum
<1>7. CASE NextSong \/ LastSong \/ Pause \/ Resume \/ TouchTimer \/ StartTimer
  BY <1>3, <1>7 DEF NextSong, LastSong, Pause, Resume, TouchTimer, StartTimer
<1>8. CASE \E cur \in Song \cup {NoSong} : LoadSaved(cur)
  BY <1>4, <1>8
<1> QED
  BY <1>5, <1>6, <1>7, <1>8 DEF UserStep

\* Neither do the state handlers, the end of the queue and the timer tell it more.
LEMMA HandlerTells ==
  ASSUME TypeOK, HandlerStep \/ TimerFires \/ Expire, NEW s \in Session
  PROVE  Told(sess[s], sess'[s])
<1>1. sess \in [Session -> Sessions] /\ session \in Session \cup {NoSession}
  BY DEF TypeOK
<1>2. CASE UNCHANGED sess
  BY <1>2 DEF Told
<1>3. CASE PausedHandler \/ PlayingHandler
  <2>1. CASE session # s
    <3>1. sess'[s] = sess[s]
      BY <1>1, <1>3, <2>1 DEF PausedHandler, PlayingHandler
    <3> QED
      BY <3>1 DEF Told
  <2>2. CASE session = s
    <3>1. /\ sess'[s].phase = sess[s].phase /\ sess'[s].stopped = sess[s].stopped
          /\ sess'[s].cancelled = sess[s].cancelled /\ sess'[s].finish = sess[s].finish
      BY <1>1, <1>3, <2>2, NoSessionAssumption DEF PausedHandler, PlayingHandler, Sessions
    <3> QED
      BY <3>1 DEF Told
  <2> QED
    BY <2>1, <2>2
<1>4. CASE sess' = Stopped(sess, session)
  BY <1>1, <1>4, StoppedTells
<1>5. CASE Expire
  BY <1>5, StopAllTells DEF Expire
<1> QED
  BY <1>2, <1>3, <1>4, <1>5
  DEF HandlerStep, IdleHandler, FinishQueue, AwaitInactivity, TimerFires

\* Guild.Play starts one session and tells the others to stop.
LEMMA PlayerAllowed ==
  ASSUME TypeOK, NEW p \in Player, PlayerStep(p), NEW s \in Session
  PROVE  Allowed(s)
<1>1. sess \in [Session -> Sessions] /\ session \in Session \cup {NoSession}
      /\ players \in [Player -> Players]
  BY DEF TypeOK
<1>2. CASE UNCHANGED sess
  BY <1>2, ToldKeeps DEF Told
<1>3. CASE MixerFails(p) \/ SpeakingFails(p)
  <2>1. players[p].sid \in Session \cup {NoSession}
    BY <1>1 DEF Players
  <2>2. Told(sess[s], sess'[s])
    BY <1>1, <1>3, <2>1, StoppedTells DEF MixerFails, SpeakingFails
  <2> QED
    BY <2>2, ToldKeeps
<1>4. CASE EnterPlay(p) /\ Replaces(p, Stopped(sess, session))
  <2> DEFINE stopping == Stopped(sess, session)
  <2>1. stopping \in [Session -> Sessions] /\ Told(sess[s], stopping[s])
    BY <1>1, StoppedFacts, StoppedTells
  <2>2. PICK t \in Session :
          /\ sess[t].phase = "unused"
          /\ sess' = [stopping EXCEPT ![t] = [@ EXCEPT !.phase = "opening", !.song = players[p].song]]
    BY <1>4 DEF Replaces
  <2> HIDE DEF stopping
  <2>3. CASE s # t
    <3>1. sess'[s] = stopping[s]
      BY <2>1, <2>2, <2>3
    <3> QED
      BY <2>1, <3>1, ToldKeeps
  <2>4. CASE s = t
    <3>1. /\ sess'[s].phase = "opening" /\ sess'[s].stopped = stopping[s].stopped
          /\ sess'[s].cancelled = stopping[s].cancelled /\ sess'[s].finish = stopping[s].finish
      BY <2>1, <2>2, <2>4 DEF Sessions
    <3> QED
      BY <2>1, <2>2, <2>4, <3>1, StartKeeps
  <2> QED
    BY <2>3, <2>4
<1> QED
  BY <1>2, <1>3, <1>4
  DEF PlayerStep, PlayStarts, StreamResolved, StreamUnavailable, EnterPlay, GivesUp, SetSource,
      Speaking, PlayReturns, SetIdle

\* The goroutine of a session does what the contract says it does.
LEMMA SessionAllowed ==
  ASSUME TypeOK, NEW s \in Session, SessionStep(s)
  PROVE  Allowed(s)
<1>1. sess \in [Session -> Sessions] /\ sess[s] \in Sessions
  BY DEF TypeOK
<1>2. CASE FirstFrame(s)
  <2>1. Goroutine(s)!FirstFrame
    BY <1>1, <1>2 DEF FirstFrame, Phase, In, Sessions, Goroutine!FirstFrame
  <2> QED
    BY <2>1 DEF Allowed, Goroutine!Next
<1>3. CASE StreamFails(s)
  <2> DEFINE stopping == Stopped(sess, s)
  <2>1. stopping \in [Session -> Sessions] /\ Told(sess[s], stopping[s]) /\ stopping[s].stopped
    BY <1>1, StoppedFacts, StoppedTells
  <2>2. sess' = [stopping EXCEPT ![s].phase = "failing"]
    BY <1>3 DEF StreamFails
  <2> HIDE DEF stopping
  <2>3. /\ sess'[s].phase = "failing" /\ sess'[s].stopped = TRUE
        /\ sess'[s].cancelled = stopping[s].cancelled /\ sess'[s].finish = stopping[s].finish
    BY <2>1, <2>2 DEF Sessions
  <2>4. Goroutine(s)!Fail
    BY <1>3, <2>1, <2>3 DEF StreamFails, Told, In, Goroutine!Fail
  <2> QED
    BY <2>4 DEF Allowed, Goroutine!Next
<1>4. CASE StreamEnds(s)
  <2>1. Goroutine(s)!End
    BY <1>1, <1>4 DEF StreamEnds, In, Sessions, Goroutine!End
  <2> QED
    BY <2>1 DEF Allowed, Goroutine!Next
<1>5. CASE Drained(s)
  <2>1. Goroutine(s)!Drain
    BY <1>1, <1>5 DEF Drained, Phase, In, Sessions, Goroutine!Drain
  <2> QED
    BY <2>1 DEF Allowed, Goroutine!Next
<1>6. CASE OnFinished(s) /\ Phase(s, "clearing")
  <2>1. UNCHANGED Goroutine(s)!session
    BY <1>1, <1>6 DEF OnFinished, Phase, In, Sessions, Goroutine!session
  <2> QED
    BY <2>1 DEF Allowed
<1>7. CASE (OnFinished(s) \/ ClearSource(s)) /\ Phase(s, "over")
  <2>1. Goroutine(s)!Return
    BY <1>1, <1>7 DEF OnFinished, ClearSource, Phase, In, Sessions, Goroutine!Return
  <2> QED
    BY <2>1 DEF Allowed, Goroutine!Next
<1>8. CASE OnStreamingError(s)
  <2>1. StopAll \in [Session -> Sessions] /\ Told(sess[s], StopAll[s])
    BY StopAllFacts, StopAllTells
  <2>2. /\ sess'[s].phase = "over" /\ sess'[s].stopped = StopAll[s].stopped
        /\ sess'[s].cancelled = StopAll[s].cancelled /\ sess'[s].finish = StopAll[s].finish
    BY <1>8, <2>1 DEF OnStreamingError, Sessions
  <2>3. Goroutine(s)!Return
    BY <1>8, <2>1, <2>2 DEF OnStreamingError, Told, In, Goroutine!Return
  <2> QED
    BY <2>3 DEF Allowed, Goroutine!Next
<1> QED
  BY <1>2, <1>3, <1>4, <1>5, <1>6, <1>7, <1>8 DEF SessionStep, OnFinished, ClearSource

\* It leaves the other sessions alone, or its failure tells them to stop.
LEMMA OtherSessionsAllowed ==
  ASSUME TypeOK, NEW s \in Session, SessionStep(s), NEW t \in Session, t # s
  PROVE  Allowed(t)
<1>1. sess \in [Session -> Sessions]
  BY DEF TypeOK
<1>2. CASE OnStreamingError(s)
  <2>1. StopAll \in [Session -> Sessions] /\ Told(sess[t], StopAll[t])
    BY StopAllFacts, StopAllTells
  <2>2. sess'[t] = StopAll[t]
    BY <1>2, <2>1 DEF OnStreamingError
  <2> QED
    BY <2>1, <2>2, ToldKeeps
<1>3. CASE StreamFails(s)
  <2>1. Stopped(sess, s) \in [Session -> Sessions] /\ Told(sess[t], Stopped(sess, s)[t])
    BY <1>1, StoppedFacts, StoppedTells
  <2>2. sess'[t] = Stopped(sess, s)[t]
    BY <1>3, <2>1 DEF StreamFails
  <2> QED
    BY <2>1, <2>2, ToldKeeps
<1>4. CASE ~OnStreamingError(s) /\ ~StreamFails(s)
  <2>1. sess'[t] = sess[t]
    BY <1>1, <1>4
    DEF SessionStep, FirstFrame, StreamEnds, Drained, OnFinished, ClearSource, Phase
  <2> QED
    BY <2>1, ToldKeeps DEF Told
<1> QED
  BY <1>2, <1>3, <1>4

\* The guild uses the contract of a playback and no more: for any number of sessions,
\* every step of the guild is, for each of them, a step that PlaybackSession allows
\* or none, so what KeepsContract shows of the streamer is all it relies on.
THEOREM SessionsKeep == Spec => SessionsKeepContract
<1>1. Init => \A s \in Session : Goroutine(s)!Init
  BY DEF Init, Unused, In, Goroutine!Init
<1>2. ASSUME TypeOK, Next, NEW s \in Session
      PROVE  Allowed(s)
  <2>1. CASE UserStep
    BY <1>2, <2>1, UserTells, ToldKeeps
  <2>2. CASE HandlerStep \/ TimerFires \/ Expire
    BY <1>2, <2>2, HandlerTells, ToldKeeps
  <2>3. ASSUME NEW p \in Player, PlayerStep(p) PROVE Allowed(s)
    BY <1>2, <2>3, PlayerAllowed
  <2>4. ASSUME NEW t \in Session, SessionStep(t) PROVE Allowed(s)
    BY <1>2, <2>4, SessionAllowed, OtherSessionsAllowed
  <2> QED
    BY <1>2, <2>1, <2>2, <2>3, <2>4 DEF Next
<1>3. TypeOK /\ [Next]_vars
        => [\A s \in Session : [Goroutine(s)!Next]_(Goroutine(s)!session)]_vars
  BY <1>2 DEF Allowed
<1> QED
  BY <1>1, <1>3, TypeCorrect, PTL DEF Spec, SessionsKeepContract

=============================================================================
