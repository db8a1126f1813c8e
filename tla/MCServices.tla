---- MODULE MCServices ----
(* Eleven parts of the program that share no state, checked in one run: a *)
(* behaviour is one of one of them, and the others stay as they began.     *)
EXTENDS SavedQueues, UserRecords, TidalCache, PlaylistIntake, Mixer,
        VoiceReceiver, Transcriber, MediaFile, CaptureSound, Gateway,
        Dashboard

VARIABLE service  \* the part this behaviour is of

serviceVars == <<service, savedVars, userVars, cacheVars, intakeVars, mixerVars,
                 receiverVars, transcriberVars, mediaVars, soundVars, gatewayVars,
                 dashboardVars>>

\* Songs of one title and of two, one with a mix, and a URI searched for before.
MCSong == {[title |-> "t1", uri |-> "u1", mix |-> "m1"],
           [title |-> "t1", uri |-> "u2", mix |-> "none"],
           [title |-> "t2", uri |-> "u3", mix |-> "none"]}
MCOldSearches == <<[title |-> "t3", uri |-> "u2"], [title |-> "t4", uri |-> "u4"]>>

\* Saved queues: none yet, or as many as there may be.
FewSaved == savedQueues \in {EmptyDocument,
                              CHOOSE d \in Documents : Cardinality(Saved(d)) = MaxSaved}

\* The parts that do not run take one of their initial states, the same always.
OneSaved  == savedQueues = EmptyDocument
OneUser   == user = {}
OneIntake == requests = [r \in Request |-> [pc |-> "new", way |-> "whole", items |-> 1,
                                            running |-> {}, found |-> <<>>, missing |-> {}]]
OneMixer  == speed = CHOOSE s \in Speed : TRUE

OneFile   == file = CHOOSE f \in Files : TRUE
OneServer == server = CHOOSE s \in Servers : TRUE

\* Dashboards: one through two changes of an empty queue, or all of them through one
\* change of the state.
FirstPage == CHOOSE p \in Page : TRUE
FewPages ==
  \/ /\ contents = [NoContents EXCEPT !.player = MaxStates]
     /\ pages = [p \in Page |-> IF p = FirstPage THEN NewPage ELSE [NewPage EXCEPT !.at = "ended"]]
  \/ /\ contents = [queue |-> MaxChanges, player |-> 0, title |-> CHOOSE t \in Title : TRUE]
     /\ pages = [p \in Page |-> NewPage]
OnePage == contents = NoContents /\ pages = [p \in Page |-> NewPage]

\* Media files: one of any layout at its best place on a good server, or one layout anywhere.
FewFiles ==
  LET plain == <<[of |-> 1, size |-> 2, begins |-> TRUE], [of |-> 2, size |-> 1, begins |-> TRUE],
                 [of |-> 1, size |-> 1, begins |-> TRUE]>>
  IN  /\ file \in {f \in Files : f.sound \in {{1}, MediaTrack}} /\ server \in Servers
      /\ \/ file.samples = plain
         \/ file.movieFirst /\ file.rest = 0 /\ server.sized /\ server.says

Init ==
  /\ service \in {"saved", "users", "cache", "intake", "music", "overlays", "receiver",
                 "transcriber", "media", "capture", "gateway", "dashboard"}
  /\ IF service = "saved" THEN FewSaved ELSE OneSaved
  /\ service # "users" => OneUser
  /\ service # "intake" => OneIntake
  /\ service # "music" => OneMixer
  /\ IF service = "media" THEN FewFiles ELSE OneFile /\ OneServer
  /\ IF service = "capture" THEN quiet = {2, 3} ELSE quiet = {}
  /\ service # "gateway" => garbled = 0
  /\ IF service = "dashboard" THEN FewPages ELSE OnePage
  /\ SavedInit /\ UserInit /\ CacheInit /\ IntakeInit /\ MixerInit
  /\ ReceiverInit /\ TranscriberInit /\ MediaInit /\ SoundInit
  /\ GatewayInit /\ DashboardInit

\* A frame has music and an overlay, which do not touch each other: a behaviour
\* of the mixer is without overlays, or without music.
MixerPart ==
  \/ service = "music" /\ MixerNext /\ UNCHANGED overlaid
  \/ service = "overlays" /\ MixerNext /\ UNCHANGED <<source, speed>>

OthersRest ==
  /\ service # "saved" => UNCHANGED savedVars
  /\ service # "users" => UNCHANGED userVars
  /\ service # "cache" => UNCHANGED cacheVars
  /\ service # "intake" => UNCHANGED intakeVars
  /\ service \notin {"music", "overlays"} => UNCHANGED mixerVars
  /\ service # "receiver" => UNCHANGED receiverVars
  /\ service # "transcriber" => UNCHANGED transcriberVars
  /\ service # "media" => UNCHANGED mediaVars
  /\ service # "capture" => UNCHANGED soundVars
  /\ service # "gateway" => UNCHANGED gatewayVars
  /\ service # "dashboard" => UNCHANGED dashboardVars
  /\ UNCHANGED service

Next ==
  /\ OthersRest
  /\ \/ service = "saved" /\ SavedNext
     \/ service = "users" /\ UserNext
     \/ service = "cache" /\ CacheNext
     \/ service = "intake" /\ IntakeNext
     \/ MixerPart
     \/ service = "receiver" /\ ReceiverNext
     \/ service = "transcriber" /\ TranscriberNext
     \/ service = "media" /\ MediaNext
     \/ service = "capture" /\ SoundNext
     \/ service = "gateway" /\ GatewayNext
     \/ service = "dashboard" /\ DashboardNext

\* Every goroutine that can go on, of itself or because what it waits for has a time limit; what may
\* never come is left out: answers of a service that has none, what Discord says, the end of a worker.
\* All of them together get one condition of weak fairness: as their steps are finitely many that asks
\* no more than that the program does not stop.
GoesOn ==
  /\ OthersRest
  /\ \/ service = "cache" /\ \E c \in Caller : CallerStep(c)
     \/ service = "intake" /\ \E r \in Request : RequestGoesOn(r)
     \/ service = "overlays" /\ OverlayGoesOn
     \/ service = "receiver" /\ ReceiverGoesOn
     \/ service = "transcriber" /\ TranscriberGoesOn
     \/ service = "gateway" /\ GatewayGoesOn
     \/ service = "dashboard" /\ DashboardGoesOn

\* The voice connection asks the mixer for a frame every 20 ms.
FrameIsDue == OthersRest /\ service = "overlays" /\ ProvideOpusFrame

Spec ==
  /\ Init /\ [][Next]_serviceVars
  /\ WF_serviceVars(GoesOn)
  /\ WF_serviceVars(FrameIsDue)

-----------------------------------------------------------------------------
(* Properties: for each part, what it promises.                            *)

\* Every part keeps its type.
TypeOK ==
  /\ SavedTypeOK /\ UserTypeOK /\ CacheTypeOK /\ IntakeTypeOK
  /\ MixerTypeOK /\ ReceiverTypeOK /\ TranscriberTypeOK
  /\ MediaTypeOK /\ SoundTypeOK /\ GatewayTypeOK /\ DashboardTypeOK

\* A guild has no more saved queues than it may have (Structs/Saved.go:299),
\* and those that it was told, as long as nobody wrote from an outdated copy.
SavedQueuesKept == SavedWithinLimit /\ AnswersAreTrue

\* What is known of a user: every play is accounted for (Structs/User.go:315),
\* the recent searches stay a list without repetitions of bounded length, and
\* a record that is there stays and never says first use again.
UserRecordKept == [](PlaysAccountedFor /\ RecentSearchesDistinct) /\ NeverNewAgain

\* The caches of the Tidal client: what they give out is still good when it is
\* used, and what they have nobody fetches again (APIs/Tidal/Fetcher.go:157).
CacheKept == []TokenOutlastsRequest /\ AskedOncePerLife

\* A playlist comes into the queue whole and in its order.
PlaylistKept == PlaylistOrderKept /\ NothingFoundIsLost

\* Sound is whole from end to end: what is fetched of a song is its samples, every
\* one (Audio/Probe.go:352, Audio/Streamer.go:436), the mixer plays of each source every
\* sample once and leaves no overlay half played (Audio/Mixer.go:324, :428), and what
\* a speaker says to the bot reaches the service without a gap (Receive/Session.go:438).
SoundIsWhole ==
  /\ SamplesAreRead /\ PlayableIsFound
  /\ NoOldSound /\ PositionExact /\ GapsOnlyWhenStarved /\ OverlayNeverStuck
  /\ CaptureSoundWhole /\ FramesHeardOnce

\* The result of a capture is what was said, once, and whole (Receive/Transcribe.go), and
\* nothing is left behind: sessions and wake-word streams have somebody who will close
\* them, and a transcriber that could not be opened leaves no connection.
TranscriptKept == TranscriptTrue /\ ResultIsWhole /\ FailedIsClosed /\ SessionHasOwner /\ NoStreamLeaks

\* Dashboards are told of every change at least once, unless two writes met on their link, and show
\* the song they were told last, if it was not told before the one before it was rendered.
PagesKept == PagesAreTold /\ ShownIsTold

\* The events of a session are handled in order and once while connections come and go that
\* resume it, and none of these is left open (Modules/disgo/gateway/gateway.go:213, :641).
GatewayKept == EventsKept /\ OneConnection

\* Nobody waits for anything but what comes from outside: lookups, overlays, transcribers and notices
\* to dashboards come to an end, playlists when their searches are answered, receivers when their
\* workers end; the gateway is connected in the end or waits for Discord, if no command and no close
\* wait for each other (Reconnects is about these).
EverythingEnds ==
  <>[](/\ LookupsOver /\ IntakeOver /\ OverlaysOver /\ ReceiversOver /\ TranscriberOver
       /\ PagesOver
       /\ service = "gateway" => GatewayOver \/ Entangled)
====
