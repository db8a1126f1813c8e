---------------------------- MODULE UserRecords -----------------------------
(* The record of one user (Structs/User.go) and the buffer through which   *)
(* play counts reach it.  Commands run in goroutines of their own; each    *)
(* reads the record once, works on its copy, and sets single fields of the *)
(* record.  One more goroutine writes the buffer out every two minutes.    *)
(*                                                                         *)
(* The database is external: a read or a write may fail, a write also      *)
(* after it took effect, and of a bulk write any part may.                 *)
EXTENDS Lists

CONSTANTS
  Job,           \* goroutines of commands
  Song,          \* songs with the title and URI of the search that found them
  Notification,  \* IDs of notifications
  OldSearches,   \* those of a record from before, newest first
  MaxRecent,     \* recent searches kept, 5 in the code
  MaxJobs,       \* bound: commands
  MaxRestarts    \* bound: restarts of the program

Search == {[title |-> s.title, uri |-> s.uri] : s \in Song}
            \cup {OldSearches[i] : i \in DOMAIN OldSearches}

ASSUME UserAssumption ==
  /\ \A s \in Song : DOMAIN s = {"title", "uri", "mix"}
  /\ OldSearches \in Seq(Search) /\ Len(OldSearches) <= MaxRecent
  /\ \A a, b \in DOMAIN OldSearches :
       a # b => /\ OldSearches[a].title # OldSearches[b].title
                /\ OldSearches[a].uri # OldSearches[b].uri
  /\ MaxRecent \in Nat \ {0} /\ MaxJobs \in Nat /\ MaxRestarts \in Nat

NoMix  == "none"
Mix    == {s.mix : s \in Song} \cup {NoMix}
Unseen == "unseen"

VARIABLES
  user,       \* the record: an empty set, or the set of the one record
  jobs,       \* what each command is doing
  buffer,     \* FavoritesBuffer of the user: a count for each song
  flushing,   \* the buffer the flusher has taken and not written yet
  plays,      \* plays counted since the beginning
  lostPlays,  \* those that a failed write or a restart has taken away
  jobsBegun, restarts

userVars == <<user, jobs, buffer, flushing, plays, lostPlays, jobsBegun, restarts>>

Counts   == [Song -> Nat]
NoCounts == [s \in Song |-> 0]
Plus(a, b) == [s \in Song |-> a[s] + b[s]]

Record == [first : BOOLEAN, seen : Notification \cup {Unseen}, recent : Seq(Search),
           favorites : Counts, mix : Mix, optOut : BOOLEAN]

NewRecord == [first |-> TRUE, seen |-> Unseen, recent |-> <<>>,
              favorites |-> NoCounts, mix |-> NoMix, optOut |-> FALSE]

\* A play, /forget, /settings, or the check for news after every command.
Kind == {"play", "forget", "optOut", "optIn", "news"}
JobPcs == {"idle", "reading", "creating", "searching", "counting", "mixing",
           "forgetting", "setting", "welcoming", "notifying"}

\* The record of a user who was here before.
OldRecord == [NewRecord EXCEPT !.first = FALSE, !.recent = OldSearches]

IdleJob == [pc |-> "idle", kind |-> "news", song |-> {}, copy |-> NewRecord]

UserTypeOK ==
  /\ Cardinality(user) <= 1 /\ \A r \in user : r \in Record
  /\ \A j \in Job :
       /\ jobs[j].pc \in JobPcs /\ jobs[j].kind \in Kind
       /\ jobs[j].song \subseteq Song /\ jobs[j].copy \in Record
       /\ (jobs[j].pc \notin {"idle", "reading", "creating"} => user # {})
  /\ {buffer, flushing, plays, lostPlays} \subseteq Counts
  /\ jobsBegun \in 0 .. MaxJobs /\ restarts \in 0 .. MaxRestarts

UserInit ==
  /\ user \in {{}, {OldRecord}} /\ jobs = [j \in Job |-> IdleJob]
  /\ buffer = NoCounts /\ flushing = NoCounts
  /\ plays = NoCounts /\ lostPlays = NoCounts
  /\ jobsBegun = 0 /\ restarts = 0

-----------------------------------------------------------------------------
counting == <<buffer, flushing, plays, lostPlays, jobsBegun, restarts>>

JobGoesTo(j, pc) == jobs' = [jobs EXCEPT ![j].pc = pc]
JobEnds(j)       == jobs' = [jobs EXCEPT ![j] = IdleJob]

BeginJob(j, kind, song) ==
  /\ jobs[j].pc = "idle" /\ jobsBegun < MaxJobs
  /\ jobsBegun' = jobsBegun + 1
  /\ jobs' = [jobs EXCEPT ![j].pc = "reading", ![j].kind = kind, ![j].song = song]
  /\ UNCHANGED <<user, buffer, flushing, plays, lostPlays, restarts>>

\* trackPlayRequest and its twin in Commands/Play.go.
Play(j) == \E s \in Song : BeginJob(j, "play", {s})

ForgetCommand(j)   == BeginJob(j, "forget", {})
SettingsCommand(j) == \E kind \in {"optOut", "optIn"} : BeginJob(j, kind, {})
CheckNews(j)       == BeginJob(j, "news", {})

\* What a command does with the record it has got.
First(kind) == CASE kind = "play" -> "searching"
                 [] kind = "forget" -> "forgetting"
                 [] kind \in {"optOut", "optIn"} -> "setting"
                 [] kind = "news" -> "welcoming"

\* Its copy, with the fields it looks at.
CopyFor(kind, record) ==
  CASE kind = "play" -> [NewRecord EXCEPT !.first = record.first, !.recent = record.recent,
                                          !.mix = record.mix]
    [] kind = "news" -> [NewRecord EXCEPT !.first = record.first, !.seen = record.seen]
    [] OTHER -> NewRecord

GotUser(j, record) ==
  jobs' = [jobs EXCEPT ![j].pc = First(jobs[j].kind),
                       ![j].copy = CopyFor(jobs[j].kind, record)]

\* GetUser: any error of the read is taken for a user who is not there yet.
FindUser(j) ==
  /\ jobs[j].pc = "reading"
  /\ \/ \E record \in user : GotUser(j, record)
     \/ JobGoesTo(j, "creating")
  /\ UNCHANGED <<user, counting>>

\* Slip: the insert replaces the record that is there.
ReplaceUser(j) ==
  /\ jobs[j].pc = "creating"
  /\ \/ user' = {NewRecord} /\ GotUser(j, NewRecord)
     \/ user' = user /\ JobEnds(j)
  /\ UNCHANGED counting

\* Slip: the error of the insert is not looked at.
CreateUserAnyway(j) ==
  /\ jobs[j].pc = "creating"
  /\ GotUser(j, NewRecord)
  /\ user' \in (IF user = {} THEN {{}, {NewRecord}} ELSE {user})
  /\ UNCHANGED counting

\* InsertOne fails if the record is there, and then the command gives up.
CreateUser(j) ==
  /\ jobs[j].pc = "creating"
  /\ \/ user = {} /\ user' = {NewRecord} /\ GotUser(j, NewRecord)
     \/ user' \in (IF user = {} THEN {{}, {NewRecord}} ELSE {user}) /\ JobEnds(j)
  /\ UNCHANGED counting

\* UpdateOne with $set of what is written: it may take effect or not; who asked for it goes
\* on in the same way, except for the answer to the user.
Update(written) ==
  \/ user' = {written[record] : record \in user}
  \/ user' = user

\* The new search first, then those that are kept, and no more than there may be.
Newest(search, kept) ==
  LET all == <<search>> \o kept
  IN  SubSeq(all, 1, IF Len(all) > MaxRecent THEN MaxRecent ELSE Len(all))

\* Slip: only the same URI is filtered out.
RecentAfterByURI(recent, search) ==
  Newest(search, AtPlaces(recent, {i \in DOMAIN recent : recent[i].uri # search.uri}))

\* The older searches are kept that have neither its title nor its URI.
RecentAfter(recent, search) ==
  Newest(search, AtPlaces(recent, {i \in DOMAIN recent :
                   recent[i].uri # search.uri /\ recent[i].title # search.title}))

\* Slip: the whole copy is written, with what it had in the other fields.
AddRecentSearchWhole(j) ==
  /\ jobs[j].pc = "searching"
  /\ \E s \in jobs[j].song :
       LET copy == [jobs[j].copy EXCEPT
                      !.recent = RecentAfter(@, [title |-> s.title, uri |-> s.uri])]
       IN  Update([r \in user |-> copy])
  /\ JobGoesTo(j, "counting")
  /\ UNCHANGED counting

AddRecentSearch(j) ==
  /\ jobs[j].pc = "searching"
  /\ \E s \in jobs[j].song :
       LET recent == RecentAfter(jobs[j].copy.recent, [title |-> s.title, uri |-> s.uri])
       IN  Update([r \in user |-> [r EXCEPT !.recent = recent]])
  /\ JobGoesTo(j, "counting")
  /\ UNCHANGED counting

\* AddFavorite, under BufferMutex.
AddFavorite(j) ==
  /\ jobs[j].pc = "counting"
  /\ \E s \in jobs[j].song :
       /\ buffer' = [buffer EXCEPT ![s] = @ + 1]
       /\ plays' = [plays EXCEPT ![s] = @ + 1]
  /\ JobGoesTo(j, "mixing")
  /\ UNCHANGED <<user, flushing, lostPlays, jobsBegun, restarts>>

SetMostRecentMix(j) ==
  /\ jobs[j].pc = "mixing"
  /\ \E s \in jobs[j].song :
       IF s.mix \in {NoMix, jobs[j].copy.mix}
         THEN UNCHANGED user
         ELSE Update([r \in user |-> [r EXCEPT !.mix = s.mix]])
  /\ JobEnds(j)
  /\ UNCHANGED counting

ClearRecentSearches(j) ==
  /\ jobs[j].pc = "forgetting"
  /\ Update([r \in user |-> [r EXCEPT !.recent = <<>>]])
  /\ JobEnds(j)
  /\ UNCHANGED counting

SetVoiceCommandOptOut(j) ==
  /\ jobs[j].pc = "setting"
  /\ Update([r \in user |-> [r EXCEPT !.optOut = (jobs[j].kind = "optOut")]])
  /\ JobEnds(j)
  /\ UNCHANGED counting

\* CheckAndDisplayNotification: if the copy says that this is the first use, the welcome is
\* sent, which may fail, and then the record is told, which may fail too.
SetFirstUse(j) ==
  /\ jobs[j].pc = "welcoming"
  /\ IF jobs[j].copy.first
       THEN Update([r \in user |-> [r EXCEPT !.first = FALSE]])
       ELSE UNCHANGED user
  /\ JobGoesTo(j, "notifying")
  /\ UNCHANGED counting

\* The notification that the database gives, if any, is displayed and marked as
\* seen, whether or not displaying it worked.
SetLastNotificationSeen(j) ==
  /\ jobs[j].pc = "notifying"
  /\ \/ UNCHANGED user
     \/ \E n \in Notification :
          /\ jobs[j].copy.seen # n
          /\ Update([r \in user |-> [r EXCEPT !.seen = n]])
  /\ JobEnds(j)
  /\ UNCHANGED counting

-----------------------------------------------------------------------------
(* flushFavorites *)

\* Under BufferMutex: the buffer is taken and replaced by an empty one.  The
\* flusher is one goroutine, so that it has written what it took before.
TakeBuffer ==
  /\ buffer # NoCounts /\ flushing = NoCounts
  /\ flushing' = buffer /\ buffer' = NoCounts
  /\ UNCHANGED <<user, jobs, plays, lostPlays, jobsBegun, restarts>>

\* Slip: the buffer is emptied after the write and not before.
WriteThenEmpty ==
  /\ flushing # NoCounts
  /\ user' = {[r EXCEPT !.favorites = Plus(@, flushing)] : r \in user}
  /\ flushing' = NoCounts /\ buffer' = NoCounts
  /\ UNCHANGED <<jobs, plays, lostPlays, jobsBegun, restarts>>

\* BulkWrite with $inc: an error, at most printed, leaves any part unwritten.
WriteCounts ==
  /\ flushing # NoCounts
  /\ \E written \in SUBSET Song :
       LET part == [s \in Song |-> IF s \in written THEN flushing[s] ELSE 0]
           rest == [s \in Song |-> IF s \in written THEN 0 ELSE flushing[s]]
       IN  /\ user' = {[r EXCEPT !.favorites = Plus(@, part)] : r \in user}
           /\ lostPlays' = Plus(lostPlays, rest)
  /\ flushing' = NoCounts
  /\ UNCHANGED <<jobs, buffer, plays, jobsBegun, restarts>>

\* The program ends and starts again: what was in memory is gone.
RestartBot ==
  /\ restarts < MaxRestarts
  /\ restarts' = restarts + 1
  /\ jobs' = [j \in Job |-> IdleJob]
  /\ lostPlays' = Plus(lostPlays, Plus(buffer, flushing))
  /\ buffer' = NoCounts /\ flushing' = NoCounts
  /\ UNCHANGED <<user, plays, jobsBegun>>

UserNext ==
  \/ TakeBuffer \/ WriteCounts \/ RestartBot
  \/ \E j \in Job :
       \/ Play(j) \/ ForgetCommand(j) \/ SettingsCommand(j) \/ CheckNews(j)
       \/ FindUser(j) \/ CreateUser(j) \/ AddRecentSearch(j) \/ AddFavorite(j)
       \/ SetMostRecentMix(j) \/ ClearRecentSearches(j) \/ SetVoiceCommandOptOut(j)
       \/ SetFirstUse(j) \/ SetLastNotificationSeen(j)

UserSpec == UserInit /\ [][UserNext]_userVars

-----------------------------------------------------------------------------
(* Properties *)

InRecord == [s \in Song |-> IF \E r \in user : r.favorites[s] > 0
                              THEN (CHOOSE r \in user : TRUE).favorites[s] ELSE 0]

\* Every play is accounted for: it is in the record, in the buffer, with the
\* flusher, or among those a failed write or a restart took; a play that comes
\* while the flusher writes is neither dropped nor counted twice.  Plays that are
\* taken are not made good: the program keeps no other account of them.
PlaysAccountedFor ==
  plays = Plus(Plus(InRecord, buffer), Plus(flushing, lostPlays))

\* However commands overlap, the list that autocomplete offers has at most
\* MaxRecent searches, and no two with the same title or the same URI.
RecentSearchesDistinct ==
  \A r \in user :
    /\ Len(r.recent) <= MaxRecent
    /\ \A a, b \in DOMAIN r.recent :
         a # b => /\ r.recent[a].title # r.recent[b].title
                  /\ r.recent[a].uri # r.recent[b].uri

\* A record, once there, stays, and when it no longer says first use it never
\* says so again: not by a read that failed, nor by a command with an older copy.
NeverNewAgain ==
  [][\A r \in user : \E q \in user' : q.first => r.first]_userVars
=============================================================================
