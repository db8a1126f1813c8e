---------------------------- MODULE SavedQueues -----------------------------
(* The saved queues of one guild (Structs/Saved.go): one document of the   *)
(* database that maps names to snapshots of a queue.  Every command reads  *)
(* the whole document, changes its copy and writes the whole map back; the *)
(* commands run in goroutines of their own and nothing orders them.        *)
(*                                                                         *)
(* The database is external.  A read may fail, which the code takes for a  *)
(* document that is not there; a write may fail before or after it took    *)
(* effect.  Names are those NormalizeSavedQueueName accepts, and what a    *)
(* snapshot holds is a model value.                                        *)
EXTENDS Naturals, FiniteSets

CONSTANTS
  Saver,          \* goroutines of commands
  SavedName,
  Snapshot,       \* contents a queue that is not empty can have
  NoSnapshot,     \* a queue with no song, or a name with no snapshot
  MaxSaved,       \* MaxSavedQueuesPerGuild, 20 in the code
  MaxSavedCalls   \* bound: commands

ASSUME SavedAssumption == /\ IsFiniteSet(SavedName) /\ SavedName # {}
                          /\ NoSnapshot \notin Snapshot
                          /\ MaxSaved \in Nat \ {0} /\ MaxSavedCalls \in Nat

VARIABLES
  savedQueues,   \* the document: what each name stands for
  savers,        \* what each command is doing
  guildQueue,    \* the queue of the guild
  savedCalls,    \* commands so far (bound)
  promised,      \* what the names stand for by the answers the users got
  trusted        \* no write was made from a copy that had become wrong, or is
                 \* of unknown effect

savedVars == <<savedQueues, savers, guildQueue, savedCalls, promised, trusted>>

Documents == [SavedName -> Snapshot \cup {NoSnapshot}]
EmptyDocument == [n \in SavedName |-> NoSnapshot]
Saved(document) == {n \in SavedName : document[n] # NoSnapshot}

\* copy is the document a command is about to write, and fresh says that it
\* was made from what the database holds.
SaverPcs == {"idle", "checking", "saving", "deleting", "loading", "writing"}
Command == [pc : SaverPcs, name : SavedName,
            snapshot : Snapshot \cup {NoSnapshot},
            copy : Documents, fresh : BOOLEAN]

IdleSaver == [pc |-> "idle", name |-> CHOOSE n \in SavedName : TRUE,
              snapshot |-> NoSnapshot, copy |-> EmptyDocument, fresh |-> FALSE]

SavedTypeOK ==
  /\ savedQueues \in Documents
  /\ savers \in [Saver -> Command]
  /\ guildQueue \in Snapshot \cup {NoSnapshot}
  /\ savedCalls \in 0 .. MaxSavedCalls
  /\ promised \in Documents
  /\ trusted \in BOOLEAN
  /\ \A w \in Saver : savers[w].pc = "writing" =>
       savers[w].copy[savers[w].name] = savers[w].snapshot

SavedInit ==
  /\ savedQueues \in {d \in Documents : Cardinality(Saved(d)) <= MaxSaved}
  /\ savers = [w \in Saver |-> IdleSaver]
  /\ guildQueue = NoSnapshot
  /\ savedCalls = 0
  /\ promised = savedQueues /\ trusted = TRUE

-----------------------------------------------------------------------------
SaverGoesTo(w, pc) ==
  /\ savers' = [savers EXCEPT ![w].pc = pc]
  /\ UNCHANGED <<savedQueues, guildQueue, savedCalls, promised, trusted>>

SaverGivesUp(w) ==
  /\ savers' = [savers EXCEPT ![w] = IdleSaver]
  /\ UNCHANGED <<savedQueues, guildQueue, savedCalls, promised, trusted>>

BeginCommand(w, n, pc, snapshot) ==
  /\ savers[w].pc = "idle" /\ savedCalls < MaxSavedCalls
  /\ savedCalls' = savedCalls + 1
  /\ savers' = [savers EXCEPT ![w].pc = pc, ![w].name = n, ![w].snapshot = snapshot]
  /\ UNCHANGED <<savedQueues, guildQueue, promised, trusted>>

\* /save takes its snapshot before it reads the document.
SaveCommand(w, n) ==
  guildQueue # NoSnapshot /\ BeginCommand(w, n, "saving", guildQueue)

\* /manage overwrite first looks whether the name is there, and then saves.
OverwriteCommand(w, n) ==
  guildQueue # NoSnapshot /\ BeginCommand(w, n, "checking", guildQueue)

DeleteCommand(w, n) == BeginCommand(w, n, "deleting", NoSnapshot)

LoadCommand(w, n) == BeginCommand(w, n, "loading", NoSnapshot)

\* loadGuildSavedQueues: whatever goes wrong gives an empty document.
Reads == {savedQueues, EmptyDocument}

\* GetSavedQueue of an overwrite.
CheckExists(w) ==
  /\ savers[w].pc = "checking"
  /\ \E document \in Reads :
       IF savers[w].name \in Saved(document) THEN SaverGoesTo(w, "saving") ELSE SaverGivesUp(w)

\* GetSavedQueue of /load, and ApplySavedQueue with what it found.
LoadQueue(w) ==
  /\ savers[w].pc = "loading"
  /\ \E document \in Reads :
       guildQueue' = IF savers[w].name \in Saved(document)
                       THEN document[savers[w].name] ELSE guildQueue
  /\ savers' = [savers EXCEPT ![w] = IdleSaver]
  /\ UNCHANGED <<savedQueues, savedCalls, promised, trusted>>

\* Slip: the copy is written as it was read.
PrepareNothing(w, document) ==
  /\ savers' = [savers EXCEPT ![w].pc = "writing", ![w].copy = document,
                              ![w].fresh = (document = savedQueues)]
  /\ UNCHANGED <<savedQueues, guildQueue, savedCalls, promised, trusted>>

\* A copy of the document with the change of the command.
Prepare(w, document) ==
  /\ savers' = [savers EXCEPT
       ![w].pc = "writing",
       ![w].copy = [document EXCEPT ![savers[w].name] = savers[w].snapshot],
       ![w].fresh = (document = savedQueues)]
  /\ UNCHANGED <<savedQueues, guildQueue, savedCalls, promised, trusted>>

\* Slip: the limit is compared with the wrong operator.
ReadForSaveOffByOne(w) ==
  /\ savers[w].pc = "saving"
  /\ \E document \in Reads :
       IF savers[w].name \notin Saved(document) /\ Cardinality(Saved(document)) > MaxSaved
         THEN SaverGivesUp(w)
         ELSE Prepare(w, document)

\* SaveGuildQueue up to its write.
ReadForSave(w) ==
  /\ savers[w].pc = "saving"
  /\ \E document \in Reads :
       IF savers[w].name \notin Saved(document) /\ Cardinality(Saved(document)) >= MaxSaved
         THEN SaverGivesUp(w)
         ELSE Prepare(w, document)

\* DeleteSavedQueue up to its write.
ReadForDelete(w) ==
  /\ savers[w].pc = "deleting"
  /\ \E document \in Reads :
       IF savers[w].name \in Saved(document)
         THEN Prepare(w, document)
         ELSE SaverGivesUp(w)

\* The copies of the others are no longer what the database holds.
Stored(w, document) ==
  /\ savedQueues' = document
  /\ savers' = [v \in Saver |->
       IF v = w THEN IdleSaver ELSE [savers[v] EXCEPT !.fresh = @ /\ document = savedQueues]]

\* Slip: the map that is written has only the name of the command.
PersistOnlyName(w) ==
  /\ savers[w].pc = "writing"
  /\ Stored(w, [EmptyDocument EXCEPT ![savers[w].name] = savers[w].copy[savers[w].name]])
  /\ promised' = [promised EXCEPT ![savers[w].name] = savers[w].snapshot]
  /\ trusted' = (trusted /\ savers[w].fresh)
  /\ UNCHANGED <<guildQueue, savedCalls>>

\* persistGuildSavedQueues, and the answer to the user.
Persist(w) ==
  /\ savers[w].pc = "writing"
  /\ Stored(w, savers[w].copy)
  /\ promised' = [promised EXCEPT ![savers[w].name] = savers[w].snapshot]
  /\ trusted' = (trusted /\ savers[w].fresh)
  /\ UNCHANGED <<guildQueue, savedCalls>>

\* The write fails, or its answer is lost: the user is told that it failed.
PersistFails(w) ==
  /\ savers[w].pc = "writing"
  /\ \/ Stored(w, savedQueues) /\ UNCHANGED trusted
     \/ Stored(w, savers[w].copy) /\ trusted' = FALSE
  /\ UNCHANGED <<guildQueue, savedCalls, promised>>

\* Songs are added, played and removed.
GuildQueueChanges ==
  /\ guildQueue' \in Snapshot \cup {NoSnapshot}
  /\ UNCHANGED <<savedQueues, savers, savedCalls, promised, trusted>>

SavedNext ==
  \/ GuildQueueChanges
  \/ \E w \in Saver :
       \/ \E n \in SavedName : \/ SaveCommand(w, n) \/ OverwriteCommand(w, n)
                               \/ DeleteCommand(w, n) \/ LoadCommand(w, n)
       \/ CheckExists(w) \/ LoadQueue(w) \/ ReadForSave(w) \/ ReadForDelete(w)
       \/ Persist(w) \/ PersistFails(w)

SavedSpec == SavedInit /\ [][SavedNext]_savedVars

-----------------------------------------------------------------------------
(* Properties *)

\* However saves and deletes overlap, and whatever reads and writes fail, a
\* guild never has more saved queues than MaxSavedQueuesPerGuild allows.
SavedWithinLimit == Cardinality(Saved(savedQueues)) <= MaxSaved

\* As long as no command wrote from a copy that another had outdated, or that
\* a failed read had emptied, the document holds exactly what the users were
\* told: each name its last acknowledged snapshot, and no name they deleted.
AnswersAreTrue == trusted => savedQueues = promised
=============================================================================
