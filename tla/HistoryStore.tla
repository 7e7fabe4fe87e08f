---------------------------- MODULE HistoryStore ----------------------------
(***************************************************************************)
(* SQLiteHistoryStore (core/history.py) with the retention storage of      *)
(* core/retention.py, and the threads that use them at once: the Qt thread *)
(* (start-up, deletion, settings), the processing thread of a dictation,   *)
(* and the retry and re-clean workers of RuntimeController.                *)
(*                                                                         *)
(* A method holds the store's RLock around one SQLite transaction, so a    *)
(* locked section is one step; what a method does after the lock (removing *)
(* audio files) and what a worker does between two methods are steps of    *)
(* their own.  The database file stands for itself and its -wal and -shm.  *)
(* Time is a count of days.                                                *)
(***************************************************************************)
EXTENDS Integers, FiniteSets

CONSTANTS
  MaxRows,     \* bound on the transcripts ever stored
  MaxDay,      \* bound on the days that pass
  MaxCrashes,  \* bound on how often the process dies
  Retentions,  \* history_retention_days the settings may hold
  AudioDays,   \* AudioRetentionPolicy.days
  FtsBuilds    \* whether SQLite has FTS5: a set of BOOLEANs

ASSUME HistoryAssumption ==
  /\ {MaxRows, MaxDay, MaxCrashes, AudioDays} \subseteq Nat
  /\ Retentions \subseteq Nat /\ Retentions # {}
  /\ FtsBuilds \subseteq BOOLEAN /\ FtsBuilds # {}

Ids == 1..MaxRows
None == 0
Threads == {"ui", "dictation", "retry", "reclean"}

(* insertion_method of a row: no insertion yet, a direct backend (atspi,
   x11, wayland) or the clipboard.                                         *)
Methods == {"null", "direct", "clipboard"}
Texts == {"first", "recleaned"}

Rows == [day : Int, text : Texts, audio : Ids \cup {None}, expires : Int,
         method : Methods, inserted : BOOLEAN, copied : BOOLEAN]

VARIABLES
  disk,      \* what the database file is: "none", "old", "current" or "corrupt"
  rows,      \* the history table: a function from row ids to Rows
  triggers,  \* the three FTS triggers exist
  index,     \* history_fts: pairs <<row, text>>
  backups,   \* the tables of the quarantined database files
  files,     \* the retained audio files, named by the dictation
  fts,       \* _fts_available
  closed,    \* _closed
  retention, \* retention_days
  day,
  pc,        \* where each thread is
  arg,       \* the row each thread works on
  todo,      \* the audio files each thread has yet to remove
  used,      \* how many row ids were handed out
  crashes,
  deleted,   \* history: rows that a deletion took out of the table
  dropped    \* history: files of rows that a deletion or an expiry took, this process

table == <<disk, rows, triggers, index, backups>>
threads == <<pc, arg, todo>>
world == <<day, used, crashes>>
vars == <<table, files, fts, closed, retention, threads, world, deleted, dropped>>

NewRow(audio) ==
  [day |-> day, text |-> "first", audio |-> audio, expires |-> day + AudioDays,
   method |-> "null", inserted |-> FALSE, copied |-> FALSE]

Without(table_, ids) == [id \in DOMAIN table_ \ ids |-> table_[id]]
With(table_, id, row) == [i \in DOMAIN table_ \cup {id} |-> IF i = id THEN row ELSE table_[i]]
AudioOf(ids) == {rows[id].audio : id \in ids} \ {None}
Older(table_, days) == {id \in DOMAIN table_ : table_[id].day < day - days}
Contents(table_) == {<<id, table_[id].text>> : id \in DOMAIN table_}

-----------------------------------------------------------------------------
(* The database file outlives the process; so do audio files.              *)
OldTable == [id \in {1} |-> [NewRow(None) EXCEPT !.method = "clipboard"]]

Init ==
  /\ \/ disk = "none" /\ used = 0 /\ MaxRows > 0
     \/ disk \in {"old", "corrupt"} /\ used = 1 /\ MaxRows > 0
  /\ day = 0
  /\ rows = IF used = 1 THEN OldTable ELSE [id \in {} |-> NewRow(None)]
  /\ triggers = FALSE /\ index = {} /\ backups = {} /\ files = {}
  /\ fts \in FtsBuilds
  /\ closed = FALSE
  /\ retention \in Retentions
  /\ pc = [t \in Threads |-> IF t = "ui" THEN "open" ELSE "idle"]
  /\ arg = [t \in Threads |-> None]
  /\ todo = [t \in Threads |-> {}]
  /\ crashes = 0 /\ deleted = {} /\ dropped = {}

(* A thread that ends forgets the row it worked on.                        *)
Goto(t, step) ==
  /\ pc' = [pc EXCEPT ![t] = step]
  /\ arg' = IF step = "idle" THEN [arg EXCEPT ![t] = None] ELSE arg

(* A method that takes the lock: the first thing it does is _ensure_open.  *)
Locked(t, step) == pc[t] = step /\ ~closed

-----------------------------------------------------------------------------
(* Opening: _open_connection_with_recovery, then prune and prune_audio.    *)

(* _quarantine_corrupt_database moves the unreadable file aside.           *)
Quarantine ==
  /\ pc["ui"] = "open" /\ disk = "corrupt"
  /\ backups' = backups \cup {rows}
  /\ disk' = "none" /\ rows' = Without(rows, DOMAIN rows)
  /\ triggers' = FALSE /\ index' = {}
  /\ UNCHANGED <<files, fts, closed, retention, threads, world, deleted, dropped>>

(* The delivery flags recovered from insertion_method, at every start.     *)
Backfilled(row) ==
  [row EXCEPT !.inserted = @ \/ row.method = "direct",
              !.copied = @ \/ row.method = "clipboard"]

(* The table, its optional columns and the backfill; executescript commits
   them before it creates the triggers.                                    *)
CreateTable ==
  /\ pc["ui"] = "open" /\ disk # "corrupt"
  /\ disk' = "current"
  /\ rows' = [id \in DOMAIN rows |-> Backfilled(rows[id])]
  /\ Goto("ui", "triggers")
  /\ UNCHANGED <<triggers, index, backups, files, fts, closed, retention, todo, world, deleted,
                 dropped>>

CreateTriggers ==
  /\ pc["ui"] = "triggers"
  /\ triggers' = fts
  /\ Goto("ui", "rebuild")
  /\ UNCHANGED <<disk, rows, index, backups, files, fts, closed, retention, todo, world,
                 deleted, dropped>>

Rebuild ==
  /\ pc["ui"] = "rebuild"
  /\ index' = IF fts THEN Contents(rows) ELSE {}
  /\ Goto("ui", "prune")
  /\ UNCHANGED <<disk, rows, triggers, backups, files, fts, closed, retention, todo, world,
                 deleted, dropped>>

\* Mutant: an update trigger without its 'delete'.
IndexedKeepingOld(table_) ==
  IF ~triggers THEN index ELSE index \cup Contents(table_)

(* What the triggers make of a transaction that leaves `table_': the FTS
   rows of the changed table rows are replaced.                            *)
Indexed(table_) ==
  IF ~triggers THEN index
  ELSE LET changed == {id \in DOMAIN rows :
                         \/ id \notin DOMAIN table_
                         \/ table_[id].text # rows[id].text}
           new == {id \in DOMAIN table_ : id \notin DOMAIN rows} \cup (changed \cap DOMAIN table_)
       IN  {entry \in index : entry[1] \notin changed} \cup {<<id, table_[id].text>> : id \in new}

Store(table_) == rows' = table_ /\ index' = Indexed(table_)

\* Mutant: the paths are read after the rows are gone.
RemoveThenRead(t, ids, next) ==
  /\ Store(Without(rows, ids))
  /\ dropped' = dropped \cup AudioOf(ids)
  /\ deleted' = deleted \cup ids
  /\ Goto(t, next)
  /\ UNCHANGED <<disk, triggers, backups, files, fts, closed, todo, world>>

(* A deletion: the rows first, in a transaction, and their audio after it. *)
Remove(t, ids, next) ==
  /\ Store(Without(rows, ids))
  /\ todo' = [todo EXCEPT ![t] = AudioOf(ids)]
  /\ dropped' = dropped \cup AudioOf(ids)
  /\ deleted' = deleted \cup ids
  /\ Goto(t, next)
  /\ UNCHANGED <<disk, triggers, backups, files, fts, closed, world>>

Prune == Locked("ui", "prune") /\ Remove("ui", Older(rows, retention), "prune audio")
         /\ UNCHANGED retention

\* Mutant: expired files go and the rows still name them.
PruneAudioKeepingPath ==
  /\ Locked("ui", "prune audio") /\ todo["ui"] = {}
  /\ LET expired == {id \in DOMAIN rows : rows[id].audio # None /\ rows[id].expires <= day}
     IN  todo' = [todo EXCEPT !["ui"] = AudioOf(expired)]
  /\ Goto("ui", "idle")
  /\ UNCHANGED <<table, files, fts, closed, retention, world, deleted, dropped>>

(* prune_audio forgets the expired audio of rows that stay.                *)
PruneAudio ==
  /\ Locked("ui", "prune audio") /\ todo["ui"] = {}
  /\ LET expired == {id \in DOMAIN rows : rows[id].audio # None /\ rows[id].expires <= day}
     IN  /\ Store([id \in DOMAIN rows |->
                     IF id \in expired THEN [rows[id] EXCEPT !.audio = None] ELSE rows[id]])
         /\ todo' = [todo EXCEPT !["ui"] = AudioOf(expired)]
         /\ dropped' = dropped \cup AudioOf(expired)
  /\ Goto("ui", "idle")
  /\ UNCHANGED <<disk, triggers, backups, files, fts, closed, retention, world, deleted>>

(* _delete_audio of one file.                                              *)
DeleteAudio(t) ==
  \E f \in todo[t] :
    /\ files' = files \ {f}
    /\ todo' = [todo EXCEPT ![t] = @ \ {f}]
    /\ UNCHANGED <<table, fts, closed, retention, pc, arg, world, deleted, dropped>>

-----------------------------------------------------------------------------
(* The Qt thread.                                                          *)
UiReady == Locked("ui", "idle") /\ todo["ui"] = {}

Delete(id) == UiReady /\ id \in DOMAIN rows /\ Remove("ui", {id}, "idle") /\ UNCHANGED retention

Clear == UiReady /\ DOMAIN rows # {} /\ Remove("ui", DOMAIN rows, "idle") /\ UNCHANGED retention

(* save_settings: the new retention is applied at once.                    *)
SaveSettings(days) ==
  /\ UiReady /\ days # retention
  /\ retention' = days
  /\ Remove("ui", Older(rows, days), "idle")

(* retry_history and reclean_history look the row up and start a worker.   *)
StartWorker(t, id) ==
  /\ UiReady /\ t \in {"retry", "reclean"} /\ pc[t] = "idle" /\ id \in DOMAIN rows
  /\ t = "retry" => rows[id].audio # None
  /\ pc' = [pc EXCEPT ![t] = "get"]
  /\ arg' = [arg EXCEPT ![t] = id]
  /\ UNCHANGED <<table, files, fts, closed, retention, todo, world, deleted, dropped>>

(* shutdown closes the store; threads may still be using it.               *)
Close ==
  /\ UiReady
  /\ closed' = TRUE
  /\ UNCHANGED <<table, files, fts, retention, threads, world, deleted, dropped>>

-----------------------------------------------------------------------------
(* The processing thread of a dictation (DictationSession).                *)

(* AudioRetentionManager.retain moves the capture to retention storage.    *)
Retain(enabled) ==
  /\ pc["dictation"] = "idle" /\ todo["dictation"] = {} /\ pc["ui"] = "idle"
  /\ used < MaxRows
  /\ used' = used + 1
  /\ pc' = [pc EXCEPT !["dictation"] = "add"]
  /\ arg' = [arg EXCEPT !["dictation"] = used + 1]
  /\ files' = IF enabled THEN files \cup {used + 1} ELSE files
  /\ UNCHANGED <<table, fts, closed, retention, todo, day, crashes, deleted, dropped>>

(* add stores the row and prunes the table in one transaction.  The audio
   of the rows it prunes is not removed.                                   *)
Added(id, row) == LET all == With(rows, id, row) IN Without(all, Older(all, retention))

AddDictation ==
  LET id == arg["dictation"]
  IN  /\ Locked("dictation", "add")
      /\ Store(Added(id, NewRow(IF id \in files THEN id ELSE None)))
      /\ Goto("dictation", "deliver")
      /\ UNCHANGED <<disk, triggers, backups, files, fts, closed, retention, todo, world, deleted,
                     dropped>>

(* A failed add: the dictation goes on, without its audio.                 *)
AddFailed ==
  /\ pc["dictation"] = "add"
  /\ files' = files \ {arg["dictation"]}
  /\ Goto("dictation", "idle")
  /\ UNCHANGED <<table, fts, closed, retention, todo, world, deleted, dropped>>

(* A cancellation noticed after the add: _remove_history.                  *)
TakeBack ==
  /\ Locked("dictation", "deliver") /\ todo["dictation"] = {}
  /\ Remove("dictation", {arg["dictation"]} \cap DOMAIN rows, "idle")
  /\ UNCHANGED retention

(* The outcomes of an insertion: method, inserted, copied.  A copy that
   fails is reported as the method "clipboard" with neither flag.          *)
Outcomes == {<<"direct", TRUE, FALSE>>, <<"direct", TRUE, TRUE>>,
             <<"clipboard", FALSE, TRUE>>, <<"clipboard", FALSE, FALSE>>}

(* update_delivery.  A row that is gone is a KeyError the session ignores. *)
UpdateDelivery(outcome) ==
  LET id == arg["dictation"]
  IN  /\ Locked("dictation", "deliver") /\ id \in DOMAIN rows
      /\ Store([rows EXCEPT ![id].method = outcome[1], ![id].inserted = outcome[2],
                            ![id].copied = outcome[3]])
      /\ Goto("dictation", "idle")
      /\ UNCHANGED <<disk, triggers, backups, files, fts, closed, retention, todo, world, deleted,
                     dropped>>

-----------------------------------------------------------------------------
(* The workers.                                                            *)

(* _retry_history_worker reads the row again; without its audio it fails.  *)
RetryGet ==
  /\ Locked("retry", "get")
  /\ LET id == arg["retry"]
     IN  Goto("retry", IF id \in DOMAIN rows /\ rows[id].audio # None THEN "transcribe" ELSE "idle")
  /\ UNCHANGED <<table, files, fts, closed, retention, todo, world, deleted, dropped>>

(* The provider opens the file, which may be gone by now.                  *)
RetryTranscribe ==
  /\ pc["retry"] = "transcribe"
  /\ Goto("retry", IF arg["retry"] \in files /\ used < MaxRows THEN "add" ELSE "idle")
  /\ UNCHANGED <<table, files, fts, closed, retention, todo, world, deleted, dropped>>

(* The text was inserted; it becomes a row of its own, without audio.      *)
RetryAdd(outcome) ==
  /\ Locked("retry", "add") /\ used < MaxRows
  /\ used' = used + 1
  /\ Store(Added(used + 1, [NewRow(None) EXCEPT !.method = outcome[1], !.inserted = outcome[2],
                                                !.copied = outcome[3]]))
  /\ Goto("retry", "idle")
  /\ UNCHANGED <<disk, triggers, backups, files, fts, closed, retention, todo, day, crashes,
                 deleted, dropped>>

RecleanGet ==
  /\ Locked("reclean", "get")
  /\ Goto("reclean", IF arg["reclean"] \in DOMAIN rows THEN "update" ELSE "idle")
  /\ UNCHANGED <<table, files, fts, closed, retention, todo, world, deleted, dropped>>

\* Mutant: the re-cleaned text is stored again.
UpsertFinalText(table_, id) ==
  With(table_, id, [NewRow(None) EXCEPT !.text = "recleaned"])

(* update_final_text: a row deleted meanwhile is a KeyError.               *)
UpdateFinalText(table_, id) ==
  IF id \in DOMAIN table_ THEN [table_ EXCEPT ![id].text = "recleaned"] ELSE table_

RecleanUpdate ==
  /\ Locked("reclean", "update")
  /\ Store(UpdateFinalText(rows, arg["reclean"]))
  /\ Goto("reclean", "idle")
  /\ UNCHANGED <<disk, triggers, backups, files, fts, closed, retention, todo, world, deleted,
                 dropped>>

(* Any step may fail (a closed store, a provider, a KeyError): the thread
   reports it and ends.                                                    *)
Fail(t) ==
  /\ t # "ui" /\ pc[t] # "idle" /\ <<t, pc[t]>> # <<"dictation", "add">>
  /\ Goto(t, "idle")
  /\ UNCHANGED <<table, files, fts, closed, retention, todo, world, deleted, dropped>>

-----------------------------------------------------------------------------
(* The process dies, or exits after shutdown, with everything in memory.   *)
Die ==
  /\ pc["ui"] # "down" /\ (closed \/ crashes < MaxCrashes)
  /\ crashes' = IF closed THEN crashes ELSE crashes + 1
  /\ pc' = [t \in Threads |-> IF t = "ui" THEN "down" ELSE "idle"]
  /\ arg' = [t \in Threads |-> None]
  /\ todo' = [t \in Threads |-> {}]
  /\ dropped' = {}
  /\ closed' = FALSE
  /\ UNCHANGED <<table, files, fts, retention, day, used, deleted>>

Restart ==
  /\ pc["ui"] = "down"
  /\ Goto("ui", "open")
  /\ UNCHANGED <<table, files, fts, closed, retention, todo, world, deleted, dropped>>

Tick ==
  /\ day < MaxDay
  /\ day' = day + 1
  /\ UNCHANGED <<table, files, fts, closed, retention, threads, used, crashes, deleted, dropped>>

Startup == Quarantine \/ CreateTable \/ CreateTriggers \/ Rebuild \/ Prune \/ PruneAudio
UiStep == \/ \E id \in Ids : Delete(id)
          \/ Clear
          \/ \E days \in Retentions : SaveSettings(days)
          \/ \E t \in Threads, id \in Ids : StartWorker(t, id)
          \/ Close
DictationStep == \/ \E enabled \in BOOLEAN : Retain(enabled)
                 \/ AddDictation \/ AddFailed \/ TakeBack
                 \/ \E outcome \in Outcomes : UpdateDelivery(outcome)
WorkerStep == \/ RetryGet \/ RetryTranscribe
              \/ \E outcome \in Outcomes : RetryAdd(outcome)
              \/ RecleanGet \/ RecleanUpdate
Next == \/ Startup \/ UiStep \/ DictationStep \/ WorkerStep
        \/ \E t \in Threads : DeleteAudio(t) \/ Fail(t)
        \/ Die \/ Restart \/ Tick

Spec == Init /\ [][Next]_vars

-----------------------------------------------------------------------------
TypeOK ==
  /\ disk \in {"none", "old", "current", "corrupt"}
  /\ DOMAIN rows \subseteq Ids /\ \A id \in DOMAIN rows : rows[id] \in Rows
  /\ {triggers, fts, closed} \subseteq BOOLEAN
  /\ index \subseteq Ids \X Texts
  /\ files \subseteq Ids /\ dropped \subseteq Ids /\ deleted \subseteq Ids
  /\ arg \in [Threads -> Ids \cup {None}] /\ todo \in [Threads -> SUBSET Ids]

(* A row that names an audio file has it, whatever died in between: rows
   lose their audio before the files go (delete, clear, prune,
   prune_audio), and files are there before rows name them (retain, add).  *)
RowHasFile == \A id \in DOMAIN rows : rows[id].audio # None => rows[id].audio \in files

(* Audio of a row that was deleted, cleared, pruned or expired is gone as
   soon as no thread is still removing files, unless the process died in
   between.                                                                *)
DroppedAudioGone == dropped \cap files \subseteq UNION {todo[t] : t \in Threads}

(* What a full-text search finds is what the table holds, from the end of
   start-up on and through every crash: the triggers follow each
   transaction and the rebuild makes up for a table that had none.         *)
Found(text) ==
  IF fts THEN {entry[1] : entry \in {e \in index : e[2] = text}}
  ELSE {id \in DOMAIN rows : rows[id].text = text}

SearchFindsTable ==
  pc["ui"] \in {"prune", "prune audio", "idle"} =>
    \A text \in Texts : Found(text) = {id \in DOMAIN rows : rows[id].text = text}

(* A transcript the user deleted never comes back: a retry of it makes a
   row of its own, a re-clean of it fails.                                 *)
DeletedStaysDeleted == [][deleted \cap DOMAIN rows' = {}]_vars

=============================================================================
