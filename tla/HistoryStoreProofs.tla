------------------------- MODULE HistoryStoreProofs -------------------------
(***************************************************************************)
(* Proofs about HistoryStore for any number of transcripts, days and       *)
(* crashes, every retention and both builds of SQLite.                     *)
(*                                                                         *)
(* A recording is named after the dictation that retained it, and a row    *)
(* that keeps one has the same number; that ids are never handed out twice *)
(* is what keeps one thread's deletion off another thread's recording.     *)
(***************************************************************************)
EXTENDS HistoryStore, TLAPS

-----------------------------------------------------------------------------
(***************************************************************************)
(* Types                                                                   *)
(***************************************************************************)
Places == {"open", "triggers", "rebuild", "prune", "prune audio", "idle", "down",
           "add", "deliver", "get", "transcribe", "update"}

\* A table of rows each of which keeps, if any, the recording of its own number.
IsTable(table_) ==
  /\ DOMAIN table_ \subseteq Ids
  /\ \A id \in DOMAIN table_ : table_[id] \in Rows /\ table_[id].audio \in {None, id}

DictationHasRow == pc["dictation"] \in {"add", "deliver"} => arg["dictation"] \in Ids

TypeInv ==
  /\ TypeOK
  /\ IsTable(rows)
  /\ day \in Int /\ used \in 0..MaxRows
  /\ pc \in [Threads -> Places] /\ DictationHasRow

LEMMA NewRowType ==
  ASSUME day \in Int, NEW audio \in Ids \cup {None}
  PROVE  /\ NewRow(audio) \in Rows /\ NewRow(audio).audio = audio
         /\ NewRow(audio).day = day
  BY HistoryAssumption DEF NewRow, Rows, Texts, Methods

\* A table may lose rows, gain one, or have rows changed.
LEMMA WithoutIsTable ==
  ASSUME NEW table_, IsTable(table_), NEW ids
  PROVE  /\ IsTable(Without(table_, ids)) /\ DOMAIN Without(table_, ids) = DOMAIN table_ \ ids
         /\ \A id \in DOMAIN table_ \ ids : Without(table_, ids)[id] = table_[id]
  BY DEF IsTable, Without

LEMMA AddedIsTable ==
  ASSUME NEW id \in Ids, NEW row \in Rows, row.audio \in {None, id}, IsTable(rows)
  PROVE  /\ IsTable(Added(id, row)) /\ DOMAIN Added(id, row) \subseteq DOMAIN rows \cup {id}
         /\ \A i \in DOMAIN Added(id, row) : Added(id, row)[i] = IF i = id THEN row ELSE rows[i]
<1> DEFINE all == With(rows, id, row)
<1>1. /\ IsTable(all) /\ DOMAIN all = DOMAIN rows \cup {id}
      /\ \A i \in DOMAIN all : all[i] = IF i = id THEN row ELSE rows[i]
  BY DEF With, IsTable
<1> HIDE DEF all
<1>2. Added(id, row) = Without(all, Older(all, retention))
  BY DEF Added, all
<1> DEFINE old == Older(all, retention)
<1> HIDE DEF old
<1>3. /\ IsTable(Without(all, old)) /\ DOMAIN Without(all, old) = DOMAIN all \ old
      /\ \A i \in DOMAIN all \ old : Without(all, old)[i] = all[i]
  BY <1>1, WithoutIsTable
<1>4. Added(id, row) = Without(all, old)
  BY <1>2 DEF old
<1>5. QED
  BY <1>1, <1>3, <1>4

LEMMA IndexedType ==
  ASSUME NEW table_, IsTable(table_), index \subseteq Ids \X Texts
  PROVE  Indexed(table_) \subseteq Ids \X Texts
<1>1. \A id \in DOMAIN table_ : <<id, table_[id].text>> \in Ids \X Texts
  BY DEF IsTable, Rows
<1>2. QED
  BY <1>1 DEF Indexed

\* A deletion takes rows out of the table and gives their recordings to the thread.
LEMMA RemoveFacts ==
  ASSUME TypeInv, NEW t \in Threads, NEW ids \in SUBSET DOMAIN rows, NEW next, Remove(t, ids, next)
  PROVE  /\ IsTable(rows') /\ DOMAIN rows' = DOMAIN rows \ ids
         /\ \A id \in DOMAIN rows' : rows'[id] = rows[id]
         /\ rows' = Without(rows, ids) /\ index' = Indexed(Without(rows, ids))
         /\ AudioOf(ids) \subseteq ids
         /\ \A id \in ids : rows[id].audio # None => id \in AudioOf(ids)
         /\ todo' = [todo EXCEPT ![t] = AudioOf(ids)]
         /\ dropped' = dropped \cup AudioOf(ids) /\ deleted' = deleted \cup ids
         /\ pc' = [pc EXCEPT ![t] = next] /\ arg' \in [Threads -> Ids \cup {None}]
         /\ arg' = IF next = "idle" THEN [arg EXCEPT ![t] = None] ELSE arg
         /\ UNCHANGED <<disk, triggers, backups, files, fts, closed, world>>
<1>1. /\ rows' = Without(rows, ids) /\ index' = Indexed(Without(rows, ids))
      /\ todo' = [todo EXCEPT ![t] = AudioOf(ids)]
      /\ dropped' = dropped \cup AudioOf(ids) /\ deleted' = deleted \cup ids
      /\ UNCHANGED <<disk, triggers, backups, files, fts, closed, world>>
  BY DEF Remove, Store
<1>2. pc' = [pc EXCEPT ![t] = next] /\ arg' \in [Threads -> Ids \cup {None}]
  BY DEF Remove, Goto, TypeInv, TypeOK, None
<1>3. arg' = IF next = "idle" THEN [arg EXCEPT ![t] = None] ELSE arg
  BY DEF Remove, Goto
<1>4. /\ IsTable(rows') /\ DOMAIN rows' = DOMAIN rows \ ids
      /\ \A id \in DOMAIN rows' : rows'[id] = rows[id]
  <2>1. /\ IsTable(Without(rows, ids)) /\ DOMAIN Without(rows, ids) = DOMAIN rows \ ids
        /\ \A id \in DOMAIN rows \ ids : Without(rows, ids)[id] = rows[id]
    BY WithoutIsTable DEF TypeInv
  <2>2. QED
    BY <1>1, <2>1
<1>5. AudioOf(ids) \subseteq ids /\ \A id \in ids : rows[id].audio # None => id \in AudioOf(ids)
  BY DEF AudioOf, TypeInv, IsTable
<1>6. QED
  BY <1>1, <1>2, <1>3, <1>4, <1>5

LEMMA StoreType ==
  ASSUME TypeInv, NEW table_, IsTable(table_), Store(table_)
  PROVE  IsTable(rows') /\ index' \subseteq Ids \X Texts
  BY IndexedType DEF Store, TypeInv, TypeOK

\* The variables but the table, index and the bounds.
SetsTyped ==
  /\ disk \in {"none", "old", "current", "corrupt"}
  /\ {triggers, fts, closed} \subseteq BOOLEAN
  /\ files \subseteq Ids /\ dropped \subseteq Ids /\ deleted \subseteq Ids
ThreadsTyped ==
  /\ arg \in [Threads -> Ids \cup {None}] /\ todo \in [Threads -> SUBSET Ids]
  /\ pc \in [Threads -> Places] /\ DictationHasRow
TableTyped == IsTable(rows) /\ index \subseteq Ids \X Texts
WorldTyped == day \in Int /\ used \in 0..MaxRows

LEMMA TypeParts == TypeInv <=> SetsTyped /\ ThreadsTyped /\ TableTyped /\ WorldTyped
  BY DEF TypeInv, TypeOK, SetsTyped, ThreadsTyped, TableTyped, WorldTyped, IsTable

LEMMA TypePartsNext == SetsTyped' /\ ThreadsTyped' /\ TableTyped' /\ WorldTyped' => TypeInv'
  BY DEF TypeInv, TypeOK, SetsTyped, ThreadsTyped, TableTyped, WorldTyped, IsTable

LEMMA RemoveTypes ==
  ASSUME TypeInv, NEW t \in Threads, NEW ids \in SUBSET DOMAIN rows, NEW next, Remove(t, ids, next),
         next \in {"prune audio", "idle"}
  PROVE  TypeInv'
<1>1. ids \subseteq Ids
  BY DEF TypeInv, IsTable
<1>2. SetsTyped'
  <2>1. /\ AudioOf(ids) \subseteq ids /\ dropped' = dropped \cup AudioOf(ids)
        /\ deleted' = deleted \cup ids
        /\ disk' = disk /\ files' = files
    BY RemoveFacts
  <2>2. triggers' = triggers /\ fts' = fts /\ closed' = closed
    BY RemoveFacts
  <2>3. {triggers', fts', closed'} \subseteq BOOLEAN
    BY <2>2, TypeParts DEF SetsTyped
  <2>4. QED
    BY <1>1, <2>1, <2>3, TypeParts DEF SetsTyped
<1>3. ThreadsTyped'
  <2>1. /\ todo' = [todo EXCEPT ![t] = AudioOf(ids)] /\ AudioOf(ids) \subseteq Ids
        /\ pc' = [pc EXCEPT ![t] = next] /\ arg' \in [Threads -> Ids \cup {None}]
        /\ arg' = IF next = "idle" THEN [arg EXCEPT ![t] = None] ELSE arg
    BY <1>1, RemoveFacts
  <2>2. DictationHasRow'
    BY <2>1, TypeParts DEF ThreadsTyped, DictationHasRow, Threads
  <2>3. QED
    BY <2>1, <2>2, TypeParts DEF ThreadsTyped, Places
<1>4. TableTyped'
  <2>1. IsTable(rows') /\ rows' = Without(rows, ids) /\ index' = Indexed(Without(rows, ids))
    BY RemoveFacts
  <2>2. IsTable(Without(rows, ids)) /\ index \subseteq Ids \X Texts
    BY <2>1, TypeParts DEF TableTyped
  <2>3. index' \subseteq Ids \X Texts
    BY <2>1, <2>2, IndexedType
  <2>4. QED
    BY <2>1, <2>3 DEF TableTyped
<1>5. WorldTyped'
  BY RemoveFacts, TypeParts DEF WorldTyped, world
<1>6. QED
  BY <1>2, <1>3, <1>4, <1>5, TypePartsNext

LEMMA OutcomeType ==
  ASSUME NEW outcome \in Outcomes
  PROVE  outcome[1] \in Methods /\ outcome[2] \in BOOLEAN /\ outcome[3] \in BOOLEAN
<1>1. CASE outcome = <<"direct", TRUE, FALSE>>
  BY <1>1 DEF Methods
<1>2. CASE outcome = <<"direct", TRUE, TRUE>>
  BY <1>2 DEF Methods
<1>3. CASE outcome = <<"clipboard", FALSE, TRUE>>
  BY <1>3 DEF Methods
<1>4. CASE outcome = <<"clipboard", FALSE, FALSE>>
  BY <1>4 DEF Methods
<1>5. QED
  BY <1>1, <1>2, <1>3, <1>4 DEF Outcomes

\* The steps that change the table otherwise than by a deletion.
LEMMA TableSteps ==
  ASSUME TypeInv
  PROVE  /\ CreateTable => TableTyped'
         /\ PruneAudio => TableTyped'
         /\ AddDictation => TableTyped'
         /\ RecleanUpdate => TableTyped'
         /\ \A outcome \in Outcomes : UpdateDelivery(outcome) \/ RetryAdd(outcome) => TableTyped'
<1>a. /\ IsTable(rows) /\ index \subseteq Ids \X Texts /\ day \in Int
      /\ \A id \in DOMAIN rows : rows[id] \in Rows
  BY TypeParts DEF TableTyped, WorldTyped, IsTable
<1>1. ASSUME CreateTable PROVE TableTyped'
  <2>1. \A id \in DOMAIN rows : Backfilled(rows[id]) \in Rows /\ Backfilled(rows[id]).audio = rows[id].audio
    BY <1>a DEF Backfilled, Rows
  <2>2. QED
    BY <1>1, <1>a, <2>1 DEF CreateTable, TableTyped, IsTable
<1>2. ASSUME PruneAudio PROVE TableTyped'
  <2> DEFINE expired == {id \in DOMAIN rows : rows[id].audio # None /\ rows[id].expires <= day}
             kept == [id \in DOMAIN rows |->
                        IF id \in expired THEN [rows[id] EXCEPT !.audio = None] ELSE rows[id]]
  <2>1. IsTable(kept)
    BY <1>a DEF IsTable, Rows
  <2>2. Store(kept)
    BY <1>2 DEF PruneAudio
  <2>3. QED
    BY <2>1, <2>2, StoreType DEF TableTyped
<1>3. ASSUME AddDictation PROVE TableTyped'
  <2> DEFINE id == arg["dictation"]
             row == NewRow(IF id \in files THEN id ELSE None)
  <2>1. Store(Added(id, row))
    BY <1>3 DEF AddDictation
  <2>2. id \in Ids
    BY <1>3, TypeParts DEF AddDictation, Locked, ThreadsTyped, DictationHasRow
  <2>3. IsTable(Added(id, row))
    <3>1. row \in Rows /\ row.audio \in {None, id}
      BY <1>a, <2>2, NewRowType
    <3>2. QED
      BY <1>a, <2>2, <3>1, AddedIsTable
  <2>4. QED
    BY <2>1, <2>3, StoreType DEF TableTyped
<1>4. ASSUME RecleanUpdate PROVE TableTyped'
  <2>1. Store(UpdateFinalText(rows, arg["reclean"]))
    BY <1>4 DEF RecleanUpdate
  <2>2. IsTable(UpdateFinalText(rows, arg["reclean"]))
    BY <1>a DEF UpdateFinalText, IsTable, Rows, Texts
  <2>3. QED
    BY <2>1, <2>2, StoreType DEF TableTyped
<1>5. ASSUME NEW outcome \in Outcomes, UpdateDelivery(outcome) PROVE TableTyped'
  <2> DEFINE id == arg["dictation"]
             table_ == [rows EXCEPT ![id].method = outcome[1], ![id].inserted = outcome[2],
                                    ![id].copied = outcome[3]]
  <2>1. Store(table_)
    BY <1>5 DEF UpdateDelivery
  <2>2. outcome[1] \in Methods /\ outcome[2] \in BOOLEAN /\ outcome[3] \in BOOLEAN
    BY OutcomeType
  <2>3. IsTable(table_)
    <3>1. id \in DOMAIN rows
      BY <1>5 DEF UpdateDelivery
    <3> DEFINE row == [rows[id] EXCEPT !.method = outcome[1], !.inserted = outcome[2],
                                       !.copied = outcome[3]]
    <3>2. row \in Rows /\ row.audio = rows[id].audio
      BY <1>a, <2>2, <3>1 DEF Rows
    <3>3. table_ = [rows EXCEPT ![id] = row]
      BY <1>a, <3>1 DEF Rows
    <3>4. QED
      BY <1>a, <3>1, <3>2, <3>3 DEF IsTable
  <2>4. QED
    BY <2>1, <2>3, StoreType DEF TableTyped
<1>6. ASSUME NEW outcome \in Outcomes, RetryAdd(outcome) PROVE TableTyped'
  <2> DEFINE row == [NewRow(None) EXCEPT !.method = outcome[1], !.inserted = outcome[2],
                                         !.copied = outcome[3]]
  <2>1. Store(Added(used + 1, row)) /\ used + 1 \in Ids
    BY <1>6, TypeParts, HistoryAssumption DEF RetryAdd, WorldTyped, Ids
  <2>2. outcome[1] \in Methods /\ outcome[2] \in BOOLEAN /\ outcome[3] \in BOOLEAN
    BY OutcomeType
  <2>3. row \in Rows /\ row.audio = None
    <3>1. NewRow(None) \in Rows /\ NewRow(None).audio = None
      BY <1>a, NewRowType
    <3>2. QED
      BY <2>2, <3>1 DEF Rows
  <2>4. IsTable(Added(used + 1, row))
    BY <1>a, <2>1, <2>3, AddedIsTable
  <2>5. QED
    BY <2>1, <2>4, StoreType DEF TableTyped
<1>7. QED
  BY <1>1, <1>2, <1>3, <1>4, <1>5, <1>6

LEMMA InitTypes == Init => TypeInv
<1> SUFFICES ASSUME Init PROVE TypeInv
  OBVIOUS
<1>1. OldTable = [id \in {1} |-> [NewRow(None) EXCEPT !.method = "clipboard"]]
  BY DEF OldTable
<1>2. TableTyped
  <2>1. NewRow(None) \in Rows /\ NewRow(None).audio = None
    BY HistoryAssumption, NewRowType DEF Init
  <2>2. [NewRow(None) EXCEPT !.method = "clipboard"] \in Rows
        /\ [NewRow(None) EXCEPT !.method = "clipboard"].audio = None
    BY <2>1 DEF Rows, Methods
  <2>3. CASE used = 1
    <3>1. rows = OldTable /\ MaxRows > 0
      BY <2>3 DEF Init
    <3>2. QED
      BY <1>1, <2>2, <3>1, HistoryAssumption DEF Init, TableTyped, IsTable, Ids
  <2>4. CASE used # 1
    BY <2>4 DEF Init, TableTyped, IsTable
  <2>5. QED
    BY <2>3, <2>4
<1>3. SetsTyped
  <2>1. {triggers, fts, closed} \subseteq BOOLEAN
    BY HistoryAssumption DEF Init
  <2>2. QED
    BY <2>1 DEF Init, SetsTyped
<1>4. ThreadsTyped
  BY DEF Init, ThreadsTyped, Places, DictationHasRow, Threads
<1>5. WorldTyped
  BY HistoryAssumption DEF Init, WorldTyped
<1>6. QED
  BY <1>2, <1>3, <1>4, <1>5, TypeParts

LEMMA GotoTypes ==
  ASSUME ThreadsTyped, NEW t \in Threads, NEW step \in Places, Goto(t, step), todo' = todo,
         t = "dictation" => step = "idle" \/ (step = "deliver" /\ pc[t] = "add")
  PROVE  ThreadsTyped'
<1>1. /\ pc' = [pc EXCEPT ![t] = step]
      /\ arg' = IF step = "idle" THEN [arg EXCEPT ![t] = None] ELSE arg
  BY DEF Goto
<1>2. DictationHasRow'
  BY <1>1 DEF ThreadsTyped, DictationHasRow, Threads
<1>3. arg' \in [Threads -> Ids \cup {None}] /\ pc' \in [Threads -> Places]
  BY <1>1 DEF ThreadsTyped
<1>4. QED
  BY <1>2, <1>3 DEF ThreadsTyped

LEMMA StepTypes == TypeInv /\ [Next]_vars => TypeInv'
<1> SUFFICES ASSUME TypeInv, [Next]_vars PROVE TypeInv'
  OBVIOUS
<1>a. SetsTyped /\ ThreadsTyped /\ TableTyped /\ WorldTyped
  BY TypeParts
<1>b. /\ {"ui", "dictation", "retry", "reclean"} = Threads
      /\ {"triggers", "rebuild", "prune", "prune audio", "idle", "deliver", "transcribe", "add",
          "update", "open"} \subseteq Places
  BY DEF Threads, Places
<1>1. ASSUME Startup PROVE TypeInv'
  <2>1. CASE Quarantine
    <3>1. SetsTyped'
      <4>1. {triggers', fts', closed'} \subseteq BOOLEAN
        BY <1>a, <2>1 DEF Quarantine, SetsTyped
      <4>2. QED
        BY <1>a, <2>1, <4>1 DEF Quarantine, SetsTyped
    <3>2. TableTyped'
      BY <1>a, <2>1, WithoutIsTable DEF Quarantine, TableTyped
    <3>3. ThreadsTyped' /\ WorldTyped'
      BY <1>a, <2>1 DEF Quarantine, ThreadsTyped, DictationHasRow, WorldTyped, threads, world
    <3>4. QED
      BY <3>1, <3>2, <3>3, TypePartsNext
  <2>2. CASE CreateTable
    <3>1. SetsTyped' /\ WorldTyped'
      BY <1>a, <2>2 DEF CreateTable, SetsTyped, WorldTyped, world
    <3>2. ThreadsTyped'
      BY <1>a, <1>b, <2>2, GotoTypes DEF CreateTable
    <3>3. QED
      BY <2>2, <3>1, <3>2, TableSteps, TypePartsNext
  <2>3. CASE CreateTriggers
    <3>1. SetsTyped'
      <4>1. {triggers', fts', closed'} \subseteq BOOLEAN
        BY <1>a, <2>3 DEF CreateTriggers, SetsTyped
      <4>2. QED
        BY <1>a, <2>3, <4>1 DEF CreateTriggers, SetsTyped
    <3>2. ThreadsTyped'
      BY <1>a, <1>b, <2>3, GotoTypes DEF CreateTriggers
    <3>3. TableTyped' /\ WorldTyped'
      BY <1>a, <2>3 DEF CreateTriggers, TableTyped, WorldTyped, world
    <3>4. QED
      BY <3>1, <3>2, <3>3, TypePartsNext
  <2>4. CASE Rebuild
    <3>1. SetsTyped' /\ WorldTyped'
      BY <1>a, <2>4 DEF Rebuild, SetsTyped, WorldTyped, world
    <3>2. ThreadsTyped'
      BY <1>a, <1>b, <2>4, GotoTypes DEF Rebuild
    <3>3. Contents(rows) \subseteq Ids \X Texts
      BY <1>a DEF Contents, TableTyped, IsTable, Rows
    <3>4. TableTyped'
      BY <1>a, <2>4, <3>3 DEF Rebuild, TableTyped
    <3>5. QED
      BY <3>1, <3>2, <3>4, TypePartsNext
  <2>5. CASE Prune
    BY <1>b, <2>5, RemoveTypes DEF Prune, Older
  <2>6. CASE PruneAudio
    <3> DEFINE expired == {id \in DOMAIN rows : rows[id].audio # None /\ rows[id].expires <= day}
    <3>1. AudioOf(expired) \subseteq Ids
      BY <1>a DEF AudioOf, TableTyped, IsTable
    <3>2. /\ todo' = [todo EXCEPT !["ui"] = AudioOf(expired)]
          /\ dropped' = dropped \cup AudioOf(expired)
          /\ Goto("ui", "idle")
          /\ UNCHANGED <<disk, files, deleted, world>>
          /\ UNCHANGED <<triggers, fts, closed>>
      BY <2>6 DEF PruneAudio
    <3>3. SetsTyped'
      BY <1>a, <3>1, <3>2 DEF SetsTyped
    <3>4. ThreadsTyped'
      BY <1>a, <1>b, <3>1, <3>2 DEF ThreadsTyped, Goto, DictationHasRow
    <3>5. WorldTyped'
      BY <1>a, <3>2 DEF WorldTyped, world
    <3>6. QED
      BY <2>6, <3>3, <3>4, <3>5, TableSteps, TypePartsNext
  <2>7. QED
    BY <1>1, <2>1, <2>2, <2>3, <2>4, <2>5, <2>6 DEF Startup
<1>2. ASSUME UiStep PROVE TypeInv'
  <2>1. ASSUME NEW id \in Ids, Delete(id) PROVE TypeInv'
    BY <1>b, <2>1, RemoveTypes DEF Delete
  <2>2. CASE Clear
    BY <1>b, <2>2, RemoveTypes DEF Clear
  <2>3. ASSUME NEW days \in Retentions, SaveSettings(days) PROVE TypeInv'
    BY <1>b, <2>3, RemoveTypes DEF SaveSettings, Older
  <2>4. ASSUME NEW t \in Threads, NEW id \in Ids, StartWorker(t, id) PROVE TypeInv'
    <3>1. ThreadsTyped'
      BY <1>a, <2>4 DEF StartWorker, ThreadsTyped, Places, DictationHasRow, Threads
    <3>2. TableTyped' /\ WorldTyped' /\ SetsTyped'
      BY <1>a, <2>4 DEF StartWorker, TableTyped, WorldTyped, SetsTyped, table, world
    <3>3. QED
      BY <3>1, <3>2, TypePartsNext
  <2>5. CASE Close
    <3>1. ThreadsTyped' /\ TableTyped' /\ WorldTyped'
      BY <1>a, <2>5 DEF Close, TableTyped, WorldTyped, ThreadsTyped, DictationHasRow, table, world,
         threads
    <3>2. SetsTyped'
      BY <1>a, <2>5 DEF Close, SetsTyped, table
    <3>3. QED
      BY <3>1, <3>2, TypePartsNext
  <2>6. QED
    BY <1>2, <2>1, <2>2, <2>3, <2>4, <2>5 DEF UiStep
<1>3. ASSUME DictationStep PROVE TypeInv'
  <2>1. ASSUME NEW enabled \in BOOLEAN, Retain(enabled) PROVE TypeInv'
    <3>1. used + 1 \in Ids /\ used' = used + 1
      BY <1>a, <2>1, HistoryAssumption DEF Retain, WorldTyped, Ids
    <3>2. ThreadsTyped'
      BY <1>a, <1>b, <2>1, <3>1 DEF Retain, ThreadsTyped, DictationHasRow
    <3>3. TableTyped'
      BY <1>a, <2>1 DEF Retain, TableTyped, table
    <3>4. WorldTyped'
      BY <1>a, <2>1, <3>1, HistoryAssumption DEF Retain, WorldTyped, Ids
    <3>5. files' \subseteq Ids
      BY <1>a, <2>1, <3>1 DEF Retain, SetsTyped
    <3>6. SetsTyped'
      BY <1>a, <2>1, <3>5 DEF Retain, SetsTyped, table
    <3>7. QED
      BY <3>2, <3>3, <3>4, <3>6, TypePartsNext
  <2>2. CASE AddDictation
    <3>1. SetsTyped' /\ WorldTyped'
      BY <1>a, <2>2 DEF AddDictation, SetsTyped, WorldTyped, world
    <3>2. ThreadsTyped'
      BY <1>a, <1>b, <2>2, GotoTypes DEF AddDictation, Locked
    <3>3. QED
      BY <2>2, <3>1, <3>2, TableSteps, TypePartsNext
  <2>3. CASE AddFailed
    <3>1. SetsTyped' /\ WorldTyped' /\ TableTyped'
      BY <1>a, <2>3 DEF AddFailed, SetsTyped, WorldTyped, TableTyped, table, world
    <3>2. ThreadsTyped'
      BY <1>a, <1>b, <2>3, GotoTypes DEF AddFailed
    <3>3. QED
      BY <3>1, <3>2, TypePartsNext
  <2>4. CASE TakeBack
    BY <1>b, <2>4, RemoveTypes DEF TakeBack
  <2>5. ASSUME NEW outcome \in Outcomes, UpdateDelivery(outcome) PROVE TypeInv'
    <3>1. SetsTyped' /\ WorldTyped'
      BY <1>a, <2>5 DEF UpdateDelivery, SetsTyped, WorldTyped, world
    <3>2. ThreadsTyped'
      <4>1. Goto("dictation", "idle") /\ todo' = todo
        BY <2>5 DEF UpdateDelivery
      <4>2. QED
        BY <1>a, <1>b, <4>1, GotoTypes
    <3>3. QED
      BY <2>5, <3>1, <3>2, TableSteps, TypePartsNext
  <2>6. QED
    BY <1>3, <2>1, <2>2, <2>3, <2>4, <2>5 DEF DictationStep
<1>4. ASSUME WorkerStep PROVE TypeInv'
  <2>1. CASE RetryGet \/ RetryTranscribe \/ RecleanGet
    <3>1. SetsTyped' /\ WorldTyped' /\ TableTyped'
      BY <1>a, <2>1
         DEF RetryGet, RetryTranscribe, RecleanGet, SetsTyped, WorldTyped, TableTyped, table, world
    <3>2. ThreadsTyped'
      BY <1>a, <1>b, <2>1, GotoTypes DEF RetryGet, RetryTranscribe, RecleanGet
    <3>3. QED
      BY <3>1, <3>2, TypePartsNext
  <2>2. ASSUME NEW outcome \in Outcomes, RetryAdd(outcome) PROVE TypeInv'
    <3>1. SetsTyped'
      BY <1>a, <2>2 DEF RetryAdd, SetsTyped
    <3>2. WorldTyped'
      BY <1>a, <2>2, HistoryAssumption DEF RetryAdd, WorldTyped
    <3>3. ThreadsTyped'
      BY <1>a, <1>b, <2>2, GotoTypes DEF RetryAdd
    <3>4. QED
      BY <2>2, <3>1, <3>2, <3>3, TableSteps, TypePartsNext
  <2>3. CASE RecleanUpdate
    <3>1. SetsTyped' /\ WorldTyped'
      BY <1>a, <2>3 DEF RecleanUpdate, SetsTyped, WorldTyped, world
    <3>2. ThreadsTyped'
      BY <1>a, <1>b, <2>3, GotoTypes DEF RecleanUpdate
    <3>3. QED
      BY <2>3, <3>1, <3>2, TableSteps, TypePartsNext
  <2>4. QED
    BY <1>4, <2>1, <2>2, <2>3 DEF WorkerStep
<1>5. ASSUME NEW t \in Threads, DeleteAudio(t) \/ Fail(t) PROVE TypeInv'
  <2>1. SetsTyped' /\ WorldTyped' /\ TableTyped'
    BY <1>a, <1>5 DEF DeleteAudio, Fail, SetsTyped, WorldTyped, TableTyped, table, world
  <2>2. CASE DeleteAudio(t)
    <3>1. ThreadsTyped'
      BY <1>a, <2>2 DEF DeleteAudio, ThreadsTyped, DictationHasRow
    <3>2. QED
      BY <2>1, <3>1, TypePartsNext
  <2>3. CASE Fail(t)
    <3>1. ThreadsTyped'
      <4>1. Goto(t, "idle") /\ todo' = todo
        BY <2>3 DEF Fail
      <4>2. QED
        BY <1>a, <1>b, <4>1, GotoTypes
    <3>2. QED
      BY <2>1, <3>1, TypePartsNext
  <2>4. QED
    BY <1>5, <2>2, <2>3
<1>6. ASSUME Die \/ Restart \/ Tick PROVE TypeInv'
  <2>1. CASE Die
    <3>1. ThreadsTyped'
      BY <2>1 DEF Die, ThreadsTyped, DictationHasRow, Places, Threads
    <3>2. SetsTyped'
      BY <1>a, <2>1 DEF Die, SetsTyped, table
    <3>3. TableTyped' /\ WorldTyped'
      BY <1>a, <2>1 DEF Die, TableTyped, WorldTyped, table
    <3>4. QED
      BY <3>1, <3>2, <3>3, TypePartsNext
  <2>2. CASE Restart
    <3>1. ThreadsTyped'
      BY <1>a, <1>b, <2>2, GotoTypes DEF Restart
    <3>2. SetsTyped' /\ TableTyped' /\ WorldTyped'
      BY <1>a, <2>2 DEF Restart, SetsTyped, TableTyped, WorldTyped, table, world
    <3>3. QED
      BY <3>1, <3>2, TypePartsNext
  <2>3. CASE Tick
    <3>1. ThreadsTyped'
      BY <1>a, <2>3 DEF Tick, ThreadsTyped, DictationHasRow, threads
    <3>2. SetsTyped' /\ TableTyped' /\ WorldTyped'
      BY <1>a, <2>3 DEF Tick, SetsTyped, TableTyped, WorldTyped, table
    <3>3. QED
      BY <3>1, <3>2, TypePartsNext
  <2>4. QED
    BY <1>6, <2>1, <2>2, <2>3
<1>7. ASSUME UNCHANGED vars PROVE TypeInv'
  <2>1. ThreadsTyped' /\ TableTyped' /\ WorldTyped'
    BY <1>a, <1>7 DEF vars, TableTyped, WorldTyped, ThreadsTyped, DictationHasRow, table, world,
       threads
  <2>2. SetsTyped'
    BY <1>a, <1>7 DEF vars, SetsTyped, table
  <2>3. QED
    BY <2>1, <2>2, TypePartsNext
<1>8. QED
  BY <1>1, <1>2, <1>3, <1>4, <1>5, <1>6, <1>7 DEF Next

LEMMA TypeInvHolds == Spec => []TypeInv
BY InitTypes, StepTypes, PTL DEF Spec

\* Every variable keeps its type, for every bound and retention.
THEOREM HistoryTypes == Spec => []TypeOK
<1>1. TypeInv => TypeOK
  BY DEF TypeInv
<1>2. QED
  BY <1>1, TypeInvHolds, PTL

-----------------------------------------------------------------------------
(***************************************************************************)
(* Rows, recordings and the deletions under way                            *)
(***************************************************************************)

\* The rows that keep a recording.
Keeping == {id \in DOMAIN rows : rows[id].audio # None}

\* Numbers that were not handed out yet are nowhere.
Handed == 1..used
NothingFromFuture ==
  /\ DOMAIN rows \cup files \cup dropped \cup deleted \subseteq Handed
  /\ \A t \in Threads : todo[t] \subseteq Handed

\* A dictation that is about to be stored: its number belongs to it alone.
AddIsFirst ==
  pc["dictation"] = "add" =>
    /\ arg["dictation"] \in Handed
    /\ arg["dictation"] \notin DOMAIN rows \cup dropped \cup deleted
    /\ \A t \in Threads : arg["dictation"] \notin todo[t]

\* What a thread is about to remove, no row keeps.
RemovesWhatNoRowKeeps == \A t \in Threads : todo[t] \cap Keeping = {}

DeletedAreGone == deleted \cap DOMAIN rows = {}

\* Start-up finds no deletion of its own under way.
Early == {"open", "triggers", "rebuild", "prune", "down"}
StartsWithNothingToRemove == pc["ui"] \in Early => todo["ui"] = {}

FileInv ==
  /\ NothingFromFuture /\ AddIsFirst /\ RemovesWhatNoRowKeeps /\ Keeping \subseteq files
  /\ DroppedAudioGone /\ DeletedAreGone /\ StartsWithNothingToRemove

LEMMA KeepingIsOwn == TypeInv => (RowHasFile <=> Keeping \subseteq files)
  BY DEF TypeInv, IsTable, RowHasFile, Keeping

\* The dictation is about to be stored only if it was before, with the same number.
AddUnlessLeft ==
  pc'["dictation"] = "add" =>
    pc["dictation"] = "add" /\ arg'["dictation"] = arg["dictation"]

\* The steps that neither add rows nor touch files.
LEMMA QuietStep ==
  ASSUME FileInv, DOMAIN rows' \subseteq DOMAIN rows, Keeping' \subseteq Keeping,
         UNCHANGED <<files, todo, dropped, deleted, used>>, AddUnlessLeft,
         pc'["ui"] \in Early => pc["ui"] \in Early \/ todo["ui"] = {}
  PROVE  FileInv'
  BY DEF FileInv, NothingFromFuture, AddIsFirst, RemovesWhatNoRowKeeps, DroppedAudioGone,
     DeletedAreGone, StartsWithNothingToRemove, Handed, AddUnlessLeft

LEMMA RemoveStep ==
  ASSUME TypeInv, FileInv, NEW t \in {"ui", "dictation"}, NEW ids \in SUBSET DOMAIN rows, NEW next,
         Remove(t, ids, next), next \in {"prune audio", "idle"}, todo[t] = {}
  PROVE  FileInv'
<1>a. t \in Threads /\ next \in Places
  BY DEF Threads, Places
<1>1. /\ DOMAIN rows' = DOMAIN rows \ ids /\ \A id \in DOMAIN rows' : rows'[id] = rows[id]
      /\ AudioOf(ids) \subseteq ids
      /\ todo' = [todo EXCEPT ![t] = AudioOf(ids)]
      /\ dropped' = dropped \cup AudioOf(ids) /\ deleted' = deleted \cup ids
  BY <1>a, RemoveFacts
<1>2. /\ pc' = [pc EXCEPT ![t] = next]
      /\ arg' = IF next = "idle" THEN [arg EXCEPT ![t] = None] ELSE arg
      /\ files' = files
  BY <1>a, RemoveFacts
<1>3. used' = used
  BY <1>a, RemoveFacts DEF world
<1>b. /\ pc \in [Threads -> Places] /\ arg \in [Threads -> Ids \cup {None}]
      /\ todo \in [Threads -> SUBSET Ids]
  BY DEF TypeInv, TypeOK
<1> DEFINE out == AudioOf(ids)
<1> HIDE DEF out
<1>c. /\ todo' = [todo EXCEPT ![t] = out] /\ dropped' = dropped \cup out /\ out \subseteq ids
  BY <1>1 DEF out
<1>4. Keeping' = Keeping \ ids
  BY <1>1 DEF Keeping
<1>5. \A u \in Threads : todo'[u] = IF u = t THEN out ELSE todo[u]
  BY <1>a, <1>b, <1>c
<1>6. NothingFromFuture'
  BY <1>1, <1>2, <1>3, <1>c, <1>5 DEF FileInv, NothingFromFuture, Handed
<1>7. AddIsFirst'
  <2>1. pc'["dictation"] = "add" =>
          pc["dictation"] = "add" /\ arg'["dictation"] = arg["dictation"]
    BY <1>a, <1>b, <1>2 DEF Threads
  <2>2. QED
    BY <1>1, <1>2, <1>3, <1>c, <1>5, <2>1 DEF FileInv, AddIsFirst, Handed
<1>8. RemovesWhatNoRowKeeps'
  BY <1>4, <1>5, <1>c DEF FileInv, RemovesWhatNoRowKeeps
<1>9. (Keeping \subseteq files)'
  BY <1>2, <1>4 DEF FileInv
<1>10. DroppedAudioGone'
  <2>1. \A f \in dropped' \cap files' : \E u \in Threads : f \in todo'[u]
    <3>1. SUFFICES ASSUME NEW f \in dropped', f \in files
                   PROVE  \E u \in Threads : f \in todo'[u]
      BY <1>2
    <3>2. CASE f \in out
      BY <1>a, <1>5, <3>2
    <3>3. CASE f \in dropped
      <4>1. PICK u \in Threads : f \in todo[u]
        BY <3>1, <3>3 DEF FileInv, DroppedAudioGone
      <4>2. QED
        BY <1>5, <4>1
    <3>4. QED
      BY <1>c, <3>1, <3>2, <3>3
  <2>2. QED
    BY <2>1 DEF DroppedAudioGone
<1>11. DeletedAreGone'
  BY <1>1 DEF FileInv, DeletedAreGone
<1>12. StartsWithNothingToRemove'
  BY <1>a, <1>b, <1>2, <1>5 DEF FileInv, StartsWithNothingToRemove, Early, Threads
<1>13. QED
  BY <1>6, <1>7, <1>8, <1>9, <1>10, <1>11, <1>12 DEF FileInv

\* The two steps that add a row.
LEMMA AddStep ==
  ASSUME TypeInv, FileInv, AddDictation
  PROVE  FileInv'
<1> DEFINE new == arg["dictation"]
           row == NewRow(IF new \in files THEN new ELSE None)
<1>1. pc["dictation"] = "add" /\ new \in Ids
  BY DEF AddDictation, Locked, TypeInv, DictationHasRow
<1>2. /\ new \in Handed /\ new \notin DOMAIN rows \cup dropped \cup deleted
      /\ \A t \in Threads : new \notin todo[t]
  BY <1>1 DEF FileInv, AddIsFirst
<1>3. /\ DOMAIN rows' \subseteq DOMAIN rows \cup {new}
      /\ \A i \in DOMAIN rows' : rows'[i] = IF i = new THEN row ELSE rows[i]
      /\ row.audio = IF new \in files THEN new ELSE None
  <2>1. row \in Rows /\ row.audio = IF new \in files THEN new ELSE None
    BY <1>1, NewRowType DEF TypeInv
  <2>2. /\ DOMAIN Added(new, row) \subseteq DOMAIN rows \cup {new}
        /\ \A i \in DOMAIN Added(new, row) : Added(new, row)[i] = IF i = new THEN row ELSE rows[i]
    BY <1>1, <2>1, AddedIsTable DEF TypeInv
  <2>3. rows' = Added(new, row)
    BY DEF AddDictation, Store
  <2>4. QED
    BY <2>1, <2>2, <2>3
<1>4. Keeping' \subseteq Keeping \cup (files \cap {new})
  BY <1>3 DEF Keeping
<1>5. /\ UNCHANGED <<files, todo, used, dropped, deleted>>
      /\ pc' = [pc EXCEPT !["dictation"] = "deliver"] /\ pc \in [Threads -> Places]
  BY DEF AddDictation, Goto, world, TypeInv
<1>6. pc'["dictation"] = "deliver" /\ pc'["ui"] = pc["ui"]
  BY <1>5 DEF Threads
<1> HIDE DEF new, row
<1>7. NothingFromFuture' /\ AddIsFirst' /\ DeletedAreGone'
  BY <1>2, <1>3, <1>5, <1>6 DEF FileInv, NothingFromFuture, AddIsFirst, DeletedAreGone, Handed
<1>8. RemovesWhatNoRowKeeps' /\ (Keeping \subseteq files)'
  BY <1>2, <1>4, <1>5 DEF FileInv, RemovesWhatNoRowKeeps
<1>9. DroppedAudioGone' /\ StartsWithNothingToRemove'
  BY <1>5, <1>6 DEF FileInv, DroppedAudioGone, StartsWithNothingToRemove
<1>10. QED
  BY <1>7, <1>8, <1>9 DEF FileInv

LEMMA RetryStep ==
  ASSUME TypeInv, FileInv, NEW outcome \in Outcomes, RetryAdd(outcome)
  PROVE  FileInv'
<1> DEFINE new == used + 1
           row == [NewRow(None) EXCEPT !.method = outcome[1], !.inserted = outcome[2],
                                       !.copied = outcome[3]]
<1>1. new \in Ids /\ used \in Nat
  BY HistoryAssumption DEF RetryAdd, TypeInv, Ids
<1>2. row \in Rows /\ row.audio = None
  <2>1. NewRow(None) \in Rows /\ NewRow(None).audio = None
    BY NewRowType DEF TypeInv
  <2>2. QED
    BY <2>1, OutcomeType DEF Rows
<1>3. /\ DOMAIN rows' \subseteq DOMAIN rows \cup {new}
      /\ \A i \in DOMAIN rows' : rows'[i] = IF i = new THEN row ELSE rows[i]
  <2>1. rows' = Added(new, row)
    BY DEF RetryAdd, Store
  <2>2. IsTable(rows)
    BY DEF TypeInv
  <2> HIDE DEF new, row
  <2>3. /\ DOMAIN Added(new, row) \subseteq DOMAIN rows \cup {new}
        /\ \A i \in DOMAIN Added(new, row) : Added(new, row)[i] = IF i = new THEN row ELSE rows[i]
    BY <1>1, <1>2, <2>2, AddedIsTable
  <2>4. QED
    BY <2>1, <2>3
<1>4. Keeping' \subseteq Keeping
  BY <1>2, <1>3 DEF Keeping
<1>5. /\ UNCHANGED <<files, todo, dropped, deleted>> /\ used' = new
      /\ pc' = [pc EXCEPT !["retry"] = "idle"] /\ pc \in [Threads -> Places]
      /\ arg' = [arg EXCEPT !["retry"] = None] /\ arg \in [Threads -> Ids \cup {None}]
  BY DEF RetryAdd, Goto, TypeInv, TypeOK
<1>6. /\ pc'["dictation"] = pc["dictation"] /\ pc'["ui"] = pc["ui"]
      /\ arg'["dictation"] = arg["dictation"]
  BY <1>5 DEF Threads
<1>7. Handed' = Handed \cup {new} /\ new \notin Handed
  BY <1>1, <1>5 DEF Handed
<1> HIDE DEF new, row
<1>8. NothingFromFuture' /\ DeletedAreGone'
  BY <1>3, <1>5, <1>7 DEF FileInv, NothingFromFuture, DeletedAreGone
<1>9. AddIsFirst'
  BY <1>3, <1>5, <1>6, <1>7 DEF FileInv, AddIsFirst
<1>10. RemovesWhatNoRowKeeps' /\ (Keeping \subseteq files)'
  BY <1>4, <1>5 DEF FileInv, RemovesWhatNoRowKeeps
<1>11. DroppedAudioGone' /\ StartsWithNothingToRemove'
  BY <1>5, <1>6 DEF FileInv, DroppedAudioGone, StartsWithNothingToRemove
<1>12. QED
  BY <1>8, <1>9, <1>10, <1>11 DEF FileInv

LEMMA RetainStep ==
  ASSUME TypeInv, FileInv, NEW enabled \in BOOLEAN, Retain(enabled)
  PROVE  FileInv'
<1>1. used \in Nat /\ used' = used + 1 /\ pc["ui"] = "idle"
  BY HistoryAssumption DEF Retain, TypeInv
<1>2. Handed' = Handed \cup {used + 1} /\ used + 1 \notin Handed
  BY <1>1 DEF Handed
<1>3. /\ arg'["dictation"] = used + 1 /\ pc'["ui"] = pc["ui"]
      /\ files' \subseteq files \cup {used + 1} /\ files \subseteq files'
  BY DEF Retain, TypeInv, TypeOK, Threads
<1>4. UNCHANGED <<rows, todo, dropped, deleted>>
  BY DEF Retain, table
<1>5. NothingFromFuture' /\ AddIsFirst'
  BY <1>2, <1>3, <1>4 DEF FileInv, NothingFromFuture, AddIsFirst
<1>6. RemovesWhatNoRowKeeps' /\ (Keeping \subseteq files)'
  BY <1>3, <1>4 DEF FileInv, RemovesWhatNoRowKeeps, Keeping
<1>7. DroppedAudioGone' /\ StartsWithNothingToRemove' /\ DeletedAreGone'
  <2>1. dropped \cap files' = dropped \cap files
    BY <1>2, <1>3 DEF FileInv, NothingFromFuture
  <2>2. QED
    BY <1>3, <1>4, <2>1 DEF FileInv, DroppedAudioGone, StartsWithNothingToRemove, DeletedAreGone
<1>8. QED
  BY <1>5, <1>6, <1>7 DEF FileInv

\* The steps that take files away.
LEMMA DeleteAudioStep ==
  ASSUME TypeInv, FileInv, NEW t \in Threads, DeleteAudio(t)
  PROVE  FileInv'
<1>1. PICK f \in todo[t] : files' = files \ {f} /\ todo' = [todo EXCEPT ![t] = @ \ {f}]
  BY DEF DeleteAudio
<1>2. UNCHANGED <<rows, pc, arg, used, dropped, deleted>>
  BY DEF DeleteAudio, table, world
<1>3. \A u \in Threads : todo'[u] \subseteq todo[u] /\ todo[u] \subseteq todo'[u] \cup {f}
  BY <1>1 DEF TypeInv, TypeOK
<1>4. f \notin Keeping
  BY <1>1 DEF FileInv, RemovesWhatNoRowKeeps
<1>5. NothingFromFuture' /\ AddIsFirst' /\ DeletedAreGone'
  BY <1>1, <1>2, <1>3
     DEF FileInv, NothingFromFuture, AddIsFirst, DeletedAreGone, Handed
<1>6. RemovesWhatNoRowKeeps' /\ (Keeping \subseteq files)'
  BY <1>1, <1>2, <1>3, <1>4 DEF FileInv, RemovesWhatNoRowKeeps, Keeping
<1>7. DroppedAudioGone'
  BY <1>1, <1>2, <1>3 DEF FileInv, DroppedAudioGone
<1>8. StartsWithNothingToRemove'
  BY <1>2, <1>3 DEF FileInv, StartsWithNothingToRemove, Threads
<1>9. QED
  BY <1>5, <1>6, <1>7, <1>8 DEF FileInv

LEMMA AddFailedStep ==
  ASSUME TypeInv, FileInv, AddFailed
  PROVE  FileInv'
<1>1. /\ arg["dictation"] \notin DOMAIN rows /\ files' = files \ {arg["dictation"]}
      /\ UNCHANGED <<rows, todo, used, dropped, deleted>>
  BY DEF AddFailed, FileInv, AddIsFirst, table, world
<1>2. pc'["dictation"] = "idle" /\ pc'["ui"] = pc["ui"]
  BY DEF AddFailed, Goto, TypeInv, Threads
<1>3. NothingFromFuture' /\ AddIsFirst' /\ DeletedAreGone' /\ StartsWithNothingToRemove'
  BY <1>1, <1>2
     DEF FileInv, NothingFromFuture, AddIsFirst, DeletedAreGone, Handed, StartsWithNothingToRemove
<1>4. RemovesWhatNoRowKeeps' /\ (Keeping \subseteq files)'
  BY <1>1 DEF FileInv, RemovesWhatNoRowKeeps, Keeping
<1>5. DroppedAudioGone'
  BY <1>1 DEF FileInv, DroppedAudioGone
<1>6. QED
  BY <1>3, <1>4, <1>5 DEF FileInv

LEMMA PruneAudioStep ==
  ASSUME TypeInv, FileInv, PruneAudio
  PROVE  FileInv'
<1> DEFINE expired == {id \in DOMAIN rows : rows[id].audio # None /\ rows[id].expires <= day}
           out == AudioOf(expired)
<1>1. /\ todo["ui"] = {}
      /\ todo' = [todo EXCEPT !["ui"] = out] /\ dropped' = dropped \cup out
      /\ UNCHANGED <<files, deleted, used>>
  BY DEF PruneAudio, world
<1>2. pc'["ui"] = "idle" /\ pc'["dictation"] = pc["dictation"] /\ arg'["dictation"] = arg["dictation"]
  BY DEF PruneAudio, Goto, TypeInv, TypeOK, Threads
<1>3. out \subseteq expired /\ expired \subseteq DOMAIN rows
  BY DEF AudioOf, TypeInv, IsTable
<1>4. DOMAIN rows' = DOMAIN rows /\ Keeping' = Keeping \ expired
  <2>1. rows' = [id \in DOMAIN rows |->
                   IF id \in expired THEN [rows[id] EXCEPT !.audio = None] ELSE rows[id]]
    BY DEF PruneAudio, Store
  <2>2. \A id \in DOMAIN rows : rows[id] \in Rows
    BY DEF TypeInv, IsTable
  <2> HIDE DEF expired
  <2>3. DOMAIN rows' = DOMAIN rows
    BY <2>1
  <2>4. \A id \in DOMAIN rows :
          rows'[id].audio = IF id \in expired THEN None ELSE rows[id].audio
    BY <2>1, <2>2 DEF Rows
  <2>5. QED
    BY <2>3, <2>4 DEF Keeping
<1> HIDE DEF out, expired
<1>5. \A u \in Threads : todo'[u] = IF u = "ui" THEN out ELSE todo[u]
  BY <1>1 DEF TypeInv, TypeOK
<1>6. NothingFromFuture'
  BY <1>1, <1>3, <1>4, <1>5 DEF FileInv, NothingFromFuture, Handed
<1>7. AddIsFirst'
  BY <1>1, <1>2, <1>3, <1>4, <1>5 DEF FileInv, AddIsFirst, Handed
<1>8. RemovesWhatNoRowKeeps' /\ (Keeping \subseteq files)'
  BY <1>1, <1>3, <1>4, <1>5 DEF FileInv, RemovesWhatNoRowKeeps
<1>9. DroppedAudioGone'
  <2>1. SUFFICES ASSUME NEW f \in dropped', f \in files
                 PROVE  \E u \in Threads : f \in todo'[u]
    BY <1>1 DEF DroppedAudioGone
  <2>2. CASE f \in out
    BY <1>5, <2>2 DEF Threads
  <2>3. CASE f \in dropped
    <3>1. PICK u \in Threads : f \in todo[u]
      BY <2>1, <2>3 DEF FileInv, DroppedAudioGone
    <3>2. QED
      BY <1>1, <1>5, <3>1
  <2>4. QED
    BY <1>1, <2>1, <2>2, <2>3
<1>10. DeletedAreGone' /\ StartsWithNothingToRemove'
  BY <1>1, <1>2, <1>4 DEF FileInv, DeletedAreGone, StartsWithNothingToRemove, Early
<1>11. QED
  BY <1>6, <1>7, <1>8, <1>9, <1>10 DEF FileInv

LEMMA DieStep ==
  ASSUME TypeInv, FileInv, Die
  PROVE  FileInv'
<1>1. /\ UNCHANGED <<rows, files, used, deleted>> /\ dropped' = {}
      /\ todo' = [t \in Threads |-> {}]
      /\ pc'["dictation"] = "idle"
  BY DEF Die, table, Threads
<1>2. NothingFromFuture' /\ AddIsFirst' /\ DeletedAreGone'
  BY <1>1 DEF FileInv, NothingFromFuture, AddIsFirst, DeletedAreGone, Handed
<1>3. RemovesWhatNoRowKeeps' /\ (Keeping \subseteq files)' /\ DroppedAudioGone'
  BY <1>1 DEF FileInv, RemovesWhatNoRowKeeps, Keeping, DroppedAudioGone
<1>4. StartsWithNothingToRemove'
  BY <1>1 DEF StartsWithNothingToRemove, Threads
<1>5. QED
  BY <1>2, <1>3, <1>4 DEF FileInv

\* What a step on the way of a thread does to the places that matter here.
LEMMA GotoPlaces ==
  ASSUME TypeInv, NEW t \in Threads, NEW step, Goto(t, step)
  PROVE  /\ t = "dictation" /\ step # "add" => AddUnlessLeft
         /\ t # "dictation" => AddUnlessLeft
         /\ t # "ui" => pc'["ui"] = pc["ui"]
         /\ t = "ui" => pc'["ui"] = step
<1>1. /\ pc' = [pc EXCEPT ![t] = step] /\ pc \in [Threads -> Places]
      /\ arg \in [Threads -> Ids \cup {None}]
      /\ arg' = IF step = "idle" THEN [arg EXCEPT ![t] = None] ELSE arg
  BY DEF Goto, TypeInv, TypeOK
<1>2. \A u \in Threads : u # t => arg'[u] = arg[u]
  BY <1>1
<1>3. QED
  BY <1>1, <1>2 DEF AddUnlessLeft, Threads

LEMMA StepFiles == TypeInv /\ FileInv /\ [Next]_vars => FileInv'
<1> SUFFICES ASSUME TypeInv, FileInv, [Next]_vars PROVE FileInv'
  OBVIOUS
<1>a. "ui" \in Threads /\ "dictation" \in Threads /\ "retry" \in Threads /\ "reclean" \in Threads
  BY DEF Threads
<1>b. ASSUME rows' = rows PROVE DOMAIN rows' \subseteq DOMAIN rows /\ Keeping' \subseteq Keeping
  BY <1>b DEF Keeping
\* The steps that only move a thread.
<1>c. ASSUME rows' = rows, UNCHANGED <<files, todo, dropped, deleted, used>>, AddUnlessLeft,
             pc'["ui"] \in Early => pc["ui"] \in Early \/ todo["ui"] = {}
      PROVE  FileInv'
  BY <1>b, <1>c, QuietStep
<1>1. ASSUME Startup PROVE FileInv'
  <2>1. CASE Quarantine
    <3>1. /\ DOMAIN rows' = {} /\ UNCHANGED <<files, todo, dropped, deleted, used, pc, arg>>
      <4>1. rows' = Without(rows, DOMAIN rows)
        BY <2>1 DEF Quarantine
      <4>2. DOMAIN rows' = {}
        BY <4>1 DEF Without
      <4>3. QED
        BY <2>1, <4>2 DEF Quarantine, threads, world
    <3>2. Keeping' = {}
      BY <3>1 DEF Keeping
    <3>3. QED
      BY <3>1, <3>2, QuietStep DEF AddUnlessLeft
  <2>2. CASE CreateTable
    <3>1. DOMAIN rows' = DOMAIN rows /\ \A id \in DOMAIN rows : rows'[id].audio = rows[id].audio
      <4>1. rows' = [id \in DOMAIN rows |-> Backfilled(rows[id])]
        BY <2>2 DEF CreateTable
      <4>2. \A id \in DOMAIN rows : Backfilled(rows[id]).audio = rows[id].audio
        BY DEF Backfilled, TypeInv, IsTable, Rows
      <4>3. QED
        BY <4>1, <4>2
    <3>2. Keeping' = Keeping
      BY <3>1 DEF Keeping
    <3>3. UNCHANGED <<files, todo, dropped, deleted, used>> /\ pc["ui"] = "open"
          /\ Goto("ui", "triggers")
      BY <2>2 DEF CreateTable, world
    <3>4. AddUnlessLeft
      BY <1>a, <3>3, GotoPlaces
    <3>5. QED
      BY <3>1, <3>2, <3>3, <3>4, QuietStep DEF Early
  <2>3. CASE CreateTriggers \/ Rebuild
    <3>1. /\ rows' = rows /\ UNCHANGED <<files, todo, dropped, deleted, used>>
          /\ pc["ui"] \in Early /\ \E step : Goto("ui", step)
      BY <2>3 DEF CreateTriggers, Rebuild, world, Early
    <3>2. AddUnlessLeft
      BY <1>a, <3>1, GotoPlaces
    <3>3. QED
      BY <1>c, <3>1, <3>2
  <2>4. CASE Prune
    <3>1. todo["ui"] = {}
      BY <2>4 DEF Prune, Locked, FileInv, StartsWithNothingToRemove, Early
    <3>2. QED
      BY <2>4, <3>1, RemoveStep DEF Prune, Older
  <2>5. CASE PruneAudio
    BY <2>5, PruneAudioStep
  <2>6. QED
    BY <1>1, <2>1, <2>2, <2>3, <2>4, <2>5 DEF Startup
<1>2. ASSUME UiStep PROVE FileInv'
  <2>1. ASSUME NEW id \in Ids, Delete(id) PROVE FileInv'
    <3>1. {id} \in SUBSET DOMAIN rows /\ todo["ui"] = {} /\ Remove("ui", {id}, "idle")
      BY <2>1 DEF Delete, UiReady
    <3>2. QED
      BY <3>1, RemoveStep
  <2>2. CASE Clear
    BY <2>2, RemoveStep DEF Clear, UiReady
  <2>3. ASSUME NEW days \in Retentions, SaveSettings(days) PROVE FileInv'
    <3>1. Older(rows, days) \in SUBSET DOMAIN rows
      BY DEF Older
    <3>2. todo["ui"] = {} /\ Remove("ui", Older(rows, days), "idle")
      BY <2>3 DEF SaveSettings, UiReady
    <3>3. QED
      BY <3>1, <3>2, RemoveStep
  <2>4. ASSUME NEW t \in Threads, NEW id \in Ids, StartWorker(t, id) PROVE FileInv'
    <3>1. pc'["ui"] = pc["ui"] /\ AddUnlessLeft
      BY <2>4 DEF StartWorker, TypeInv, TypeOK, Threads, AddUnlessLeft
    <3>2. rows' = rows /\ UNCHANGED <<files, todo, dropped, deleted, used>>
      BY <2>4 DEF StartWorker, table, world
    <3>3. QED
      BY <1>c, <3>1, <3>2
  <2>5. CASE Close
    BY <1>c, <2>5 DEF Close, table, threads, world, AddUnlessLeft
  <2>6. QED
    BY <1>2, <2>1, <2>2, <2>3, <2>4, <2>5 DEF UiStep
<1>3. ASSUME DictationStep PROVE FileInv'
  <2>1. ASSUME NEW enabled \in BOOLEAN, Retain(enabled) PROVE FileInv'
    BY <2>1, RetainStep
  <2>2. CASE AddDictation
    BY <2>2, AddStep
  <2>3. CASE AddFailed
    BY <2>3, AddFailedStep
  <2>4. CASE TakeBack
    <3> DEFINE ids == {arg["dictation"]} \cap DOMAIN rows
    <3>1. todo["dictation"] = {} /\ Remove("dictation", ids, "idle")
      BY <2>4 DEF TakeBack
    <3>2. QED
      BY <3>1, RemoveStep
  <2>5. ASSUME NEW outcome \in Outcomes, UpdateDelivery(outcome) PROVE FileInv'
    <3> DEFINE id == arg["dictation"]
               row == [rows[id] EXCEPT !.method = outcome[1], !.inserted = outcome[2],
                                       !.copied = outcome[3]]
    <3>1. id \in DOMAIN rows /\ \A i \in DOMAIN rows : rows[i] \in Rows
      BY <2>5 DEF UpdateDelivery, TypeInv, IsTable
    <3>2. rows' = [rows EXCEPT ![id] = row]
      <4>1. rows' = [rows EXCEPT ![id].method = outcome[1], ![id].inserted = outcome[2],
                                 ![id].copied = outcome[3]]
        BY <2>5 DEF UpdateDelivery, Store
      <4>2. QED
        BY <3>1, <4>1 DEF Rows
    <3>3. row.audio = rows[id].audio
      BY <3>1 DEF Rows
    <3>4. DOMAIN rows' = DOMAIN rows /\ Keeping' = Keeping
      BY <3>1, <3>2, <3>3 DEF Keeping
    <3>5. UNCHANGED <<files, todo, dropped, deleted, used>> /\ Goto("dictation", "idle")
      BY <2>5 DEF UpdateDelivery, world
    <3>6. AddUnlessLeft /\ pc'["ui"] = pc["ui"]
      BY <1>a, <3>5, GotoPlaces
    <3>7. QED
      BY <3>4, <3>5, <3>6, QuietStep
  <2>6. QED
    BY <1>3, <2>1, <2>2, <2>3, <2>4, <2>5 DEF DictationStep
<1>4. ASSUME WorkerStep PROVE FileInv'
  <2>1. CASE RetryGet \/ RetryTranscribe \/ RecleanGet
    <3>1. /\ rows' = rows /\ UNCHANGED <<files, todo, dropped, deleted, used>>
          /\ \E t \in {"retry", "reclean"} : \E step : Goto(t, step)
      BY <2>1 DEF RetryGet, RetryTranscribe, RecleanGet, table, world
    <3>2. AddUnlessLeft /\ pc'["ui"] = pc["ui"]
      BY <1>a, <3>1, GotoPlaces
    <3>3. QED
      BY <1>c, <3>1, <3>2
  <2>2. ASSUME NEW outcome \in Outcomes, RetryAdd(outcome) PROVE FileInv'
    BY <2>2, RetryStep
  <2>3. CASE RecleanUpdate
    <3>1. DOMAIN rows' = DOMAIN rows /\ \A id \in DOMAIN rows : rows'[id].audio = rows[id].audio
      <4>1. rows' = UpdateFinalText(rows, arg["reclean"])
        BY <2>3 DEF RecleanUpdate, Store
      <4>2. QED
        BY <4>1 DEF UpdateFinalText, TypeInv, IsTable, Rows
    <3>2. Keeping' = Keeping
      BY <3>1 DEF Keeping
    <3>3. UNCHANGED <<files, todo, dropped, deleted, used>> /\ Goto("reclean", "idle")
      BY <2>3 DEF RecleanUpdate, world
    <3>4. AddUnlessLeft /\ pc'["ui"] = pc["ui"]
      BY <1>a, <3>3, GotoPlaces
    <3>5. QED
      BY <3>1, <3>2, <3>3, <3>4, QuietStep
  <2>4. QED
    BY <1>4, <2>1, <2>2, <2>3 DEF WorkerStep
<1>5. ASSUME NEW t \in Threads, DeleteAudio(t) \/ Fail(t) PROVE FileInv'
  <2>1. CASE DeleteAudio(t)
    BY <2>1, DeleteAudioStep
  <2>2. CASE Fail(t)
    <3>1. /\ rows' = rows /\ UNCHANGED <<files, todo, dropped, deleted, used>>
          /\ t # "ui" /\ Goto(t, "idle")
      BY <2>2 DEF Fail, table, world
    <3>2. AddUnlessLeft /\ pc'["ui"] = pc["ui"]
      BY <3>1, GotoPlaces
    <3>3. QED
      BY <1>c, <3>1, <3>2
  <2>3. QED
    BY <1>5, <2>1, <2>2
<1>6. ASSUME Die \/ Restart \/ Tick PROVE FileInv'
  <2>1. CASE Restart
    <3>1. /\ rows' = rows /\ UNCHANGED <<files, todo, dropped, deleted, used>>
          /\ pc["ui"] \in Early /\ Goto("ui", "open")
      BY <2>1 DEF Restart, table, world, Early
    <3>2. AddUnlessLeft
      BY <1>a, <3>1, GotoPlaces
    <3>3. QED
      BY <1>c, <3>1, <3>2
  <2>2. CASE Tick
    BY <1>c, <2>2 DEF Tick, table, threads, AddUnlessLeft
  <2>3. QED
    BY <1>6, <2>1, <2>2, DieStep
<1>7. ASSUME UNCHANGED vars PROVE FileInv'
  BY <1>c, <1>7 DEF vars, table, threads, world, AddUnlessLeft
<1>8. QED
  BY <1>1, <1>2, <1>3, <1>4, <1>5, <1>6, <1>7 DEF Next

LEMMA InitFiles == Init => FileInv
<1> SUFFICES ASSUME Init PROVE FileInv
  OBVIOUS
<1>1. /\ files = {} /\ dropped = {} /\ deleted = {} /\ todo = [t \in Threads |-> {}]
      /\ pc["dictation"] = "idle"
  BY DEF Init, Threads
<1>2. DOMAIN rows \subseteq 1..used /\ Keeping = {}
  <2>1. CASE used = 1
    <3>1. rows = OldTable
      BY <2>1 DEF Init
    <3>2. DOMAIN rows = {1} /\ rows[1].audio = None
      BY <3>1 DEF OldTable, NewRow
    <3>3. QED
      BY <2>1, <3>2 DEF Keeping
  <2>2. CASE used # 1
    <3>1. DOMAIN rows = {}
      BY <2>2 DEF Init
    <3>2. QED
      BY <3>1 DEF Keeping
  <2>3. QED
    BY <2>1, <2>2
<1>3. QED
  BY <1>1, <1>2 DEF FileInv, NothingFromFuture, AddIsFirst, RemovesWhatNoRowKeeps, Handed,
     DroppedAudioGone, DeletedAreGone, StartsWithNothingToRemove, Threads

LEMMA FileInvHolds == Spec => []FileInv
BY InitFiles, StepFiles, TypeInvHolds, PTL DEF Spec

\* RowHasFile: no deletion, expiry, failure or crash, of whichever thread, takes
\* a recording away from a row that offers it.
THEOREM RowsHaveTheirFiles == Spec => []RowHasFile
<1>1. TypeInv /\ FileInv => RowHasFile
  BY KeepingIsOwn DEF FileInv
<1>2. QED
  BY <1>1, TypeInvHolds, FileInvHolds, PTL

\* DroppedAudioGone: what was deleted is deleted from the disk too.
THEOREM DroppedAudioGoes == Spec => []DroppedAudioGone
<1>1. FileInv => DroppedAudioGone
  BY DEF FileInv
<1>2. QED
  BY <1>1, FileInvHolds, PTL

\* DeletedStaysDeleted: no retry, re-clean or late dictation stores a row again.
THEOREM DeletedRowsStayDeleted == Spec => DeletedStaysDeleted
<1>1. FileInv /\ FileInv' /\ [Next]_vars => [deleted \cap DOMAIN rows' = {}]_vars
  <2> SUFFICES ASSUME FileInv', [Next]_vars PROVE deleted \cap DOMAIN rows' = {}
    OBVIOUS
  <2>1. deleted \subseteq deleted'
    <3>1. ASSUME NEW t, NEW ids, NEW next, Remove(t, ids, next) PROVE deleted \subseteq deleted'
      BY <3>1 DEF Remove
    <3>2. ASSUME Startup \/ UiStep PROVE deleted \subseteq deleted'
      BY <3>1, <3>2 DEF Startup, UiStep, Quarantine, CreateTable, CreateTriggers, Rebuild, Prune,
         PruneAudio, Delete, Clear, SaveSettings, StartWorker, Close
    <3>3. ASSUME DictationStep \/ WorkerStep PROVE deleted \subseteq deleted'
      BY <3>1, <3>3 DEF DictationStep, WorkerStep, Retain, AddDictation, AddFailed, TakeBack,
         UpdateDelivery, RetryGet, RetryTranscribe, RetryAdd, RecleanGet, RecleanUpdate
    <3>4. QED
      BY <3>2, <3>3 DEF Next, vars, DeleteAudio, Fail, Die, Restart, Tick
  <2>2. QED
    BY <2>1 DEF FileInv, DeletedAreGone
<1>2. QED
  BY <1>1, FileInvHolds, PTL DEF Spec, DeletedStaysDeleted

-----------------------------------------------------------------------------
(***************************************************************************)
(* The search index                                                        *)
(***************************************************************************)
Ready == pc["ui"] \in {"prune", "prune audio", "idle"}

\* The other threads begin after start-up and die with the window.
OthersWait == \A t \in Threads \ {"ui"} : pc[t] # "idle" => pc["ui"] = "idle"

TriggersFollow == Ready \/ pc["ui"] = "rebuild" => (triggers <=> fts)
IndexFollows == Ready /\ fts => index = Contents(rows)

SearchInv == OthersWait /\ TriggersFollow /\ IndexFollows

\* With its triggers an index that mirrors the table goes on mirroring it.
LEMMA IndexedIsContents ==
  ASSUME triggers, index = Contents(rows), NEW table_
  PROVE  Indexed(table_) = Contents(table_)
<1> DEFINE changed == {id \in DOMAIN rows :
                         \/ id \notin DOMAIN table_
                         \/ table_[id].text # rows[id].text}
           new == {id \in DOMAIN table_ : id \notin DOMAIN rows} \cup (changed \cap DOMAIN table_)
           stay == {entry \in index : entry[1] \notin changed}
           come == {<<id, table_[id].text>> : id \in new}
<1>1. Indexed(table_) = stay \cup come
  BY DEF Indexed
<1>2. \A entry \in stay : entry \in Contents(table_)
  <2>1. SUFFICES ASSUME NEW id \in DOMAIN rows, id \notin changed
                 PROVE  <<id, rows[id].text>> \in Contents(table_)
    BY DEF Contents
  <2>2. id \in DOMAIN table_ /\ table_[id].text = rows[id].text
    BY <2>1
  <2>3. QED
    BY <2>2 DEF Contents
<1>3. come \subseteq Contents(table_)
  BY DEF Contents
<1>4. ASSUME NEW id \in DOMAIN table_ PROVE <<id, table_[id].text>> \in stay \cup come
  <2>1. CASE id \in new
    BY <2>1
  <2>2. CASE id \notin new
    <3>1. id \in DOMAIN rows /\ id \notin changed /\ table_[id].text = rows[id].text
      BY <1>4, <2>2
    <3>2. <<id, rows[id].text>> \in index
      BY <3>1 DEF Contents
    <3>3. QED
      BY <3>1, <3>2
  <2>3. QED
    BY <2>1, <2>2
<1>5. QED
  BY <1>1, <1>2, <1>3, <1>4 DEF Contents

\* A transaction of a thread that may run.
LEMMA StoreStep ==
  ASSUME SearchInv, NEW table_, Store(table_), Ready, Ready', fts' = fts, triggers' = triggers,
         OthersWait'
  PROVE  SearchInv'
<1>1. TriggersFollow'
  BY DEF SearchInv, TriggersFollow
<1>2. IndexFollows'
  <2>1. CASE fts
    <3>1. triggers /\ index = Contents(rows)
      BY <2>1 DEF SearchInv, TriggersFollow, IndexFollows
    <3>2. rows' = table_ /\ index' = Contents(table_)
      BY <3>1, IndexedIsContents DEF Store
    <3>3. Contents(rows)' = Contents(table_)
      BY <3>2 DEF Contents
    <3>4. QED
      BY <3>2, <3>3 DEF IndexFollows
  <2>2. CASE ~fts
    BY <2>2 DEF IndexFollows
  <2>3. QED
    BY <2>1, <2>2
<1>3. QED
  BY <1>1, <1>2 DEF SearchInv

\* A step that leaves the table and the index alone.
LEMMA SameTable ==
  ASSUME SearchInv, rows' = rows, index' = index, triggers' = triggers, fts' = fts, OthersWait',
         Ready' => Ready, pc'["ui"] = "rebuild" => pc["ui"] = "rebuild"
  PROVE  SearchInv'
<1>1. TriggersFollow'
  BY DEF SearchInv, TriggersFollow
<1>2. IndexFollows'
  BY DEF SearchInv, IndexFollows, Contents
<1>3. QED
  BY <1>1, <1>2 DEF SearchInv

\* A thread other than the window moves on, and the window between its calls.
LEMMA OthersStep ==
  ASSUME TypeInv, SearchInv, NEW t \in Threads, NEW step, Goto(t, step),
         \/ t # "ui" /\ pc[t] # "idle"
         \/ t = "ui" /\ (Ready => step \in {"prune audio", "idle"})
              /\ (pc["ui"] = "idle" => step = "idle")
  PROVE  /\ OthersWait'
         /\ t # "ui" => pc["ui"] = "idle" /\ pc'["ui"] = "idle"
         /\ t = "ui" => pc'["ui"] = step
<1>1. pc' = [pc EXCEPT ![t] = step] /\ pc \in [Threads -> Places]
  BY DEF Goto, TypeInv
<1>2. QED
  BY <1>1 DEF SearchInv, OthersWait, Threads

LEMMA RemoveSearch ==
  ASSUME TypeInv, SearchInv, NEW t \in Threads, NEW ids, NEW next, Remove(t, ids, next),
         \/ t # "ui" /\ pc[t] # "idle"
         \/ t = "ui" /\ Ready /\ next \in {"prune audio", "idle"} /\ (pc["ui"] = "idle" => next = "idle")
  PROVE  SearchInv'
<1>1. Store(Without(rows, ids)) /\ Goto(t, next)
  BY DEF Remove
<1>2. fts' = fts /\ triggers' = triggers
  BY DEF Remove
<1>3. Ready /\ Ready' /\ OthersWait'
  BY <1>1, OthersStep DEF Ready
<1>4. QED
  BY <1>1, <1>2, <1>3, StoreStep

LEMMA StepSearch == TypeInv /\ SearchInv /\ [Next]_vars => SearchInv'
<1> SUFFICES ASSUME TypeInv, SearchInv, [Next]_vars PROVE SearchInv'
  OBVIOUS
<1>a. "ui" \in Threads /\ "dictation" \in Threads /\ "retry" \in Threads /\ "reclean" \in Threads
  BY DEF Threads
<1>1. ASSUME Startup PROVE SearchInv'
  <2>1. CASE Quarantine
    <3>1. pc' = pc /\ pc["ui"] = "open"
      BY <2>1 DEF Quarantine, threads
    <3>2. QED
      BY <3>1 DEF SearchInv, OthersWait, TriggersFollow, IndexFollows, Ready
  <2>2. CASE CreateTable
    <3>1. Goto("ui", "triggers") /\ pc["ui"] = "open"
      BY <2>2 DEF CreateTable
    <3>2. OthersWait' /\ pc'["ui"] = "triggers"
      BY <1>a, <3>1, OthersStep DEF Ready
    <3>3. QED
      BY <3>2 DEF SearchInv, TriggersFollow, IndexFollows, Ready
  <2>3. CASE CreateTriggers
    <3>1. Goto("ui", "rebuild") /\ pc["ui"] = "triggers"
      BY <2>3 DEF CreateTriggers
    <3>2. OthersWait' /\ pc'["ui"] = "rebuild"
      BY <1>a, <3>1, OthersStep DEF Ready
    <3>3. triggers' <=> fts'
      BY <2>3 DEF CreateTriggers
    <3>4. QED
      BY <3>2, <3>3 DEF SearchInv, TriggersFollow, IndexFollows, Ready
  <2>4. CASE Rebuild
    <3>1. Goto("ui", "prune") /\ pc["ui"] = "rebuild"
      BY <2>4 DEF Rebuild
    <3>2. OthersWait' /\ pc'["ui"] = "prune"
      BY <1>a, <3>1, OthersStep DEF Ready
    <3>3. triggers' = triggers /\ fts' = fts
      BY <2>4 DEF Rebuild
    <3>4. TriggersFollow'
      BY <3>1, <3>3 DEF SearchInv, TriggersFollow
    <3>5. rows' = rows /\ (fts => index' = Contents(rows))
      BY <2>4 DEF Rebuild
    <3>6. IndexFollows'
      BY <3>3, <3>5 DEF IndexFollows, Contents
    <3>7. QED
      BY <3>2, <3>4, <3>6 DEF SearchInv
  <2>5. CASE Prune
    BY <1>a, <2>5, RemoveSearch DEF Prune, Locked, Ready
  <2>6. CASE PruneAudio
    <3>1. Goto("ui", "idle") /\ Ready
      BY <2>6 DEF PruneAudio, Locked, Ready
    <3>2. OthersWait' /\ Ready'
      BY <1>a, <3>1, OthersStep DEF Ready
    <3>3. triggers' = triggers /\ fts' = fts
      BY <2>6 DEF PruneAudio
    <3>4. \E table_ : Store(table_)
      BY <2>6 DEF PruneAudio
    <3>5. QED
      BY <3>1, <3>2, <3>3, <3>4, StoreStep
  <2>7. QED
    BY <1>1, <2>1, <2>2, <2>3, <2>4, <2>5, <2>6 DEF Startup
<1>2. ASSUME UiStep PROVE SearchInv'
  <2>1. ASSUME NEW id \in Ids, Delete(id) PROVE SearchInv'
    BY <1>a, <2>1, RemoveSearch DEF Delete, UiReady, Locked, Ready
  <2>2. CASE Clear
    BY <1>a, <2>2, RemoveSearch DEF Clear, UiReady, Locked, Ready
  <2>3. ASSUME NEW days \in Retentions, SaveSettings(days) PROVE SearchInv'
    BY <1>a, <2>3, RemoveSearch DEF SaveSettings, UiReady, Locked, Ready
  <2>4. ASSUME NEW t \in Threads, NEW id \in Ids, StartWorker(t, id) PROVE SearchInv'
    <3>1. pc["ui"] = "idle" /\ pc'["ui"] = "idle"
      BY <2>4 DEF StartWorker, UiReady, Locked, TypeInv, Threads
    <3>2. rows' = rows /\ index' = index
      BY <2>4 DEF StartWorker, table
    <3>3. triggers' = triggers /\ fts' = fts
      BY <2>4 DEF StartWorker, table
    <3>4. QED
      BY <3>1, <3>2, <3>3, SameTable DEF OthersWait, Ready
  <2>5. CASE Close
    <3>1. rows' = rows /\ index' = index /\ pc' = pc
      BY <2>5 DEF Close, table, threads
    <3>2. triggers' = triggers /\ fts' = fts
      BY <2>5 DEF Close, table
    <3>3. QED
      BY <3>1, <3>2, SameTable DEF SearchInv, OthersWait, Ready
  <2>6. QED
    BY <1>2, <2>1, <2>2, <2>3, <2>4, <2>5 DEF UiStep
\* The steps of a thread at work, which the window does not disturb.
<1>3. ASSUME NEW t \in Threads \ {"ui"}, NEW step, Goto(t, step), pc[t] # "idle",
             fts' = fts, triggers' = triggers,
             (rows' = rows /\ index' = index) \/ \E table_ : Store(table_)
      PROVE  SearchInv'
  <2>1. OthersWait' /\ pc["ui"] = "idle" /\ pc'["ui"] = "idle"
    BY <1>3, OthersStep
  <2>2. CASE rows' = rows /\ index' = index
    BY <1>3, <2>1, <2>2, SameTable DEF Ready
  <2>3. CASE \E table_ : Store(table_)
    BY <1>3, <2>1, <2>3, StoreStep DEF Ready
  <2>4. QED
    BY <1>3, <2>2, <2>3
<1>4. ASSUME DictationStep PROVE SearchInv'
  <2>1. ASSUME NEW enabled \in BOOLEAN, Retain(enabled) PROVE SearchInv'
    <3>1. pc["ui"] = "idle" /\ pc'["ui"] = "idle"
      BY <2>1 DEF Retain, TypeInv, Threads
    <3>2. rows' = rows /\ index' = index
      BY <2>1 DEF Retain, table
    <3>3. triggers' = triggers /\ fts' = fts
      BY <2>1 DEF Retain, table
    <3>4. QED
      BY <3>1, <3>2, <3>3, SameTable DEF OthersWait, Ready
  <2>2. CASE AddDictation \/ \E outcome \in Outcomes : UpdateDelivery(outcome)
    <3>1. pc["dictation"] # "idle" /\ \E step : Goto("dictation", step)
      BY <2>2 DEF AddDictation, UpdateDelivery, Locked
    <3>2. fts' = fts /\ triggers' = triggers
      BY <2>2 DEF AddDictation, UpdateDelivery
    <3>3. \E table_ : Store(table_)
      BY <2>2 DEF AddDictation, UpdateDelivery
    <3>4. QED
      BY <1>a, <1>3, <3>1, <3>2, <3>3
  <2>3. CASE AddFailed
    <3>1. pc["dictation"] # "idle" /\ Goto("dictation", "idle")
      BY <2>3 DEF AddFailed
    <3>2. fts' = fts /\ triggers' = triggers
      BY <2>3 DEF AddFailed, table
    <3>3. rows' = rows /\ index' = index
      BY <2>3 DEF AddFailed, table
    <3>4. QED
      BY <1>a, <1>3, <3>1, <3>2, <3>3
  <2>4. CASE TakeBack
    BY <1>a, <2>4, RemoveSearch DEF TakeBack, Locked
  <2>5. QED
    BY <1>4, <2>1, <2>2, <2>3, <2>4 DEF DictationStep
<1>5. ASSUME WorkerStep PROVE SearchInv'
  <2>1. CASE RetryGet \/ RetryTranscribe \/ RecleanGet
    <3>1. \E t \in Threads \ {"ui"} : pc[t] # "idle" /\ \E step : Goto(t, step)
      BY <1>a, <2>1 DEF RetryGet, RetryTranscribe, RecleanGet, Locked
    <3>2. fts' = fts /\ triggers' = triggers
      BY <2>1 DEF RetryGet, RetryTranscribe, RecleanGet, table
    <3>3. rows' = rows /\ index' = index
      BY <2>1 DEF RetryGet, RetryTranscribe, RecleanGet, table
    <3>4. QED
      BY <1>3, <3>1, <3>2, <3>3
  <2>2. CASE RecleanUpdate \/ \E outcome \in Outcomes : RetryAdd(outcome)
    <3>1. \E t \in Threads \ {"ui"} : pc[t] # "idle" /\ \E step : Goto(t, step)
      BY <1>a, <2>2 DEF RecleanUpdate, RetryAdd, Locked
    <3>2. fts' = fts /\ triggers' = triggers
      BY <2>2 DEF RecleanUpdate, RetryAdd
    <3>3. \E table_ : Store(table_)
      BY <2>2 DEF RecleanUpdate, RetryAdd
    <3>4. QED
      BY <1>3, <3>1, <3>2, <3>3
  <2>3. QED
    BY <1>5, <2>1, <2>2 DEF WorkerStep
<1>6. ASSUME NEW t \in Threads, DeleteAudio(t) \/ Fail(t) PROVE SearchInv'
  <2>1. rows' = rows /\ index' = index
    BY <1>6 DEF DeleteAudio, Fail, table
  <2>2. fts' = fts /\ triggers' = triggers
    BY <1>6 DEF DeleteAudio, Fail, table
  <2>3. CASE DeleteAudio(t)
    <3>1. pc' = pc
      BY <2>3 DEF DeleteAudio
    <3>2. QED
      BY <2>1, <2>2, <3>1, SameTable DEF SearchInv, OthersWait, Ready
  <2>4. CASE Fail(t)
    <3>1. t # "ui" /\ pc[t] # "idle" /\ Goto(t, "idle")
      BY <2>4 DEF Fail
    <3>2. QED
      BY <1>3, <2>1, <2>2, <3>1
  <2>5. QED
    BY <1>6, <2>3, <2>4
<1>7. ASSUME Die \/ Restart \/ Tick PROVE SearchInv'
  <2>1. rows' = rows /\ index' = index
    BY <1>7 DEF Die, Restart, Tick, table
  <2>2. fts' = fts /\ triggers' = triggers
    BY <1>7 DEF Die, Restart, Tick, table
  <2>3. CASE Die
    <3>1. pc' = [t \in Threads |-> IF t = "ui" THEN "down" ELSE "idle"]
      BY <2>3 DEF Die
    <3>2. QED
      BY <2>1, <2>2, <3>1, SameTable DEF OthersWait, Ready, Threads
  <2>4. CASE Restart
    <3>1. pc["ui"] = "down" /\ Goto("ui", "open")
      BY <2>4 DEF Restart
    <3>2. OthersWait' /\ pc'["ui"] = "open"
      BY <1>a, <3>1, OthersStep DEF Ready
    <3>3. QED
      BY <2>1, <2>2, <3>2, SameTable DEF Ready
  <2>5. CASE Tick
    <3>1. pc' = pc
      BY <2>5 DEF Tick, threads
    <3>2. QED
      BY <2>1, <2>2, <3>1, SameTable DEF SearchInv, OthersWait, Ready
  <2>6. QED
    BY <1>7, <2>3, <2>4, <2>5
<1>8. ASSUME UNCHANGED vars PROVE SearchInv'
  <2>1. rows' = rows /\ index' = index /\ pc' = pc
    BY <1>8 DEF vars, table, threads
  <2>2. fts' = fts /\ triggers' = triggers
    BY <1>8 DEF vars, table
  <2>3. QED
    BY <2>1, <2>2, SameTable DEF SearchInv, OthersWait, Ready
<1>9. QED
  BY <1>1, <1>2, <1>4, <1>5, <1>6, <1>7, <1>8 DEF Next

\* SearchFindsTable: from the end of start-up on a search finds what is stored,
\* and nothing that was deleted or replaced.
THEOREM SearchesFindTable == Spec => []SearchFindsTable
<1>1. Init => SearchInv
  BY DEF Init, SearchInv, OthersWait, TriggersFollow, IndexFollows, Ready, Threads
<1>2. SearchInv => SearchFindsTable
  <2>1. SUFFICES ASSUME SearchInv, Ready, NEW text \in Texts
                 PROVE  Found(text) = {id \in DOMAIN rows : rows[id].text = text}
    BY DEF SearchFindsTable, Ready
  <2>2. CASE fts
    <3>1. Found(text) = {entry[1] : entry \in {e \in index : e[2] = text}}
      BY <2>2 DEF Found
    <3>2. index = Contents(rows)
      BY <2>1, <2>2 DEF SearchInv, IndexFollows
    <3>3. ASSUME NEW id \in DOMAIN rows, rows[id].text = text
          PROVE  id \in Found(text)
      <4>1. <<id, rows[id].text>> \in index
        BY <3>2, <3>3 DEF Contents
      <4>2. PICK e \in index : e = <<id, text>>
        BY <4>1, <3>3
      <4>3. QED
        BY <3>1, <4>2
    <3>4. ASSUME NEW e \in index, e[2] = text
          PROVE  e[1] \in DOMAIN rows /\ rows[e[1]].text = text
      <4>1. PICK id \in DOMAIN rows : e = <<id, rows[id].text>>
        BY <3>2, <3>4 DEF Contents
      <4>2. QED
        BY <4>1, <3>4
    <3>5. QED
      BY <3>1, <3>3, <3>4
  <2>3. CASE ~fts
    BY <2>3 DEF Found
  <2>4. QED
    BY <2>2, <2>3
<1>3. QED
  BY <1>1, <1>2, StepSearch, TypeInvHolds, PTL DEF Spec
=============================================================================
