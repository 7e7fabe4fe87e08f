----------------------------- MODULE ModelManager -----------------------------
(***************************************************************************)
(* The Faster-Whisper model cache (providers/model_manager.py) with the    *)
(* part of RuntimeController that selects, downloads, cancels and removes  *)
(* models.                                                                 *)
(*                                                                         *)
(* Calls run one at a time on the application thread.  One thread runs a   *)
(* download; it takes the manager's lock to report progress and to end the *)
(* job.  A removal holds that lock, and deletes file after file.  The      *)
(* process may end at any step: the directories stay, jobs and threads do  *)
(* not.                                                                    *)
(***************************************************************************)
EXTENDS Naturals, Sequences, SequencesExt

CONSTANTS
  Models,      \* the allowlisted catalogue
  Legacy,      \* a configured model that is not in it
  MaxJobs,     \* bound on the download jobs of one process
  MaxFaults,   \* bound on how often the process ends or a removal fails
  MaxSelects   \* bound on how often another model is selected

None == 0            \* no job
NoModel == "none"    \* no model

ASSUME LegacyIsUnknown == Legacy \notin Models /\ NoModel \notin Models \cup {Legacy}

Providers == {"faster-whisper", "cloud"}
ModelState == {"downloading", "installed", "cancelled", "error"}

VARIABLES
  weights,   \* the model's files on disk: "none", "part" or "whole"
  marker,    \* .openwhisper-complete is there
  jobs,      \* ModelManager._jobs in the order of their creation
  worker,    \* the job the download thread runs, or None
  pc,        \* where that thread is
  removing,  \* the model whose directory is being deleted, or NoModel
  selected,  \* AppConfig.transcription_model
  provider,  \* AppConfig.transcription_provider
  told,      \* what the last event, or the first list, said of each model
  faults, selects, \* bounds: how often each happened
  vetted,    \* history: save_settings accepted that model for Faster-Whisper
  cut        \* history: the models whose removal failed or was cut short by a crash

disk == <<weights, marker>>
thread == <<worker, pc>>
config == <<selected, provider, vetted, selects>>
vars == <<disk, jobs, thread, removing, config, told, faults, cut>>

Job(m, state) == [model |-> m, state |-> state, asked |-> FALSE, inTime |-> FALSE]
Indices == 1..Len(jobs)
Downloading == {j \in Indices : jobs[j].state = "downloading"}
IsInstalled(m) == marker[m]

(***************************************************************************)
(* What the cache says of a model: the first job it ever had, installed or *)
(* not.                                                                    *)
(***************************************************************************)
FirstJob(m) == SelectInSeq(jobs, LAMBDA job : job.model = m)
Status(m) ==
  LET j == FirstJob(m)
      state == IF j = None THEN "none" ELSE jobs[j].state
  IN CASE state = "downloading" -> state
       [] state \in {"error", "cancelled"} /\ ~IsInstalled(m) -> state
       [] OTHER -> IF IsInstalled(m) THEN "installed" ELSE "not_installed"

\* A configured model outside the catalogue can be asked for, but never is there.
StatusOf(m) == IF m \in Models THEN Status(m) ELSE "not_installed"

\* The list the host shows: the catalogue, and such a model at its end.
Listed == [m \in Models \cup {selected} |-> StatusOf(m)]

(***************************************************************************)
(* The events: a job announces its own state and, when it ends, that of    *)
(* the model; a removal announces what is left of the model.               *)
(***************************************************************************)
EmitJob(m, state) ==
  told' = [told EXCEPT ![m] = IF state = "downloading" THEN state ELSE Status(m)']
EmitChanged(m) == told' = [told EXCEPT ![m] = Status(m)']

Init ==
  /\ weights \in [Models -> {"none", "part"}]
  /\ marker = [m \in Models |-> FALSE]
  /\ jobs = <<>> /\ worker = None /\ pc = "idle"
  /\ removing = NoModel
  /\ selected \in Models \cup {Legacy} /\ provider \in Providers
  /\ told = [m \in Models |-> Listed[m]]
  /\ faults = 0 /\ selects = 0
  /\ vetted = FALSE /\ cut = {}

(***************************************************************************)
(* The application thread.                                                 *)
(***************************************************************************)
\* A running download is returned, or refuses another model; an installed
\* model needs none.
Download(m) ==
  /\ removing = NoModel /\ Len(jobs) < MaxJobs
  /\ Downloading = {}
  /\ IF IsInstalled(m)
     THEN jobs' = Append(jobs, Job(m, "installed")) /\ UNCHANGED <<thread, told>>
     ELSE /\ jobs' = Append(jobs, Job(m, "downloading"))
          /\ worker' = Len(jobs) + 1 /\ pc' = "create"
          /\ EmitJob(m, "downloading")
  /\ UNCHANGED <<disk, removing, config, faults, cut>>

\* Named by a job, or by a model and then its first job.
Cancel(j) ==
  /\ removing = NoModel
  /\ jobs[j].state = "downloading"
  /\ jobs' = [jobs EXCEPT ![j].asked = TRUE,
                          ![j].inTime = @ \/ pc \in {"create", "fetch", "report"}]
  /\ UNCHANGED <<disk, thread, removing, config, told, faults, cut>>
CancelNamed ==
  \/ \E j \in Indices : Cancel(j)
  \/ \E m \in Models : FirstJob(m) # None /\ Cancel(FirstJob(m))

\* Mutant: a model whose download runs may be removed.
RemoveAnyway(m) ==
  /\ removing = NoModel
  /\ selected # m
  /\ weights[m] # "none" \/ marker[m]
  /\ removing' = m
  /\ UNCHANGED <<disk, jobs, thread, config, told, faults, cut>>

\* Mutant: the selected model may be removed.
RemoveSelected(m) ==
  /\ removing = NoModel
  /\ \A j \in Downloading : jobs[j].model # m
  /\ weights[m] # "none" \/ marker[m]
  /\ removing' = m
  /\ UNCHANGED <<disk, jobs, thread, config, told, faults, cut>>

\* Neither the selected model nor one that is being downloaded.
RemoveModel(m) ==
  /\ removing = NoModel
  /\ selected # m
  /\ \A j \in Downloading : jobs[j].model # m
  /\ weights[m] # "none" \/ marker[m]
  /\ removing' = m
  /\ UNCHANGED <<disk, jobs, thread, config, told, faults, cut>>

\* shutil.rmtree takes the files in the order the directory lists them.
RemoveFile ==
  /\ removing # NoModel
  /\ \/ weights[removing] # "none" /\ UNCHANGED marker
        /\ weights' \in {[weights EXCEPT ![removing] = w] :
                           w \in {"part", "none"} \ {weights[removing]}}
     \/ marker[removing] /\ marker' = [marker EXCEPT ![removing] = FALSE]
        /\ UNCHANGED weights
  /\ UNCHANGED <<jobs, thread, removing, config, told, faults, cut>>

Removed ==
  /\ removing # NoModel
  /\ weights[removing] = "none" /\ ~marker[removing]
  /\ removing' = NoModel /\ cut' = cut \ {removing}
  /\ UNCHANGED <<disk, jobs>>
  /\ \E m \in Models : m = removing /\ EmitChanged(m)
  /\ UNCHANGED <<thread, config, faults>>

\* A file that cannot be deleted ends the removal, and nothing is announced.
RemovalFails ==
  /\ removing # NoModel /\ faults < MaxFaults
  /\ removing' = NoModel /\ cut' = cut \cup {removing}
  /\ faults' = faults + 1
  /\ UNCHANGED <<disk, jobs, thread, config, told>>

\* save_settings: Faster-Whisper takes a new model only when it is installed;
\* another provider takes any name.
Select(m, p) ==
  /\ removing = NoModel /\ selects < MaxSelects
  /\ <<m, p>> # <<selected, provider>>
  /\ (p = "faster-whisper" /\ <<m, p>> # <<selected, provider>>)
     => StatusOf(m) = "installed"
  /\ selected' = m /\ provider' = p
  /\ vetted' = (p = "faster-whisper") /\ selects' = selects + 1
  /\ UNCHANGED <<disk, jobs, thread, removing, told, faults, cut>>

(***************************************************************************)
(* The download thread.                                                    *)
(***************************************************************************)
At(step) == worker # None /\ pc = step
Fetched == jobs[worker].model

\* Mutant: the end is not announced.
EndQuietly(state) ==
  /\ removing = NoModel
  /\ jobs' = [jobs EXCEPT ![worker].state = state]
  /\ worker' = None /\ pc' = "idle"
  /\ UNCHANGED <<disk, removing, config, told, faults, cut>>

\* The job ends, and its end is announced, under the lock.
End(state) ==
  /\ removing = NoModel
  /\ jobs' = [jobs EXCEPT ![worker].state = state]
  /\ worker' = None /\ pc' = "idle"
  /\ UNCHANGED disk
  /\ \E m \in Models : m = Fetched /\ EmitJob(m, state)
  /\ UNCHANGED <<removing, config, faults, cut>>

\* The directory is there and the download starts, unless it was cancelled.
CreateDirectory ==
  /\ At("create")
  /\ pc' = IF jobs[worker].asked THEN "cancelled" ELSE "fetch"
  /\ UNCHANGED <<disk, jobs, worker, removing, config, told, faults, cut>>

\* snapshot_download resumes what is there; it never looks at the cancellation.
FetchPart ==
  /\ At("fetch") /\ weights[Fetched] = "none"
  /\ weights' = [weights EXCEPT ![Fetched] = "part"]
  /\ UNCHANGED <<marker, jobs, thread, removing, config, told, faults, cut>>
FetchRest ==
  /\ At("fetch") /\ weights[Fetched] # "none"
  /\ weights' = [weights EXCEPT ![Fetched] = "whole"]
  /\ pc' = "report"
  /\ UNCHANGED <<marker, jobs, worker, removing, config, told, faults, cut>>
FetchFails ==
  /\ At("fetch")
  /\ pc' = "failed"
  /\ UNCHANGED <<disk, jobs, worker, removing, config, told, faults, cut>>

\* Mutant: the end of the download is not asked whether it was cancelled.
ReportIgnoringCancel ==
  /\ At("report") /\ removing = NoModel
  /\ pc' = "mark"
  /\ UNCHANGED <<disk, jobs, worker, removing, config, told, faults, cut>>

\* Progress 1.0 is reported under the lock; a cancellation shows before or after.
Report ==
  /\ At("report") /\ removing = NoModel
  /\ pc' = IF jobs[worker].asked THEN "cancelled" ELSE "mark"
  /\ UNCHANGED <<disk, jobs, worker, removing, config, told, faults, cut>>

\* Mutant: the marker is written before the files are fetched.
MarkFirst ==
  /\ worker # None /\ pc \in {"fetch", "mark"}
  /\ marker' = [marker EXCEPT ![Fetched] = TRUE]
  /\ pc' = IF pc = "mark" THEN "installed" ELSE pc
  /\ UNCHANGED <<weights, jobs, worker, removing, config, told, faults, cut>>

Mark ==
  /\ At("mark")
  /\ marker' = [marker EXCEPT ![Fetched] = TRUE]
  /\ pc' = "installed"
  /\ UNCHANGED <<weights, jobs, worker, removing, config, told, faults, cut>>

\* Mutant: only success and failure end the job.
RunDownloadLosingCancel ==
  \/ CreateDirectory \/ FetchPart \/ FetchRest \/ FetchFails \/ Report \/ Mark
  \/ At("installed") /\ End("installed")
  \/ At("failed") /\ End("error")

RunDownload ==
  \/ CreateDirectory \/ FetchPart \/ FetchRest \/ FetchFails \/ Report \/ Mark
  \/ At("installed") /\ End("installed")
  \/ At("cancelled") /\ End("cancelled")
  \/ At("failed") /\ End("error")

\* The process ends, mid-download or mid-removal, and another one starts, of
\* which the host first asks the list.
Crash ==
  /\ faults < MaxFaults
  /\ faults' = faults + 1
  /\ jobs' = <<>> /\ worker' = None /\ pc' = "idle" /\ removing' = NoModel
  /\ cut' = IF removing = NoModel THEN cut ELSE cut \cup {removing}
  /\ UNCHANGED <<disk, config>>
  /\ told' = [m \in Models |-> Listed'[m]]

Next ==
  \/ \E m \in Models : Download(m) \/ RemoveModel(m)
  \/ CancelNamed
  \/ \E m \in Models \cup {Legacy}, p \in Providers : Select(m, p)
  \/ RemoveFile \/ Removed \/ RemovalFails
  \/ RunDownload
  \/ Crash

Spec == Init /\ [][Next]_vars /\ WF_vars(RunDownload) /\ WF_vars(RemoveFile) /\ WF_vars(Removed)

(***************************************************************************)
(* Properties.                                                             *)
(***************************************************************************)
TypeOK ==
  /\ weights \in [Models -> {"none", "part", "whole"}]
  /\ marker \in [Models -> BOOLEAN]
  /\ jobs \in Seq([model : Models, state : ModelState, asked : BOOLEAN, inTime : BOOLEAN])
  /\ worker \in 0..Len(jobs)
  /\ pc \in {"idle", "create", "fetch", "report", "mark", "installed", "cancelled", "failed"}
  /\ removing \in Models \cup {NoModel}
  /\ selected \in Models \cup {Legacy} /\ provider \in Providers
  /\ told \in [Models -> ModelState \cup {"not_installed"}]
  /\ cut \subseteq Models

\* A directory with the completion marker holds the whole model, through
\* failed, cancelled and interrupted downloads; only a removal that
\* fails or that the end of the process cuts short can leave the marker without its files
\* (_run_download, _is_installed).
MarkedIsWhole ==
  \A m \in Models : marker[m] => weights[m] = "whole" \/ m = removing \/ m \in cut

\* A model that the settings accepted for local transcription stays marked as
\* installed until another one is selected: no order of removals, downloads,
\* provider changes and restarts takes it away (save_settings, remove).
SelectedStaysInstalled ==
  vetted => selected \in Models /\ marker[selected] /\ selected # removing

\* A download that was cancelled while files were still fetched does not
\* install the model (cancel, progress).
CancelledNeverInstalls ==
  \A j \in Indices : jobs[j].inTime => jobs[j].state # "installed"

\* No download writes into a directory that is being removed, and the jobs
\* agree with the one thread that may run.
RemovalIsAlone ==
  /\ Downloading = (IF worker = None THEN {} ELSE {worker})
  /\ worker # None => Fetched # removing

\* The host is never left with an old state: once no download and no removal of
\* a model runs, what it was last told of the model is what a list would say;
\* only a removal that fails is not announced
\* (_emit_job, _emit_changed, list).
ToldTheTruth ==
  \A m \in Models :
    m # removing /\ m \notin cut /\ (worker # None => Fetched # m) => told[m] = Listed[m]

\* Every download ends, and so does one that was cancelled late.
DownloadEnds == \A j \in 1..MaxJobs : [](worker = j => <>(worker # j))
=============================================================================
