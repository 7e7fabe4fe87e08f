----------------------- MODULE LocalTranscriptionProofs -----------------------
(***************************************************************************)
(* Proofs about the two parts of local speech recognition, which share no  *)
(* state: first about ModelManager for every catalogue and every number of *)
(* downloads, selections and faults, then about StreamingDictation for     *)
(* every set of speeches, every length and every number of recordings.     *)
(*                                                                         *)
(* The invariant of the streaming dictation, StreamInv, is about a speech  *)
(* of words nobody says twice and cutting at segments: what was committed  *)
(* is the beginning of the speech, the last hypothesis goes on from there  *)
(* and only its last word may be misheard, the audio is cut within what    *)
(* was committed, and what was committed is typed or being typed.  A       *)
(* misheard word is never committed: the next hypothesis is of audio that  *)
(* goes on behind it.                                                      *)
(***************************************************************************)
EXTENDS ModelManager, StreamingDictation, SequenceTheorems, FiniteSetTheorems, WellFoundedInduction, TLAPS

JobSet == [model : Models, state : ModelState, asked : BOOLEAN, inTime : BOOLEAN]

-----------------------------------------------------------------------------
(***************************************************************************)
(* The first job of a model                                                *)
(***************************************************************************)
JobsOf(m) == {i \in Indices : jobs[i].model = m}

\* A set of natural numbers that is not empty has a least one: the smallest
\* of the intervals 0..i.
LEMMA LeastMember ==
  ASSUME NEW I, I \subseteq Nat, I # {}
  PROVE  Min(I) \in I
<1> DEFINE T == {0..i : i \in I}
<1>1. T \subseteq FiniteSubsetsOf(Nat) /\ T # {}
  <2>1. \A i \in I : IsFiniteSet(0..i) /\ 0..i \subseteq Nat
    BY FS_Interval
  <2>2. QED
    BY <2>1 DEF FiniteSubsetsOf
<1>2. PICK x \in T : \A y \in T : ~(<<y, x>> \in StrictSubsetOrdering(Nat))
  BY <1>1, FS_StrictSubsetOrderingWellFounded, WFMin
<1>3. PICK i \in I : x = 0..i
  BY <1>2
<1>4. ASSUME NEW k \in I PROVE i <= k
  <2>1. ~(<<0..k, 0..i>> \in StrictSubsetOrdering(Nat))
    BY <1>2, <1>3
  <2>2. SUFFICES ASSUME k < i PROVE FALSE
    BY <1>3
  <2>3. 0..k \subseteq 0..i /\ 0..k # 0..i /\ 0..k \subseteq Nat /\ 0..i \subseteq Nat
    <3>1. i \in 0..i /\ i \notin 0..k
      BY <2>2
    <3>2. QED
      BY <2>2, <3>1
  <2>4. QED
    BY <2>1, <2>3 DEF StrictSubsetOrdering
<1>5. QED
  BY <1>4 DEF Min

LEMMA FirstJobIsOne ==
  ASSUME NEW m
  PROVE  IF JobsOf(m) = {} THEN FirstJob(m) = None ELSE FirstJob(m) \in JobsOf(m)
<1>1. FirstJob(m) = IF JobsOf(m) = {} THEN 0 ELSE Min(JobsOf(m))
  BY DEF FirstJob, SelectInSeq, JobsOf, Indices
<1>2. QED
  <2>1. JobsOf(m) \subseteq Nat
    BY DEF JobsOf, Indices
  <2>2. QED
    BY <1>1, <2>1, LeastMember DEF None

-----------------------------------------------------------------------------
(***************************************************************************)
(* The parts of the invariant                                              *)
(***************************************************************************)
Fetching == {"create", "fetch", "report", "cancelled", "failed"}

ThreadHasJob == worker = None <=> pc = "idle"

\* From the end of the download to the end of the job the files are whole.
FetchedIsWhole == pc \in {"report", "mark", "installed"} => weights[Fetched] = "whole"

\* A cancellation that came in time is seen before the marker is written.
CancelIsSeen ==
  worker # None /\ jobs[worker].inTime => jobs[worker].asked /\ pc \in Fetching

ThreadInv == TypeOK /\ ThreadHasJob /\ RemovalIsAlone

-----------------------------------------------------------------------------
(***************************************************************************)
(* What the steps do to the jobs                                           *)
(***************************************************************************)

\* One more job, or one job changed.
AddsJob(job) == jobs' = Append(jobs, job)
ChangesJob(j, job) == jobs' = [jobs EXCEPT ![j] = job]

LEMMA JobAdded ==
  ASSUME jobs \in Seq(JobSet), NEW job \in JobSet, AddsJob(job)
  PROVE  /\ jobs' \in Seq(JobSet) /\ Len(jobs') = Len(jobs) + 1
         /\ \A i \in Indices : i \in Indices' /\ jobs'[i] = jobs[i]
         /\ jobs'[Len(jobs) + 1] = job
         /\ Indices' = Indices \cup {Len(jobs) + 1}
  BY DEF AddsJob, Indices

LEMMA JobChanged ==
  ASSUME jobs \in Seq(JobSet), NEW job \in JobSet, NEW j \in Indices, ChangesJob(j, job)
  PROVE  /\ jobs' \in Seq(JobSet) /\ Len(jobs') = Len(jobs) /\ Indices' = Indices
         /\ \A i \in Indices : jobs'[i] = IF i = j THEN job ELSE jobs[i]
  BY ExceptSeq DEF ChangesJob, Indices

LEMMA JobsAreTyped ==
  ASSUME TypeOK
  PROVE  /\ jobs \in Seq(JobSet) /\ \A i \in Indices : jobs[i] \in JobSet
         /\ worker # None => worker \in Indices /\ Fetched \in Models
<1>1. jobs \in Seq(JobSet)
  BY DEF TypeOK, JobSet
<1>2. \A i \in Indices : jobs[i] \in JobSet
  BY <1>1 DEF Indices
<1>3. worker # None => worker \in Indices
  BY DEF TypeOK, Indices, None
<1>4. QED
  BY <1>1, <1>2, <1>3 DEF JobSet, Fetched

\* A cancellation marks a job that is being downloaded.
Marked(j) == [jobs[j] EXCEPT !.asked = TRUE,
                             !.inTime = @ \/ pc \in {"create", "fetch", "report"}]

LEMMA CancelMarks ==
  ASSUME TypeOK, CancelNamed
  PROVE  \E j \in Downloading :
           /\ ChangesJob(j, Marked(j)) /\ Marked(j) \in JobSet
           /\ UNCHANGED <<disk, thread, removing, config, told, faults, cut>>
<1>1. PICK j \in Indices : Cancel(j)
  <2>1. CASE \E j \in Indices : Cancel(j)
    BY <2>1
  <2>2. ASSUME NEW m \in Models, FirstJob(m) # None /\ Cancel(FirstJob(m))
        PROVE  \E j \in Indices : Cancel(j)
    BY <2>2, FirstJobIsOne DEF JobsOf
  <2>3. QED
    BY <2>1, <2>2 DEF CancelNamed
<1>2. jobs[j] \in JobSet
  BY JobsAreTyped
<1>3. QED
  BY <1>1, <1>2 DEF Cancel, Downloading, ChangesJob, Marked, JobSet

LEMMA CancelKeeps ==
  ASSUME TypeOK, CancelNamed
  PROVE  /\ Indices' = Indices
         /\ \A i \in Indices : jobs'[i].state = jobs[i].state /\ jobs'[i].model = jobs[i].model
         /\ worker # None => Fetched' = Fetched
         /\ UNCHANGED <<disk, thread, removing, config, told, faults, cut>>
<1>1. PICK j \in Downloading :
         /\ ChangesJob(j, Marked(j)) /\ Marked(j) \in JobSet
         /\ UNCHANGED <<disk, thread, removing, config, told, faults, cut>>
  BY CancelMarks
<1>2. jobs[j] \in JobSet /\ j \in Indices
  BY JobsAreTyped DEF Downloading
<1>3. Marked(j).state = jobs[j].state /\ Marked(j).model = jobs[j].model
  BY <1>2 DEF Marked, JobSet
<1>4. /\ Indices' = Indices
      /\ \A i \in Indices : jobs'[i].state = jobs[i].state /\ jobs'[i].model = jobs[i].model
  BY <1>1, <1>2, <1>3, JobsAreTyped, JobChanged
<1>5. worker # None => Fetched' = Fetched
  BY <1>1, <1>4, JobsAreTyped DEF Fetched, thread
<1>6. QED
  BY <1>1, <1>4, <1>5

\* The end of a download changes the state of its job.
Ended(state) == [jobs[worker] EXCEPT !.state = state]

LEMMA EndEnds ==
  ASSUME TypeOK, worker # None, NEW state \in ModelState, End(state)
  PROVE  /\ worker \in Indices /\ Ended(state) \in JobSet /\ ChangesJob(worker, Ended(state))
         /\ Fetched \in Models /\ removing = NoModel
         /\ worker' = None /\ pc' = "idle"
         /\ \E m \in Models : m = Fetched /\ EmitJob(m, state)
         /\ UNCHANGED <<disk, removing, config, faults, cut>>
<1>1. worker \in Indices /\ jobs[worker] \in JobSet
  BY JobsAreTyped
<1>2. QED
  BY <1>1, JobsAreTyped DEF End, Ended, ChangesJob, JobSet

-----------------------------------------------------------------------------
(***************************************************************************)
(* Types                                                                   *)
(***************************************************************************)
LEMMA StatusType == \A m : Status(m) \in ModelState \cup {"not_installed"}
  BY DEF Status, ModelState

LEMMA StatusTypeNext == \A m : Status(m)' \in ModelState \cup {"not_installed"}
  BY DEF Status, ModelState

LEMMA InitTypes == Init => TypeOK
<1> SUFFICES ASSUME Init PROVE TypeOK
  OBVIOUS
<1>1. told \in [Models -> ModelState \cup {"not_installed"}]
  BY StatusType DEF Init, Listed, StatusOf
<1>2. jobs \in Seq(JobSet) /\ worker \in 0..Len(jobs)
  BY DEF Init, None
<1>3. QED
  BY <1>1, <1>2 DEF Init, TypeOK, JobSet

LEMMA StepTypes == TypeOK /\ [Next]_vars => TypeOK'
<1> SUFFICES ASSUME TypeOK, [Next]_vars PROVE TypeOK'
  OBVIOUS
<1> DEFINE JobsTyped == jobs' \in Seq(JobSet) /\ worker' \in 0..Len(jobs')
           RestTyped ==
             /\ weights' \in [Models -> {"none", "part", "whole"}]
             /\ marker' \in [Models -> BOOLEAN]
             /\ pc' \in {"idle", "create", "fetch", "report", "mark", "installed", "cancelled", "failed"}
             /\ removing' \in Models \cup {NoModel}
             /\ selected' \in Models \cup {Legacy} /\ provider' \in Providers
             /\ told' \in [Models -> ModelState \cup {"not_installed"}]
             /\ cut' \subseteq Models
<1>a. SUFFICES JobsTyped /\ RestTyped
  BY DEF TypeOK, JobSet
<1>b. jobs \in Seq(JobSet) /\ worker \in 0..Len(jobs) /\ Len(jobs) \in Nat
  BY JobsAreTyped DEF TypeOK
<1> USE DEF TypeOK
<1>1. ASSUME NEW m \in Models, Download(m) PROVE JobsTyped /\ RestTyped
  <2>1. CASE IsInstalled(m)
    <3>1. Job(m, "installed") \in JobSet /\ AddsJob(Job(m, "installed"))
      BY <1>1, <2>1 DEF Download, Job, JobSet, ModelState, AddsJob
    <3>2. QED
      BY <1>1, <1>b, <2>1, <3>1, JobAdded DEF Download, thread, disk, config
  <2>2. CASE ~IsInstalled(m)
    <3>1. Job(m, "downloading") \in JobSet /\ AddsJob(Job(m, "downloading"))
      BY <1>1, <2>2 DEF Download, Job, JobSet, ModelState, AddsJob
    <3>2. worker' = Len(jobs) + 1 /\ pc' = "create" /\ EmitJob(m, "downloading")
      BY <1>1, <2>2 DEF Download
    <3>3. JobsTyped
      BY <1>b, <3>1, <3>2, JobAdded
    <3>4. QED
      BY <1>1, <3>2, <3>3 DEF Download, EmitJob, ModelState, disk, config
  <2>3. QED
    BY <2>1, <2>2
<1>2. ASSUME NEW m \in Models, RemoveModel(m) PROVE JobsTyped /\ RestTyped
  BY <1>2, <1>b DEF RemoveModel, disk, thread, config
<1>3. ASSUME CancelNamed PROVE JobsTyped /\ RestTyped
  <2>1. PICK j \in Downloading :
           /\ ChangesJob(j, Marked(j)) /\ Marked(j) \in JobSet
           /\ UNCHANGED <<disk, thread, removing, config, told, faults, cut>>
    BY <1>3, CancelMarks
  <2>2. JobsTyped
    BY <1>b, <2>1, JobChanged DEF Downloading, thread
  <2>3. QED
    BY <2>1, <2>2 DEF disk, thread, config
<1>4. ASSUME NEW m \in Models \cup {Legacy}, NEW p \in Providers, Select(m, p)
      PROVE  JobsTyped /\ RestTyped
  BY <1>4, <1>b DEF Select, disk, thread
<1>5. ASSUME RemoveFile PROVE JobsTyped /\ RestTyped
  BY <1>5, <1>b DEF RemoveFile, thread, config
<1>6. ASSUME Removed PROVE JobsTyped /\ RestTyped
  <2>1. told' \in [Models -> ModelState \cup {"not_installed"}]
    BY <1>6, StatusTypeNext DEF Removed, EmitChanged
  <2>2. QED
    BY <1>6, <1>b, <2>1 DEF Removed, thread, disk, config
<1>7. ASSUME RemovalFails PROVE JobsTyped /\ RestTyped
  BY <1>7, <1>b DEF RemovalFails, thread, disk, config
<1>8. ASSUME RunDownload PROVE JobsTyped /\ RestTyped
  <2>1. CASE CreateDirectory \/ FetchPart \/ FetchRest \/ FetchFails \/ Report \/ Mark
    <3>1. JobsTyped
      BY <1>b, <2>1 DEF CreateDirectory, FetchPart, FetchRest, FetchFails, Report, Mark, thread
    <3>2. RestTyped
      BY <2>1 DEF CreateDirectory, FetchPart, FetchRest, FetchFails, Report, Mark, thread, disk,
         config
    <3>3. QED
      BY <3>1, <3>2
  <2>2. ASSUME NEW state \in ModelState, worker # None, End(state) PROVE JobsTyped /\ RestTyped
    <3>1. JobsTyped
      BY <1>b, <2>2, EndEnds, JobChanged DEF None
    <3>2. told' \in [Models -> ModelState \cup {"not_installed"}]
      BY <2>2, EndEnds, StatusTypeNext DEF EmitJob
    <3>3. QED
      BY <2>2, <3>1, <3>2, EndEnds DEF disk, config
  <2>3. QED
    BY <1>8, <2>1, <2>2 DEF RunDownload, At, ModelState
<1>9. ASSUME Crash PROVE JobsTyped /\ RestTyped
  <2>1. told' \in [Models -> ModelState \cup {"not_installed"}]
    BY <1>9, StatusTypeNext DEF Crash, Listed, StatusOf
  <2>2. QED
    BY <1>9, <1>b, <2>1 DEF Crash, disk, config, None
<1>10. ASSUME UNCHANGED vars PROVE JobsTyped /\ RestTyped
  BY <1>10, <1>b DEF vars, thread, disk, config
<1>11. QED
  BY <1>1, <1>2, <1>3, <1>4, <1>5, <1>6, <1>7, <1>8, <1>9, <1>10 DEF Next

\* Every variable keeps its type, for every catalogue and bound.
THEOREM ModelTypes == Spec => []TypeOK
BY InitTypes, StepTypes, PTL DEF Spec

-----------------------------------------------------------------------------
(***************************************************************************)
(* The one thread, its job and the removal                                 *)
(***************************************************************************)

\* The steps of the download before the end of its job.
FetchStep == CreateDirectory \/ FetchPart \/ FetchRest \/ FetchFails \/ Report \/ Mark
EndStep ==
  \/ At("installed") /\ End("installed")
  \/ At("cancelled") /\ End("cancelled")
  \/ At("failed") /\ End("error")

LEMMA RunSteps == RunDownload <=> FetchStep \/ EndStep
  BY DEF RunDownload, FetchStep, EndStep

\* What all the steps of the download before its end have in common.
LEMMA FetchSteps ==
  ASSUME TypeOK, FetchStep
  PROVE  /\ worker # None /\ worker \in Indices /\ Fetched \in Models
         /\ pc \in {"create", "fetch", "report", "mark"}
         /\ pc' \in {"fetch", "report", "mark", "installed", "cancelled", "failed"}
         /\ UNCHANGED <<jobs, worker, removing, config, told, faults, cut>>
<1>1. worker # None
  BY DEF FetchStep, CreateDirectory, FetchPart, FetchRest, FetchFails, Report, Mark, At
<1>2. UNCHANGED <<jobs, worker, removing, config, told, faults, cut>>
  BY DEF FetchStep, CreateDirectory, FetchPart, FetchRest, FetchFails, Report, Mark, thread
<1>3. /\ pc \in {"create", "fetch", "report", "mark"}
      /\ pc' \in {"fetch", "report", "mark", "installed", "cancelled", "failed"}
  BY DEF FetchStep, CreateDirectory, FetchPart, FetchRest, FetchFails, Report, Mark, At, thread
<1>4. QED
  BY <1>1, <1>2, <1>3, JobsAreTyped

LEMMA EndSteps ==
  ASSUME TypeOK, EndStep
  PROVE  worker # None /\ \E state \in ModelState \ {"downloading"} :
           End(state) /\ (state = "installed" => pc = "installed")
  BY DEF EndStep, At, ModelState

LEMMA StepAlone ==
  ASSUME ThreadInv, [Next]_vars
  PROVE  (ThreadHasJob /\ RemovalIsAlone)'
<1> DEFINE Goal == (ThreadHasJob /\ RemovalIsAlone)'
<1>a. /\ TypeOK /\ jobs \in Seq(JobSet) /\ Len(jobs) \in Nat
      /\ worker # None => worker \in Downloading /\ Fetched \in Models /\ Fetched # removing
      /\ worker = None => Downloading = {}
      /\ \A i \in Downloading : i = worker
      /\ worker = None <=> pc = "idle"
  BY JobsAreTyped DEF ThreadInv, ThreadHasJob, RemovalIsAlone
<1>b. NoModel \notin Models
  BY LegacyIsUnknown
\* The steps that leave the jobs and the thread's job alone.
<1>c. ASSUME jobs' = jobs, worker' = worker, pc = "idle" <=> pc' = "idle",
             worker # None => Fetched # removing'
      PROVE  Goal
  BY <1>a, <1>c DEF ThreadInv, ThreadHasJob, RemovalIsAlone, Downloading, Indices, Fetched
<1>1. ASSUME NEW m \in Models, Download(m) PROVE Goal
  <2>1. worker = None /\ removing = NoModel /\ removing' = NoModel
    BY <1>1, <1>a DEF Download, Downloading
  <2>2. CASE IsInstalled(m)
    <3>1. Job(m, "installed") \in JobSet /\ AddsJob(Job(m, "installed"))
      BY <1>1, <2>2 DEF Download, Job, JobSet, ModelState, AddsJob
    <3>2. Downloading' = {}
      BY <1>a, <2>1, <3>1, JobAdded DEF Downloading, Job
    <3>3. QED
      BY <1>1, <1>a, <2>1, <2>2, <3>2 DEF Download, thread, ThreadHasJob, RemovalIsAlone
  <2>3. CASE ~IsInstalled(m)
    <3>1. Job(m, "downloading") \in JobSet /\ AddsJob(Job(m, "downloading"))
      BY <1>1, <2>3 DEF Download, Job, JobSet, ModelState, AddsJob
    <3>2. worker' = Len(jobs) + 1 /\ pc' = "create"
      BY <1>1, <2>3 DEF Download
    <3>3. Downloading' = {Len(jobs) + 1} /\ Fetched' = m
      BY <1>a, <2>1, <3>1, <3>2, JobAdded DEF Downloading, Job, Fetched
    <3>4. QED
      BY <1>a, <1>b, <2>1, <3>2, <3>3 DEF ThreadHasJob, RemovalIsAlone, None
  <2>4. QED
    BY <2>2, <2>3
<1>2. ASSUME NEW m \in Models, RemoveModel(m) PROVE Goal
  <2>1. worker # None => Fetched # m
    BY <1>2, <1>a DEF RemoveModel, Fetched
  <2>2. QED
    BY <1>2, <1>c, <2>1 DEF RemoveModel, thread
<1>3. ASSUME CancelNamed PROVE Goal
  <2>1. Downloading' = Downloading
    BY <1>3, <1>a, CancelKeeps DEF Downloading
  <2>2. worker' = worker /\ pc' = pc /\ removing' = removing /\ (worker # None => Fetched' = Fetched)
    BY <1>3, <1>a, CancelKeeps DEF thread
  <2>3. QED
    BY <1>a, <2>1, <2>2 DEF ThreadHasJob, RemovalIsAlone, ThreadInv
<1>4. ASSUME NEW m \in Models \cup {Legacy}, NEW p \in Providers, Select(m, p) PROVE Goal
  BY <1>4, <1>a, <1>c DEF Select, thread
<1>5. ASSUME RemoveFile PROVE Goal
  BY <1>5, <1>a, <1>c DEF RemoveFile, thread
<1>6. ASSUME Removed PROVE Goal
  BY <1>6, <1>a, <1>b, <1>c DEF Removed, thread
<1>7. ASSUME RemovalFails PROVE Goal
  BY <1>7, <1>a, <1>b, <1>c DEF RemovalFails, thread
<1>8. ASSUME FetchStep PROVE Goal
  BY <1>8, <1>a, <1>c, FetchSteps
<1>9. ASSUME EndStep PROVE Goal
  <2>1. PICK state \in ModelState \ {"downloading"} : worker # None /\ End(state)
    BY <1>9, <1>a, EndSteps
  <2>2. Ended(state) \in JobSet /\ ChangesJob(worker, Ended(state)) /\ worker \in Indices
    BY <1>a, <2>1, EndEnds
  <2>3. Ended(state).state = state
    BY <1>a, <2>2, JobsAreTyped DEF Ended, JobSet
  <2>4. Downloading' = {}
    BY <1>a, <2>1, <2>2, <2>3, JobChanged DEF Downloading
  <2>5. worker' = None /\ pc' = "idle"
    BY <1>a, <2>1, EndEnds
  <2>6. QED
    BY <2>4, <2>5 DEF ThreadHasJob, RemovalIsAlone
<1>10. ASSUME Crash PROVE Goal
  BY <1>10 DEF Crash, ThreadHasJob, RemovalIsAlone, Downloading, Indices, None
<1>11. ASSUME UNCHANGED vars PROVE Goal
  BY <1>11, <1>a, <1>c DEF vars, thread
<1>12. QED
  BY <1>1, <1>2, <1>3, <1>4, <1>5, <1>6, <1>7, <1>8, <1>9, <1>10, <1>11, RunSteps DEF Next

LEMMA ThreadInvHolds == Spec => []ThreadInv
<1>1. Init => ThreadInv
  <2>1. Init => ThreadHasJob /\ RemovalIsAlone
    BY DEF Init, ThreadHasJob, RemovalIsAlone, Downloading, Indices, None
  <2>2. QED
    BY <2>1, InitTypes DEF ThreadInv
<1>2. ThreadInv /\ [Next]_vars => ThreadInv'
  BY StepAlone, StepTypes DEF ThreadInv
<1>3. QED
  BY <1>1, <1>2, PTL DEF Spec

\* RemovalIsAlone: whatever is downloaded, cancelled and removed in which
\* order, no download writes where a removal deletes.
THEOREM RemovalsAreAlone == Spec => []RemovalIsAlone
<1>1. ThreadInv => RemovalIsAlone
  BY DEF ThreadInv
<1>2. QED
  BY <1>1, ThreadInvHolds, PTL

-----------------------------------------------------------------------------
(***************************************************************************)
(* Files, markers and the selection                                        *)
(***************************************************************************)

\* What a download adds is not marked before it is whole, and a removal that
\* is interrupted is remembered in `cut'.
DiskInv == FetchedIsWhole /\ MarkedIsWhole

LEMMA StepDisk ==
  ASSUME ThreadInv, DiskInv, [Next]_vars
  PROVE  DiskInv'
<1>a. /\ TypeOK /\ NoModel \notin Models
      /\ worker # None => Fetched \in Models /\ Fetched # removing
      /\ worker = None <=> pc = "idle"
      /\ pc \in {"report", "mark", "installed"} => weights[Fetched] = "whole"
      /\ \A m \in Models : marker[m] => weights[m] = "whole" \/ m = removing \/ m \in cut
  BY JobsAreTyped, LegacyIsUnknown
     DEF ThreadInv, ThreadHasJob, RemovalIsAlone, DiskInv, FetchedIsWhole, MarkedIsWhole
<1> DEFINE Marks == \A m \in Models :
                      marker'[m] => weights'[m] = "whole" \/ m = removing' \/ m \in cut'
           Files == pc' \in {"report", "mark", "installed"} => weights'[Fetched'] = "whole"
<1>b. SUFFICES Marks /\ Files
  BY DEF DiskInv, FetchedIsWhole, MarkedIsWhole
\* The steps that leave the disk and the thread's job alone.
<1>c. ASSUME UNCHANGED disk, worker' = worker,
             worker # None => Fetched' = Fetched,
             pc' = pc \/ pc' \notin {"report", "mark", "installed"},
             (removing' = removing /\ cut' = cut) \/ (removing = NoModel /\ cut' = cut)
               \/ cut' = cut \cup {removing}
      PROVE  Marks /\ Files
  BY <1>a, <1>c DEF disk
<1>1. ASSUME NEW m \in Models, Download(m) PROVE Marks /\ Files
  <2>1. UNCHANGED disk /\ UNCHANGED removing /\ UNCHANGED cut
    BY <1>1 DEF Download
  <2>2. pc' \notin {"report", "mark", "installed"}
    BY <1>1, <1>a, JobsAreTyped DEF Downloading, ThreadInv, RemovalIsAlone, ThreadHasJob, Download, thread
  <2>3. QED
    BY <1>a, <2>1, <2>2 DEF disk
<1>2. ASSUME NEW m \in Models, RemoveModel(m) PROVE Marks /\ Files
  BY <1>2, <1>c DEF RemoveModel, thread, Fetched
<1>3. ASSUME CancelNamed PROVE Marks /\ Files
  BY <1>3, <1>a, <1>c, CancelKeeps DEF thread
<1>4. ASSUME NEW m \in Models \cup {Legacy}, NEW p \in Providers, Select(m, p) PROVE Marks /\ Files
  BY <1>4, <1>c DEF Select, thread, Fetched
<1>5. ASSUME RemoveFile PROVE Marks /\ Files
  <2>1. \A m \in Models : m # removing => weights'[m] = weights[m] /\ marker'[m] = marker[m]
    BY <1>5, <1>a DEF RemoveFile, TypeOK
  <2>2. UNCHANGED <<jobs, thread, removing, cut>>
    BY <1>5 DEF RemoveFile
  <2>3. Marks
    BY <1>a, <2>1, <2>2
  <2>4. Files
    BY <1>a, <2>1, <2>2 DEF thread, Fetched
  <2>5. QED
    BY <2>3, <2>4
<1>6. ASSUME Removed PROVE Marks /\ Files
  BY <1>6, <1>a DEF Removed, thread, disk, Fetched
<1>7. ASSUME RemovalFails PROVE Marks /\ Files
  BY <1>7, <1>c DEF RemovalFails, thread, Fetched
<1>8. ASSUME FetchStep PROVE Marks /\ Files
  <2>1. /\ worker # None /\ Fetched' = Fetched
        /\ removing' = removing /\ cut' = cut /\ worker' = worker
    BY <1>8, <1>a, FetchSteps DEF Fetched
  <2>2. CASE CreateDirectory \/ FetchFails \/ Report
    BY <1>a, <2>1, <2>2 DEF CreateDirectory, FetchFails, Report, At, disk
  <2>3. CASE FetchPart \/ FetchRest
    BY <1>a, <2>1, <2>3 DEF FetchPart, FetchRest, At, thread, TypeOK
  <2>4. CASE Mark
    BY <1>a, <2>1, <2>4 DEF Mark, At, TypeOK
  <2>5. QED
    BY <1>8, <2>2, <2>3, <2>4 DEF FetchStep
<1>9. ASSUME EndStep PROVE Marks /\ Files
  <2>1. PICK state \in ModelState \ {"downloading"} : worker # None /\ End(state)
    BY <1>9, <1>a, EndSteps
  <2>2. pc' = "idle" /\ UNCHANGED disk /\ removing' = removing /\ cut' = cut
    BY <1>a, <2>1, EndEnds
  <2>3. QED
    BY <1>a, <2>2 DEF disk
<1>10. ASSUME Crash PROVE Marks /\ Files
  BY <1>10, <1>a DEF Crash, disk
<1>11. ASSUME UNCHANGED vars PROVE Marks /\ Files
  BY <1>11, <1>c DEF vars, thread, Fetched
<1>12. QED
  BY <1>1, <1>2, <1>3, <1>4, <1>5, <1>6, <1>7, <1>8, <1>9, <1>10, <1>11, RunSteps DEF Next

\* MarkedIsWhole: a directory that is taken for an installed model is one.
THEOREM MarkedModelsAreWhole == Spec => []MarkedIsWhole
<1>1. Init => DiskInv
  BY DEF Init, DiskInv, FetchedIsWhole, MarkedIsWhole
<1>2. ThreadInv /\ DiskInv /\ [Next]_vars => DiskInv'
  BY StepDisk
<1>3. DiskInv => MarkedIsWhole
  BY DEF DiskInv
<1>4. QED
  BY <1>1, <1>2, <1>3, ThreadInvHolds, PTL DEF Spec

LEMMA InstalledIsMarked == \A m : StatusOf(m) = "installed" => m \in Models /\ marker[m]
  BY DEF StatusOf, Status, IsInstalled

LEMMA StepSelected ==
  ASSUME ThreadInv, SelectedStaysInstalled, [Next]_vars
  PROVE  SelectedStaysInstalled'
<1>a. /\ TypeOK /\ NoModel \notin Models
      /\ worker # None => Fetched \in Models
      /\ vetted => selected \in Models /\ marker[selected] /\ selected # removing
  BY JobsAreTyped, LegacyIsUnknown DEF ThreadInv, SelectedStaysInstalled
<1> DEFINE Goal == vetted' => selected' \in Models /\ marker'[selected'] /\ selected' # removing'
<1>b. SUFFICES Goal
  BY DEF SelectedStaysInstalled
<1>1. ASSUME NEW m \in Models, Download(m) PROVE Goal
  BY <1>1, <1>a DEF Download, disk, config
<1>2. ASSUME NEW m \in Models, RemoveModel(m) PROVE Goal
  BY <1>2, <1>a DEF RemoveModel, disk, config
<1>3. ASSUME CancelNamed PROVE Goal
  BY <1>3, <1>a, CancelMarks DEF disk, config
<1>4. ASSUME NEW m \in Models \cup {Legacy}, NEW p \in Providers, Select(m, p) PROVE Goal
  BY <1>4, <1>a, InstalledIsMarked DEF Select, disk
<1>5. ASSUME RemoveFile PROVE Goal
  BY <1>5, <1>a DEF RemoveFile, config, TypeOK
<1>6. ASSUME Removed PROVE Goal
  BY <1>6, <1>a DEF Removed, disk, config
<1>7. ASSUME RemovalFails PROVE Goal
  BY <1>7, <1>a DEF RemovalFails, disk, config
<1>8. ASSUME FetchStep PROVE Goal
  <2>1. UNCHANGED <<removing, config>> /\ Fetched \in Models
    BY <1>8, <1>a, FetchSteps
  <2>2. \A m \in Models : marker[m] => marker'[m]
    BY <1>8, <1>a, <2>1
       DEF FetchStep, CreateDirectory, FetchPart, FetchRest, FetchFails, Report, Mark, disk, TypeOK
  <2>3. QED
    BY <1>a, <2>1, <2>2 DEF config
<1>9. ASSUME EndStep PROVE Goal
  <2>1. PICK state \in ModelState \ {"downloading"} : worker # None /\ End(state)
    BY <1>9, <1>a, EndSteps
  <2>2. QED
    BY <1>a, <2>1, EndEnds DEF disk, config
<1>10. ASSUME Crash PROVE Goal
  BY <1>10, <1>a DEF Crash, disk, config
<1>11. ASSUME UNCHANGED vars PROVE Goal
  BY <1>11, <1>a DEF vars, disk, config
<1>12. QED
  BY <1>1, <1>2, <1>3, <1>4, <1>5, <1>6, <1>7, <1>8, <1>9, <1>10, <1>11, RunSteps DEF Next

\* SelectedStaysInstalled: the model in use is there until another is chosen.
THEOREM SelectedModelStays == Spec => []SelectedStaysInstalled
<1>1. Init => SelectedStaysInstalled
  BY DEF Init, SelectedStaysInstalled
<1>2. ThreadInv /\ SelectedStaysInstalled /\ [Next]_vars => SelectedStaysInstalled'
  BY StepSelected
<1>3. QED
  BY <1>1, <1>2, ThreadInvHolds, PTL DEF Spec

-----------------------------------------------------------------------------
(***************************************************************************)
(* Cancellations                                                           *)
(***************************************************************************)
CancelInv == CancelIsSeen /\ CancelledNeverInstalls

\* A new job, whatever its state, was not cancelled.
LEMMA DownloadAdds ==
  ASSUME ThreadInv, NEW m \in Models, Download(m)
  PROVE  /\ worker = None /\ UNCHANGED <<disk, removing, config, faults, cut>>
         /\ \E state \in {"installed", "downloading"} :
              /\ Job(m, state) \in JobSet /\ AddsJob(Job(m, state))
              /\ IF state = "installed"
                 THEN IsInstalled(m) /\ UNCHANGED <<worker, pc, told>>
                 ELSE worker' = Len(jobs) + 1 /\ EmitJob(m, state)
<1>1. worker = None
  BY JobsAreTyped DEF Download, Downloading, ThreadInv, RemovalIsAlone
<1>2. CASE IsInstalled(m)
  BY <1>1, <1>2 DEF Download, Job, JobSet, ModelState, AddsJob, thread
<1>3. CASE ~IsInstalled(m)
  BY <1>1, <1>3 DEF Download, Job, JobSet, ModelState, AddsJob
<1>4. QED
  BY <1>2, <1>3

LEMMA StepCancelled ==
  ASSUME ThreadInv, CancelInv, [Next]_vars
  PROVE  CancelInv'
<1>a. /\ TypeOK /\ \A i \in Downloading : i = worker
      /\ worker # None => worker \in Downloading
      /\ worker # None /\ jobs[worker].inTime => jobs[worker].asked /\ pc \in Fetching
      /\ \A i \in Indices : jobs[i].inTime => jobs[i].state # "installed"
      /\ \A i \in Indices : jobs[i] \in JobSet
      /\ jobs \in Seq(JobSet) /\ Len(jobs) \in Nat
  BY JobsAreTyped
     DEF ThreadInv, RemovalIsAlone, CancelInv, CancelIsSeen, CancelledNeverInstalls
<1> DEFINE Seen == worker' # None /\ jobs'[worker'].inTime
                     => jobs'[worker'].asked /\ pc' \in Fetching
           Never == \A i \in Indices' : jobs'[i].inTime => jobs'[i].state # "installed"
<1>b. SUFFICES Seen /\ Never
  BY DEF CancelInv, CancelIsSeen, CancelledNeverInstalls
<1>c. ASSUME jobs' = jobs, worker' = worker,
             pc' = pc \/ (worker # None /\ jobs[worker].inTime => pc' \in Fetching)
      PROVE  Seen /\ Never
  BY <1>a, <1>c DEF Indices
<1>1. ASSUME NEW m \in Models, Download(m) PROVE Seen /\ Never
  <2>1. PICK state \in {"installed", "downloading"} :
          /\ Job(m, state) \in JobSet /\ AddsJob(Job(m, state))
          /\ worker' = None \/ worker' = Len(jobs) + 1
    BY <1>1, DownloadAdds DEF None
  <2>2. ~Job(m, state).inTime
    BY DEF Job
  <2>3. QED
    BY <1>a, <2>1, <2>2, JobAdded
<1>2. ASSUME NEW m \in Models, RemoveModel(m) PROVE Seen /\ Never
  BY <1>2, <1>c DEF RemoveModel, thread
<1>3. ASSUME CancelNamed PROVE Seen /\ Never
  <2>1. /\ worker \in Downloading /\ ChangesJob(worker, Marked(worker)) /\ Marked(worker) \in JobSet
        /\ worker' = worker /\ pc' = pc
    BY <1>3, <1>a, CancelMarks DEF thread
  <2>2. /\ Marked(worker).asked /\ Marked(worker).state = "downloading"
        /\ Marked(worker).inTime => jobs[worker].inTime \/ pc \in {"create", "fetch", "report"}
    BY <1>a, <2>1 DEF Marked, JobSet, Downloading
  <2>3. worker \in Indices
    BY <2>1 DEF Downloading
  <2>4. /\ Indices' = Indices
        /\ \A i \in Indices : jobs'[i] = IF i = worker THEN Marked(worker) ELSE jobs[i]
    BY <1>a, <2>1, <2>3, JobChanged
  <2>5. QED
    BY <1>a, <2>1, <2>2, <2>3, <2>4 DEF Fetching
<1>4. ASSUME NEW m \in Models \cup {Legacy}, NEW p \in Providers, Select(m, p) PROVE Seen /\ Never
  BY <1>4, <1>c DEF Select, thread
<1>5. ASSUME RemoveFile PROVE Seen /\ Never
  BY <1>5, <1>c DEF RemoveFile, thread
<1>6. ASSUME Removed PROVE Seen /\ Never
  BY <1>6, <1>c DEF Removed, thread
<1>7. ASSUME RemovalFails PROVE Seen /\ Never
  BY <1>7, <1>c DEF RemovalFails, thread
<1>8. ASSUME FetchStep PROVE Seen /\ Never
  <2>1. jobs' = jobs /\ worker' = worker /\ worker # None
    BY <1>8, <1>a, FetchSteps
  <2>2. jobs[worker].inTime => pc' \in Fetching
    BY <1>8, <1>a, <2>1
       DEF FetchStep, CreateDirectory, FetchPart, FetchRest, FetchFails, Report, Mark, At, thread,
           Fetching
  <2>3. QED
    BY <1>c, <2>1, <2>2
<1>9. ASSUME EndStep PROVE Seen /\ Never
  <2>1. PICK state \in ModelState \ {"downloading"} :
          worker # None /\ End(state) /\ (state = "installed" => pc = "installed")
    BY <1>9, <1>a, EndSteps
  <2>2. /\ Ended(state) \in JobSet /\ ChangesJob(worker, Ended(state)) /\ worker \in Indices
        /\ worker' = None
    BY <1>a, <2>1, EndEnds
  <2>3. Ended(state).state = state /\ Ended(state).inTime = jobs[worker].inTime
    BY <1>a, <2>2 DEF Ended, JobSet
  <2>4. jobs[worker].inTime => state # "installed"
    BY <1>a, <2>1 DEF Fetching
  <2>5. QED
    BY <1>a, <2>2, <2>3, <2>4, JobChanged
<1>10. ASSUME Crash PROVE Seen /\ Never
  BY <1>10 DEF Crash, Indices
<1>11. ASSUME UNCHANGED vars PROVE Seen /\ Never
  BY <1>11, <1>c DEF vars, thread
<1>12. QED
  BY <1>1, <1>2, <1>3, <1>4, <1>5, <1>6, <1>7, <1>8, <1>9, <1>10, <1>11, RunSteps DEF Next

\* CancelledNeverInstalls: a cancellation during the download is always seen
\* before the marker is written.
THEOREM CancelledDownloadsStayOut == Spec => []CancelledNeverInstalls
<1>1. Init => CancelInv
  BY DEF Init, CancelInv, CancelIsSeen, CancelledNeverInstalls, Indices
<1>2. ThreadInv /\ CancelInv /\ [Next]_vars => CancelInv'
  BY StepCancelled
<1>3. CancelInv => CancelledNeverInstalls
  BY DEF CancelInv
<1>4. QED
  BY <1>1, <1>2, <1>3, ThreadInvHolds, PTL DEF Spec

-----------------------------------------------------------------------------
(***************************************************************************)
(* What the host was told                                                  *)
(***************************************************************************)

\* A status follows the marker and the state of the model's first job.
LEMMA SameStatus ==
  ASSUME NEW m, marker'[m] = marker[m], JobsOf(m)' = JobsOf(m),
         \A i \in JobsOf(m) : jobs'[i].state = jobs[i].state
  PROVE  Status(m)' = Status(m)
<1>1. /\ FirstJob(m) = IF JobsOf(m) = {} THEN 0 ELSE Min(JobsOf(m))
      /\ FirstJob(m)' = IF JobsOf(m)' = {} THEN 0 ELSE Min(JobsOf(m)')
  BY DEF FirstJob, SelectInSeq, JobsOf, Indices
<1>2. FirstJob(m)' = FirstJob(m)
  BY <1>1
<1>3. FirstJob(m) # None => jobs'[FirstJob(m)].state = jobs[FirstJob(m)].state
  BY FirstJobIsOne
<1>4. QED
  BY <1>2, <1>3 DEF Status, IsInstalled

\* The first job of a marked model that is not being downloaded does not matter.
MarkedAndQuiet(m) == marker[m] /\ \A i \in JobsOf(m) : jobs[i].state # "downloading"

LEMMA MarkedStatus ==
  ASSUME NEW m, MarkedAndQuiet(m)
  PROVE  Status(m) = "installed"
<1>1. FirstJob(m) # None => jobs[FirstJob(m)].state # "downloading"
  BY FirstJobIsOne DEF MarkedAndQuiet
<1>2. QED
  BY <1>1 DEF Status, IsInstalled, MarkedAndQuiet

LEMMA MarkedStatusNext ==
  ASSUME NEW m, MarkedAndQuiet(m)'
  PROVE  Status(m)' = "installed"
<1>1. FirstJob(m)' = IF JobsOf(m)' = {} THEN 0 ELSE Min(JobsOf(m)')
  BY DEF FirstJob, SelectInSeq, JobsOf, Indices
<1>2. JobsOf(m)' \subseteq Nat
  BY DEF JobsOf, Indices
<1>3. FirstJob(m)' # None => FirstJob(m)' \in JobsOf(m)'
  BY <1>1, <1>2, LeastMember DEF None
<1>4. FirstJob(m)' # None => jobs'[FirstJob(m)'].state # "downloading"
  BY <1>3 DEF MarkedAndQuiet
<1>5. QED
  BY <1>4 DEF Status, IsInstalled, MarkedAndQuiet

LEMMA StepTold ==
  ASSUME ThreadInv, ToldTheTruth, [Next]_vars
  PROVE  ToldTheTruth'
<1> DEFINE Idle(m) == m # removing /\ m \notin cut /\ (worker # None => Fetched # m)
<1>a. /\ TypeOK /\ NoModel \notin Models
      /\ worker = None => Downloading = {}
      /\ worker # None => worker \in Indices /\ Fetched \in Models
      /\ jobs \in Seq(JobSet) /\ Len(jobs) \in Nat /\ \A i \in Indices : jobs[i] \in JobSet
      /\ \A m \in Models : Idle(m) => told[m] = Status(m)
  BY JobsAreTyped, LegacyIsUnknown DEF ThreadInv, RemovalIsAlone, ToldTheTruth, Listed, StatusOf
<1>b. SUFFICES ASSUME NEW m \in Models, m # removing', m \notin cut', worker' # None => Fetched' # m
               PROVE  told'[m] = Status(m)'
  BY DEF ToldTheTruth, Listed, StatusOf
<1>c. told \in [Models -> ModelState \cup {"not_installed"}]
  BY <1>a DEF TypeOK
\* The steps that tell the host nothing of the model and leave its jobs alone.
<1>d. ASSUME told'[m] = told[m], Idle(m), marker'[m] = marker[m], JobsOf(m)' = JobsOf(m),
             \A i \in JobsOf(m) : jobs'[i].state = jobs[i].state
      PROVE  told'[m] = Status(m)'
  BY <1>a, <1>d, SameStatus
<1>e. ASSUME jobs' = jobs PROVE JobsOf(m)' = JobsOf(m)
  BY <1>e DEF JobsOf, Indices
<1>1. ASSUME NEW n \in Models, Download(n) PROVE told'[m] = Status(m)'
  <2>1. PICK state \in {"installed", "downloading"} :
          /\ Job(n, state) \in JobSet /\ AddsJob(Job(n, state))
          /\ IF state = "installed"
             THEN IsInstalled(n) /\ UNCHANGED <<worker, pc, told>>
             ELSE worker' = Len(jobs) + 1 /\ EmitJob(n, state)
    BY <1>1, <1>a, DownloadAdds
  <2>2. /\ worker = None /\ UNCHANGED <<disk, removing, cut>>
    BY <1>1, DownloadAdds
  <2>3. /\ \A i \in Indices : jobs'[i] = jobs[i]
        /\ jobs'[Len(jobs) + 1] = Job(n, state) /\ Indices' = Indices \cup {Len(jobs) + 1}
    BY <1>a, <2>1, JobAdded
  <2>4. CASE m # n
    <3>1. JobsOf(m)' = JobsOf(m) /\ \A i \in JobsOf(m) : jobs'[i].state = jobs[i].state
      BY <2>3, <2>4 DEF JobsOf, Job
    <3>2. told'[m] = told[m]
      BY <1>c, <2>1, <2>4 DEF EmitJob
    <3>3. QED
      BY <1>b, <1>d, <2>2, <3>1, <3>2 DEF disk
  <2>5. CASE m = n
    <3>1. state = "installed"
      <4>1. SUFFICES ASSUME state = "downloading" PROVE FALSE
        BY <2>1
      <4>2. worker' # None /\ Fetched' = n
        BY <1>a, <2>1, <2>3, <4>1 DEF Fetched, Job, None
      <4>3. QED
        BY <1>b, <2>5, <4>2
    <3>2. MarkedAndQuiet(m)
      BY <1>a, <2>1, <2>2, <2>5, <3>1 DEF MarkedAndQuiet, IsInstalled, JobsOf, Downloading
    <3>3. MarkedAndQuiet(m)'
      <4>1. \A i \in JobsOf(m)' : jobs'[i].state # "downloading"
        BY <1>a, <2>2, <2>3, <3>1 DEF JobsOf, Job, Downloading
      <4>2. QED
        BY <2>2, <3>2, <4>1 DEF MarkedAndQuiet, disk
    <3>4. Status(m) = "installed"
      BY <3>2, MarkedStatus
    <3>5. Status(m)' = "installed"
      BY <3>3, MarkedStatusNext
    <3>6. QED
      BY <1>a, <1>b, <2>1, <2>2, <3>1, <3>4, <3>5
  <2>6. QED
    BY <2>4, <2>5
<1>2. ASSUME NEW n \in Models, RemoveModel(n) PROVE told'[m] = Status(m)'
  <2>1. jobs' = jobs
    BY <1>2 DEF RemoveModel
  <2>2. Idle(m)
    BY <1>2, <1>a, <1>b DEF RemoveModel, thread, Fetched
  <2>3. QED
    BY <1>2, <1>d, <1>e, <2>1, <2>2 DEF RemoveModel, disk
<1>3. ASSUME CancelNamed PROVE told'[m] = Status(m)'
  <2>1. JobsOf(m)' = JobsOf(m)
    BY <1>3, <1>a, CancelKeeps DEF JobsOf
  <2>2. \A i \in JobsOf(m) : jobs'[i].state = jobs[i].state
    BY <1>3, <1>a, CancelKeeps DEF JobsOf
  <2>3. QED
    BY <1>3, <1>a, <1>b, <1>d, <2>1, <2>2, CancelKeeps DEF disk, thread
<1>4. ASSUME NEW n \in Models \cup {Legacy}, NEW p \in Providers, Select(n, p)
      PROVE  told'[m] = Status(m)'
  BY <1>4, <1>b, <1>d, <1>e DEF Select, thread, disk, Fetched
<1>5. ASSUME RemoveFile PROVE told'[m] = Status(m)'
  <2>1. marker'[m] = marker[m]
    BY <1>5, <1>a, <1>b DEF RemoveFile, TypeOK
  <2>2. QED
    BY <1>5, <1>b, <1>d, <1>e, <2>1 DEF RemoveFile, thread, Fetched
<1>6. ASSUME Removed PROVE told'[m] = Status(m)'
  <2>1. PICK n \in Models : n = removing /\ EmitChanged(n)
    BY <1>6 DEF Removed
  <2>2. CASE m = n
    BY <1>c, <2>1, <2>2 DEF EmitChanged
  <2>3. CASE m # n
    <3>1. told'[m] = told[m]
      BY <1>c, <2>1, <2>3 DEF EmitChanged
    <3>2. jobs' = jobs /\ Idle(m) /\ marker'[m] = marker[m]
      BY <1>6, <1>b, <2>1, <2>3 DEF Removed, thread, disk, Fetched
    <3>3. QED
      BY <1>d, <1>e, <3>1, <3>2
  <2>4. QED
    BY <2>2, <2>3
<1>7. ASSUME RemovalFails PROVE told'[m] = Status(m)'
  BY <1>7, <1>b, <1>d, <1>e DEF RemovalFails, thread, disk, Fetched
<1>8. ASSUME FetchStep PROVE told'[m] = Status(m)'
  <2>1. /\ worker # None /\ Fetched' = Fetched /\ jobs' = jobs /\ worker' = worker
        /\ UNCHANGED <<removing, cut, told>>
    BY <1>8, <1>a, FetchSteps DEF Fetched
  <2>2. Idle(m)
    BY <1>b, <2>1
  <2>3. marker'[m] = marker[m]
    BY <1>8, <1>a, <2>1, <2>2
       DEF FetchStep, CreateDirectory, FetchPart, FetchRest, FetchFails, Report, Mark, disk, TypeOK
  <2>4. QED
    BY <1>d, <1>e, <2>1, <2>2, <2>3
<1>9. ASSUME EndStep PROVE told'[m] = Status(m)'
  <2>1. PICK state \in ModelState \ {"downloading"} : worker # None /\ End(state)
    BY <1>9, <1>a, EndSteps
  <2>2. /\ worker \in Indices /\ Ended(state) \in JobSet /\ ChangesJob(worker, Ended(state))
        /\ UNCHANGED <<disk, removing, cut>>
    BY <1>a, <2>1, EndEnds
  <2>3. PICK n \in Models : n = Fetched /\ EmitJob(n, state)
    BY <1>a, <2>1, EndEnds
  <2>4. CASE m = n
    BY <1>c, <2>1, <2>3, <2>4 DEF EmitJob
  <2>5. CASE m # n
    <3>1. told'[m] = told[m]
      BY <1>c, <2>3, <2>5 DEF EmitJob
    <3>2. Ended(state).model = n
      BY <1>a, <2>2, <2>3 DEF Ended, JobSet, Fetched
    <3>3. /\ Indices' = Indices
          /\ \A i \in Indices : jobs'[i] = IF i = worker THEN Ended(state) ELSE jobs[i]
      BY <1>a, <2>2, JobChanged
    <3>4. JobsOf(m)' = JobsOf(m) /\ \A i \in JobsOf(m) : jobs'[i].state = jobs[i].state
      BY <2>3, <2>5, <3>2, <3>3 DEF JobsOf, Fetched
    <3>5. Idle(m)
      BY <1>b, <2>2, <2>3, <2>5
    <3>6. QED
      BY <1>d, <2>2, <3>1, <3>4, <3>5 DEF disk
  <2>6. QED
    BY <2>4, <2>5
<1>10. ASSUME Crash PROVE told'[m] = Status(m)'
  BY <1>10 DEF Crash, Listed, StatusOf
<1>11. ASSUME UNCHANGED vars PROVE told'[m] = Status(m)'
  BY <1>11, <1>b, <1>d, <1>e DEF vars, thread, disk, Fetched
<1>12. QED
  BY <1>1, <1>2, <1>3, <1>4, <1>5, <1>6, <1>7, <1>8, <1>9, <1>10, <1>11, RunSteps DEF Next

\* ToldTheTruth: the host never keeps an old picture of a model at rest.
THEOREM HostIsToldTheTruth == Spec => []ToldTheTruth
<1>1. Init => ToldTheTruth
  BY DEF Init, ToldTheTruth
<1>2. ThreadInv /\ ToldTheTruth /\ [Next]_vars => ToldTheTruth'
  BY StepTold
<1>3. QED
  BY <1>1, <1>2, ThreadInvHolds, PTL DEF Spec

-----------------------------------------------------------------------------
(***************************************************************************)
(* Sequences and sets of numbers in StreamingDictation                     *)
(***************************************************************************)

\* The beginning of a sequence, and what is behind it.
LEMMA UptoIs ==
  ASSUME NEW S, NEW s \in Seq(S), NEW n \in 0..Len(s)
  PROVE  /\ Upto(s, n) \in Seq(S) /\ Len(Upto(s, n)) = n
         /\ \A i \in 1..n : Upto(s, n)[i] = s[i]
<1>1. Len(s) \in Nat /\ \A i \in 1..Len(s) : s[i] \in S
  BY ElementOfSeq, LenProperties
<1>2. n \in Int /\ 1 \in Int /\ \A i \in 1..n : s[i] \in S
  BY <1>1
<1>3. /\ SubSeq(s, 1, n) \in Seq(S) /\ Len(SubSeq(s, 1, n)) = IF 1 <= n THEN n - 1 + 1 ELSE 0
      /\ \A i \in 1..(n - 1 + 1) : SubSeq(s, 1, n)[i] = s[1 + i - 1]
  BY <1>2, SubSeqProperties
<1>4. QED
  BY <1>1, <1>3 DEF Upto

LEMMA FromIs ==
  ASSUME NEW S, NEW s \in Seq(S), NEW n \in 0..Len(s)
  PROVE  /\ From(s, n) \in Seq(S) /\ Len(From(s, n)) = Len(s) - n
         /\ \A i \in 1..(Len(s) - n) : From(s, n)[i] = s[n + i]
<1>1. Len(s) \in Nat /\ \A i \in 1..Len(s) : s[i] \in S
  BY ElementOfSeq, LenProperties
<1> DEFINE b == n + 1  e == Len(s)
<1>2. b \in Int /\ e \in Int /\ \A i \in b..e : s[i] \in S
  BY <1>1
<1>3. From(s, n) = SubSeq(s, b, e)
  BY DEF From
<1>4. b = n + 1 /\ e = Len(s)
  OBVIOUS
<1> HIDE DEF b, e
<1>5. /\ SubSeq(s, b, e) \in Seq(S) /\ Len(SubSeq(s, b, e)) = IF b <= e THEN e - b + 1 ELSE 0
      /\ \A i \in 1..(e - b + 1) : SubSeq(s, b, e)[i] = s[b + i - 1]
  BY <1>2, SubSeqProperties
<1>6. Len(From(s, n)) = Len(s) - n
  BY <1>1, <1>3, <1>4, <1>5
<1>7. ASSUME NEW i \in 1..(Len(s) - n) PROVE From(s, n)[i] = s[n + i]
  <2>1. i \in 1..(e - b + 1) /\ b + i - 1 = n + i
    BY <1>1, <1>4
  <2>2. QED
    BY <1>3, <1>5, <2>1
<1>8. QED
  BY <1>3, <1>5, <1>6, <1>7

\* All of a sequence, and nothing of it.
LEMMA FromStart ==
  ASSUME NEW S, NEW s \in Seq(S)
  PROVE  From(s, 0) = s /\ Upto(s, Len(s)) = s
<1>1. Len(s) \in Nat
  BY LenProperties
<1>2. From(s, 0) = SubSeq(s, 1, Len(s)) /\ Upto(s, Len(s)) = SubSeq(s, 1, Len(s))
  <2>1. 0 + 1 = 1
    OBVIOUS
  <2>2. QED
    BY <2>1 DEF From, Upto
<1>3. QED
  BY <1>2, SubSeqFull

\* The greatest and the least of a set of numbers, where they are known.
LEMMA MostIs ==
  ASSUME NEW I, I \subseteq Int, NEW x \in I, \A y \in I : y <= x
  PROVE  Most(I) = x
<1>1. Most(I) \in I /\ \A y \in I : y <= Most(I)
  BY DEF Most
<1> HIDE DEF Most
<1>2. Most(I) \in Int /\ x \in Int /\ x <= Most(I) /\ Most(I) <= x
  BY <1>1
<1>3. QED
  BY <1>2

LEMMA LeastIs ==
  ASSUME NEW I, I \subseteq Int, NEW x \in I, \A y \in I : x <= y
  PROVE  Least(I) = x
<1>1. Least(I) \in I /\ \A y \in I : Least(I) <= y
  BY DEF Least
<1> HIDE DEF Least
<1>2. Least(I) \in Int /\ x \in Int /\ x <= Least(I) /\ Least(I) <= x
  BY <1>1
<1>3. QED
  BY <1>2

\* A set of numbers with a bound has a greatest one: the smallest of the
\* intervals i+1..n.
LEMMA MostOfBounded ==
  ASSUME NEW n \in Nat, NEW I, I \subseteq 0..n, I # {}
  PROVE  Most(I) \in I /\ \A y \in I : y <= Most(I)
<1> DEFINE T == {(i + 1)..n : i \in I}
<1>1. T \subseteq FiniteSubsetsOf(Nat) /\ T # {}
  <2>1. \A i \in I : i + 1 \in Int /\ n \in Int /\ (i + 1)..n \subseteq Nat
    OBVIOUS
  <2>2. \A i \in I : IsFiniteSet((i + 1)..n)
    BY <2>1, FS_Interval
  <2>3. QED
    BY <2>1, <2>2 DEF FiniteSubsetsOf
<1>2. PICK x \in T : \A y \in T : ~(<<y, x>> \in StrictSubsetOrdering(Nat))
  BY <1>1, FS_StrictSubsetOrderingWellFounded, WFMin
<1>3. PICK i \in I : x = (i + 1)..n
  BY <1>2
<1>4. ASSUME NEW k \in I, k > i PROVE FALSE
  <2>1. ~(<<(k + 1)..n, (i + 1)..n>> \in StrictSubsetOrdering(Nat))
    BY <1>2, <1>3
  <2>2. /\ (k + 1)..n \subseteq (i + 1)..n /\ k \in (i + 1)..n /\ k \notin (k + 1)..n
        /\ (k + 1)..n \subseteq Nat /\ (i + 1)..n \subseteq Nat
    BY <1>4
  <2>3. QED
    BY <2>1, <2>2 DEF StrictSubsetOrdering
<1>5. \A k \in I : k <= i
  BY <1>4
<1>6. I \subseteq Int
  OBVIOUS
<1>7. Most(I) = i
  BY <1>5, <1>6, MostIs
<1>8. QED
  BY <1>5, <1>7

\* Two texts, one after the other.
LEMMA AppendedIs ==
  ASSUME NEW S, NEW s \in Seq(S), NEW t \in Seq(S)
  PROVE  /\ s \o t \in Seq(S) /\ Len(s \o t) = Len(s) + Len(t)
         /\ \A i \in 1..(Len(s) + Len(t)) : (s \o t)[i] = IF i <= Len(s) THEN s[i] ELSE t[i - Len(s)]
BY ConcatProperties

-----------------------------------------------------------------------------
(***************************************************************************)
(* The invariant of the streaming dictation                                *)
(***************************************************************************)
Text == Words \cup {Noise}
Timed == [text : Text, end : Nat]
Hypotheses == [committed : Seq(Timed), buffer : Seq(Timed), last : Nat]

\* The processor belongs to a recording until its final thread has reset it.
StreamTypes ==
  /\ driver \in {"dictate", "file"} /\ way \in {"segment", "sentence"} /\ english \in BOOLEAN
  /\ recording \in BOOLEAN /\ processing \in BOOLEAN /\ stop \in BOOLEAN /\ reader \in BOOLEAN
  /\ speech \in Seq(Words) /\ heard \in Nat /\ drained \in Nat
  /\ loop \in {"wait", "type", "ended"} /\ final \in {"join", "copy", "reset", "ended"}
Working == recording \/ final = "join"
Owned ==
  /\ processing <=> final # "ended"
  /\ recording => final = "ended" /\ ~stop
  /\ loop # "ended" => Working
  /\ final = "join" => stop
  /\ driver = "file" => loop = "ended" /\ final = "ended" /\ heard = 0
  /\ driver = "dictate" /\ Working => drained <= heard

\* What was committed is the beginning of what was said, and what was not
\* popped of it is its end.
Known == Len(commited)
CommittedWell ==
  /\ hypothesis \in Hypotheses /\ commited \in Seq(Timed)
  /\ Known <= Len(speech) /\ hypothesis.last = Known
  /\ \A i \in 1..Known : commited[i].text = speech[i] /\ commited[i].end = i
  /\ Len(hypothesis.committed) <= Known
  /\ \A i \in 1..Len(hypothesis.committed) :
       hypothesis.committed[i].text = speech[Known - Len(hypothesis.committed) + i]

\* The last hypothesis goes on from there; only the word that its audio ended
\* in can be misheard.
Reach == Known + Len(hypothesis.buffer)
Ragged == hypothesis.buffer # <<>> /\ hypothesis.buffer[Len(hypothesis.buffer)].text = Noise
Buffered ==
  /\ Reach <= drained /\ Reach <= Len(speech)
  /\ \A i \in 1..Len(hypothesis.buffer) :
       \/ hypothesis.buffer[i].text = speech[Known + i]
       \/ i = Len(hypothesis.buffer) /\ hypothesis.buffer[i].text = Noise /\ Reach < Len(speech)
  /\ right = IF Ragged THEN Reach - 1 ELSE Reach

\* The audio buffer begins within what was committed, and ends behind a word.
Cut ==
  /\ offset = audioFrom /\ audioFrom \in 0..Known
  /\ audioFrom # 0 => audioFrom < drained /\ audioFrom < Len(speech)

\* What was committed is typed, or is being typed.
Waiting == IF loop = "type" THEN Len(output) ELSE 0
Typing ==
  /\ typed \in Seq(Text) /\ output \in Seq(Text) /\ lastChunk \in Seq(Text)
  /\ Len(typed) + Waiting = Known
  /\ \A i \in 1..Len(typed) : typed[i] = speech[i]
  /\ loop = "type" => \A i \in 1..Len(output) : output[i] = speech[Len(typed) + i]
  /\ lastChunk # <<>> => \E j \in 1..Len(typed) : lastChunk[1] = speech[j]
  /\ copied = <<>>

\* All that was heard right is typed.
AllTyped ==
  /\ typed \in Seq(Text) /\ right \in 0..Len(speech)
  /\ \A i \in 1..right : typed[i] = speech[i]
  /\ \/ Len(typed) = right
     \/ Len(typed) = right + 1 /\ typed[right + 1] = Noise
  /\ copied \in {<<>>, typed}
InWork == CommittedWell /\ Buffered /\ Cut /\ Typing
Followed == Plain /\ way = "segment" => IF Working THEN InWork ELSE AllTyped

StreamInv == StreamTypes /\ Owned /\ Followed

-----------------------------------------------------------------------------
(***************************************************************************)
(* What the recogniser hears, and what of it agrees with the last          *)
(* hypothesis                                                              *)
(***************************************************************************)

\* The last word that is wholly in the audio up to tick `to'.
Ending(to) == IF to <= Len(speech) THEN to ELSE Len(speech)

\* The processor is about to listen to the audio up to a later tick.
Listening(to) ==
  /\ StreamTypes /\ Plain /\ CommittedWell /\ Buffered /\ Cut
  /\ to \in Nat /\ to > 0 /\ drained <= to
  /\ to > drained \/ to > Len(speech)
HeardWell(words, to) ==
  /\ words \in Seq(Timed) /\ Len(words) = Ending(to) - audioFrom
  /\ \A i \in 1..Len(words) :
       /\ words[i].end = audioFrom + i
       /\ \/ words[i].text = speech[audioFrom + i]
          \/ words[i].text = Noise /\ audioFrom + i = to /\ to < Len(speech)

\* Some numbers that the invariant relates.
LEMMA Bounds ==
  ASSUME NEW to, Listening(to)
  PROVE  /\ Len(speech) \in Nat /\ Known \in Nat /\ audioFrom \in Nat /\ Ending(to) \in Nat
         /\ Len(hypothesis.buffer) \in Nat /\ Reach \in Nat /\ Len(hypothesis.committed) \in Nat
         /\ audioFrom <= Known /\ Known <= Reach /\ Reach <= Ending(to) /\ Ending(to) <= to
         /\ hypothesis.buffer \in Seq(Timed) /\ hypothesis.committed \in Seq(Timed)
         /\ hypothesis.last = Known /\ offset = audioFrom
<1>1. hypothesis.buffer \in Seq(Timed) /\ hypothesis.committed \in Seq(Timed)
  BY DEF Listening, CommittedWell, Hypotheses
<1>2. /\ Len(speech) \in Nat /\ Known \in Nat /\ Len(hypothesis.buffer) \in Nat
      /\ Len(hypothesis.committed) \in Nat
  BY <1>1, LenProperties DEF Listening, StreamTypes, CommittedWell, Known
<1>3. drained \in Nat /\ to \in Nat /\ drained <= to /\ Reach <= drained /\ Reach <= Len(speech)
  BY DEF Listening, StreamTypes, Buffered
<1>4. offset = audioFrom /\ audioFrom \in 0..Known /\ hypothesis.last = Known
  BY DEF Listening, Cut, CommittedWell
<1>5. Reach = Known + Len(hypothesis.buffer)
  BY DEF Reach
<1>6. QED
  BY <1>1, <1>2, <1>3, <1>4, <1>5 DEF Ending

\* A hypothesis has the words of the audio buffer, but for the one it ends in.
LEMMA HearingIs ==
  ASSUME NEW to, Listening(to), NEW words \in Hearings(to)
  PROVE  HeardWell(words, to)
<1> DEFINE I == {n \in audioFrom + 1..to : Inside(n)}
           size == IF I = {} THEN 0 ELSE Most(I) - audioFrom
           right1 == [i \in 1..size |-> [text |-> speech[audioFrom + i], end |-> offset + i]]
<1>1. /\ Len(speech) \in Nat /\ audioFrom \in Nat /\ Ending(to) \in Nat /\ to \in Nat
      /\ audioFrom <= Ending(to) /\ Ending(to) <= to /\ offset = audioFrom
  BY Bounds DEF Listening
<1>2. I = audioFrom + 1..Ending(to)
  BY <1>1 DEF Inside, Ending
<1>3. size = Ending(to) - audioFrom
  <2>1. CASE audioFrom = Ending(to)
    BY <1>1, <1>2, <2>1
  <2>2. CASE audioFrom < Ending(to)
    <3>1. Ending(to) \in I /\ I \subseteq Int /\ \A y \in I : y <= Ending(to)
      BY <1>1, <1>2, <2>2
    <3>2. Most(I) = Ending(to)
      BY <3>1, MostIs
    <3>3. QED
      BY <3>1, <3>2
  <2>3. QED
    BY <1>1, <2>1, <2>2
<1>4. \A i \in 1..size : speech[audioFrom + i] \in Words
  <2>1. \A i \in 1..size : audioFrom + i \in 1..Len(speech)
    BY <1>1, <1>3 DEF Ending
  <2>2. speech \in Seq(Words)
    BY DEF Listening, StreamTypes
  <2>3. QED
    BY <2>1, <2>2, ElementOfSeq
<1>5. \/ words = right1
      \/ /\ size > 0 /\ audioFrom + size = to /\ Inside(to + 1)
         /\ words = [right1 EXCEPT ![size].text = Noise]
  BY DEF Hearings
<1> HIDE DEF size
<1>6. size \in Nat
  BY <1>1, <1>3
<1>7. \A i \in 1..size : [text |-> speech[audioFrom + i], end |-> offset + i] \in Timed
  <2> SUFFICES ASSUME NEW i \in 1..size
               PROVE  [text |-> speech[audioFrom + i], end |-> offset + i] \in Timed
    OBVIOUS
  <2>1. speech[audioFrom + i] \in Text
    BY <1>4 DEF Text
  <2>2. offset + i \in Nat
    BY <1>1, <1>6
  <2>3. QED
    BY <2>1, <2>2 DEF Timed
<1>8. right1 \in [1..size -> Timed] /\ right1 \in Seq(Timed) /\ Len(right1) = size
  BY <1>6, <1>7, SeqDef
<1>9. \A i \in 1..size : right1[i] = [text |-> speech[audioFrom + i], end |-> audioFrom + i]
  BY <1>1
<1> HIDE DEF right1
<1>10. CASE words = right1
  BY <1>3, <1>8, <1>9, <1>10 DEF HeardWell
<1>11. CASE /\ size > 0 /\ audioFrom + size = to /\ Inside(to + 1)
            /\ words = [right1 EXCEPT ![size].text = Noise]
  <2> DEFINE last1 == [text |-> Noise, end |-> audioFrom + size]
  <2>1. size \in 1..size /\ size \in 1..Len(right1)
    BY <1>6, <1>8, <1>11
  <2>2. [right1[size] EXCEPT !.text = Noise] = last1
    <3>1. right1[size] = [text |-> speech[audioFrom + size], end |-> audioFrom + size]
      BY <1>9, <2>1
    <3>2. QED
      BY <3>1
  <2>3. last1 \in Timed
    BY <1>1, <1>6 DEF Timed, Text
  <2>4. words = [right1 EXCEPT ![size] = last1]
    BY <1>11, <2>2
  <2> HIDE DEF last1
  <2>5. /\ words \in Seq(Timed) /\ Len(words) = size
        /\ \A i \in 1..size : words[i] = IF i = size THEN last1 ELSE right1[i]
    BY <1>8, <2>1, <2>3, <2>4, ExceptSeq
  <2>6. to < Len(speech)
    BY <1>1, <1>11 DEF Inside
  <2>7. \A i \in 1..size :
          /\ words[i].end = audioFrom + i
          /\ \/ words[i].text = speech[audioFrom + i]
             \/ words[i].text = Noise /\ audioFrom + i = to /\ to < Len(speech)
    BY <1>9, <1>11, <2>5, <2>6 DEF last1
  <2>8. QED
    BY <1>3, <2>5, <2>7 DEF HeardWell
<1>12. QED
  BY <1>5, <1>10, <1>11

\* The words behind the last committed one are kept: none of them repeats it,
\* for nobody says a word twice.
LEMMA FreshIs ==
  ASSUME NEW to, Listening(to), NEW words, HeardWell(words, to)
  PROVE  /\ Fresh(hypothesis, words) = From(words, Known - audioFrom)
         /\ Known - audioFrom \in 0..Len(words)
<1> DEFINE I == {n \in 0..Len(words) : \A i \in 1..n : words[i].end - 1 < hypothesis.last}
           k == Known - audioFrom
<1>1. /\ audioFrom \in Nat /\ Known \in Nat /\ Ending(to) \in Nat /\ audioFrom <= Known
      /\ Known <= Ending(to) /\ hypothesis.last = Known
  BY Bounds
<1>2. /\ Len(words) = Ending(to) - audioFrom
      /\ \A i \in 1..Len(words) : words[i].end = audioFrom + i
  BY DEF HeardWell
<1>3. k \in 0..Len(words)
  BY <1>1, <1>2
<1>4. k \in I
  BY <1>1, <1>2, <1>3
<1>5. ASSUME NEW n \in I PROVE n <= k
  <2> SUFFICES ASSUME n > k PROVE FALSE
    BY <1>1
  <2>1. k + 1 \in 1..n /\ k + 1 \in 1..Len(words)
    BY <1>1, <1>3
  <2>2. words[k + 1].end - 1 < Known
    BY <1>1, <2>1
  <2>3. words[k + 1].end = audioFrom + (k + 1)
    BY <1>2, <2>1
  <2>4. QED
    BY <1>1, <2>2, <2>3
<1>6. Most(I) = k
  <2>1. I \subseteq Int
    BY <1>1, <1>2
  <2>2. QED
    BY <1>4, <1>5, <2>1, MostIs
<1>7. QED
  BY <1>3, <1>6 DEF Fresh

\* What is new: the words from the last committed one on.
NewWell(new, to) ==
  /\ new \in Seq(Timed) /\ Len(new) = Ending(to) - Known
  /\ \A i \in 1..Len(new) :
       /\ new[i].end = Known + i
       /\ \/ new[i].text = speech[Known + i]
          \/ new[i].text = Noise /\ Known + i = to /\ to < Len(speech)

LEMMA NewIs ==
  ASSUME NEW to, Listening(to), NEW words, HeardWell(words, to)
  PROVE  /\ NewWell(Fresh(hypothesis, words), to)
         /\ \A i \in 1..Len(Fresh(hypothesis, words)) :
              Fresh(hypothesis, words)[i] = words[Known - audioFrom + i]
<1> DEFINE k == Known - audioFrom  new == Fresh(hypothesis, words)
<1>1. /\ audioFrom \in Nat /\ Known \in Nat /\ Ending(to) \in Nat /\ audioFrom <= Known
      /\ Known <= Ending(to)
  BY Bounds
<1>2. /\ words \in Seq(Timed) /\ Len(words) = Ending(to) - audioFrom
      /\ \A i \in 1..Len(words) :
           /\ words[i].end = audioFrom + i
           /\ \/ words[i].text = speech[audioFrom + i]
              \/ words[i].text = Noise /\ audioFrom + i = to /\ to < Len(speech)
  BY DEF HeardWell
<1>3. new = From(words, k) /\ k \in 0..Len(words)
  BY FreshIs
<1> HIDE DEF new
<1>4. /\ new \in Seq(Timed) /\ Len(new) = Len(words) - k
      /\ \A i \in 1..(Len(words) - k) : new[i] = words[k + i]
  BY <1>2, <1>3, FromIs
<1>5. Len(new) = Ending(to) - Known
  BY <1>1, <1>2, <1>4
<1>6. ASSUME NEW i \in 1..Len(new)
      PROVE  /\ new[i] = words[k + i] /\ new[i].end = Known + i
             /\ \/ new[i].text = speech[Known + i]
                \/ new[i].text = Noise /\ Known + i = to /\ to < Len(speech)
  <2>1. k + i \in 1..Len(words) /\ audioFrom + (k + i) = Known + i /\ i \in 1..(Len(words) - k)
    BY <1>1, <1>2, <1>4
  <2>2. QED
    BY <1>2, <1>4, <2>1
<1>7. QED
  BY <1>4, <1>5, <1>6 DEF NewWell, new

\* The texts of timed words.
LEMMA TextsIs ==
  ASSUME NEW w \in Seq(Timed)
  PROVE  /\ Texts(w) \in Seq(Text) /\ Len(Texts(w)) = Len(w)
         /\ \A i \in 1..Len(w) : Texts(w)[i] = w[i].text
<1>1. Len(w) \in Nat /\ DOMAIN w = 1..Len(w) /\ \A i \in 1..Len(w) : w[i] \in Timed
  BY LenProperties, ElementOfSeq
<1>2. \A i \in 1..Len(w) : w[i].text \in Text
  BY <1>1 DEF Timed
<1>3. Texts(w) \in [1..Len(w) -> Text]
  BY <1>1, <1>2 DEF Texts
<1>4. Texts(w) \in Seq(Text) /\ Len(Texts(w)) = Len(w)
  BY <1>1, <1>3, SeqDef
<1>5. QED
  BY <1>1, <1>4 DEF Texts

LEMMA NoRepetition ==
  ASSUME NEW to, Listening(to), NEW new, NewWell(new, to)
  PROVE  Repetition(hypothesis, new) = 0
<1> DEFINE runs == {n \in 1..MaxNgram :
                      /\ n <= Len(hypothesis.committed) /\ n <= Len(new)
                      /\ Texts(From(hypothesis.committed, Len(hypothesis.committed) - n)) = Texts(Upto(new, n))}
<1>1. /\ Known \in Nat /\ Ending(to) \in Nat /\ Len(hypothesis.committed) \in Nat /\ Len(speech) \in Nat
      /\ hypothesis.committed \in Seq(Timed) /\ Ending(to) <= Len(speech)
  BY Bounds DEF Ending
<1>2. Len(hypothesis.committed) <= Known
  BY DEF Listening, CommittedWell
<1>3. ASSUME NEW n \in runs PROVE FALSE
  <2> DEFINE old == From(hypothesis.committed, Len(hypothesis.committed) - n)
             head == Upto(new, n)
  <2>1. /\ n \in Nat /\ n >= 1 /\ n <= Len(hypothesis.committed) /\ n <= Len(new)
        /\ Texts(old) = Texts(head) /\ new \in Seq(Timed)
    BY DEF NewWell, MaxNgram
  <2>2. Len(new) \in Nat /\ n \in 0..Len(new) /\ Len(hypothesis.committed) - n \in 0..Len(hypothesis.committed)
    BY <1>1, <2>1, LenProperties
  <2>3. /\ old \in Seq(Timed) /\ Len(old) = n
        /\ old[1] = hypothesis.committed[Len(hypothesis.committed) - n + 1]
    <3>1. /\ old \in Seq(Timed) /\ Len(old) = Len(hypothesis.committed) - (Len(hypothesis.committed) - n)
          /\ \A i \in 1..(Len(hypothesis.committed) - (Len(hypothesis.committed) - n)) :
               old[i] = hypothesis.committed[Len(hypothesis.committed) - n + i]
      BY <1>1, <2>2, FromIs
    <3>2. n \in Nat /\ n >= 1
      BY <2>1
    <3>3. Len(hypothesis.committed) - (Len(hypothesis.committed) - n) = n /\ 1 \in 1..n
      BY <1>1, <3>2
    <3>4. QED
      BY <3>1, <3>3
  <2>4. head \in Seq(Timed) /\ Len(head) = n /\ head[1] = new[1]
    BY <2>1, <2>2, UptoIs
  <2> HIDE DEF old, head
  <2>5. old[1].text = head[1].text
    BY <2>1, <2>3, <2>4, TextsIs
  <2>6. hypothesis.committed[Len(hypothesis.committed) - n + 1].text = speech[Known - n + 1]
    <3>1. Len(hypothesis.committed) - n + 1 \in 1..Len(hypothesis.committed)
      BY <1>1, <2>1
    <3>2. Known - Len(hypothesis.committed) + (Len(hypothesis.committed) - n + 1) = Known - n + 1
      <4>1. \A k, l, m \in Int : k - l + (l - m + 1) = k - m + 1
        OBVIOUS
      <4>2. Known \in Int /\ Len(hypothesis.committed) \in Int /\ n \in Int
        BY <1>1, <2>1
      <4>3. QED
        BY <4>1, <4>2
    <3>3. QED
      BY <3>1, <3>2 DEF Listening, CommittedWell
  <2>7. Known + 1 \in 1..Len(speech) /\ Known - n + 1 \in 1..Len(speech) /\ Known - n + 1 # Known + 1
    BY <1>1, <1>2, <2>1 DEF NewWell
  <2>8. new[1].text = speech[Known + 1] \/ new[1].text = Noise
    BY <2>1, <2>2 DEF NewWell
  <2>9. speech \in Seq(Words)
    BY DEF Listening, StreamTypes
  <2>10. speech[Known - n + 1] # Noise
    BY <2>7, <2>9, ElementOfSeq DEF Words
  <2>11. DOMAIN speech = 1..Len(speech)
    BY <2>9, LenProperties
  <2>12. QED
    BY <2>3, <2>4, <2>5, <2>6, <2>7, <2>8, <2>10, <2>11 DEF Listening, Plain
<1>4. runs = {}
  BY <1>3
<1>5. QED
  BY <1>4 DEF Repetition

\* What two hypotheses agree on was heard right, and is committed: a word that
\* the audio ended in then is followed by another one now.
Flushed(f, words, to, a) ==
  /\ a \in 0..(Ending(to) - Known)
  /\ f = [commit |-> f.commit,
          next |-> [committed |-> hypothesis.committed \o f.commit,
                    buffer |-> f.next.buffer, last |-> Known + a]]
  /\ f.commit \in Seq(Timed) /\ Len(f.commit) = a
  /\ \A i \in 1..a : /\ f.commit[i] = words[Known - audioFrom + i]
                    /\ f.commit[i].text = speech[Known + i] /\ f.commit[i].end = Known + i
  /\ f.next.buffer \in Seq(Timed) /\ Len(f.next.buffer) = Ending(to) - Known - a
  /\ \A i \in 1..(Ending(to) - Known - a) :
       /\ f.next.buffer[i] = words[Known - audioFrom + a + i]
       /\ \/ f.next.buffer[i].text = speech[Known + a + i]
          \/ f.next.buffer[i].text = Noise /\ Known + a + i = to /\ to < Len(speech)

LEMMA FlushIs ==
  ASSUME NEW to, Listening(to), NEW words, HeardWell(words, to),
         NEW f, f = Flush(hypothesis, words)
  PROVE  \E a : Flushed(f, words, to, a)
<1> DEFINE new == Fresh(hypothesis, words)
           old == hypothesis.buffer
           I == {n \in 0..Len(new) : n <= Len(old) /\ Texts(Upto(new, n)) = Texts(Upto(old, n))}
           a == Most(I)
<1>1. /\ Known \in Nat /\ Ending(to) \in Nat /\ Known <= Ending(to) /\ audioFrom \in Nat
      /\ old \in Seq(Timed) /\ Len(old) \in Nat /\ Len(speech) \in Nat /\ hypothesis.last = Known
      /\ Ending(to) <= Len(speech) /\ to \in Nat /\ audioFrom <= Known
  BY Bounds DEF Ending, Listening
<1>2. NewWell(new, to) /\ \A i \in 1..Len(new) : new[i] = words[Known - audioFrom + i]
  BY NewIs
<1>3. From(new, Repetition(hypothesis, new)) = new
  <2>1. Repetition(hypothesis, new) = 0 /\ new \in Seq(Timed)
    BY <1>2, NoRepetition DEF NewWell
  <2>2. QED
    BY <2>1, FromStart
<1>4. f = [commit |-> Upto(new, a),
           next |-> [committed |-> hypothesis.committed \o Upto(new, a),
                     buffer |-> From(new, a),
                     last |-> IF a = 0 THEN hypothesis.last ELSE new[a].end]]
  BY <1>3 DEF Flush
<1> HIDE DEF new, old
<1>5. new \in Seq(Timed) /\ Len(new) = Ending(to) - Known /\ Len(new) \in Nat
  BY <1>1, <1>2 DEF NewWell
<1>6. 0 \in I
  <2>1. Upto(new, 0) \in Seq(Timed) /\ Len(Upto(new, 0)) = 0 /\ Upto(old, 0) \in Seq(Timed) /\ Len(Upto(old, 0)) = 0
    BY <1>1, <1>5, UptoIs
  <2>2. Upto(new, 0) = Upto(old, 0)
    BY <2>1, SeqEqual
  <2>3. QED
    BY <1>1, <1>5, <2>2
<1>7. a \in I
  <2>1. I \subseteq 0..Len(new) /\ I # {}
    BY <1>6
  <2>2. QED
    BY <1>5, <2>1, MostOfBounded
<1>8. a \in 0..Len(new) /\ a \in 0..Len(old) /\ Texts(Upto(new, a)) = Texts(Upto(old, a))
  BY <1>1, <1>7
<1> HIDE DEF I, a
<1>9. /\ Upto(new, a) \in Seq(Timed) /\ Len(Upto(new, a)) = a
      /\ \A i \in 1..a : Upto(new, a)[i] = new[i]
  BY <1>5, <1>8, UptoIs
<1>10. /\ Upto(old, a) \in Seq(Timed) /\ Len(Upto(old, a)) = a
       /\ \A i \in 1..a : Upto(old, a)[i] = old[i]
  BY <1>1, <1>8, UptoIs
<1>11. ASSUME NEW i \in 1..a PROVE new[i].text = speech[Known + i] /\ new[i].end = Known + i
  <2>1. i \in 1..Len(new) /\ i \in 1..Len(old)
    BY <1>1, <1>5, <1>8
  <2>2. /\ new[i].end = Known + i
        /\ \/ new[i].text = speech[Known + i]
           \/ new[i].text = Noise /\ Known + i = to /\ to < Len(speech)
    BY <1>2, <2>1 DEF NewWell
  <2>3. new[i].text = old[i].text
    BY <1>8, <1>9, <1>10, TextsIs
  <2>4. \/ old[i].text = speech[Known + i]
        \/ i = Len(old)
    BY <2>1 DEF Listening, Buffered, old
  <2>5. ~(i = Len(old) /\ Known + i = to /\ to < Len(speech))
    BY <1>1 DEF Listening, Buffered, Reach, old, StreamTypes
  <2>6. QED
    BY <2>2, <2>3, <2>4, <2>5
<1>12. (IF a = 0 THEN hypothesis.last ELSE new[a].end) = Known + a
  BY <1>1, <1>8, <1>11
<1>13. /\ From(new, a) \in Seq(Timed) /\ Len(From(new, a)) = Len(new) - a
       /\ \A i \in 1..(Len(new) - a) : From(new, a)[i] = new[a + i]
  BY <1>5, <1>8, FromIs
<1>14. ASSUME NEW i \in 1..(Ending(to) - Known - a)
       PROVE  /\ From(new, a)[i] = words[Known - audioFrom + a + i]
              /\ \/ From(new, a)[i].text = speech[Known + a + i]
                 \/ From(new, a)[i].text = Noise /\ Known + a + i = to /\ to < Len(speech)
  <2>1. /\ a + i \in 1..Len(new) /\ i \in 1..(Len(new) - a) /\ Known + (a + i) = Known + a + i
        /\ Known - audioFrom + (a + i) = Known - audioFrom + a + i
    BY <1>1, <1>5, <1>8
  <2>2. From(new, a)[i] = new[a + i]
    BY <1>13, <2>1
  <2>3. new[a + i] = words[Known - audioFrom + a + i]
    BY <1>2, <2>1
  <2>4. \/ new[a + i].text = speech[Known + a + i]
        \/ new[a + i].text = Noise /\ Known + a + i = to /\ to < Len(speech)
    BY <1>2, <2>1 DEF NewWell
  <2>5. QED
    BY <2>2, <2>3, <2>4
<1>15. /\ f.commit = Upto(new, a) /\ f.next.buffer = From(new, a)
       /\ f = [commit |-> f.commit,
               next |-> [committed |-> hypothesis.committed \o f.commit,
                         buffer |-> f.next.buffer, last |-> Known + a]]
  <2> DEFINE next == [committed |-> hypothesis.committed \o Upto(new, a),
                      buffer |-> From(new, a), last |-> Known + a]
  <2>1. f = [commit |-> Upto(new, a), next |-> next]
    BY <1>4, <1>12
  <2>2. f.commit = Upto(new, a) /\ f.next = next
    BY <2>1
  <2>3. f.next.buffer = From(new, a)
    BY <2>2
  <2>4. QED
    BY <2>1, <2>2, <2>3
<1>16. a \in 0..(Ending(to) - Known)
  BY <1>5, <1>8
<1>17. ASSUME NEW i \in 1..a
       PROVE  /\ f.commit[i] = words[Known - audioFrom + i]
              /\ f.commit[i].text = speech[Known + i] /\ f.commit[i].end = Known + i
  <2>1. i \in 1..Len(new)
    BY <1>5, <1>8
  <2>2. f.commit[i] = new[i] /\ new[i] = words[Known - audioFrom + i]
    BY <1>2, <1>9, <1>15, <2>1
  <2>3. QED
    BY <1>11, <2>2
<1>18. Len(From(new, a)) = Ending(to) - Known - a
  BY <1>5, <1>13
<1>19. Flushed(f, words, to, a)
  BY <1>9, <1>13, <1>14, <1>15, <1>16, <1>17, <1>18 DEF Flushed
<1>20. QED
  BY <1>19

\* How many words of a hypothesis were heard right.
LEMMA RightWordsAre ==
  ASSUME NEW to, Listening(to), NEW words, HeardWell(words, to), words # <<>>
  PROVE  /\ Len(words) \in Nat \ {0}
         /\ Cardinality({i \in DOMAIN words : words[i].text # Noise})
              = IF words[Len(words)].text = Noise THEN Len(words) - 1 ELSE Len(words)
<1> DEFINE m == Len(words)  I == {i \in DOMAIN words : words[i].text # Noise}
<1>1. words \in Seq(Timed) /\ m = Ending(to) - audioFrom
  BY DEF HeardWell
<1>2. m \in Nat \ {0} /\ DOMAIN words = 1..m
  BY <1>1, EmptySeq, LenProperties
<1>3. audioFrom \in Nat /\ Ending(to) \in Nat /\ Ending(to) <= Len(speech) /\ Len(speech) \in Nat /\ to \in Nat
      /\ Ending(to) <= to
  BY Bounds DEF Ending, Listening
<1> HIDE DEF m
<1>4. ASSUME NEW i \in 1..m, words[i].text = Noise PROVE i = m
  <2>1. audioFrom + i \in 1..Len(speech)
    BY <1>1, <1>2, <1>3
  <2>2. speech[audioFrom + i] # Noise
    <3>1. speech \in Seq(Words)
      BY DEF Listening, StreamTypes
    <3>2. speech[audioFrom + i] \in Words
      BY <2>1, <3>1, ElementOfSeq
    <3>3. QED
      BY <3>2 DEF Words
  <2>3. audioFrom + i = to
    BY <1>4, <2>2 DEF HeardWell, m
  <2>4. QED
    BY <1>1, <1>2, <1>3, <2>3
<1>5. ASSUME words[m].text = Noise PROVE Cardinality(I) = m - 1
  <2>1. I = 1..(m - 1)
    <3>1. \A i \in 1..m : words[i].text # Noise <=> i # m
      BY <1>4, <1>5
    <3>2. I = {i \in 1..m : i # m}
      BY <1>2, <3>1
    <3>3. QED
      BY <1>2, <3>2
  <2>2. m - 1 \in Int /\ 1 \in Int
    BY <1>2
  <2>3. Cardinality(1..(m - 1)) = m - 1
    <3>1. Cardinality(1..(m - 1)) = IF 1 > (m - 1) THEN 0 ELSE m - 1 - 1 + 1
      BY <2>2, FS_Interval
    <3>2. QED
      BY <1>2, <3>1
  <2>4. QED
    BY <2>1, <2>3
<1>6. ASSUME words[m].text # Noise PROVE Cardinality(I) = m
  <2>1. I = 1..m
    BY <1>2, <1>4, <1>6
  <2>2. m \in Int /\ 1 \in Int
    BY <1>2
  <2>3. Cardinality(1..m) = m
    <3>1. Cardinality(1..m) = IF 1 > m THEN 0 ELSE m - 1 + 1
      BY <2>2, FS_Interval
    <3>2. QED
      BY <1>2, <3>1
  <2>4. QED
    BY <2>1, <2>3
<1> HIDE DEF I
<1>7. Cardinality(I) = IF words[m].text = Noise THEN m - 1 ELSE m
  BY <1>5, <1>6
<1>8. QED
  BY <1>2, <1>7 DEF m, I

\* What is popped is the beginning of what was committed.
LEMMA PoppedIs ==
  ASSUME NEW h, h.committed \in Seq(Timed), NEW time
  PROVE  \E k \in 0..Len(h.committed) : Popped(h, time) = [h EXCEPT !.committed = From(h.committed, k)]
<1> DEFINE I == {n \in 0..Len(h.committed) : \A i \in 1..n : h.committed[i].end <= time}
<1>1. Len(h.committed) \in Nat
  BY LenProperties
<1>2. 0 \in I /\ I \subseteq 0..Len(h.committed)
  BY <1>1
<1>3. Most(I) \in 0..Len(h.committed)
  BY <1>1, <1>2, MostOfBounded
<1>4. Popped(h, time) = [h EXCEPT !.committed = From(h.committed, Most(I))]
  BY DEF Popped
<1>5. QED
  BY <1>3, <1>4

\* With segments the audio is cut, if at all, at the end of a word that is
\* committed and not the last one.
LEMMA TrimIs ==
  ASSUME way = "segment", NEW to, NEW h, h.committed \in Seq(Timed), NEW known, NEW words, NEW grew,
         Trim(h, known, words, to, grew)
  PROVE  \/ hypothesis' = h /\ offset' = offset /\ audioFrom' = audioFrom
         \/ \E j \in DOMAIN words, k \in 0..Len(h.committed) :
              /\ known # <<>> /\ j < Len(words) /\ words[j].end <= Last(known).end
              /\ hypothesis' = [h EXCEPT !.committed = From(h.committed, k)]
              /\ offset' = words[j].end
              /\ words[j].end >= offset => audioFrom' = audioFrom + (words[j].end - offset)
<1>1. CASE NoChunk(h)
  BY <1>1 DEF NoChunk
<1>2. CASE \E time \in SegmentCuts(known, words) : ChunkAt(h, time, to)
  <2>1. PICK time \in SegmentCuts(known, words) : ChunkAt(h, time, to)
    BY <1>2
  <2>2. known # <<>> /\ \E j \in DOMAIN words : j < Len(words) /\ words[j].end <= Last(known).end /\ time = words[j].end
    BY DEF SegmentCuts
  <2>3. PICK j \in DOMAIN words : j < Len(words) /\ words[j].end <= Last(known).end /\ time = words[j].end
    BY <2>2
  <2>4. PICK k \in 0..Len(h.committed) : Popped(h, time) = [h EXCEPT !.committed = From(h.committed, k)]
    BY PoppedIs
  <2>5. /\ hypothesis' = Popped(h, time) /\ offset' = time
        /\ time >= offset => audioFrom' = audioFrom + (time - offset)
    BY <2>1 DEF ChunkAt
  <2>6. QED
    BY <2>2, <2>3, <2>4, <2>5
<1>3. QED
  BY <1>1, <1>2 DEF Trim

\* The end of a piece of speech.
EndsAt(s, n) ==
  /\ s \in Seq(Timed) /\ Len(s) <= n
  /\ \A i \in 1..Len(s) : s[i].text = speech[n - Len(s) + i]

LEMMA EndOfEnd ==
  ASSUME NEW n \in Nat, NEW s, EndsAt(s, n), NEW k \in 0..Len(s)
  PROVE  EndsAt(From(s, k), n)
<1> DEFINE e == From(s, k)
<1>1. s \in Seq(Timed) /\ Len(s) \in Nat /\ Len(s) <= n
  BY LenProperties DEF EndsAt
<1>2. e \in Seq(Timed) /\ Len(e) = Len(s) - k /\ \A i \in 1..(Len(s) - k) : e[i] = s[k + i]
  BY <1>1, FromIs
<1> HIDE DEF e
<1>3. ASSUME NEW i \in 1..Len(e) PROVE e[i].text = speech[n - Len(e) + i]
  <2>1. k + i \in 1..Len(s) /\ i \in 1..(Len(s) - k)
    BY <1>1, <1>2
  <2>2. n - Len(s) + (k + i) = n - Len(e) + i
    BY <1>1, <1>2
  <2>3. s[k + i].text = speech[n - Len(s) + (k + i)]
    BY <2>1 DEF EndsAt
  <2>4. QED
    BY <1>2, <2>1, <2>2, <2>3
<1>4. QED
  BY <1>1, <1>2, <1>3 DEF EndsAt, e

\* Committing goes on where it ended.
LEMMA EndGoesOn ==
  ASSUME NEW n \in Nat, NEW s, EndsAt(s, n), NEW t \in Seq(Timed),
         \A i \in 1..Len(t) : t[i].text = speech[n + i]
  PROVE  EndsAt(s \o t, n + Len(t))
<1> DEFINE e == s \o t
<1>1. s \in Seq(Timed) /\ Len(s) \in Nat /\ Len(s) <= n /\ Len(t) \in Nat
  BY LenProperties DEF EndsAt
<1>2. /\ e \in Seq(Timed) /\ Len(e) = Len(s) + Len(t)
      /\ \A i \in 1..(Len(s) + Len(t)) : e[i] = IF i <= Len(s) THEN s[i] ELSE t[i - Len(s)]
  BY <1>1, AppendedIs
<1> HIDE DEF e
<1>3. ASSUME NEW i \in 1..Len(e) PROVE e[i].text = speech[n + Len(t) - Len(e) + i]
  <2>1. n + Len(t) - Len(e) + i = n - Len(s) + i
    BY <1>1, <1>2
  <2>2. CASE i <= Len(s)
    <3>1. i \in 1..Len(s)
      BY <1>1, <1>2, <2>2
    <3>2. s[i].text = speech[n - Len(s) + i]
      BY <3>1 DEF EndsAt
    <3>3. QED
      BY <1>2, <2>1, <2>2, <3>2
  <2>3. CASE ~(i <= Len(s))
    <3>1. i - Len(s) \in 1..Len(t) /\ n + (i - Len(s)) = n - Len(s) + i
      BY <1>1, <1>2, <2>3
    <3>2. t[i - Len(s)].text = speech[n + (i - Len(s))]
      BY <3>1
    <3>3. QED
      BY <1>2, <2>1, <2>3, <3>1, <3>2
  <2>4. QED
    BY <2>2, <2>3
<1>4. Len(e) <= n + Len(t)
  BY <1>1, <1>2
<1>5. QED
  BY <1>2, <1>3, <1>4 DEF EndsAt, e

\* An iteration of the processor, as a whole.
LEMMA ProcessIterKeeps ==
  ASSUME way = "segment", NEW to, Listening(to), ProcessIter(to), speech' = speech
  PROVE  /\ CommittedWell' /\ Buffered' /\ Cut' /\ drained' = to
         /\ output' \in Seq(Text) /\ Len(output') \in Nat /\ Known' = Known + Len(output')
         /\ \A i \in 1..Len(output') : output'[i] = speech[Known + i]
<1>1. PICK words \in Hearings(to) :
        /\ drained' = to
        /\ commited' = commited \o Flush(hypothesis, words).commit
        /\ output' = Texts(Flush(hypothesis, words).commit)
        /\ Trim(Flush(hypothesis, words).next, commited \o Flush(hypothesis, words).commit, words, to,
                Flush(hypothesis, words).commit # <<>>)
        /\ right' = IF words = <<>> THEN right
                    ELSE audioFrom + Cardinality({i \in DOMAIN words : words[i].text # Noise})
  BY DEF ProcessIter
<1>2. HeardWell(words, to)
  BY HearingIs
<1>3. PICK f : f = Flush(hypothesis, words)
  OBVIOUS
<1>4. PICK a : Flushed(f, words, to, a)
  BY <1>2, <1>3, FlushIs
<1>5. PICK commit, buffer, known, kept, next :
        /\ commit = f.commit /\ buffer = f.next.buffer /\ known = commited \o commit
        /\ kept = hypothesis.committed \o commit
        /\ next = [committed |-> kept, buffer |-> buffer, last |-> Known + a]
  OBVIOUS
<1>6. f.next = next /\ next.committed = kept
  <2>1. f = [commit |-> commit, next |-> next]
    BY <1>4, <1>5 DEF Flushed
  <2>2. f.next = next
    BY <2>1
  <2>3. next.committed = kept
    BY <1>5
  <2>4. QED
    BY <2>2, <2>3
<1>7. /\ commit \in Seq(Timed) /\ Len(commit) = a
      /\ \A i \in 1..a : /\ commit[i] = words[Known - audioFrom + i]
                         /\ commit[i].text = speech[Known + i] /\ commit[i].end = Known + i
  BY <1>4, <1>5 DEF Flushed
<1>8. /\ buffer \in Seq(Timed) /\ Len(buffer) = Ending(to) - Known - a
      /\ \A i \in 1..(Ending(to) - Known - a) :
           /\ buffer[i] = words[Known - audioFrom + a + i]
           /\ \/ buffer[i].text = speech[Known + a + i]
              \/ buffer[i].text = Noise /\ Known + a + i = to /\ to < Len(speech)
  BY <1>4, <1>5 DEF Flushed
<1>9. /\ commited' = known /\ output' = Texts(commit) /\ Trim(next, known, words, to, commit # <<>>)
  <2>1. Flush(hypothesis, words).commit = commit /\ Flush(hypothesis, words).next = next
    BY <1>3, <1>5, <1>6
  <2>2. QED
    BY <1>1, <1>5, <2>1
<1>10. /\ Len(speech) \in Nat /\ Known \in Nat /\ audioFrom \in Nat /\ Ending(to) \in Nat /\ to \in Nat
       /\ audioFrom <= Known /\ Known <= Ending(to) /\ Ending(to) <= to /\ offset = audioFrom
       /\ Ending(to) <= Len(speech) /\ a \in Nat /\ Known + a <= Ending(to)
       /\ Len(buffer) = Ending(to) - Known - a /\ Len(buffer) \in Nat /\ (buffer = <<>> <=> Len(buffer) = 0)
  <2>1. /\ Len(speech) \in Nat /\ Known \in Nat /\ audioFrom \in Nat /\ Ending(to) \in Nat /\ to \in Nat
        /\ audioFrom <= Known /\ Known <= Ending(to) /\ Ending(to) <= to /\ offset = audioFrom
        /\ Ending(to) <= Len(speech)
    BY Bounds DEF Ending, Listening
  <2>2. a \in 0..(Ending(to) - Known)
    BY <1>4 DEF Flushed
  <2>3. buffer \in Seq(Timed) /\ Len(buffer) = Ending(to) - Known - a
    BY <1>8
  <2>4. Len(buffer) \in Nat /\ (buffer = <<>> <=> Len(buffer) = 0)
    BY <2>3, EmptySeq, LenProperties
  <2>5. QED
    BY <2>1, <2>2, <2>3, <2>4
<1>cut. /\ kept \in Seq(Timed)
        /\ \/ hypothesis' = next /\ offset' = offset /\ audioFrom' = audioFrom
           \/ \E j \in DOMAIN words, k \in 0..Len(kept) :
                /\ known # <<>> /\ j < Len(words) /\ words[j].end <= Last(known).end
                /\ hypothesis' = [next EXCEPT !.committed = From(kept, k)]
                /\ offset' = words[j].end
                /\ words[j].end >= offset => audioFrom' = audioFrom + (words[j].end - offset)
  <2>1. kept \in Seq(Timed)
    BY <1>5, <1>7, Bounds, AppendedIs
  <2>2. PICK grew : grew = (commit # <<>>)
    OBVIOUS
  <2>3. Trim(next, known, words, to, grew) /\ next.committed \in Seq(Timed)
    BY <1>6, <1>9, <2>1, <2>2
  <2>4. \/ hypothesis' = next /\ offset' = offset /\ audioFrom' = audioFrom
        \/ \E j \in DOMAIN words, k \in 0..Len(next.committed) :
             /\ known # <<>> /\ j < Len(words) /\ words[j].end <= Last(known).end
             /\ hypothesis' = [next EXCEPT !.committed = From(next.committed, k)]
             /\ offset' = words[j].end
             /\ words[j].end >= offset => audioFrom' = audioFrom + (words[j].end - offset)
    BY <2>3, TrimIs
  <2>5. QED
    BY <1>6, <2>1, <2>4
<1>11. PICK k \in 0..Len(kept) : hypothesis' = [next EXCEPT !.committed = From(kept, k)]
  <2>1. 0 \in 0..Len(kept) /\ From(kept, 0) = kept
    BY <1>cut, LenProperties, FromStart
  <2>2. [next EXCEPT !.committed = kept] = next
    <3>1. \A A, B, C : [[committed |-> A, buffer |-> B, last |-> C] EXCEPT !.committed = A]
                        = [committed |-> A, buffer |-> B, last |-> C]
      OBVIOUS
    <3>2. next = [committed |-> kept, buffer |-> buffer, last |-> Known + a]
      BY <1>5
    <3>3. QED
      BY <3>1, <3>2, Zenon
  <2>3. QED
    BY <1>cut, <2>1, <2>2
<1>12. EndsAt(kept, Known + a)
  <2>1. EndsAt(hypothesis.committed, Known)
    BY Bounds DEF Listening, CommittedWell, EndsAt
  <2>2. QED
    <3>1. \A i \in 1..Len(commit) : commit[i].text = speech[Known + i]
      BY <1>7
    <3>2. EndsAt(hypothesis.committed \o commit, Known + Len(commit))
      BY <1>7, <1>10, <2>1, <3>1, EndGoesOn
    <3>3. QED
      BY <1>5, <1>7, <3>2
<1>13. EndsAt(From(kept, k), Known + a)
  BY <1>10, <1>12, EndOfEnd
<1>14. /\ hypothesis'.committed = From(kept, k) /\ hypothesis'.buffer = buffer
       /\ hypothesis'.last = Known + a
       /\ hypothesis' = [committed |-> From(kept, k), buffer |-> buffer, last |-> Known + a]
  BY <1>5, <1>11
<1>15. /\ commited' \in Seq(Timed) /\ Known' = Known + a
       /\ \A i \in 1..Known' : commited'[i].text = speech[i] /\ commited'[i].end = i
  <2>1. commited \in Seq(Timed) /\ Len(commited) = Known
    BY DEF Listening, CommittedWell, Known
  <2>2. /\ known \in Seq(Timed) /\ Len(known) = Known + a
        /\ \A i \in 1..(Known + a) : known[i] = IF i <= Known THEN commited[i] ELSE commit[i - Known]
    <3>1. commit \in Seq(Timed) /\ Len(commit) = a /\ known = commited \o commit
      BY <1>5, <1>7
    <3>2. /\ commited \o commit \in Seq(Timed) /\ Len(commited \o commit) = Len(commited) + Len(commit)
          /\ \A i \in 1..(Len(commited) + Len(commit)) :
               (commited \o commit)[i] = IF i <= Len(commited) THEN commited[i] ELSE commit[i - Len(commited)]
      BY <2>1, <3>1, AppendedIs
    <3>3. QED
      BY <2>1, <3>1, <3>2
  <2>3. Known' = Known + a /\ commited' = known
    BY <1>9, <2>2 DEF Known
  <2>4. ASSUME NEW i \in 1..(Known + a) PROVE known[i].text = speech[i] /\ known[i].end = i
    <3>1. CASE i <= Known
      <4>1. i \in 1..Known
        BY <1>10, <3>1
      <4>2. commited[i].text = speech[i] /\ commited[i].end = i
        BY <4>1 DEF Listening, CommittedWell
      <4>3. QED
        BY <2>2, <3>1, <4>2
    <3>2. CASE ~(i <= Known)
      <4>1. i - Known \in 1..a /\ Known + (i - Known) = i
        BY <1>10, <3>2
      <4>2. QED
        BY <1>7, <2>2, <3>2, <4>1
    <3>3. QED
      BY <3>1, <3>2
  <2>5. QED
    BY <2>2, <2>3, <2>4
<1>16. CommittedWell'
  <2>1. hypothesis' \in Hypotheses
    <3>1. From(kept, k) \in Seq(Timed) /\ Known + a \in Nat
      BY <1>10, <1>13 DEF EndsAt
    <3>2. QED
      BY <1>8, <1>14, <3>1 DEF Hypotheses
  <2>2. Len(hypothesis'.committed) <= Known'
    BY <1>13, <1>14, <1>15 DEF EndsAt
  <2>3. \A i \in 1..Len(hypothesis'.committed) :
          hypothesis'.committed[i].text = speech'[Known' - Len(hypothesis'.committed) + i]
    BY <1>13, <1>14, <1>15 DEF EndsAt
  <2>4. Known' <= Len(speech') /\ hypothesis'.last = Known'
    BY <1>10, <1>14, <1>15
  <2>5. QED
    BY <1>15, <2>1, <2>2, <2>3, <2>4 DEF CommittedWell
<1>17. Reach' = Ending(to)
  <2>1. Reach' = Known' + Len(buffer)
    BY <1>14 DEF Reach
  <2>2. QED
    BY <1>10, <1>15, <2>1
<1>18. ASSUME NEW i \in 1..Len(buffer)
       PROVE  \/ buffer[i].text = speech[Known + a + i]
              \/ i = Len(buffer) /\ buffer[i].text = Noise /\ Ending(to) < Len(speech)
  <2>1. i \in 1..(Ending(to) - Known - a)
    BY <1>10
  <2>2. \/ buffer[i].text = speech[Known + a + i]
        \/ buffer[i].text = Noise /\ Known + a + i = to /\ to < Len(speech)
    BY <1>8, <2>1
  <2>3. ASSUME Known + a + i = to, to < Len(speech) PROVE i = Len(buffer) /\ Ending(to) < Len(speech)
    BY <1>10, <2>1, <2>3 DEF Ending
  <2>4. QED
    BY <2>2, <2>3
<1>19. right' = IF Ragged' THEN Reach' - 1 ELSE Reach'
  <2>1. Ragged' <=> buffer # <<>> /\ buffer[Len(buffer)].text = Noise
    BY <1>14 DEF Ragged
  <2>2. Len(buffer) \in Nat /\ (buffer = <<>> <=> Len(buffer) = 0)
    BY <1>10
  <2>3. words \in Seq(Timed) /\ Len(words) = Ending(to) - audioFrom /\ Len(words) \in Nat
    BY <1>2, LenProperties DEF HeardWell
  <2>4. CASE words = <<>>
    <3>1. Ending(to) = audioFrom
      BY <1>10, <2>3, <2>4, EmptySeq
    <3>2. audioFrom = 0
      <4>1. audioFrom # 0 => audioFrom < drained /\ audioFrom < Len(speech) /\ drained <= to /\ drained \in Nat
        BY DEF Listening, Cut, StreamTypes
      <4>2. QED
        BY <1>10, <3>1, <4>1 DEF Ending
    <3>3. Len(buffer) = 0 /\ a = 0 /\ Known = 0 /\ Reach = 0
      BY <1>8, <1>10, <3>1, <3>2, Bounds
    <3>4. hypothesis.buffer = <<>>
      <4>1. Len(hypothesis.buffer) = 0 /\ hypothesis.buffer \in Seq(Timed)
        BY <3>3, Bounds DEF Reach
      <4>2. QED
        BY <4>1, EmptySeq
    <3>5. right = 0
      BY <3>3, <3>4 DEF Listening, Buffered, Ragged
    <3>6. QED
      BY <1>1, <1>17, <2>1, <2>2, <2>4, <3>1, <3>2, <3>3, <3>5
  <2>5. CASE words # <<>>
    <3> DEFINE m == Len(words)
    <3>1. /\ m \in Nat \ {0}
          /\ right' = audioFrom + IF words[m].text = Noise THEN m - 1 ELSE m
      BY <1>1, <1>2, <2>5, RightWordsAre
    <3>2. m = Ending(to) - audioFrom
      BY <2>3
    <3> HIDE DEF m
    <3>3. words[m].text = Noise <=> Ragged'
      <4>1. CASE buffer # <<>>
        <5>1. Len(buffer) \in 1..(Ending(to) - Known - a) /\ Known - audioFrom + a + Len(buffer) = m
          <6>1. \A A, K, E, n, b \in Nat : b = E - K - n /\ b # 0 => b \in 1..(E - K - n) /\ K - A + n + b = E - A
            OBVIOUS
          <6>2. /\ audioFrom \in Nat /\ Known \in Nat /\ Ending(to) \in Nat /\ a \in Nat /\ Len(buffer) \in Nat
                /\ Len(buffer) = Ending(to) - Known - a /\ Len(buffer) # 0
            BY <1>10, <4>1
          <6>3. /\ Len(buffer) \in 1..(Ending(to) - Known - a)
                /\ Known - audioFrom + a + Len(buffer) = Ending(to) - audioFrom
            BY <6>1, <6>2
          <6>4. QED
            BY <3>2, <6>3
        <5>2. buffer[Len(buffer)] = words[m]
          BY <1>8, <5>1
        <5>3. QED
          BY <2>1, <4>1, <5>2
      <4>2. CASE buffer = <<>>
        <5>1. Known + a = Ending(to)
          BY <1>10, <4>2
        <5>2. words[m].text # Noise
          <6>1. CASE a = 0
            <7>1. /\ drained <= to /\ (to > drained \/ to > Len(speech)) /\ Known <= drained /\ drained \in Nat
              <8>1. Known <= Reach /\ Reach \in Nat
                BY Bounds
              <8>2. drained \in Nat /\ Reach <= drained /\ drained <= to /\ (to > drained \/ to > Len(speech))
                BY DEF Listening, Buffered, StreamTypes
              <8>3. QED
                BY <1>10, <8>1, <8>2
            <7>2. ~(audioFrom + m = to /\ to < Len(speech))
              BY <1>10, <3>2, <5>1, <6>1, <7>1
            <7>3. \/ words[m].text = speech[audioFrom + m]
                  \/ words[m].text = Noise /\ audioFrom + m = to /\ to < Len(speech)
              BY <1>2, <3>1 DEF HeardWell, m
            <7>4. audioFrom + m \in 1..Len(speech)
              <8>1. \A A, E, L, n \in Nat : n # 0 /\ n = E - A /\ E <= L => A + n \in 1..L
                OBVIOUS
              <8>2. /\ audioFrom \in Nat /\ Ending(to) \in Nat /\ Len(speech) \in Nat
                    /\ Ending(to) <= Len(speech)
                BY <1>10
              <8>3. m \in Nat /\ m # 0
                BY <3>1
              <8>4. QED
                BY <3>2, <8>1, <8>2, <8>3
            <7>5. speech[audioFrom + m] \in Words
              BY <7>4, ElementOfSeq DEF Listening, StreamTypes
            <7>6. QED
              BY <7>2, <7>3, <7>5 DEF Words
          <6>2. CASE a > 0
            <7>1. a \in 1..a /\ Known - audioFrom + a = m /\ Known + a \in 1..Len(speech)
              BY <1>10, <3>2, <5>1, <6>2
            <7>2. words[m].text = speech[Known + a]
              BY <1>7, <7>1
            <7>3. speech[Known + a] \in Words
              BY <7>1, ElementOfSeq DEF Listening, StreamTypes
            <7>4. QED
              BY <7>2, <7>3 DEF Words
          <6>3. QED
            BY <1>10, <6>1, <6>2
        <5>3. QED
          BY <2>1, <4>2, <5>2
      <4>3. QED
        BY <4>1, <4>2
    <3>4. QED
      <4>1. CASE Ragged'
        <5>1. right' = audioFrom + (m - 1)
          BY <3>1, <3>3, <4>1
        <5>2. right' = Ending(to) - 1
          <6>1. \A A, E, n \in Nat : n = E - A => A + (n - 1) = E - 1
            OBVIOUS
          <6>2. audioFrom \in Nat /\ Ending(to) \in Nat /\ m \in Nat
            BY <1>10, <3>1
          <6>3. QED
            BY <3>2, <5>1, <6>1, <6>2
        <5>3. QED
          BY <1>17, <4>1, <5>2
      <4>2. CASE ~Ragged'
        <5>1. right' = audioFrom + m
          BY <3>1, <3>3, <4>2
        <5>2. right' = Ending(to)
          <6>1. \A A, E, n \in Nat : n = E - A => A + n = E
            OBVIOUS
          <6>2. audioFrom \in Nat /\ Ending(to) \in Nat /\ m \in Nat
            BY <1>10, <3>1
          <6>3. QED
            BY <3>2, <5>1, <6>1, <6>2
        <5>3. QED
          BY <1>17, <4>2, <5>2
      <4>3. QED
        BY <4>1, <4>2
  <2>6. QED
    BY <2>4, <2>5
<1>20. Buffered'
  <2>1. Reach' <= drained' /\ Reach' <= Len(speech')
    BY <1>1, <1>10, <1>17
  <2>2. \A i \in 1..Len(hypothesis'.buffer) :
          \/ hypothesis'.buffer[i].text = speech'[Known' + i]
          \/ i = Len(hypothesis'.buffer) /\ hypothesis'.buffer[i].text = Noise /\ Reach' < Len(speech')
    BY <1>14, <1>15, <1>17, <1>18
  <2>3. QED
    BY <1>19, <2>1, <2>2 DEF Buffered
<1>21. Cut'
  <2>3. CASE offset' = offset /\ audioFrom' = audioFrom
    <3>1. Cut /\ drained \in Nat /\ drained <= to
      BY DEF Listening, StreamTypes
    <3>2. \A A, K, n \in Nat : A <= K => A \in 0..(K + n)
      OBVIOUS
    <3>3. audioFrom \in 0..(Known + a)
      BY <1>10, <3>2
    <3>4. audioFrom # 0 => audioFrom < drained /\ audioFrom < Len(speech)
      BY <3>1 DEF Cut
    <3>5. \A A, d, n \in Nat : A < d /\ d <= n => A < n
      OBVIOUS
    <3>6. audioFrom # 0 => audioFrom < to /\ audioFrom < Len(speech)
      BY <1>10, <3>1, <3>4, <3>5
    <3>7. offset' = audioFrom' /\ audioFrom' = audioFrom /\ drained' = to /\ Known' = Known + a
      BY <1>1, <1>10, <1>15, <2>3
    <3>8. QED
      BY <3>3, <3>6, <3>7 DEF Cut
  <2>4. ASSUME NEW j \in DOMAIN words, known # <<>>, j < Len(words), words[j].end <= Last(known).end,
               offset' = words[j].end,
               words[j].end >= offset => audioFrom' = audioFrom + (words[j].end - offset)
        PROVE  Cut'
    <3>1. j \in 1..Len(words) /\ Len(words) \in Nat /\ Len(words) = Ending(to) - audioFrom
          /\ words[j].end = audioFrom + j
      BY <1>2, LenProperties DEF HeardWell
    <3>2. Last(known).end = Known + a
      <4>1. known \in Seq(Timed) /\ Len(known) = Known + a
        BY <1>9, <1>15 DEF Known
      <4>2. Known + a \in 1..(Known + a)
        BY <1>10, <2>4, <4>1, EmptySeq
      <4>3. known[Known + a].end = Known + a
        BY <1>9, <1>15, <4>2
      <4>4. QED
        BY <4>1, <4>3 DEF Last
    <3>3. audioFrom' = audioFrom + j /\ offset' = audioFrom + j
      BY <1>10, <2>4, <3>1
    <3>4. audioFrom + j \in 0..(Known + a) /\ audioFrom + j < to /\ audioFrom + j < Len(speech)
      BY <1>10, <2>4, <3>1, <3>2
    <3>5. QED
      BY <1>1, <1>15, <3>3, <3>4 DEF Cut
  <2>5. QED
    BY <1>cut, <2>3, <2>4
<1>22. /\ output' \in Seq(Text) /\ Len(output') = a /\ \A i \in 1..a : output'[i] = speech[Known + i]
  BY <1>7, <1>9, TextsIs
<1>23. QED
  BY <1>1, <1>10, <1>15, <1>16, <1>20, <1>21, <1>22


-----------------------------------------------------------------------------
(***************************************************************************)
(* What is typed of words that nobody said before                          *)
(***************************************************************************)

\* What is typed is the beginning of the speech.
Begun ==
  /\ typed \in Seq(Text) /\ lastChunk \in Seq(Text)
  /\ \A i \in 1..Len(typed) : typed[i] = speech[i]
  /\ lastChunk # <<>> => \E j \in 1..Len(typed) : lastChunk[1] = speech[j]

\* Words that go on from there, but for a misheard last one.
FromThere(words) ==
  /\ words \in Seq(Text) /\ Len(typed) + Len(words) <= Len(speech)
  /\ \A i \in 1..Len(words) :
       \/ words[i] = speech[Len(typed) + i]
       \/ i = Len(words) /\ words[i] = Noise
GoesOn(words) == StreamTypes /\ Plain /\ Begun /\ FromThere(words)

\* Such words, and numbers of them.
LEMMA GoesOnIs ==
  ASSUME NEW words, GoesOn(words)
  PROVE  /\ Len(typed) \in Nat /\ Len(words) \in Nat /\ Len(speech) \in Nat
         /\ Len(typed) + Len(words) <= Len(speech)
         /\ DOMAIN words = 1..Len(words) /\ DOMAIN typed = 1..Len(typed) /\ DOMAIN speech = 1..Len(speech)
         /\ \A i \in 1..Len(speech) : speech[i] # Noise /\ speech[i] \notin Courtesies
         /\ \A i, j \in 1..Len(speech) : speech[i] = speech[j] => i = j
<1>1. words \in Seq(Text) /\ typed \in Seq(Text) /\ speech \in Seq(Words)
  BY DEF GoesOn, StreamTypes, Begun, FromThere
<1>2. /\ Len(typed) \in Nat /\ Len(words) \in Nat /\ Len(speech) \in Nat
      /\ DOMAIN words = 1..Len(words) /\ DOMAIN typed = 1..Len(typed) /\ DOMAIN speech = 1..Len(speech)
  BY <1>1, LenProperties
<1>3. \A i \in 1..Len(speech) : speech[i] \in Words
  BY <1>1, ElementOfSeq
<1>4. \A i \in 1..Len(speech) : speech[i] # Noise
  BY <1>3 DEF Words
<1>5. QED
  BY <1>2, <1>4 DEF GoesOn, FromThere, Plain

\* The clean-up takes nothing of them but a misheard last word.
LEMMA TrimmedIs ==
  ASSUME NEW words, GoesOn(words), NEW atEnd
  PROVE  \/ Trimmed(words, atEnd) = words
         \/ /\ Len(words) >= 1 /\ words[Len(words)] = Noise
            /\ Trimmed(words, atEnd) = Upto(words, Len(words) - 1)
<1> DEFINE m == Len(words)
           S1 == {n \in 1..m - 1 : \A i \in 1..n : words[i] \in Courtesies}
           S2 == {n \in 1..m - 1 : \A i \in n + 1..m : words[i] \in Courtesies}
<1>1. m \in Nat /\ words \in Seq(Text)
  BY GoesOnIs DEF GoesOn, FromThere
<1>2. ASSUME NEW i \in 1..m, i < m PROVE words[i] \notin Courtesies
  <2>1. words[i] = speech[Len(typed) + i]
    BY <1>1, <1>2 DEF GoesOn, FromThere
  <2>2. Len(typed) + i \in 1..Len(speech)
    BY <1>1, GoesOnIs
  <2>3. QED
    BY <2>1, <2>2, GoesOnIs
<1>3. ASSUME m >= 1 PROVE words[m] = Noise \/ words[m] \notin Courtesies
  <2>1. m \in 1..m /\ Len(typed) + m \in 1..Len(speech)
    BY <1>1, <1>3, GoesOnIs
  <2>2. words[m] = speech[Len(typed) + m] \/ words[m] = Noise
    BY <2>1 DEF GoesOn, FromThere
  <2>3. QED
    BY <2>1, <2>2, GoesOnIs
<1>4. WithoutStart(words) = words
  <2>1. S1 = {}
    <3>1. ASSUME NEW n \in S1 PROVE FALSE
      <4>1. 1 \in 1..n /\ 1 \in 1..m /\ 1 < m
        BY <1>1
      <4>2. words[1] \in Courtesies
        BY <4>1
      <4>3. QED
        BY <1>2, <4>1, <4>2
    <3>2. QED
      BY <3>1
  <2>2. WithoutStart(words) = From(words, Most({0} \cup S1))
    BY DEF WithoutStart
  <2>3. {0} \cup S1 = {0}
    BY <2>1
  <2>4. Most({0}) = 0
    <3>1. {0} \subseteq Int /\ 0 \in {0} /\ \A y \in {0} : y <= 0
      OBVIOUS
    <3>2. QED
      BY <3>1, MostIs
  <2>5. QED
    BY <1>1, <2>2, <2>3, <2>4, FromStart
<1>5. \/ WithoutEnd(words) = words
      \/ m >= 1 /\ words[m] = Noise /\ WithoutEnd(words) = Upto(words, m - 1)
  <2>1. WithoutEnd(words) = Upto(words, Least({m} \cup S2))
    BY DEF WithoutEnd
  <2>2. ASSUME NEW n \in S2 PROVE n = m - 1
    <3> SUFFICES ASSUME n < m - 1 PROVE FALSE
      BY <1>1
    <3>1. n + 1 \in n + 1..m /\ n + 1 \in 1..m /\ n + 1 < m
      BY <1>1
    <3>2. QED
      BY <1>2, <3>1
  <2>3. CASE S2 = {}
    <3>1. {m} \cup S2 \subseteq Int /\ m \in {m} \cup S2 /\ \A y \in {m} \cup S2 : m <= y
      BY <1>1, <2>3
    <3>2. Least({m} \cup S2) = m
      BY <3>1, LeastIs
    <3>3. QED
      BY <1>1, <2>1, <3>2, FromStart
  <2>4. CASE S2 # {}
    <3>1. m - 1 \in S2
      BY <2>2, <2>4
    <3>2. m - 1 \in 1..m - 1 /\ m >= 1 /\ m \in (m - 1) + 1..m
      BY <1>1, <3>1
    <3>3. words[m] \in Courtesies
      BY <3>1, <3>2
    <3>4. {m} \cup S2 \subseteq Int /\ m - 1 \in {m} \cup S2 /\ \A y \in {m} \cup S2 : m - 1 <= y
      BY <1>1, <2>2, <3>1
    <3>5. Least({m} \cup S2) = m - 1
      BY <3>4, LeastIs
    <3>6. QED
      BY <1>3, <2>1, <3>2, <3>3, <3>5
  <2>5. QED
    BY <2>3, <2>4
<1>6. PICK ended : ended = IF atEnd THEN WithoutEnd(words) ELSE words
  OBVIOUS
<1>7. Trimmed(words, atEnd) = IF Len(ended) = 1 /\ ended[1] \in Courtesies THEN <<>> ELSE ended
  BY <1>4, <1>6 DEF Trimmed
<1>8. ended = words \/ (m >= 1 /\ words[m] = Noise /\ ended = Upto(words, m - 1))
  BY <1>5, <1>6
<1>9. CASE Len(ended) = 1 /\ ended[1] \in Courtesies
  <2>1. CASE ended = words
    <3>1. words[m] = Noise /\ m = 1
      <4>1. m = 1 /\ words[1] \in Courtesies
        BY <1>9, <2>1
      <4>2. m >= 1 /\ words[m] \in Courtesies
        BY <4>1
      <4>3. QED
        BY <1>3, <4>1, <4>2
    <3>2. Upto(words, m - 1) = <<>>
      <4>1. Upto(words, 0) \in Seq(Text) /\ Len(Upto(words, 0)) = 0 /\ m - 1 = 0
        BY <1>1, <3>1, UptoIs
      <4>2. QED
        BY <4>1, EmptySeq
    <3>3. QED
      BY <1>7, <1>9, <3>1, <3>2
  <2>2. CASE m >= 1 /\ ended = Upto(words, m - 1)
    <3>1. m - 1 \in 0..m
      BY <1>1, <2>2
    <3>2. Len(ended) = m - 1 /\ (1 \in 1..(m - 1) => ended[1] = words[1])
      BY <1>1, <2>2, <3>1, UptoIs
    <3>3. 1 \in 1..m /\ 1 < m /\ 1 \in 1..(m - 1)
      BY <1>1, <1>9, <3>2
    <3>4. QED
      BY <1>2, <1>9, <3>2, <3>3
  <2>3. QED
    BY <1>8, <2>1, <2>2
<1>10. CASE ~(Len(ended) = 1 /\ ended[1] \in Courtesies)
  BY <1>7, <1>8, <1>10
<1>11. QED
  BY <1>9, <1>10

\* Nothing of them overlaps what is typed, and nothing of them was typed last.
LEMMA NoOverlap ==
  ASSUME NEW words, GoesOn(words)
  PROVE  From(words, Overlap(words)) = words /\ (words # <<>> => words # lastChunk)
<1> DEFINE I == {n \in 0..Len(words) : n <= Len(typed) /\ From(typed, Len(typed) - n) = Upto(words, n)}
<1>1. words \in Seq(Text) /\ typed \in Seq(Text) /\ Len(words) \in Nat /\ Len(typed) \in Nat
  BY GoesOnIs DEF GoesOn, Begun, FromThere
<1>2. ASSUME Len(words) >= 1, NEW j \in 1..Len(typed) PROVE words[1] # speech[j]
  <2>1. words[1] = speech[Len(typed) + 1] \/ words[1] = Noise
    BY <1>1, <1>2 DEF GoesOn, FromThere
  <2>2. Len(typed) + 1 \in 1..Len(speech) /\ j \in 1..Len(speech) /\ Len(typed) + 1 # j
    BY <1>1, <1>2, GoesOnIs
  <2>3. QED
    BY <2>1, <2>2, GoesOnIs
<1>3. ASSUME NEW n \in I, n >= 1 PROVE FALSE
  <2>1. /\ n \in 0..Len(words) /\ Len(typed) - n \in 0..Len(typed) /\ 1 \in 1..n /\ Len(words) >= 1
        /\ Len(typed) - (Len(typed) - n) = n /\ Len(typed) - n + 1 \in 1..Len(typed)
    BY <1>1, <1>3
  <2>2. From(typed, Len(typed) - n)[1] = typed[Len(typed) - n + 1]
    BY <1>1, <2>1, FromIs
  <2>3. Upto(words, n)[1] = words[1]
    BY <1>1, <2>1, UptoIs
  <2>4. typed[Len(typed) - n + 1] = speech[Len(typed) - n + 1]
    BY <2>1 DEF GoesOn, Begun
  <2>5. QED
    BY <1>2, <2>1, <2>2, <2>3, <2>4
<1>4. 0 \in I
  <2>1. 0 \in 0..Len(words) /\ Len(typed) - 0 \in 0..Len(typed) /\ Len(typed) - (Len(typed) - 0) = 0
    BY <1>1
  <2>2. Upto(words, 0) \in Seq(Text) /\ Len(Upto(words, 0)) = 0
    BY <1>1, <2>1, UptoIs
  <2>3. From(typed, Len(typed) - 0) \in Seq(Text) /\ Len(From(typed, Len(typed) - 0)) = 0
    BY <1>1, <2>1, FromIs
  <2>4. From(typed, Len(typed) - 0) = <<>> /\ Upto(words, 0) = <<>>
    BY <2>2, <2>3, EmptySeq
  <2>5. QED
    BY <1>1, <2>1, <2>4
<1>5. Overlap(words) = 0
  <2>1. I \subseteq Int /\ \A y \in I : y <= 0
    BY <1>1, <1>3
  <2>2. Most(I) = 0
    BY <1>4, <2>1, MostIs
  <2>3. QED
    BY <2>2 DEF Overlap
<1>6. From(words, Overlap(words)) = words
  BY <1>1, <1>5, FromStart
<1>7. ASSUME words # <<>>, words = lastChunk PROVE FALSE
  <2>1. Len(words) >= 1
    BY <1>1, <1>7, EmptySeq
  <2>2. \E j \in 1..Len(typed) : lastChunk[1] = speech[j]
    BY <1>7 DEF GoesOn, Begun
  <2>3. QED
    BY <1>2, <1>7, <2>1, <2>2
<1>8. QED
  BY <1>6, <1>7

\* Without its last word it still goes on.
LEMMA ShorterGoesOn ==
  ASSUME NEW words, GoesOn(words), Len(words) >= 1
  PROVE  /\ GoesOn(Upto(words, Len(words) - 1))
         /\ Len(Upto(words, Len(words) - 1)) = Len(words) - 1
         /\ \A i \in 1..(Len(words) - 1) : /\ Upto(words, Len(words) - 1)[i] = words[i]
                                          /\ words[i] = speech[Len(typed) + i]
<1> DEFINE m == Len(words)  u == Upto(words, m - 1)
<1>1. words \in Seq(Text) /\ m \in Nat /\ m - 1 \in 0..m
  BY GoesOnIs DEF GoesOn, FromThere
<1>2. u \in Seq(Text) /\ Len(u) = m - 1 /\ \A i \in 1..(m - 1) : u[i] = words[i]
  BY <1>1, UptoIs
<1> HIDE DEF u
<1>3. ASSUME NEW i \in 1..(m - 1) PROVE words[i] = speech[Len(typed) + i]
  <2>1. i \in 1..m /\ i # m
    BY <1>1
  <2>2. QED
    BY <2>1 DEF GoesOn, FromThere
<1>4. Len(typed) + Len(u) <= Len(speech)
  BY <1>1, <1>2, GoesOnIs
<1>5. GoesOn(u)
  BY <1>2, <1>3, <1>4 DEF GoesOn, FromThere
<1>6. QED
  BY <1>2, <1>3, <1>5 DEF u

\* So they are typed as they are, but for a misheard last one.
LEMMA TypeOutIs ==
  ASSUME NEW words, GoesOn(words), NEW atEnd, TypeOut(words, atEnd)
  PROVE  \E u \in Seq(Text) :
           /\ \/ u = words
              \/ Len(words) >= 1 /\ words[Len(words)] = Noise /\ u = Upto(words, Len(words) - 1)
           /\ typed' = typed \o u
           /\ \/ UNCHANGED lastChunk
              \/ u # <<>> /\ lastChunk' = u
<1> DEFINE m == Len(words)
<1>1. words \in Seq(Text) /\ typed \in Seq(Text) /\ m \in Nat /\ Len(typed) \in Nat
  BY GoesOnIs DEF GoesOn, Begun, FromThere
<1>2. PICK u : u = Trimmed(words, atEnd)
  OBVIOUS
<1>3. u = words \/ (m >= 1 /\ words[m] = Noise /\ u = Upto(words, m - 1))
  BY <1>2, TrimmedIs
<1>4. GoesOn(u)
  BY <1>3, ShorterGoesOn
<1>5. u \in Seq(Text) /\ Len(u) \in Nat /\ DOMAIN u = 1..Len(u)
  BY <1>4, GoesOnIs DEF GoesOn, FromThere
<1>6. From(u, Overlap(u)) = u /\ (u # <<>> => u # lastChunk)
  BY <1>4, NoOverlap
<1>7. IF (english /\ IsNoise(u)) \/ u = <<>> \/ u = lastChunk
      THEN UNCHANGED <<typed, lastChunk, emitted>>
      ELSE typed' = typed \o u /\ lastChunk' = u /\ emitted' = TRUE
  BY <1>2, <1>6 DEF TypeOut
<1>8. typed \o <<>> = typed /\ <<>> \in Seq(Text)
  BY <1>1, ConcatEmptySeq, EmptySeq
<1>9. CASE u = <<>>
  BY <1>3, <1>5, <1>7, <1>8, <1>9
<1>10. CASE u # <<>> /\ english /\ IsNoise(u)
  <2>1. \A i \in 1..Len(u) : u[i] = Noise
    BY <1>5, <1>10 DEF IsNoise
  <2>2. Len(u) >= 1
    BY <1>5, <1>10, EmptySeq
  <2>3. ASSUME NEW i \in 1..(m - 1) PROVE words[i] # Noise
    <3>1. Len(typed) + i \in 1..Len(speech) /\ m >= 1
      BY <1>1, GoesOnIs
    <3>2. words[i] = speech[Len(typed) + i]
      BY <3>1, ShorterGoesOn
    <3>3. QED
      BY <3>1, <3>2, GoesOnIs
  <2>4. u = words
    <3> SUFFICES ASSUME m >= 1, u = Upto(words, m - 1) PROVE FALSE
      BY <1>3
    <3>1. Len(u) = m - 1 /\ \A i \in 1..(m - 1) : u[i] = words[i]
      BY ShorterGoesOn
    <3>2. 1 \in 1..(m - 1)
      BY <1>1, <2>2, <3>1
    <3>3. QED
      BY <2>1, <2>2, <2>3, <3>1, <3>2
  <2>5. m = 1 /\ words[m] = Noise
    <3>1. m >= 1
      BY <2>2, <2>4
    <3>2. 1 \in 1..m /\ words[1] = Noise
      BY <1>1, <2>1, <2>4, <3>1
    <3>3. ASSUME m > 1 PROVE FALSE
      <4>1. 1 \in 1..(m - 1)
        BY <1>1, <3>3
      <4>2. QED
        BY <2>3, <3>2, <4>1
    <3>4. m = 1
      BY <1>1, <3>1, <3>3
    <3>5. QED
      BY <3>2, <3>4
  <2>6. Upto(words, m - 1) = <<>>
    <3>1. Len(Upto(words, m - 1)) = 0 /\ Upto(words, m - 1) \in Seq(Text)
      BY <1>1, <2>5, UptoIs
    <3>2. QED
      BY <3>1, EmptySeq
  <2>7. typed' = typed /\ lastChunk' = lastChunk
    BY <1>7, <1>10
  <2>8. /\ <<>> \in Seq(Text) /\ m >= 1 /\ words[m] = Noise /\ <<>> = Upto(words, m - 1)
        /\ typed' = typed \o <<>> /\ lastChunk' = lastChunk
    BY <1>8, <2>5, <2>6, <2>7
  <2>9. QED
    BY <2>8
<1>11. CASE u # <<>> /\ ~(english /\ IsNoise(u))
  <2>1. typed' = typed \o u /\ lastChunk' = u
    BY <1>6, <1>7, <1>11
  <2>2. QED
    BY <1>3, <1>5, <1>11, <2>1
<1>12. QED
  BY <1>9, <1>10, <1>11

\* Words that were heard right, typed after the others.
LEMMA TypedGoesOn ==
  ASSUME StreamTypes, NEW t, NEW u \in Seq(Text), t = typed \o u,
         typed \in Seq(Text), \A i \in 1..Len(typed) : typed[i] = speech[i],
         \A i \in 1..Len(u) : u[i] = speech[Len(typed) + i]
  PROVE  /\ t \in Seq(Text) /\ Len(t) = Len(typed) + Len(u) /\ Len(u) \in Nat /\ Len(typed) \in Nat
         /\ \A i \in 1..Len(t) : t[i] = speech[i]
<1>1. Len(u) \in Nat /\ Len(typed) \in Nat
  BY LenProperties
<1>2. /\ t \in Seq(Text) /\ Len(t) = Len(typed) + Len(u)
      /\ \A i \in 1..(Len(typed) + Len(u)) : t[i] = IF i <= Len(typed) THEN typed[i] ELSE u[i - Len(typed)]
  BY AppendedIs
<1>3. ASSUME NEW i \in 1..Len(t) PROVE t[i] = speech[i]
  <2>1. CASE i <= Len(typed)
    BY <1>1, <1>2, <2>1
  <2>2. CASE ~(i <= Len(typed))
    <3>1. i - Len(typed) \in 1..Len(u) /\ Len(typed) + (i - Len(typed)) = i
      BY <1>1, <1>2, <2>2
    <3>2. t[i] = u[i - Len(typed)]
      BY <1>2, <2>2
    <3>3. QED
      BY <3>1, <3>2
  <2>3. QED
    BY <2>1, <2>2
<1>4. QED
  BY <1>1, <1>2, <1>3

\* The words that nothing confirmed: what was typed of them is all that was
\* heard right, and perhaps the misheard last one.
LEMMA RestIsTyped ==
  ASSUME StreamTypes, Plain, InWork, Waiting = 0,
         NEW t, NEW u \in Seq(Text), t = typed \o u,
         \/ u = Unconfirmed
         \/ /\ Len(Unconfirmed) >= 1 /\ Unconfirmed[Len(Unconfirmed)] = Noise
            /\ u = Upto(Unconfirmed, Len(Unconfirmed) - 1)
  PROVE  /\ t \in Seq(Text) /\ right \in 0..Len(speech)
         /\ \A i \in 1..right : t[i] = speech[i]
         /\ Len(t) = right \/ (Len(t) = right + 1 /\ t[right + 1] = Noise)
<1> DEFINE b == hypothesis.buffer
<1>1. /\ b \in Seq(Timed) /\ Len(b) \in Nat /\ Len(speech) \in Nat /\ typed \in Seq(Text) /\ Len(typed) \in Nat
      /\ Len(typed) = Known /\ Known + Len(b) <= Len(speech)
      /\ (b = <<>> <=> Len(b) = 0)
  <2>1. b \in Seq(Timed) /\ typed \in Seq(Text) /\ speech \in Seq(Words)
    BY DEF InWork, CommittedWell, Hypotheses, Typing, StreamTypes
  <2>2. Len(b) \in Nat /\ Len(speech) \in Nat /\ Len(typed) \in Nat /\ (b = <<>> <=> Len(b) = 0)
    BY <2>1, EmptySeq, LenProperties
  <2>3. Len(typed) + Waiting = Known /\ Reach <= Len(speech) /\ Reach = Known + Len(b)
    BY DEF InWork, Typing, Buffered, Reach
  <2>4. Len(typed) = Known
    BY <2>2, <2>3
  <2>5. QED
    BY <2>1, <2>2, <2>3, <2>4
<1>2. PICK w : w = Unconfirmed
  OBVIOUS
<1>3. w \in Seq(Text) /\ Len(w) = Len(b) /\ \A i \in 1..Len(b) : w[i] = b[i].text
  BY <1>1, <1>2, TextsIs DEF Unconfirmed
<1>4. \A i \in 1..Len(b) : w[i] = speech[Len(typed) + i] \/ (i = Len(b) /\ w[i] = Noise)
  BY <1>1, <1>3 DEF InWork, Buffered
<1>5. \A i \in 1..Len(typed) : typed[i] = speech[i]
  BY DEF InWork, Typing
<1>6. Ragged <=> Len(b) >= 1 /\ w[Len(b)] = Noise
  <2>1. Len(b) >= 1 => w[Len(b)] = b[Len(b)].text
    <3> SUFFICES ASSUME Len(b) >= 1 PROVE w[Len(b)] = b[Len(b)].text
      OBVIOUS
    <3>1. Len(b) \in Nat
      BY <1>1
    <3>2. Len(b) \in 1..Len(b)
      BY <3>1
    <3>3. QED
      BY <1>3, <3>2
  <2>2. Len(b) >= 1 <=> b # <<>>
    BY <1>1
  <2>3. QED
    BY <2>1, <2>2 DEF Ragged
<1>7. right = IF Ragged THEN Len(typed) + Len(b) - 1 ELSE Len(typed) + Len(b)
  BY <1>1 DEF InWork, Buffered, Reach
<1>8. \A i \in 1..Len(speech) : speech[i] # Noise
  <2>1. \A i \in 1..Len(speech) : speech[i] \in Words
    BY ElementOfSeq DEF StreamTypes
  <2>2. QED
    BY <2>1 DEF Words
<1> HIDE DEF b
<1>9. CASE ~Ragged
  <2>1. u = w
    BY <1>2, <1>3, <1>6, <1>9
  <2>2. ASSUME NEW i \in 1..Len(u) PROVE u[i] = speech[Len(typed) + i]
    BY <1>1, <1>3, <1>4, <1>6, <1>9, <2>1
  <2>3. /\ t \in Seq(Text) /\ Len(t) = Len(typed) + Len(u)
        /\ \A i \in 1..Len(t) : t[i] = speech[i]
    BY <1>1, <1>5, <2>2, TypedGoesOn
  <2>4. right = Len(t) /\ right \in 0..Len(speech)
    BY <1>1, <1>3, <1>7, <1>9, <2>1, <2>3
  <2>5. QED
    BY <2>3, <2>4
<1>10. CASE Ragged /\ u = w
  <2>1. Len(b) >= 1 /\ w[Len(b)] = Noise
    BY <1>6, <1>10
  <2>2. /\ t \in Seq(Text) /\ Len(t) = Len(typed) + Len(b)
        /\ \A i \in 1..(Len(typed) + Len(b)) : t[i] = IF i <= Len(typed) THEN typed[i] ELSE u[i - Len(typed)]
    <3>1. Len(u) = Len(b) /\ typed \in Seq(Text)
      BY <1>1, <1>3, <1>10
    <3>2. /\ t \in Seq(Text) /\ Len(t) = Len(typed) + Len(u)
          /\ \A i \in 1..(Len(typed) + Len(u)) : t[i] = IF i <= Len(typed) THEN typed[i] ELSE u[i - Len(typed)]
      <4>1. /\ typed \o u \in Seq(Text) /\ Len(typed \o u) = Len(typed) + Len(u)
            /\ \A i \in 1..(Len(typed) + Len(u)) :
                 (typed \o u)[i] = IF i <= Len(typed) THEN typed[i] ELSE u[i - Len(typed)]
        BY <3>1, AppendedIs
      <4>2. t = typed \o u
        OBVIOUS
      <4>3. QED
        BY <4>1, <4>2
    <3>3. QED
      BY <3>1, <3>2
  <2>3. right = Len(typed) + Len(b) - 1 /\ right \in 0..Len(speech) /\ Len(t) = right + 1
    BY <1>1, <1>7, <1>10, <2>1, <2>2
  <2>4. t[right + 1] = Noise
    <3>1. PICK k : k = right + 1
      OBVIOUS
    <3>2. k \in 1..(Len(typed) + Len(b)) /\ ~(k <= Len(typed)) /\ k - Len(typed) = Len(b)
      BY <1>1, <2>1, <2>3, <3>1
    <3>3. t[k] = u[k - Len(typed)]
      <4>1. t[k] = IF k <= Len(typed) THEN typed[k] ELSE u[k - Len(typed)]
        BY <2>2, <3>2
      <4>2. QED
        BY <3>2, <4>1
    <3>4. t[k] = Noise
      BY <1>10, <2>1, <3>2, <3>3
    <3>5. QED
      BY <3>1, <3>4
  <2>5. ASSUME NEW i \in 1..right PROVE t[i] = speech[i]
    <3>1. i \in 1..(Len(typed) + Len(b))
      BY <1>1, <2>1, <2>3
    <3>2. CASE i <= Len(typed)
      BY <1>1, <1>5, <2>2, <2>3, <3>1, <3>2
    <3>3. CASE ~(i <= Len(typed))
      <4>1. i - Len(typed) \in 1..Len(b) /\ i - Len(typed) # Len(b) /\ Len(typed) + (i - Len(typed)) = i
        BY <1>1, <2>1, <2>3, <3>3
      <4>2. w[i - Len(typed)] = speech[i]
        BY <1>4, <4>1
      <4>3. t[i] = u[i - Len(typed)]
        BY <2>2, <3>1, <3>3
      <4>4. QED
        BY <1>10, <4>2, <4>3
    <3>4. QED
      BY <3>2, <3>3
  <2>6. QED
    BY <2>2, <2>3, <2>4, <2>5
<1>11. CASE Ragged /\ u = Upto(w, Len(b) - 1)
  <2>1. Len(b) >= 1 /\ Len(b) - 1 \in 0..Len(w)
    BY <1>1, <1>3, <1>6, <1>11
  <2>2. Len(u) = Len(b) - 1 /\ \A i \in 1..(Len(b) - 1) : u[i] = w[i]
    BY <1>3, <1>11, <2>1, UptoIs
  <2>3. ASSUME NEW i \in 1..Len(u) PROVE u[i] = speech[Len(typed) + i]
    <3>1. i \in 1..Len(b) /\ i # Len(b) /\ i \in 1..(Len(b) - 1)
      BY <1>1, <2>2
    <3>2. QED
      BY <1>4, <2>2, <3>1
  <2>4. /\ t \in Seq(Text) /\ Len(t) = Len(typed) + Len(u)
        /\ \A i \in 1..Len(t) : t[i] = speech[i]
    BY <1>1, <1>5, <2>3, TypedGoesOn
  <2>5. right = Len(t) /\ right \in 0..Len(speech)
    BY <1>1, <1>7, <1>11, <2>1, <2>2, <2>4
  <2>6. QED
    BY <2>4, <2>5
<1>12. QED
  BY <1>2, <1>3, <1>9, <1>10, <1>11

-----------------------------------------------------------------------------
(***************************************************************************)
(* The invariant is kept, action by action                                 *)
(***************************************************************************)
work == <<speech, way, hypothesis, commited, drained, audioFrom, offset, right, typed, output, lastChunk, copied>>

\* Steps that only the threads see.
LEMMA SameWorkFollowed ==
  ASSUME Followed, UNCHANGED work, Working' = Working, loop' = "type" <=> loop = "type"
  PROVE  Followed'
<1>1. Plain' = Plain /\ way' = way
  BY DEF work, Plain
<1>2. CommittedWell' = CommittedWell /\ Buffered' = Buffered /\ Cut' = Cut
  BY DEF work, CommittedWell, Buffered, Cut, Known, Reach, Ragged
<1>3. Waiting' = Waiting
  BY DEF work, Waiting
<1>4. Typing' <=> Typing
  BY <1>3 DEF work, Typing, Known
<1>5. AllTyped' <=> AllTyped
  BY DEF work, AllTyped
<1>6. QED
  BY <1>1, <1>2, <1>4, <1>5 DEF Followed, InWork

LEMMA LoadModelKeeps == ASSUME StreamInv, LoadModel PROVE StreamInv'
<1>1. StreamTypes' /\ Owned'
  BY DEF StreamInv, LoadModel, StreamTypes, Owned, Working, setting, flags, audio, online, chunks
<1>2. UNCHANGED work /\ Working' = Working /\ loop' = loop
  BY DEF LoadModel, work, Working, setting, flags, audio, online, chunks
<1>3. QED
  BY <1>1, <1>2, SameWorkFollowed DEF StreamInv

LEMMA ReadKeeps == ASSUME StreamInv, Read PROVE StreamInv'
<1>1. StreamTypes' /\ Owned'
  BY DEF StreamInv, Read, StreamTypes, Owned, Working, setting, flags, online, chunks
<1>2. UNCHANGED work /\ Working' = Working /\ loop' = loop
  BY DEF Read, work, Working, setting, flags, online, chunks
<1>3. QED
  BY <1>1, <1>2, SameWorkFollowed DEF StreamInv

LEMMA ReaderEndsKeeps == ASSUME StreamInv, ReaderEnds PROVE StreamInv'
<1>1. StreamTypes' /\ Owned'
  BY DEF StreamInv, ReaderEnds, StreamTypes, Owned, Working, setting, flags, online, chunks
<1>2. UNCHANGED work /\ Working' = Working /\ loop' = loop
  BY DEF ReaderEnds, work, Working, setting, flags, online, chunks
<1>3. QED
  BY <1>1, <1>2, SameWorkFollowed DEF StreamInv

LEMMA LoopEndsKeeps == ASSUME StreamInv, LoopEnds PROVE StreamInv'
<1>1. StreamTypes' /\ Owned'
  BY DEF StreamInv, LoopEnds, StreamTypes, Owned, Working, setting, flags, online, chunks
<1>2. UNCHANGED work /\ Working' = Working /\ loop = "wait" /\ loop' = "ended"
  BY DEF LoopEnds, work, Working, setting, flags, online, chunks
<1>3. QED
  BY <1>1, <1>2, SameWorkFollowed DEF StreamInv

LEMMA StopRecordingKeeps == ASSUME StreamInv, StopRecording PROVE StreamInv'
<1>1. StreamTypes' /\ Owned'
  BY DEF StreamInv, StopRecording, StreamTypes, Owned, Working, setting, online, chunks
<1>2. UNCHANGED work /\ Working' /\ Working /\ loop' = loop
  BY DEF StopRecording, work, Working, setting, online, chunks
<1>3. Working' = Working
  BY <1>2 DEF Working
<1>4. QED
  BY <1>1, <1>2, <1>3, SameWorkFollowed DEF StreamInv

LEMMA StutterKeeps == ASSUME StreamInv, UNCHANGED streamingVars PROVE StreamInv'
<1>1. StreamTypes' /\ Owned'
  BY DEF StreamInv, streamingVars, StreamTypes, Owned, Working, setting, flags, audio, online, chunks
<1>2. UNCHANGED work /\ Working' = Working /\ loop' = loop
  BY DEF streamingVars, work, Working, setting, flags, audio, online, chunks
<1>3. QED
  BY <1>1, <1>2, SameWorkFollowed DEF StreamInv

LEMMA CopyKeeps == ASSUME StreamInv, Copy PROVE StreamInv'
<1>1. StreamTypes' /\ Owned'
  BY DEF StreamInv, Copy, StreamTypes, Owned, Working, setting, flags, online
<1>2. ~Working /\ ~Working'
  BY DEF StreamInv, Copy, Working, Owned, flags
<1>3. Plain' = Plain /\ way' = way
  BY DEF Copy, flags, setting, Plain
<1>4. AllTyped => AllTyped'
  BY DEF Copy, AllTyped, flags, online
<1>5. QED
  BY <1>1, <1>2, <1>3, <1>4 DEF StreamInv, Followed

LEMMA ResetKeeps == ASSUME StreamInv, Reset PROVE StreamInv'
<1>1. StreamTypes' /\ Owned'
  BY DEF StreamInv, Reset, StreamTypes, Owned, Working, setting, RestartProcessor, chunks
<1>2. ~Working /\ ~Working'
  BY DEF StreamInv, Reset, Working, Owned
<1>3. Plain' = Plain /\ way' = way
  BY DEF Reset, setting, Plain
<1>4. AllTyped => AllTyped'
  BY DEF Reset, AllTyped, chunks
<1>5. QED
  BY <1>1, <1>2, <1>3, <1>4 DEF StreamInv, Followed

LEMMA StartRecordingKeeps ==
  ASSUME StreamInv, NEW words \in Speeches, StartRecording(words) PROVE StreamInv'
<1>1. words \in Seq(Words)
  BY StreamingAssumption
<1>2. /\ speech' = words /\ drained' = 0 /\ audioFrom' = 0 /\ offset' = 0 /\ hypothesis' = Empty
      /\ commited' = <<>> /\ right' = 0 /\ output' = <<>> /\ typed' = <<>> /\ lastChunk' = <<>> /\ copied' = <<>>
      /\ recording' = TRUE /\ loop' \in {"wait", "ended"}
  BY DEF StartRecording, RestartProcessor
<1>3. StreamTypes' /\ Owned'
  <2>1. StreamTypes'
    BY <1>1, <1>2 DEF StreamInv, StartRecording, StreamTypes, setting
  <2>2. Owned'
    BY <1>2 DEF StreamInv, StartRecording, StreamTypes, Owned, Working, setting
  <2>3. QED
    BY <2>1, <2>2
<1>4. <<>> \in Seq(Timed) /\ <<>> \in Seq(Text) /\ Len(<<>>) = 0 /\ Len(speech') \in Nat
  BY <1>1, <1>2, EmptySeq, LenProperties
<1>5. /\ hypothesis' = [committed |-> <<>>, buffer |-> <<>>, last |-> 0]
      /\ hypothesis'.committed = <<>> /\ hypothesis'.buffer = <<>> /\ hypothesis'.last = 0
      /\ Known' = 0 /\ Reach' = 0 /\ ~Ragged'
  BY <1>2, <1>4 DEF Empty, Known, Reach, Ragged
<1>6. CommittedWell'
  BY <1>2, <1>4, <1>5 DEF CommittedWell, Hypotheses
<1>7. Buffered' /\ Cut'
  BY <1>2, <1>4, <1>5 DEF Buffered, Cut
<1>8. Typing'
  BY <1>2, <1>4, <1>5 DEF Typing, Waiting
<1>9. Working'
  BY <1>2 DEF Working
<1>10. QED
  BY <1>3, <1>6, <1>7, <1>8, <1>9 DEF StreamInv, Followed, InWork

LEMMA IterateFailsKeeps == ASSUME StreamInv, IterateFails PROVE StreamInv'
<1>1. Working /\ Working' /\ drained <= heard /\ drained' = heard
  BY DEF StreamInv, IterateFails, Owned, Working, StreamTypes, Drain, flags, audio
<1>2. StreamTypes' /\ Owned'
  BY <1>1 DEF StreamInv, IterateFails, StreamTypes, Owned, Working, setting, flags, audio, chunks, Drain
<1>3. Plain' = Plain /\ way' = way
  BY DEF IterateFails, flags, setting, Plain
<1>4. ASSUME InWork PROVE InWork'
  <2>1. CommittedWell'
    BY <1>4 DEF IterateFails, InWork, CommittedWell, Known, flags
  <2>2. Known' = Known /\ Reach' = Reach /\ Ragged' = Ragged /\ speech' = speech
    BY DEF IterateFails, Known, Reach, Ragged, flags
  <2>3. Reach \in Nat
    <3>1. hypothesis.buffer \in Seq(Timed) /\ commited \in Seq(Timed)
      BY <1>4 DEF InWork, CommittedWell, Hypotheses
    <3>2. QED
      BY <3>1, LenProperties DEF Reach, Known
  <2>4. Buffered'
    <3>1. Reach' <= drained'
      BY <1>1, <1>4, <2>2, <2>3 DEF InWork, Buffered, StreamInv, StreamTypes
    <3>2. hypothesis' = hypothesis /\ right' = right
      BY DEF IterateFails
    <3>3. QED
      BY <1>4, <2>2, <3>1, <3>2 DEF InWork, Buffered
  <2>5. Cut'
    <3>1. offset' = offset /\ audioFrom' = audioFrom /\ audioFrom \in Nat
      <4>1. Known \in Nat
        BY <1>4, LenProperties DEF InWork, CommittedWell, Known
      <4>2. QED
        BY <1>4, <4>1 DEF IterateFails, InWork, Cut
    <3>2. audioFrom # 0 => audioFrom < drained'
      BY <1>1, <1>4, <3>1 DEF InWork, Cut, StreamInv, StreamTypes
    <3>3. QED
      BY <1>4, <2>2, <3>1, <3>2 DEF InWork, Cut
  <2>6. Typing'
    BY <1>4, <2>2 DEF InWork, Typing, IterateFails, Waiting, audio, chunks
  <2>7. QED
    BY <2>1, <2>4, <2>5, <2>6 DEF InWork
<1>5. QED
  BY <1>1, <1>2, <1>3, <1>4 DEF StreamInv, Followed

\* The sequences and numbers while a recording is worked on.
LEMMA WorkTypes ==
  ASSUME InWork
  PROVE  /\ commited \in Seq(Timed) /\ Known \in Nat /\ typed \in Seq(Text) /\ Len(typed) \in Nat
         /\ output \in Seq(Text) /\ Len(output) \in Nat /\ lastChunk \in Seq(Text)
         /\ Waiting \in Nat /\ Len(typed) + Waiting = Known /\ Known <= Len(speech)
<1>1. commited \in Seq(Timed) /\ typed \in Seq(Text) /\ output \in Seq(Text) /\ lastChunk \in Seq(Text)
  BY DEF InWork, CommittedWell, Typing
<1>2. Known \in Nat /\ Len(typed) \in Nat /\ Len(output) \in Nat
  BY <1>1, LenProperties DEF Known
<1>3. QED
  BY <1>1, <1>2 DEF InWork, CommittedWell, Typing, Waiting

LEMMA IterateKeeps == ASSUME StreamInv, Iterate PROVE StreamInv'
<1>1. /\ Working /\ Working' /\ drained <= heard /\ loop = "wait" /\ loop' = "type" /\ heard \in Nat
      /\ heard' = heard /\ speech' = speech /\ way' = way /\ ProcessIter(heard)
      /\ typed' = typed /\ lastChunk' = lastChunk /\ copied' = copied
  BY DEF StreamInv, Iterate, Owned, Working, StreamTypes, setting, flags
<1>2. drained' = heard
  BY <1>1 DEF ProcessIter
<1>3. StreamTypes' /\ Owned'
  BY <1>1, <1>2 DEF StreamInv, Iterate, StreamTypes, Owned, Working, setting, flags
<1>4. Plain' = Plain
  BY <1>1 DEF Plain
<1>5. ASSUME Plain, way = "segment", InWork PROVE InWork'
  <2>1. Listening(heard)
    BY <1>1, <1>5 DEF Listening, StreamInv, InWork, Iterate
  <2>2. /\ CommittedWell' /\ Buffered' /\ Cut'
        /\ output' \in Seq(Text) /\ Len(output') \in Nat /\ Known' = Known + Len(output')
        /\ \A i \in 1..Len(output') : output'[i] = speech[Known + i]
    BY <1>1, <1>5, <2>1, ProcessIterKeeps
  <2>3. Len(typed) = Known /\ Known \in Nat /\ typed \in Seq(Text) /\ lastChunk \in Seq(Text)
    BY <1>1, <1>5, WorkTypes DEF Waiting
  <2>4. Waiting' = Len(output')
    BY <1>1 DEF Waiting
  <2>5. Typing'
    BY <1>1, <1>5, <2>2, <2>3, <2>4 DEF Typing, InWork
  <2>6. QED
    BY <2>2, <2>5 DEF InWork
<1>6. QED
  BY <1>1, <1>3, <1>4, <1>5 DEF StreamInv, Followed

LEMMA TypeCommittedKeeps == ASSUME StreamInv, TypeCommitted PROVE StreamInv'
<1>1. /\ Working /\ Working' /\ loop = "type" /\ loop' = "wait" /\ speech' = speech /\ way' = way
      /\ TypeOut(output, FALSE) /\ output' = <<>> /\ UNCHANGED online /\ copied' = copied
  BY DEF StreamInv, TypeCommitted, Owned, Working, StreamTypes, setting, flags
<1>2. StreamTypes' /\ Owned'
  BY <1>1 DEF StreamInv, TypeCommitted, StreamTypes, Owned, Working, setting, flags, online
<1>3. Plain' = Plain
  BY <1>1 DEF Plain
<1>4. ASSUME Plain, way = "segment", InWork PROVE InWork'
  <2>1. CommittedWell' /\ Buffered' /\ Cut' /\ Known' = Known
    BY <1>1, <1>4 DEF InWork, CommittedWell, Buffered, Cut, Known, Reach, Ragged, online
  <2>2. Waiting = Len(output) /\ Waiting' = 0
    BY <1>1 DEF Waiting
  <2>3. /\ Len(typed) + Len(output) = Known /\ Known <= Len(speech) /\ Known \in Nat
        /\ output \in Seq(Text) /\ typed \in Seq(Text) /\ Len(typed) \in Nat /\ Len(output) \in Nat
    BY <1>4, <2>2, WorkTypes
  <2>4. \A i \in 1..Len(output) : output[i] = speech[Len(typed) + i]
    BY <1>1, <1>4 DEF InWork, Typing
  <2>5. GoesOn(output)
    BY <1>4, <2>3, <2>4 DEF GoesOn, FromThere, Begun, StreamInv, InWork, Typing
  <2>6. Len(output) >= 1 => output[Len(output)] # Noise
    <3> SUFFICES ASSUME Len(output) >= 1 PROVE output[Len(output)] # Noise
      OBVIOUS
    <3>1. Len(output) \in 1..Len(output)
      BY <2>3
    <3>2. Len(typed) + Len(output) \in 1..Len(speech) /\ output[Len(output)] = speech[Len(typed) + Len(output)]
      BY <2>3, <2>4, <2>5, <3>1, GoesOnIs
    <3>3. QED
      BY <2>5, <3>2, GoesOnIs
  <2>7. typed' = typed \o output /\ (lastChunk' = lastChunk \/ (output # <<>> /\ lastChunk' = output))
    BY <1>1, <2>5, <2>6, TypeOutIs
  <2>8. /\ typed' \in Seq(Text) /\ Len(typed') = Len(typed) + Len(output)
        /\ \A i \in 1..Len(typed') : typed'[i] = speech[i]
    <3>1. PICK t : t = typed'
      OBVIOUS
    <3>2. \A i \in 1..Len(typed) : typed[i] = speech[i]
      BY <1>4 DEF InWork, Typing
    <3>3. /\ t \in Seq(Text) /\ Len(t) = Len(typed) + Len(output)
          /\ \A i \in 1..Len(t) : t[i] = speech[i]
      BY <2>3, <2>4, <2>7, <3>1, <3>2, TypedGoesOn DEF StreamInv
    <3>4. QED
      BY <3>1, <3>3
  <2>9. lastChunk' # <<>> => \E j \in 1..Len(typed') : lastChunk'[1] = speech'[j]
    <3>1. CASE lastChunk' = lastChunk
      <4> SUFFICES ASSUME lastChunk # <<>> PROVE \E j \in 1..Len(typed') : lastChunk[1] = speech[j]
        BY <1>1, <3>1
      <4>1. PICK j \in 1..Len(typed) : lastChunk[1] = speech[j]
        BY <1>4 DEF InWork, Typing
      <4>2. j \in 1..Len(typed')
        BY <2>3, <2>8
      <4>3. QED
        BY <4>1, <4>2
    <3>2. CASE output # <<>> /\ lastChunk' = output
      <4>1. Len(output) >= 1
        BY <2>3, <3>2, EmptySeq
      <4>2. 1 \in 1..Len(output) /\ Len(typed) + 1 \in 1..Len(typed')
        BY <2>3, <2>8, <4>1
      <4>3. output[1] = speech[Len(typed) + 1]
        BY <2>4, <4>2
      <4>4. QED
        BY <1>1, <3>2, <4>2, <4>3
    <3>3. QED
      BY <2>7, <3>1, <3>2
  <2>10. lastChunk' \in Seq(Text) /\ output' \in Seq(Text)
    BY <1>1, <1>4, <2>3, <2>7, WorkTypes, EmptySeq
  <2>11. Len(typed') + Waiting' = Known'
    BY <2>1, <2>2, <2>3, <2>8
  <2>12. Typing'
    BY <1>1, <1>4, <2>8, <2>9, <2>10, <2>11 DEF Typing, InWork
  <2>13. QED
    BY <2>1, <2>12 DEF InWork
<1>5. QED
  BY <1>1, <1>2, <1>3, <1>4 DEF StreamInv, Followed

\* The rest is typed.
LEMMA FinishKeeps == ASSUME StreamInv, Finish PROVE StreamInv'
<1>1. /\ Working /\ ~Working' /\ loop = "ended" /\ speech' = speech /\ way' = way
      /\ TypeOut(Unconfirmed, TRUE) /\ copied' = copied /\ right' = right /\ drained' = heard
  BY DEF StreamInv, Finish, Owned, Working, StreamTypes, setting, flags, Drain
<1>2. StreamTypes' /\ Owned'
  BY <1>1 DEF StreamInv, Finish, StreamTypes, Owned, Working, setting, flags
<1>3. Plain' = Plain
  BY <1>1 DEF Plain
<1>4. ASSUME Plain, way = "segment", InWork PROVE AllTyped'
  <2>1. Waiting = 0
    BY <1>1 DEF Waiting
  <2>2. PICK w : w = Unconfirmed
    OBVIOUS
  <2>3. /\ hypothesis.buffer \in Seq(Timed) /\ Len(hypothesis.buffer) \in Nat
        /\ w \in Seq(Text) /\ Len(w) = Len(hypothesis.buffer)
        /\ \A i \in 1..Len(w) : w[i] = hypothesis.buffer[i].text
    <3>1. hypothesis.buffer \in Seq(Timed)
      BY <1>4 DEF InWork, CommittedWell, Hypotheses
    <3>2. QED
      BY <2>2, <3>1, LenProperties, TextsIs DEF Unconfirmed
  <2>4. Len(typed) = Known /\ Known \in Nat
    BY <1>4, <2>1, WorkTypes
  <2>5. Len(typed) + Len(w) <= Len(speech)
    BY <1>4, <2>3, <2>4 DEF InWork, Buffered, Reach
  <2>6. \A i \in 1..Len(w) : w[i] = speech[Len(typed) + i] \/ (i = Len(w) /\ w[i] = Noise)
    BY <1>4, <2>3, <2>4 DEF InWork, Buffered
  <2>7. GoesOn(w)
    BY <1>4, <2>3, <2>5, <2>6 DEF GoesOn, FromThere, Begun, StreamInv, InWork, Typing
  <2>8. PICK u \in Seq(Text) :
          /\ \/ u = w
             \/ Len(w) >= 1 /\ w[Len(w)] = Noise /\ u = Upto(w, Len(w) - 1)
          /\ typed' = typed \o u
    BY <1>1, <2>2, <2>7, TypeOutIs
  <2>9. PICK t : t = typed'
    OBVIOUS
  <2>10. /\ t \in Seq(Text) /\ right \in 0..Len(speech)
         /\ \A i \in 1..right : t[i] = speech[i]
         /\ Len(t) = right \/ (Len(t) = right + 1 /\ t[right + 1] = Noise)
    BY <1>4, <2>1, <2>2, <2>8, <2>9, RestIsTyped DEF StreamInv
  <2>11. copied' = <<>>
    BY <1>1, <1>4 DEF InWork, Typing
  <2>12. QED
    BY <1>1, <2>9, <2>10, <2>11 DEF AllTyped
<1>5. QED
  BY <1>1, <1>2, <1>3, <1>4 DEF StreamInv, Followed

LEMMA SimulateChunkKeeps == ASSUME StreamInv, SimulateChunk PROVE StreamInv'
<1>1. PICK to \in drained + 1..Len(speech) + 1 : ProcessIter(to) /\ typed' = typed \o output'
  BY DEF SimulateChunk
<1>2. /\ Working /\ Working' /\ driver = "file" /\ loop = "ended" /\ loop' = loop /\ drained' = to
      /\ speech' = speech /\ way' = way /\ lastChunk' = lastChunk /\ copied' = copied
  BY <1>1 DEF StreamInv, SimulateChunk, Owned, Working, StreamTypes, setting, flags, audio, ProcessIter
<1>3. drained \in Nat /\ to \in Nat /\ to > drained
  <2>1. Len(speech) \in Nat /\ drained \in Nat
    BY LenProperties DEF StreamInv, StreamTypes
  <2>2. QED
    BY <2>1
<1>4. StreamTypes' /\ Owned'
  BY <1>2, <1>3 DEF StreamInv, SimulateChunk, StreamTypes, Owned, Working, setting, flags, audio
<1>5. Plain' = Plain
  BY <1>2 DEF Plain
<1>6. ASSUME Plain, way = "segment", InWork PROVE InWork'
  <2>1. Listening(to)
    BY <1>3, <1>6 DEF Listening, StreamInv, InWork
  <2>2. /\ CommittedWell' /\ Buffered' /\ Cut'
        /\ output' \in Seq(Text) /\ Len(output') \in Nat /\ Known' = Known + Len(output')
        /\ \A i \in 1..Len(output') : output'[i] = speech[Known + i]
    BY <1>1, <1>2, <1>6, <2>1, ProcessIterKeeps
  <2>3. Waiting = 0 /\ Waiting' = 0
    BY <1>2 DEF Waiting
  <2>4. Len(typed) = Known /\ Known \in Nat /\ typed \in Seq(Text) /\ lastChunk \in Seq(Text)
    BY <1>6, <2>3, WorkTypes
  <2>5. /\ typed' \in Seq(Text) /\ Len(typed') = Len(typed) + Len(output')
        /\ \A i \in 1..Len(typed') : typed'[i] = speech[i]
    <3>1. PICK t, o : t = typed' /\ o = output'
      OBVIOUS
    <3>2. \A i \in 1..Len(typed) : typed[i] = speech[i]
      BY <1>6 DEF InWork, Typing
    <3>3. o \in Seq(Text) /\ t = typed \o o /\ \A i \in 1..Len(o) : o[i] = speech[Len(typed) + i]
      BY <1>1, <2>2, <2>4, <3>1
    <3>4. /\ t \in Seq(Text) /\ Len(t) = Len(typed) + Len(o)
          /\ \A i \in 1..Len(t) : t[i] = speech[i]
      BY <2>4, <3>2, <3>3, TypedGoesOn DEF StreamInv
    <3>5. QED
      BY <3>1, <3>4
  <2>6. lastChunk' # <<>> => \E j \in 1..Len(typed') : lastChunk'[1] = speech'[j]
    <3> SUFFICES ASSUME lastChunk # <<>> PROVE \E j \in 1..Len(typed') : lastChunk[1] = speech[j]
      BY <1>2
    <3>1. PICK j \in 1..Len(typed) : lastChunk[1] = speech[j]
      BY <1>6 DEF InWork, Typing
    <3>2. j \in 1..Len(typed')
      BY <2>2, <2>4, <2>5
    <3>3. QED
      BY <3>1, <3>2
  <2>7. Typing'
    BY <1>2, <1>6, <2>2, <2>3, <2>4, <2>5, <2>6 DEF Typing, InWork
  <2>8. QED
    BY <2>2, <2>7 DEF InWork
<1>7. QED
  BY <1>2, <1>4, <1>5, <1>6 DEF StreamInv, Followed

LEMMA SimulateEndKeeps == ASSUME StreamInv, SimulateEnd PROVE StreamInv'
<1>1. /\ Working /\ ~Working' /\ loop = "ended" /\ speech' = speech /\ way' = way
      /\ typed' = typed \o Unconfirmed /\ copied' = typed' /\ right' = right
  BY DEF StreamInv, SimulateEnd, Owned, Working, StreamTypes, setting, audio, online
<1>2. StreamTypes' /\ Owned'
  BY <1>1 DEF StreamInv, SimulateEnd, StreamTypes, Owned, Working, setting, audio, online
<1>3. Plain' = Plain
  BY <1>1 DEF Plain
<1>4. ASSUME Plain, way = "segment", InWork PROVE AllTyped'
  <2>1. Waiting = 0
    BY <1>1 DEF Waiting
  <2>2. PICK t, u : t = typed' /\ u = Unconfirmed
    OBVIOUS
  <2>3. u \in Seq(Text)
    <3>1. hypothesis.buffer \in Seq(Timed)
      BY <1>4 DEF InWork, CommittedWell, Hypotheses
    <3>2. QED
      BY <2>2, <3>1, TextsIs DEF Unconfirmed
  <2>4. /\ t \in Seq(Text) /\ right \in 0..Len(speech)
        /\ \A i \in 1..right : t[i] = speech[i]
        /\ Len(t) = right \/ (Len(t) = right + 1 /\ t[right + 1] = Noise)
    BY <1>1, <1>4, <2>1, <2>2, <2>3, RestIsTyped DEF StreamInv
  <2>5. QED
    BY <1>1, <2>2, <2>4 DEF AllTyped
<1>5. QED
  BY <1>1, <1>2, <1>3, <1>4 DEF StreamInv, Followed

LEMMA StreamInitHolds == ASSUME StreamingInit PROVE StreamInv
<1>1. driver \in {"dictate", "file"} /\ way \in {"segment", "sentence"}
  BY StreamingAssumption DEF StreamingInit, Factory
<1>2. /\ <<>> \in Seq(Words) /\ <<>> \in Seq(Text) /\ Len(<<>>) = 0
  BY EmptySeq
<1>3. StreamTypes
  BY <1>1, <1>2 DEF StreamingInit, StreamTypes, EnglishOnly
<1>4. Owned /\ ~Working
  BY DEF StreamingInit, Owned, Working
<1>5. AllTyped
  BY <1>2 DEF StreamingInit, AllTyped
<1>6. QED
  BY <1>3, <1>4, <1>5 DEF StreamInv, Followed

(* What is committed is the beginning of what was said, the last hypothesis
   goes on from there, the audio is cut within what is committed, and all of
   it is typed in the end.                                                 *)
THEOREM StreamingInvariant == StreamingSpec => []StreamInv
<1>1. StreamingInit => StreamInv
  BY StreamInitHolds
<1>2. StreamInv /\ [StreamingNext]_streamingVars => StreamInv'
  <2> SUFFICES ASSUME StreamInv, [StreamingNext]_streamingVars PROVE StreamInv'
    OBVIOUS
  <2>1. CASE \E words \in Speeches : StartRecording(words)
    BY <2>1, StartRecordingKeeps
  <2>2. CASE LoadModel
    BY <2>2, LoadModelKeeps
  <2>3. CASE Read
    BY <2>3, ReadKeeps
  <2>4. CASE StopRecording
    BY <2>4, StopRecordingKeeps
  <2>5. CASE ThreadStep
    <3>1. CASE ReaderEnds
      BY <3>1, ReaderEndsKeeps
    <3>2. CASE Iterate
      BY <3>2, IterateKeeps
    <3>3. CASE IterateFails
      BY <3>3, IterateFailsKeeps
    <3>4. CASE TypeCommitted
      BY <3>4, TypeCommittedKeeps
    <3>5. CASE LoopEnds
      BY <3>5, LoopEndsKeeps
    <3>6. CASE Finish
      BY <3>6, FinishKeeps
    <3>7. CASE Copy
      BY <3>7, CopyKeeps
    <3>8. CASE Reset
      BY <3>8, ResetKeeps
    <3>9. QED
      BY <2>5, <3>1, <3>2, <3>3, <3>4, <3>5, <3>6, <3>7, <3>8 DEF ThreadStep
  <2>6. CASE FileStep
    BY <2>6, SimulateChunkKeeps, SimulateEndKeeps DEF FileStep
  <2>7. CASE UNCHANGED streamingVars
    BY <2>7, StutterKeeps
  <2>8. QED
    BY <2>1, <2>2, <2>3, <2>4, <2>5, <2>6, <2>7 DEF StreamingNext
<1>3. QED
  BY <1>1, <1>2, PTL DEF StreamingSpec

(* However hypotheses grow, agree and are trimmed, what is typed of a plain
   speech is its beginning, word by word; only the last word of a finished
   dictation can be a misheard one.                                        *)
THEOREM TypedWordsInOrder == StreamingSpec => []TypedInOrder
<1>1. ASSUME StreamInv PROVE TypedInOrder
  <2> SUFFICES ASSUME Plain, way = "segment"
               PROVE  /\ \A i \in DOMAIN typed :
                           \/ typed[i] = Noise /\ i = Len(typed) /\ ~recording
                           \/ i <= Len(speech) /\ typed[i] = speech[i]
                      /\ copied \in {<<>>, typed}
    BY DEF TypedInOrder
  <2>1. Len(speech) \in Nat
    BY <1>1, LenProperties DEF StreamInv, StreamTypes
  <2>2. CASE Working
    <3>1. InWork
      BY <1>1, <2>2 DEF StreamInv, Followed
    <3>2. DOMAIN typed = 1..Len(typed) /\ Len(typed) <= Len(speech) /\ Len(typed) \in Nat
      <4>1. /\ typed \in Seq(Text) /\ Len(typed) \in Nat /\ Waiting \in Nat /\ Known \in Nat
            /\ Len(typed) + Waiting = Known /\ Known <= Len(speech)
        BY <3>1, WorkTypes
      <4>2. QED
        BY <2>1, <4>1, LenProperties
    <3>3. QED
      BY <2>1, <3>1, <3>2 DEF InWork, Typing
  <2>3. CASE ~Working
    <3>1. AllTyped /\ ~recording
      BY <1>1, <2>3 DEF StreamInv, Followed, Working
    <3>2. /\ DOMAIN typed = 1..Len(typed) /\ right \in Nat /\ right <= Len(speech)
          /\ Len(typed) = right \/ (Len(typed) = right + 1 /\ typed[right + 1] = Noise)
      BY <2>1, <3>1, LenProperties DEF AllTyped
    <3>3. ASSUME NEW i \in 1..Len(typed)
          PROVE  \/ typed[i] = Noise /\ i = Len(typed)
                 \/ i <= Len(speech) /\ typed[i] = speech[i]
      <4>1. Len(typed) \in Nat /\ i \in Nat /\ i >= 1 /\ i <= Len(typed)
        BY <3>1, LenProperties DEF AllTyped
      <4>2. CASE i <= right
        <5>1. i \in 1..right /\ i <= Len(speech)
          <6>1. right \in Nat /\ right <= Len(speech)
            BY <3>2
          <6>2. QED
            BY <2>1, <4>1, <4>2, <6>1
        <5>2. typed[i] = speech[i]
          BY <3>1, <5>1 DEF AllTyped
        <5>3. QED
          BY <5>1, <5>2
      <4>3. CASE ~(i <= right)
        <5>1. Len(typed) # right
          BY <4>1, <4>3
        <5>2. Len(typed) = right + 1 /\ typed[right + 1] = Noise
          BY <3>2, <5>1
        <5>3. i = Len(typed)
          BY <3>2, <4>1, <4>3, <5>2
        <5>4. typed[Len(typed)] = Noise
          BY <5>2, Zenon
        <5>5. QED
          BY <5>3, <5>4
      <4>4. QED
        BY <4>2, <4>3
    <3>4. QED
      BY <3>1, <3>2, <3>3 DEF AllTyped
  <2>4. QED
    BY <2>2, <2>3
<1>2. QED
  BY <1>1, StreamingInvariant, PTL

(* When a dictation ends, every word the last hypothesis heard right was
   typed.                                                                  *)
THEOREM HeardWordsAreTyped == StreamingSpec => []NothingHeardIsLost
<1>1. ASSUME StreamInv PROVE NothingHeardIsLost
  <2> DEFINE I == {i \in DOMAIN typed : typed[i] # Noise}
  <2> SUFFICES ASSUME Plain, way = "segment", ~recording, ~processing PROVE Cardinality(I) = right
    BY DEF NothingHeardIsLost
  <2>1. AllTyped /\ speech \in Seq(Words)
    BY <1>1 DEF StreamInv, Followed, Working, Owned, StreamTypes
  <2>2. /\ DOMAIN typed = 1..Len(typed) /\ Len(typed) \in Nat /\ Len(speech) \in Nat
        /\ right \in Nat /\ right <= Len(speech)
    <3>1. typed \in Seq(Text) /\ right \in 0..Len(speech)
      BY <2>1 DEF AllTyped
    <3>2. QED
      BY <2>1, <3>1, LenProperties
  <2>3. ASSUME NEW i \in 1..right PROVE typed[i] # Noise
    <3>1. i \in 1..Len(speech)
      BY <2>2
    <3>2. typed[i] = speech[i]
      BY <2>1 DEF AllTyped
    <3>3. speech[i] \in Words
      BY <2>1, <3>1, ElementOfSeq
    <3>4. QED
      BY <3>2, <3>3 DEF Words
  <2>4. I = 1..right
    <3>1. CASE Len(typed) = right
      BY <2>2, <2>3, <3>1
    <3>2. CASE Len(typed) = right + 1 /\ typed[right + 1] = Noise
      <4>1. right + 1 \notin I
        BY <3>2
      <4>2. 1..(right + 1) = 1..right \cup {right + 1}
        BY <2>2
      <4>3. DOMAIN typed = 1..right \cup {right + 1}
        BY <2>2, <3>2, <4>2, Zenon
      <4>4. QED
        BY <2>3, <4>1, <4>3
    <3>3. QED
      BY <2>1, <3>1, <3>2 DEF AllTyped
  <2>5. Cardinality(1..right) = right
    <3>1. right \in Int /\ 1 \in Int
      BY <2>2
    <3>2. Cardinality(1..right) = IF 1 > right THEN 0 ELSE right - 1 + 1
      BY <3>1, FS_Interval
    <3>3. QED
      BY <2>2, <3>1, <3>2
  <2>6. QED
    BY <2>4, <2>5
<1>2. QED
  BY <1>1, StreamingInvariant, PTL

(* The processor is never restarted, drained or finished for one recording
   while the thread of another uses it.                                    *)
THEOREM ProcessorHasOneOwner == StreamingSpec => []ProcessorOwned
<1>1. StreamInv => ProcessorOwned
  BY DEF StreamInv, Owned, Working, StreamTypes, ProcessorOwned
<1>2. QED
  BY <1>1, StreamingInvariant, PTL
=============================================================================
