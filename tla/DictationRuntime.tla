-------------------------- MODULE DictationRuntime --------------------------
(***************************************************************************)
(* The Python application: RuntimeController (runtime.py) driving one      *)
(* DictationSession (core/session.py) per dictation.                       *)
(*                                                                         *)
(* The Qt application thread is the only one that starts, stops, cancels   *)
(* and shuts down.  A stopped dictation is transcribed, cleaned, stored    *)
(* and inserted by a processing thread; with live insertion a third thread *)
(* transcribes chunks during the recording.  They share the fields of the  *)
(* controller without a lock, and the session under its RLock: every       *)
(* locked section, and every access to a field another thread may write,   *)
(* is a step of its own.                                                   *)
(*                                                                         *)
(* Files are pairs <<kind, session>>.  `cancelled' is the pair             *)
(* _cancel_requested / cancellation event, which nothing resets once the   *)
(* session records.                                                        *)
(***************************************************************************)
EXTENDS Integers

CONSTANTS
  MaxSessions,    \* bound on the DictationSession objects that are built
  MaxChunks,      \* bound on the live chunks of one recording
  MaxCrashes,     \* bound on how often the process dies
  Gpu,            \* the resolved device is nvidia or amd
  LiveInsertion,  \* live_insertion of the mode or the configuration
  Retain,         \* AudioRetentionPolicy.enabled
  QtClipboard,    \* text is pasted through QtClipboardBridge
  Faults          \* which of AllFaults the environment may produce

AllFaults == {"build", "mic", "silence", "copy", "provider", "text", "retain", "database", "insert", "live"}

ASSUME DictationAssumption ==
  /\ MaxSessions \in Nat /\ MaxChunks \in Nat /\ MaxCrashes \in Nat
  /\ {Gpu, LiveInsertion, Retain, QtClipboard} \subseteq BOOLEAN
  /\ Faults \subseteq AllFaults

Sessions == 1..MaxSessions
None == 0

VARIABLES
  built,       \* how many sessions were built
  session,     \* RuntimeController._session
  state,       \* DictationSession._state of each session
  cancelled,   \* the sessions whose cancellation was accepted
  main,        \* where the application thread is
  processing,  \* RuntimeController._processing_thread: the recording it is for
  proc,        \* where the processing thread of each recording is
  work,        \* the session that thread works on: the recorded one or its CPU retry
  liveCapture, \* RuntimeController._live_capture: the session it belongs to
  liveThread,  \* RuntimeController._live_thread
  liveStop,    \* the _live_stop event
  live,        \* where the live worker of each recording is
  chunks,      \* how many live chunks of each recording were taken
  closed,      \* RuntimeController._closed, and with it the history connection
  mic,         \* the sessions whose QAudioSource is open
  files,       \* the temporary WAV files on disk
  kept,        \* the sessions whose recording was moved to retention storage
  rows,        \* the sessions with a history row
  inserted,    \* the sessions whose final text was delivered
  crashes,
  overtaken    \* history: the sessions under way when the process was shut down or died

sessionVars == <<built, session, state, cancelled>>
threadVars == <<processing, proc, work>>
liveVars == <<liveCapture, liveThread, liveStop, live, chunks>>
diskVars == <<files, kept, rows, inserted>>
runtime == <<sessionVars, main, threadVars, liveVars, diskVars, closed, mic, crashes, overtaken>>

Resting == {"idle", "completed", "cancelled", "failed"}
Working == {"processing", "cleaning", "inserting"}
Terminal == {"completed", "cancelled", "failed"}
States == Resting \cup Working \cup {"recording", "none"}

Steps == {"enter", "check1", "transcribe", "check2", "clean", "check3", "retain", "add",
          "check4", "inserting", "check5", "insert", "save", "provider", "broken"}
ThreadAt == Steps \cup {"off", "copy", "release", "retry", "leave", "forget", "ended"}
LiveAt == {"off", "begin", "wait", "infer", "insert", "delete", "ended"}
MainAt == {"idle", "alive", "build", "open", "live", "join", "stop", "quit", "down"}

Init ==
  /\ built = 0 /\ session = None
  /\ state = [s \in Sessions |-> "none"]
  /\ cancelled = {}
  /\ main = "idle"
  /\ processing = None
  /\ proc = [s \in Sessions |-> "off"]
  /\ work = [s \in Sessions |-> s]
  /\ liveCapture = None /\ liveThread = None /\ liveStop = FALSE
  /\ live = [s \in Sessions |-> "off"]
  /\ chunks = [s \in Sessions |-> 0]
  /\ closed = FALSE
  /\ mic = {} /\ files = {} /\ kept = {} /\ rows = {} /\ inserted = {}
  /\ crashes = 0 /\ overtaken = {}

MainAtStep(here, next) == main = here /\ main' = next
IsRecording == session # None /\ state[session] = "recording"
AtWork(s) == proc[s] \in Steps \cup {"copy", "release", "retry"}
UnderWay == {work[t] : t \in {t \in Sessions : AtWork(t)}}
Alive(s) == proc[s] \notin {"off", "ended"}
LiveAlive(s) == live[s] \notin {"off", "ended"}

(***************************************************************************)
(* QtMultimediaAudioCapture and TempAudioManager.                          *)
(***************************************************************************)
\* No microphone is there, the chosen one is gone, or it does not open.
NoMicrophone == "mic" \in Faults

\* Nothing but quiet frames is left of the recording.
Silent == "silence" \in Faults

OpenSource(s) == mic' = mic \cup {s}
WriteWav(kind, s) == files' = files \cup {<<kind, s>>}
DeleteAudio(file) == files' = files \ {file}
CleanupStale == files' = {}

-----------------------------------------------------------------------------
(***************************************************************************)
(* The application thread: toggle, start_recording, stop_recording, cancel *)
(***************************************************************************)

\* Mutant: a start does not look whether the session records.
StartWhileRecording ==
  /\ ~closed
  /\ built < MaxSessions
  /\ MainAtStep("idle", IF processing = None THEN "build" ELSE "alive")
  /\ UNCHANGED <<sessionVars, threadVars, liveVars, diskVars, closed, mic, crashes, overtaken>>

\* Every caller looks whether something records; _start_recording then asks
\* whether a processing thread is left, in two reads of the field.
RequestStart ==
  /\ ~closed /\ ~IsRecording
  /\ built < MaxSessions
  /\ MainAtStep("idle", IF processing = None THEN "build" ELSE "alive")
  /\ UNCHANGED <<sessionVars, threadVars, liveVars, diskVars, closed, mic, crashes, overtaken>>

\* Mutant: a thread that is still at work does not refuse the start.
StartAnyway ==
  /\ MainAtStep("alive", "build")
  /\ UNCHANGED <<sessionVars, threadVars, liveVars, diskVars, closed, mic, crashes, overtaken>>

\* The second read: a thread that is alive refuses the start; the field having
\* become None in between is an AttributeError, which refuses it as well.
AskAlive ==
  /\ MainAtStep("alive", IF processing # None /\ ~Alive(processing) THEN "build" ELSE "idle")
  /\ UNCHANGED <<sessionVars, threadVars, liveVars, diskVars, closed, mic, crashes, overtaken>>

\* _build_session makes a new session with a cancellation event of its own and
\* replaces what the last recording left for the live worker.
NewSession(at) ==
  /\ built < MaxSessions
  /\ built' = built + 1
  /\ session' = built + 1
  /\ state' = [state EXCEPT ![built + 1] = at]
  /\ liveCapture' = IF LiveInsertion THEN built + 1 ELSE None

\* A provider that is not configured refuses; the old session stays.
BuildSession ==
  /\ \/ MainAtStep("build", "open") /\ NewSession("idle")
     \/ /\ "build" \in Faults
        /\ MainAtStep("build", "idle")
        /\ UNCHANGED <<built, session, state, liveCapture>>
  /\ UNCHANGED <<cancelled, threadVars, liveThread, liveStop, live, chunks, diskVars, closed, mic, crashes, overtaken>>

\* DictationSession.start_recording opens the microphone under its lock.
OpenMicrophone ==
  /\ \/ /\ MainAtStep("open", "live")
        /\ state' = [state EXCEPT ![session] = "recording"]
        /\ OpenSource(session)
     \/ /\ NoMicrophone
        /\ MainAtStep("open", "idle")
        /\ state' = [state EXCEPT ![session] = "failed"]
        /\ mic' = mic
  /\ UNCHANGED <<built, session, cancelled, threadVars, liveVars, diskVars, closed, crashes, overtaken>>

\* The stop event is shared by all live workers: clearing it here also lets one
\* that a cancel did not wait for go on.
StartLiveWorker ==
  /\ MainAtStep("live", "idle")
  /\ IF liveCapture = None
     THEN UNCHANGED <<liveThread, liveStop, live>>
     ELSE /\ liveStop' = FALSE
          /\ liveThread' = session
          /\ live' = [live EXCEPT ![session] = "begin"]
  /\ UNCHANGED <<sessionVars, threadVars, liveCapture, chunks, diskVars, closed, mic, crashes, overtaken>>

\* _stop_recording first stops the live worker and waits for it, without a
\* timeout, on the application thread.
RequestStop ==
  /\ IsRecording
  /\ MainAtStep("idle", "join")
  /\ liveStop' = TRUE
  /\ UNCHANGED <<sessionVars, threadVars, liveCapture, liveThread, live, chunks, diskVars, closed, mic, crashes, overtaken>>

JoinLiveWorker ==
  /\ MainAtStep("join", "stop")
  /\ liveThread # None => ~LiveAlive(liveThread)
  /\ liveThread' = None
  /\ UNCHANGED <<sessionVars, threadVars, liveCapture, liveStop, live, chunks, diskVars, closed, mic, crashes, overtaken>>

\* DictationSession.stop_capture closes the microphone; what was heard becomes
\* a WAV, and a recording in which nothing was heard fails.
EndCapture(heard) ==
  /\ heard \/ Silent
  /\ mic' = mic \ {session}
  /\ state' = [state EXCEPT ![session] = IF heard THEN "processing" ELSE "failed"]
  /\ IF heard THEN WriteWav("rec", session) ELSE UNCHANGED files

\* Only then the processing thread is spawned.
StopCapture ==
  /\ MainAtStep("stop", "idle")
  /\ \E heard \in BOOLEAN :
       /\ EndCapture(heard)
       /\ IF heard
          THEN processing' = session /\ proc' = [proc EXCEPT ![session] = "copy"]
          ELSE UNCHANGED <<processing, proc>>
  /\ UNCHANGED <<built, session, cancelled, work, liveVars, kept, rows, inserted, closed, crashes, overtaken>>

\* DictationSession.cancel: a recording is discarded at once, work is only
\* marked, and anything else is left alone.
CancelSession ==
  IF session = None THEN UNCHANGED <<state, cancelled, mic>>
  ELSE CASE state[session] = "recording" ->
              /\ state' = [state EXCEPT ![session] = "cancelled"]
              /\ cancelled' = cancelled \cup {session}
              /\ mic' = mic \ {session}
         [] state[session] \in {"processing", "cleaning"} ->
              /\ cancelled' = cancelled \cup {session}
              /\ UNCHANGED <<state, mic>>
         [] OTHER -> UNCHANGED <<state, cancelled, mic>>

\* _stop_live_worker(join=False): the thread is forgotten only once it ended.
LeaveLiveWorker ==
  /\ liveStop' = TRUE
  /\ liveThread' = IF liveThread # None /\ LiveAlive(liveThread) THEN liveThread ELSE None

RequestCancel ==
  /\ MainAtStep("idle", "idle")
  /\ LeaveLiveWorker
  /\ CancelSession
  /\ UNCHANGED <<built, session, threadVars, liveCapture, live, chunks, diskVars, closed, crashes, overtaken>>

\* shutdown runs when the event loop has ended; the worker threads may go on
\* until the interpreter is gone.
Shutdown ==
  /\ MainAtStep("idle", "quit")
  /\ closed' = TRUE
  /\ LeaveLiveWorker
  /\ CancelSession
  /\ overtaken' = overtaken \cup UnderWay
  /\ UNCHANGED <<built, session, threadVars, liveCapture, live, chunks, diskVars, crashes>>

-----------------------------------------------------------------------------
(***************************************************************************)
(* The processing thread of recording s                                    *)
(***************************************************************************)

ProcAt(s, here, next) == proc[s] = here /\ proc' = [proc EXCEPT ![s] = next]
SetState(s, value) == state' = [state EXCEPT ![work[s]] = value]
Source(s) == <<IF work[s] = s THEN "rec" ELSE "copy", s>>

\* The private duplicate for a CPU retry.  A failing copy ends the thread
\* before its try block: nobody resets the fields or the session.
CopyForRetry(s) ==
  /\ \/ /\ ProcAt(s, "copy", "enter")
        /\ files' = IF Gpu THEN files \cup {<<"copy", s>>} ELSE files
     \/ /\ Gpu /\ "copy" \in Faults
        /\ ProcAt(s, "copy", "ended")
        /\ files' = files \cup {<<"copy", s>>}
  /\ UNCHANGED <<sessionVars, main, processing, work, liveVars, kept, rows, inserted, closed, mic, crashes, overtaken>>

\* process_captured takes a session that is processing, or adopts an idle one.
Enter(s) ==
  /\ ProcAt(s, "enter", "check1")
  /\ state[work[s]] \in {"idle", "processing"}
  /\ SetState(s, "processing")
  /\ UNCHANGED <<built, session, cancelled, main, processing, work, liveVars, diskVars, closed, mic, crashes, overtaken>>

\* Mutant: a cancellation is not looked for.
GoOn(s, here, next) ==
  /\ ProcAt(s, here, next)
  /\ UNCHANGED <<sessionVars, main, processing, work, liveVars, diskVars, closed, mic, crashes, overtaken>>

\* A look whether the dictation was cancelled: if so it ends as cancelled.
Check(s, here, next) ==
  /\ IF work[s] \in cancelled
     THEN ProcAt(s, here, "release") /\ SetState(s, "cancelled")
     ELSE ProcAt(s, here, next) /\ UNCHANGED state
  /\ UNCHANGED <<built, session, cancelled, main, processing, work, liveVars, diskVars, closed, mic, crashes, overtaken>>

\* The provider answers with text, fails, or answers nothing.
Transcribe(s) ==
  /\ \/ ProcAt(s, "transcribe", "check2")
     \/ "provider" \in Faults /\ ProcAt(s, "transcribe", "provider")
     \/ "text" \in Faults /\ ProcAt(s, "transcribe", "broken")
  /\ UNCHANGED <<sessionVars, main, processing, work, liveVars, diskVars, closed, mic, crashes, overtaken>>

\* The raw mode skips the cleanup; a failing cleanup falls back to the raw text.
Clean(s) ==
  /\ ProcAt(s, "clean", "check3")
  /\ SetState(s, "cleaning") \/ UNCHANGED state
  /\ UNCHANGED <<built, session, cancelled, main, processing, work, liveVars, diskVars, closed, mic, crashes, overtaken>>

\* RetainedAudioManager.retain takes the recording away whatever happens.
RetainAudio(s) ==
  /\ DeleteAudio(Source(s))
  /\ \/ /\ ProcAt(s, "retain", "add")
        /\ kept' = IF Retain THEN kept \cup {work[s]} ELSE kept
     \/ /\ Retain /\ "retain" \in Faults
        /\ ProcAt(s, "retain", "broken")
        /\ kept' = kept
  /\ UNCHANGED <<sessionVars, main, processing, work, liveVars, rows, inserted, closed, mic, crashes, overtaken>>

\* Mutant: a row that could not be written leaves the retained file.
AddForgettingAudio(s) ==
  /\ ProcAt(s, "add", "check4")
  /\ \/ ~closed /\ rows' = rows \cup {work[s]}
     \/ (closed \/ "database" \in Faults) /\ rows' = rows
  /\ UNCHANGED <<sessionVars, main, processing, work, liveVars, files, kept, inserted, closed, mic, crashes, overtaken>>

\* history.add; when it fails the retained recording is destroyed again.
AddHistory(s) ==
  /\ ProcAt(s, "add", "check4")
  /\ \/ /\ ~closed
        /\ rows' = rows \cup {work[s]} /\ kept' = kept
     \/ /\ closed \/ "database" \in Faults
        /\ rows' = rows /\ kept' = kept \ {work[s]}
  /\ UNCHANGED <<sessionVars, main, processing, work, liveVars, files, inserted, closed, mic, crashes, overtaken>>

\* A cancellation this late takes the row and its recording back, if it can.
TakeBack(s) ==
  IF closed THEN UNCHANGED <<rows, kept>>
  ELSE /\ rows' = rows \ {work[s]}
       /\ kept' = IF work[s] \in rows THEN kept \ {work[s]} ELSE kept

CheckStored(s, here, next) ==
  /\ IF work[s] \in cancelled
     THEN ProcAt(s, here, "release") /\ SetState(s, "cancelled") /\ TakeBack(s)
     ELSE ProcAt(s, here, next) /\ UNCHANGED <<state, rows, kept>>
  /\ UNCHANGED <<built, session, cancelled, main, processing, work, liveVars, files, inserted, closed, mic, crashes, overtaken>>

\* From here on a cancellation is ignored.
SetInserting(s) ==
  /\ ProcAt(s, "inserting", "check5")
  /\ SetState(s, "inserting")
  /\ UNCHANGED <<built, session, cancelled, main, processing, work, liveVars, diskVars, closed, mic, crashes, overtaken>>

\* A worker that pastes through the Qt clipboard waits in a blocking queued
\* call until the application thread is back in its event loop.
ClipboardServed == QtClipboard => main = "idle"

InsertFinal(s) ==
  /\ ClipboardServed
  /\ \/ ProcAt(s, "insert", "save") /\ inserted' = inserted \cup {work[s]}
     \/ "insert" \in Faults /\ ProcAt(s, "insert", "broken") /\ inserted' = inserted
  /\ UNCHANGED <<sessionVars, main, processing, work, liveVars, files, kept, rows, closed, mic, crashes, overtaken>>

\* The delivery is noted in the row if the store still takes it.
SaveDelivery(s) ==
  /\ ProcAt(s, "save", "release")
  /\ SetState(s, "completed")
  /\ UNCHANGED <<built, session, cancelled, main, processing, work, liveVars, diskVars, closed, mic, crashes, overtaken>>

\* The except clause: a failure of a cancelled dictation is a cancellation.
Fail(s) ==
  /\ \/ /\ work[s] \in cancelled
        /\ SetState(s, "cancelled")
        /\ proc' = [proc EXCEPT ![s] = "release"]
     \/ /\ work[s] \notin cancelled
        /\ SetState(s, "failed")
        /\ proc' = [proc EXCEPT ![s] =
             IF proc[s] = "provider" /\ Gpu /\ work[s] = s THEN "retry" ELSE "release"]
  /\ proc[s] \in {"provider", "broken"}
  /\ DeleteAudio(Source(s))
  /\ UNCHANGED <<built, session, cancelled, main, processing, work, liveVars, kept, rows, inserted, closed, mic, crashes, overtaken>>

\* _retry_on_cpu puts a new idle session in the controller and processes the
\* duplicate; it may fail to build one.
RetryOnCpu(s) ==
  /\ \/ /\ ProcAt(s, "retry", "enter")
        /\ NewSession("idle")
        /\ work' = [work EXCEPT ![s] = built']
     \/ /\ ProcAt(s, "retry", "release")
        /\ UNCHANGED <<built, session, state, liveCapture, work>>
  /\ UNCHANGED <<cancelled, main, processing, liveThread, liveStop, live, chunks, diskVars, closed, mic, crashes, overtaken>>

\* The finally block of process_captured.
Release(s) ==
  /\ ProcAt(s, "release", "leave")
  /\ DeleteAudio(Source(s))
  /\ UNCHANGED <<sessionVars, main, processing, work, liveVars, kept, rows, inserted, closed, mic, crashes, overtaken>>

\* Mutant: the thread field is left to the ended thread.
LeaveKeepingField(s) ==
  /\ ProcAt(s, "leave", "forget")
  /\ UNCHANGED <<sessionVars, main, processing, work, liveVars, diskVars, closed, mic, crashes, overtaken>>

\* The finally block of _process_recording: the thread field first, so that a
\* new recording may begin before the live fields are reset.
Leave(s) ==
  /\ ProcAt(s, "leave", "forget")
  /\ processing' = None
  /\ UNCHANGED <<sessionVars, main, work, liveVars, diskVars, closed, mic, crashes, overtaken>>

Forget(s) ==
  /\ ProcAt(s, "forget", "ended")
  /\ liveCapture' = None
  /\ UNCHANGED <<sessionVars, main, processing, work, liveThread, liveStop, live, chunks, diskVars, closed, mic, crashes, overtaken>>

-----------------------------------------------------------------------------
(***************************************************************************)
(* The live worker of recording s                                          *)
(***************************************************************************)

LiveStep(s, here, next) == live[s] = here /\ live' = [live EXCEPT ![s] = next]

\* _run_live_worker reads the fields once; if they are gone it just returns.
LiveBegin(s) ==
  /\ LiveStep(s, "begin", IF liveCapture = None THEN "ended" ELSE "wait")
  /\ UNCHANGED <<sessionVars, main, threadVars, liveCapture, liveThread, liveStop, chunks, diskVars, closed, mic, crashes, overtaken>>

\* The stop event ends the loop; else the next chunk is written, if there is
\* one.  A capture that is no longer running raises, which ends the worker.
LiveTake(s) ==
  /\ \/ (liveStop \/ s \notin mic) /\ LiveStep(s, "wait", "ended") /\ UNCHANGED <<files, chunks>>
     \/ /\ ~liveStop /\ s \in mic
        /\ chunks[s] < MaxChunks
        /\ LiveStep(s, "wait", "infer")
        /\ chunks' = [chunks EXCEPT ![s] = @ + 1]
        /\ WriteWav("chunk", s)
  /\ UNCHANGED <<sessionVars, main, threadVars, liveCapture, liveThread, liveStop, kept, rows, inserted, closed, mic, crashes, overtaken>>

LiveInfer(s) ==
  /\ \/ LiveStep(s, "infer", "insert")
     \/ "live" \in Faults /\ LiveStep(s, "infer", "delete")
  /\ UNCHANGED <<sessionVars, main, threadVars, liveCapture, liveThread, liveStop, chunks, diskVars, closed, mic, crashes, overtaken>>

\* insert_chunk types into the target without looking at the stop event.
LiveInsert(s) ==
  /\ ClipboardServed
  /\ LiveStep(s, "insert", "delete")
  /\ UNCHANGED <<sessionVars, main, threadVars, liveCapture, liveThread, liveStop, chunks, diskVars, closed, mic, crashes, overtaken>>

\* The finally block deletes the chunk; after an exception the worker returns.
LiveDelete(s) ==
  /\ \/ LiveStep(s, "delete", "wait")
     \/ "live" \in Faults /\ LiveStep(s, "delete", "ended")
  /\ DeleteAudio(<<"chunk", s>>)
  /\ UNCHANGED <<sessionVars, main, threadVars, liveCapture, liveThread, liveStop, chunks, kept, rows, inserted, closed, mic, crashes, overtaken>>

-----------------------------------------------------------------------------
(***************************************************************************)
(* The process ends, in order or not, and is started again                 *)
(***************************************************************************)

Die ==
  /\ \/ main = "quit" /\ crashes' = crashes
     \/ main # "down" /\ crashes < MaxCrashes /\ crashes' = crashes + 1
  /\ main' = "down"
  /\ session' = None /\ processing' = None /\ liveCapture' = None /\ liveThread' = None
  /\ state' = [s \in Sessions |-> IF state[s] \in Terminal THEN state[s] ELSE "none"]
  /\ proc' = [s \in Sessions |-> IF proc[s] = "off" THEN "off" ELSE "ended"]
  /\ live' = [s \in Sessions |-> IF live[s] = "off" THEN "off" ELSE "ended"]
  /\ mic' = {}
  /\ liveStop' = FALSE
  /\ overtaken' = overtaken \cup UnderWay
  /\ UNCHANGED <<built, cancelled, work, chunks, diskVars, closed>>

\* RuntimeController.__init__ deletes what earlier processes left behind.
Restart ==
  /\ MainAtStep("down", "idle")
  /\ closed' = FALSE
  /\ CleanupStale
  /\ UNCHANGED <<sessionVars, threadVars, liveVars, kept, rows, inserted, mic, crashes, overtaken>>

-----------------------------------------------------------------------------
MainStep ==
  \/ AskAlive \/ BuildSession \/ OpenMicrophone \/ StartLiveWorker
  \/ JoinLiveWorker \/ StopCapture

Request == RequestStart \/ RequestStop \/ RequestCancel \/ Shutdown

ProcStep(s) ==
  \/ CopyForRetry(s) \/ Enter(s) \/ Transcribe(s) \/ Clean(s)
  \/ Check(s, "check1", "transcribe") \/ Check(s, "check2", "clean") \/ Check(s, "check3", "retain")
  \/ RetainAudio(s) \/ AddHistory(s)
  \/ CheckStored(s, "check4", "inserting") \/ CheckStored(s, "check5", "insert")
  \/ SetInserting(s) \/ InsertFinal(s) \/ SaveDelivery(s)
  \/ Fail(s) \/ RetryOnCpu(s) \/ Release(s) \/ Leave(s) \/ Forget(s)

LiveWorkerStep(s) ==
  LiveBegin(s) \/ LiveTake(s) \/ LiveInfer(s) \/ LiveInsert(s) \/ LiveDelete(s)

Next ==
  \/ MainStep \/ Request
  \/ \E s \in Sessions : ProcStep(s) \/ LiveWorkerStep(s)
  \/ Die \/ Restart

Spec == Init /\ [][Next]_runtime

(***************************************************************************)
(* Fairness: every thread that can take a step takes it, so a provider call *)
(* returns.  What the user asks for, and a crash, are not promised.         *)
(***************************************************************************)
Fairness ==
  /\ WF_runtime(MainStep)
  /\ \A s \in Sessions : WF_runtime(ProcStep(s)) /\ WF_runtime(LiveWorkerStep(s))

FairSpec == Spec /\ Fairness

-----------------------------------------------------------------------------
SessionTypeOK ==
  /\ built \in 0..MaxSessions
  /\ session \in 0..built
  /\ state \in [Sessions -> States]
  /\ cancelled \subseteq Sessions
  /\ main \in MainAt /\ closed \in BOOLEAN
  /\ mic \subseteq Sessions
  /\ crashes \in 0..MaxCrashes

ThreadTypeOK ==
  /\ processing \in 0..MaxSessions
  /\ proc \in [Sessions -> ThreadAt]
  /\ work \in [Sessions -> Sessions]

LiveTypeOK ==
  /\ liveCapture \in 0..MaxSessions
  /\ liveThread \in 0..MaxSessions
  /\ liveStop \in BOOLEAN
  /\ live \in [Sessions -> LiveAt]
  /\ chunks \in [Sessions -> 0..MaxChunks]

DiskTypeOK ==
  /\ files \subseteq {"rec", "copy", "chunk"} \X Sessions
  /\ kept \subseteq Sessions /\ rows \subseteq Sessions /\ inserted \subseteq Sessions
  /\ overtaken \subseteq Sessions

TypeOK == SessionTypeOK /\ ThreadTypeOK /\ LiveTypeOK /\ DiskTypeOK

(***************************************************************************)
(* DictationSession: cancelling "prevents history and insertion once the   *)
(* in-flight provider call returns".  At whichever step the cancellation   *)
(* lands, if it is accepted the text is never delivered, and when the      *)
(* thread is through there is neither a row nor a retained recording.  A   *)
(* shutdown closes the store, so one it overtakes may stay.                *)
(***************************************************************************)
CancelledLeavesNothing ==
  \A s \in cancelled :
    /\ s \notin inserted
    /\ (\A t \in Sessions : work[t] = s => ~AtWork(t)) /\ s \notin overtaken
         => s \notin rows \cup kept

(***************************************************************************)
(* One dictation at a time: no two threads are between the start of their  *)
(* work and the release of their audio, and no microphone is open while    *)
(* one is, not even across a retry on the CPU that replaces the session.   *)
(***************************************************************************)
OneDictation ==
  /\ \A s, t \in Sessions : AtWork(s) /\ AtWork(t) => s = t
  /\ (\E s \in Sessions : AtWork(s)) => mic = {}

(***************************************************************************)
(* An open microphone belongs to the session that stop and cancel act on.  *)
(***************************************************************************)
MicReachable == mic \subseteq {session} /\ \A s \in mic : state[s] = "recording"

(***************************************************************************)
(* The runtime keeps the contract of a dictation: a session is new until   *)
(* its microphone was asked for, records while that is open, and is worked *)
(* on while a thread holds it.  The two reads of a field another thread    *)
(* resets, the retry that replaces the session and the steps at which a    *)
(* cancellation may land must all look like one step of the contract.      *)
(***************************************************************************)
PhaseOf(s) ==
  IF s > built \/ (s = session /\ main = "open") THEN "new"
  ELSE IF s \in mic THEN "recording"
  ELSE IF s \in UnderWay THEN "working"
  ELSE "over"

Contract == INSTANCE DictationContract
  WITH phase <- [s \in Sessions |-> PhaseOf(s)], delivered <- inserted

KeepsContract == Contract!ContractSpec

(***************************************************************************)
(* Retained recordings are found, expired and deleted through their row:   *)
(* one without a row stays for good.  Only a crash between the move and    *)
(* the insert can leave one.                                               *)
(***************************************************************************)
KeptHasRow ==
  \A s \in kept :
    s \in rows \cup overtaken \/ \E t \in Sessions : work[t] = s /\ proc[t] = "add"

(***************************************************************************)
(* A dictation that was handed to its thread ends, and the thread field is *)
(* released, so that the next one can start.                               *)
(***************************************************************************)
DictationEnds ==
  \A s \in Sessions : proc[s] = "enter" ~> proc[s] = "ended" /\ processing # s

(***************************************************************************)
(* ui/clipboard.py: "Expose QClipboard safely to provider workers".  A     *)
(* stop gets past the wait for the live worker.                            *)
(***************************************************************************)
StopReturns == main = "join" ~> main # "join"

=============================================================================
