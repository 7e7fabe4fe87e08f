-------------------------- MODULE RecordingDaemon --------------------------
(***************************************************************************)
(* crates/openwhisperd/src/lib.rs: the record.* and transcribe.file        *)
(* requests of the daemon, the tasks they spawn, and what they share.      *)
(*                                                                         *)
(* Every request runs in its own tokio task on a multi-threaded runtime.   *)
(* Three things are shared: the coordinator (a std::Mutex, each use one    *)
(* atomic action), RuntimeOwner (a tokio::Mutex held across awaits; each   *)
(* critical section is one action, since everything it touches is guarded  *)
(* by that lock), and the handle of the processing task.  Between two such *)
(* sections any other task may run, which is what this module is about.    *)
(*                                                                         *)
(* JoinHandle::abort ends a task at its next poll after an await: a        *)
(* processing task that is between two awaits finishes that stretch.       *)
(***************************************************************************)
EXTENDS CaptureCoordinator

CONSTANTS
  Files,         \* the sessions that transcribe.file may open; record.start may open any
  LiveSessions,  \* the sessions started with insert_live and an X11 target
  TimedSessions, \* the sessions whose maximum-duration timer may go off
  Stops,         \* record.stop requests
  Cancels,       \* record.cancel requests
  Faults,        \* which of AllFaults the environment may produce
  Overlapping,   \* FALSE: the client awaits each answer before its next request
  MaxDeltas      \* bound on the live deltas of one session

AllFaults == {"open", "stream", "finalize", "restart", "infer", "insert", "crash"}

ASSUME DaemonAssumption ==
  /\ Files \subseteq Sessions
  /\ LiveSessions \subseteq Sessions \ Files
  /\ TimedSessions \subseteq Sessions \ Files
  /\ Faults \subseteq AllFaults
  /\ Overlapping \in BOOLEAN
  /\ MaxDeltas \in Nat
  /\ (Stops \cup Cancels) \cap Sessions = {}

Cancellers == Cancels \cup TimedSessions   \* a timer runs record_cancel itself
MaybeSession == Sessions \cup {NoSession}

VARIABLES
  \* ----- RuntimeOwner and the other fields of DaemonState
  recorder,    \* runtime.recorder: the session whose ActiveCapture it holds
  streamTask,  \* runtime.stream_task: the session whose task it is
  live,        \* runtime.live_transcript: the session it belongs to
  worker,      \* runtime.worker: "none", a "fresh" process, one with a stream
               \* open ("ready"), or a "dead" one
  processing,  \* the processing JoinHandle: the session whose task it is
  results,     \* the result cache: "none", "full" or "partial" for each session
  errors,      \* the sessions with an entry in result_errors
  \* ----- the outside world
  mic,         \* the sessions whose capture process is running
  audio,       \* the sessions with captured or staged audio on disk
  typed,       \* how many deltas of each session were typed into the target
  history,     \* how many history entries each session has
  \* ----- tasks: where each one is, and the local variables it carries
  start,       \* record.start or transcribe.file of each session
  gen,         \* the generation that request was given
  stop,        \* record.stop: [at, session]
  job,         \* what a stop took for its session: [audio, stream, live]
  cancel,      \* record.cancel and the timers
  stream,      \* the streaming task of each session
  status,      \* LiveTranscript.insertion_status
  inserted,    \* LiveTranscript.inserted_bytes, counted in deltas
  proc,        \* the processing task of each session
  aborted      \* the processing tasks that were told to abort

runtimeVars == <<recorder, streamTask, live, worker>>
answerVars == <<results, errors, history>>
worldVars == <<mic, audio, typed>>
taskVars == <<start, gen, stop, job, cancel>>
liveVars == <<stream, status, inserted>>
procVars == <<proc, processing, aborted>>
daemon == <<coordinator, runtimeVars, answerVars, worldVars, taskVars, liveVars, procVars>>

NoJob == [audio |-> NoSession, stream |-> NoSession, live |-> NoSession]

DaemonInit ==
  /\ CoordinatorInit
  /\ recorder = NoSession /\ streamTask = NoSession /\ live = NoSession
  /\ worker = "none"
  /\ processing = NoSession
  /\ results = [s \in Sessions |-> "none"]
  /\ errors = {}
  /\ mic = {} /\ audio = {}
  /\ typed = [s \in Sessions |-> 0]
  /\ history = [s \in Sessions |-> 0]
  /\ start = [s \in Sessions |-> "new"]
  /\ gen = [s \in Sessions |-> 0]
  /\ stop = [t \in Stops |-> [at |-> "new", session |-> NoSession]]
  /\ job = [s \in Sessions |-> NoJob]
  /\ cancel = [c \in Cancellers |-> "new"]
  /\ stream = [s \in Sessions |-> "off"]
  /\ status = [s \in Sessions |-> "not_requested"]
  /\ inserted = [s \in Sessions |-> 0]
  /\ proc = [s \in Sessions |-> "off"]
  /\ aborted = {}

\* No request of the client is waiting for its answer.
Answered ==
  /\ \A s \in Sessions : start[s] \in {"new", "done", "error"}
  /\ \A t \in Stops : stop[t].at \in {"new", "done", "error"}
  /\ \A c \in Cancels : cancel[c] \in {"new", "done"}

MayRequest == Overlapping \/ Answered

-----------------------------------------------------------------------------
(***************************************************************************)
(* record.start                                                            *)
(***************************************************************************)

StartAt(s, here, next) == start[s] = here /\ start' = [start EXCEPT ![s] = next]

\* Only a look: the coordinator is claimed after the microphone has opened.
Admit(s) ==
  /\ MayRequest
  /\ state.phase \in Startable
  /\ StartAt(s, "new", "open")
  /\ UNCHANGED <<coordinator, runtimeVars, answerVars, worldVars, gen, stop, job, cancel, liveVars, procVars>>

\* start_recorder; a capture process that cannot be spawned leaves its directory.
OpenRecorder(s) ==
  /\ \/ StartAt(s, "open", "claim") /\ mic' = mic \cup {s} /\ audio' = audio \cup {s}
     \/ "open" \in Faults /\ StartAt(s, "open", "error") /\ mic' = mic
        /\ audio' \in {audio, audio \cup {s}}
  /\ UNCHANGED <<coordinator, runtimeVars, answerVars, typed, gen, stop, job, cancel, liveVars, procVars>>

Claim(s) ==
  /\ \/ /\ StartSession(s)
        /\ StartAt(s, "claim", "publish")
        /\ gen' = [gen EXCEPT ![s] = generation']
        /\ UNCHANGED <<mic, audio>>
     \/ /\ state.phase \notin Startable
        /\ StartAt(s, "claim", "error")
        /\ mic' = mic \ {s} /\ audio' = audio \ {s}     \* recorder.cancel
        /\ UNCHANGED <<coordinator, gen>>
  /\ UNCHANGED <<runtimeVars, answerVars, typed, stop, job, cancel, liveVars, procVars>>

\* Mutant: the recorder that was there is forgotten, and keeps running.
PublishKeepingOld(s) ==
  /\ StartAt(s, "publish", "stream")
  /\ recorder' = s
  /\ UNCHANGED <<coordinator, streamTask, live, worker, answerVars, worldVars, gen, stop, job, cancel, liveVars, procVars>>

\* The recorder that was there is dropped: killed, its directory left behind.
Publish(s) ==
  /\ StartAt(s, "publish", "stream")
  /\ recorder' = s
  /\ mic' = mic \ {recorder}
  /\ UNCHANGED <<coordinator, streamTask, live, worker, answerVars, audio, typed, gen, stop, job, cancel, liveVars, procVars>>

\* What becomes of the worker when it answers, spawned or restarted before if
\* need be, and when it is replaced.
Answering == IF worker = "ready" THEN "ready" ELSE "fresh"
Replaced == IF worker = "none" THEN "none" ELSE "fresh"

\* start_streaming_transcription up to the worker's reply.  A worker that has
\* died is not restarted here; it stays in the runtime.
StartStream(s) ==
  /\ \/ worker # "dead" /\ StartAt(s, "stream", "attach") /\ worker' = "ready"
     \/ worker = "dead" /\ StartAt(s, "stream", "abandon") /\ worker' = worker
     \/ "stream" \in Faults /\ worker # "dead" /\ StartAt(s, "stream", "abandon")
        /\ worker' \in {worker, Answering, "ready"}
  /\ UNCHANGED <<coordinator, recorder, streamTask, live, answerVars, worldVars, gen, stop, job, cancel, liveVars, procVars>>

\* The streaming task is spawned and handed to the runtime; the one it
\* replaces is aborted.
Attach(s) ==
  /\ StartAt(s, "attach", "done")
  /\ stream' = [r \in Sessions |-> IF r = s THEN "listen"
                                   ELSE IF r = streamTask THEN "ended" ELSE stream[r]]
  /\ streamTask' = s
  /\ live' = s
  /\ status' = [status EXCEPT ![s] = IF s \in LiveSessions THEN "active" ELSE "not_requested"]
  /\ UNCHANGED <<coordinator, recorder, worker, answerVars, worldVars, gen, stop, job, cancel, inserted, procVars>>

\* Streaming could not start: whatever recorder the runtime holds is cancelled ...
Abandon(s) ==
  /\ StartAt(s, "abandon", "giveup")
  /\ recorder' = NoSession
  /\ mic' = mic \ {recorder} /\ audio' = audio \ {recorder}
  /\ UNCHANGED <<coordinator, streamTask, live, worker, answerVars, typed, gen, stop, job, cancel, liveVars, procVars>>

\* ... and the coordinator is failed, whatever it is doing by now.
GiveUp(s) ==
  /\ StartAt(s, "giveup", "error")
  /\ Fail
  /\ UNCHANGED <<runtimeVars, answerVars, worldVars, gen, stop, job, cancel, liveVars, procVars>>

(***************************************************************************)
(* transcribe.file: the copy is staged, then start_session and stop run    *)
(* under one lock; the request itself does the processing.                 *)
(***************************************************************************)
StageFile(s) ==
  /\ s \in Files
  /\ MayRequest
  /\ StartAt(s, "new", "claimfile")
  /\ audio' = audio \cup {s}
  /\ UNCHANGED <<coordinator, runtimeVars, answerVars, mic, typed, gen, stop, job, cancel, liveVars, procVars>>

ClaimFile(s) ==
  /\ \/ /\ StartStopped(s)
        /\ StartAt(s, "claimfile", "processing")
        /\ gen' = [gen EXCEPT ![s] = generation']
        /\ job' = [job EXCEPT ![s].audio = s]
        /\ proc' = [proc EXCEPT ![s] = "infer"]
        /\ UNCHANGED audio
     \/ /\ state.phase \notin Startable
        /\ StartAt(s, "claimfile", "error")
        /\ audio' = audio \ {s}
        /\ UNCHANGED <<coordinator, gen, job, proc>>
  /\ UNCHANGED <<runtimeVars, answerVars, mic, typed, stop, cancel, liveVars, processing, aborted>>

AnswerFile(s) ==
  /\ s \in Files /\ proc[s] = "done"
  /\ StartAt(s, "processing", "done")
  /\ UNCHANGED <<coordinator, runtimeVars, answerVars, worldVars, gen, stop, job, cancel, liveVars, procVars>>

-----------------------------------------------------------------------------
(***************************************************************************)
(* The streaming task of a session.  Only its effect on a live target is   *)
(* kept: previews change nothing, and a hypothesis commits text or not.    *)
(***************************************************************************)

StreamAt(s, here, next) == stream[s] = here /\ stream' = [stream EXCEPT ![s] = next]

\* One audio batch through the worker, which is restarted if it died.  A word
\* is committed at the second hypothesis at the earliest, and new committed
\* text of a live session goes to the insertion helper.  A snapshot nobody has
\* looked at yet outlives the capture.
Batch(s) ==
  /\ worker \in {"ready", "dead"}
  /\ worker' = "ready"
  /\ \/ s \in mic /\ (StreamAt(s, "listen", "heard") \/ StreamAt(s, "heard", "heard"))
     \/ StreamAt(s, "heard", "press") /\ status[s] = "active" /\ typed[s] < MaxDeltas
  /\ UNCHANGED <<coordinator, recorder, streamTask, live, answerVars, worldVars, taskVars, status, inserted, procVars>>

\* The capture ended, the worker is gone, lost a second time or replaced by one
\* without a stream, or it answered with an error.
StreamBreaks(s) ==
  /\ s \notin mic \/ worker # "ready" \/ "infer" \in Faults
  /\ StreamAt(s, "listen", "ended") \/ StreamAt(s, "heard", "ended")
  /\ UNCHANGED <<coordinator, runtimeVars, answerVars, worldVars, taskVars, status, inserted, procVars>>

PressDelta(s) ==
  /\ \/ /\ StreamAt(s, "press", "pressed")
        /\ typed' = [typed EXCEPT ![s] = @ + 1]
        /\ UNCHANGED status
     \/ /\ "insert" \in Faults
        /\ StreamAt(s, "press", "heard")
        /\ status' = [status EXCEPT ![s] = "suspended"]
        /\ UNCHANGED typed
  /\ UNCHANGED <<coordinator, runtimeVars, answerVars, mic, audio, taskVars, inserted, procVars>>

CountDelta(s) ==
  /\ StreamAt(s, "pressed", "heard")
  /\ inserted' = [inserted EXCEPT ![s] = @ + 1]
  /\ UNCHANGED <<coordinator, runtimeVars, answerVars, worldVars, taskVars, status, procVars>>

-----------------------------------------------------------------------------
(***************************************************************************)
(* record.stop                                                             *)
(***************************************************************************)

StopAt(t, here, next) == stop[t].at = here /\ stop' = [stop EXCEPT ![t].at = next]

RequestStop(t) ==
  /\ MayRequest
  /\ stop[t].at = "new"
  /\ StopCapture
  /\ stop' = [stop EXCEPT ![t] = [at |-> "take", session |-> state.session]]
  /\ UNCHANGED <<runtimeVars, answerVars, worldVars, start, gen, job, cancel, liveVars, procVars>>

\* Whatever the runtime holds is taken for the session being stopped; without
\* a recorder the request fails and leaves the coordinator transcribing.
TakeRecorder(t) ==
  /\ IF recorder = NoSession
     THEN StopAt(t, "take", "error") /\ UNCHANGED <<recorder, streamTask, live, job>>
     ELSE /\ StopAt(t, "take", "finalize")
          /\ job' = [job EXCEPT ![stop[t].session] =
                       [audio |-> recorder, stream |-> streamTask, live |-> live]]
          /\ recorder' = NoSession /\ streamTask' = NoSession /\ live' = NoSession
  /\ UNCHANGED <<coordinator, worker, answerVars, worldVars, start, gen, cancel, liveVars, procVars>>

\* ActiveCapture::stop.  An empty or stuck capture is removed; an overflow or a
\* write error leaves its directory.
Finalize(t) ==
  LET captured == job[stop[t].session].audio IN
  /\ stop[t].at = "finalize"
  /\ mic' = mic \ {captured}
  /\ \/ StopAt(t, "finalize", "quiesce") /\ UNCHANGED audio
     \/ "finalize" \in Faults /\ StopAt(t, "finalize", "error")
        /\ audio' \in {audio, audio \ {captured}}
  /\ UNCHANGED <<coordinator, runtimeVars, answerVars, typed, start, gen, job, cancel, liveVars, procVars>>

\* The streaming task is aborted and awaited, then the worker it may have left
\* in the middle of an inference is replaced.
Quiesce(t) ==
  LET streaming == job[stop[t].session].stream IN
  /\ stop[t].at = "quiesce"
  /\ IF streaming = NoSession
     THEN StopAt(t, "quiesce", "spawn") /\ UNCHANGED <<stream, worker>>
     ELSE /\ stream' = [stream EXCEPT ![streaming] = "ended"]
          /\ \/ worker = "none" /\ StopAt(t, "quiesce", "spawn") /\ UNCHANGED worker
             \/ worker # "none" /\ StopAt(t, "quiesce", "spawn") /\ worker' = Replaced
             \/ worker # "none" /\ "restart" \in Faults
                /\ StopAt(t, "quiesce", "error") /\ worker' = "dead"
  /\ UNCHANGED <<coordinator, recorder, streamTask, live, answerVars, worldVars, start, gen, job, cancel, status, inserted, procVars>>

\* tokio::spawn: the task may run before its handle is stored.
SpawnProcessing(t) ==
  /\ StopAt(t, "spawn", "register")
  /\ proc' = [proc EXCEPT ![stop[t].session] = "infer"]
  /\ UNCHANGED <<coordinator, runtimeVars, answerVars, worldVars, start, gen, job, cancel, liveVars, processing, aborted>>

\* processing.replace(task), aborting the task whose handle was there.
Register(t) ==
  /\ StopAt(t, "register", "done")
  /\ processing' = stop[t].session
  /\ aborted' = aborted \cup ({processing} \ {NoSession})
  /\ UNCHANGED <<coordinator, runtimeVars, answerVars, worldVars, start, gen, job, cancel, liveVars, proc>>

-----------------------------------------------------------------------------
(***************************************************************************)
(* The processing task: finish_stream_recording, and process_recording for *)
(* a file, which differs only in having no live transcript and no handle.  *)
(***************************************************************************)

\* Where the task is suspended, and so where an abort takes effect.
Awaits == {"infer", "press", "pressed", "copy", "partialcopy", "cleanup"}

Running(s) == proc[s] \notin {"off", "done"} /\ (proc[s] \in Awaits => s \notin aborted)

ProcAt(s, here, next) ==
  /\ proc[s] = here
  /\ Running(s)
  /\ proc' = [proc EXCEPT ![s] = next]

LiveOf(s) == job[s].live
InsertsLive(s) == LiveOf(s) # NoSession /\ status[LiveOf(s)] = "active"

\* The canonical transcription, with one restart and retry; then the remaining
\* words are pressed into a live target, before any generation is looked at.
Infer(s) ==
  /\ \/ /\ worker' = Answering
        /\ \/ ~InsertsLive(s) /\ ProcAt(s, "infer", "begin") /\ UNCHANGED status
           \/ InsertsLive(s) /\ ProcAt(s, "infer", "press") /\ UNCHANGED status
           \/ InsertsLive(s) /\ ProcAt(s, "infer", "begin")
              /\ status' = [status EXCEPT ![LiveOf(s)] = "complete"]
     \/ /\ ProcAt(s, "infer", "failed")
        /\ \/ "infer" \in Faults /\ worker' = Answering
           \/ "restart" \in Faults /\ worker \in {"none", "dead"} /\ UNCHANGED worker
        /\ UNCHANGED status
  /\ UNCHANGED <<coordinator, recorder, streamTask, live, answerVars, worldVars, taskVars, stream, inserted, processing, aborted>>

PressSuffix(s) ==
  /\ \/ ProcAt(s, "press", "pressed") /\ typed' = [typed EXCEPT ![s] = @ + 1] /\ UNCHANGED status
     \/ "insert" \in Faults /\ ProcAt(s, "press", "begin")
        /\ status' = [status EXCEPT ![LiveOf(s)] = "suspended"] /\ UNCHANGED typed
  /\ UNCHANGED <<coordinator, runtimeVars, answerVars, mic, audio, taskVars, stream, inserted, processing, aborted>>

CountSuffix(s) ==
  /\ ProcAt(s, "pressed", "begin")
  /\ inserted' = [inserted EXCEPT ![LiveOf(s)] = @ + 1]
  /\ status' = [status EXCEPT ![LiveOf(s)] = "complete"]
  /\ UNCHANGED <<coordinator, runtimeVars, answerVars, worldVars, taskVars, stream, processing, aborted>>

Begin(s) ==
  /\ \/ ProcAt(s, "begin", "deliver") /\ BeginProcessing(gen[s])
     \/ ProcAt(s, "begin", "failed") /\ UNCHANGED coordinator
        /\ ~(state.phase = "transcribing" /\ state.generation = gen[s])
  /\ UNCHANGED <<runtimeVars, answerVars, worldVars, taskVars, liveVars, processing, aborted>>

\* begin_delivery, then the history entry, with no await in between.
Deliver(s) ==
  /\ \/ /\ ProcAt(s, "deliver", "copy")
        /\ BeginDelivery(gen[s])
        /\ history' = [history EXCEPT ![s] = @ + 1]
     \/ /\ ProcAt(s, "deliver", "failed")
        /\ ~(state.phase = "processing" /\ state.generation = gen[s])
        /\ UNCHANGED <<coordinator, history>>
  /\ UNCHANGED <<runtimeVars, results, errors, worldVars, taskVars, liveVars, processing, aborted>>

\* Mutant: the result is published before the generation is completed.
CopiedPublishing(s) ==
  /\ ProcAt(s, "copy", "finish")
  /\ results' = [results EXCEPT ![s] = "full"]
  /\ UNCHANGED <<coordinator, runtimeVars, errors, history, worldVars, taskVars, liveVars, processing, aborted>>

\* The clipboard copy, which may fail without consequence.
Copied(s) ==
  /\ ProcAt(s, "copy", "finish")
  /\ UNCHANGED <<coordinator, runtimeVars, answerVars, worldVars, taskVars, liveVars, processing, aborted>>

\* Mutant: the answer of complete is ignored.
FinishUnchecked(s) ==
  /\ ProcAt(s, "finish", "publish")
  /\ IF IsCurrent(gen[s]) THEN Complete(gen[s]) ELSE UNCHANGED coordinator
  /\ UNCHANGED <<runtimeVars, answerVars, worldVars, taskVars, liveVars, processing, aborted>>

Finish(s) ==
  /\ \/ ProcAt(s, "finish", "publish") /\ Complete(gen[s])
     \/ ProcAt(s, "finish", "failed") /\ ~IsCurrent(gen[s]) /\ UNCHANGED coordinator
  /\ UNCHANGED <<runtimeVars, answerVars, worldVars, taskVars, liveVars, processing, aborted>>

PublishResult(s) ==
  /\ ProcAt(s, "publish", "cleanup")
  /\ results' = [results EXCEPT ![s] = "full"]
  /\ UNCHANGED <<coordinator, runtimeVars, errors, history, worldVars, taskVars, liveVars, processing, aborted>>

HasPartial(s) == LiveOf(s) # NoSession /\ inserted[LiveOf(s)] > 0

\* An error with nothing typed: reported, and the coordinator failed unless it
\* has moved on to another generation.
ReportError(s) ==
  /\ ~HasPartial(s)
  /\ ProcAt(s, "failed", "cleanup")
  /\ IF generation = gen[s] THEN Fail ELSE UNCHANGED coordinator
  /\ errors' = errors \cup {s}
  /\ UNCHANGED <<runtimeVars, results, history, worldVars, taskVars, liveVars, processing, aborted>>

\* An error after something was typed: the partial text goes to the history,
\* the clipboard and the results, and the coordinator is failed outright.
KeepPartial(s) ==
  /\ HasPartial(s)
  /\ ProcAt(s, "failed", "partialcopy")
  /\ history' = [history EXCEPT ![s] = @ + 1]
  /\ UNCHANGED <<coordinator, runtimeVars, results, errors, worldVars, taskVars, liveVars, processing, aborted>>

PublishPartial(s) ==
  /\ ProcAt(s, "partialcopy", "partial")
  /\ results' = [results EXCEPT ![s] = "partial"]
  /\ UNCHANGED <<coordinator, runtimeVars, errors, history, worldVars, taskVars, liveVars, processing, aborted>>

FailPartial(s) ==
  /\ ProcAt(s, "partial", "cleanup")
  /\ Fail
  /\ UNCHANGED <<runtimeVars, answerVars, worldVars, taskVars, liveVars, processing, aborted>>

CleanUp(s) ==
  /\ ProcAt(s, "cleanup", "done")
  /\ audio' = audio \ {job[s].audio}
  /\ UNCHANGED <<coordinator, runtimeVars, answerVars, mic, typed, taskVars, liveVars, processing, aborted>>

-----------------------------------------------------------------------------
(***************************************************************************)
(* record.cancel, and the maximum-duration timer that calls it             *)
(***************************************************************************)

CancelAt(c, here, next) == cancel[c] = here /\ cancel' = [cancel EXCEPT ![c] = next]

RequestCancel(c) ==
  /\ c \in Cancels
  /\ MayRequest
  /\ CancelAt(c, "new", "abort")
  /\ Cancel
  /\ UNCHANGED <<runtimeVars, answerVars, worldVars, start, gen, stop, job, liveVars, procVars>>

\* The registered processing task is told to abort; nobody waits for it, and
\* the session directory it would have removed stays.
AbortProcessing(c) ==
  /\ CancelAt(c, "abort", "sweep")
  /\ aborted' = aborted \cup ({processing} \ {NoSession})
  /\ processing' = NoSession
  /\ UNCHANGED <<coordinator, runtimeVars, answerVars, worldVars, start, gen, stop, job, liveVars, proc>>

\* Whatever the runtime holds by now is swept away, and the worker replaced; a
\* failed replacement is ignored.
Sweep(c) ==
  /\ CancelAt(c, "sweep", IF c \in Cancels THEN "done" ELSE "fail")
  /\ stream' = [s \in Sessions |-> IF s = streamTask THEN "ended" ELSE stream[s]]
  /\ recorder' = NoSession /\ streamTask' = NoSession /\ live' = NoSession
  /\ mic' = mic \ {recorder} /\ audio' = audio \ {recorder}
  /\ \/ worker' = Replaced
     \/ "restart" \in Faults /\ worker # "none" /\ worker' = "dead"
  /\ UNCHANGED <<coordinator, answerVars, typed, start, gen, stop, job, status, inserted, procVars>>

\* The timer looks, then cancels whatever is active by then, then fails it.
TimerFires(s) ==
  /\ s \in TimedSessions
  /\ start[s] = "done"
  /\ state.phase = "capturing" /\ state.generation = gen[s]
  /\ CancelAt(s, "new", "fire")
  /\ UNCHANGED <<coordinator, runtimeVars, answerVars, worldVars, start, gen, stop, job, liveVars, procVars>>

TimerCancels(s) ==
  /\ \/ CancelAt(s, "fire", "abort") /\ Cancel
     \/ CancelAt(s, "fire", "fail") /\ state.phase = "idle" /\ UNCHANGED coordinator
  /\ UNCHANGED <<runtimeVars, answerVars, worldVars, start, gen, stop, job, liveVars, procVars>>

TimerFails(s) ==
  /\ CancelAt(s, "fail", "done")
  /\ Fail
  /\ UNCHANGED <<runtimeVars, answerVars, worldVars, start, gen, stop, job, liveVars, procVars>>

-----------------------------------------------------------------------------
\* The worker process crashes.
WorkerDies ==
  /\ "crash" \in Faults
  /\ worker \in {"fresh", "ready"}
  /\ worker' = "dead"
  /\ UNCHANGED <<coordinator, recorder, streamTask, live, answerVars, worldVars, taskVars, liveVars, procVars>>

StartStep(s) ==
  \/ Admit(s) \/ OpenRecorder(s) \/ Claim(s) \/ Publish(s) \/ StartStream(s) \/ Attach(s)
  \/ Abandon(s) \/ GiveUp(s) \/ StageFile(s) \/ ClaimFile(s) \/ AnswerFile(s)

StreamStep(s) == Batch(s) \/ StreamBreaks(s) \/ PressDelta(s) \/ CountDelta(s)

StopStep(t) ==
  RequestStop(t) \/ TakeRecorder(t) \/ Finalize(t) \/ Quiesce(t) \/ SpawnProcessing(t) \/ Register(t)

ProcStep(s) ==
  \/ Infer(s) \/ PressSuffix(s) \/ CountSuffix(s) \/ Begin(s) \/ Deliver(s) \/ Copied(s)
  \/ Finish(s) \/ PublishResult(s) \/ ReportError(s) \/ KeepPartial(s) \/ PublishPartial(s)
  \/ FailPartial(s) \/ CleanUp(s)

CancelStep(c) == RequestCancel(c) \/ AbortProcessing(c) \/ Sweep(c)

TimerStep(s) == TimerFires(s) \/ TimerCancels(s) \/ TimerFails(s)

DaemonNext ==
  \/ \E s \in Sessions : StartStep(s) \/ StreamStep(s) \/ ProcStep(s)
  \/ \E t \in Stops : StopStep(t)
  \/ \E c \in Cancellers : CancelStep(c)
  \/ \E s \in TimedSessions : TimerStep(s)
  \/ WorkerDies

DaemonSpec == DaemonInit /\ [][DaemonNext]_daemon

-----------------------------------------------------------------------------
(***************************************************************************)
(* Properties                                                              *)
(***************************************************************************)

RuntimeTypeOK ==
  /\ recorder \in MaybeSession /\ streamTask \in MaybeSession /\ live \in MaybeSession
  /\ worker \in {"none", "fresh", "ready", "dead"}

AnswerTypeOK ==
  /\ results \in [Sessions -> {"none", "full", "partial"}]
  /\ errors \subseteq Sessions
  /\ history \in [Sessions -> Nat]

WorldTypeOK ==
  /\ mic \subseteq Sessions
  /\ audio \subseteq Sessions
  /\ typed \in [Sessions -> Nat]

TaskTypeOK ==
  /\ start \in [Sessions -> {"new", "open", "claim", "publish", "stream", "attach", "abandon",
                             "giveup", "claimfile", "processing", "done", "error"}]
  /\ gen \in [Sessions -> Nat]
  /\ stop \in [Stops -> [at : {"new", "take", "finalize", "quiesce", "spawn", "register",
                               "done", "error"}, session : MaybeSession]]
  /\ job \in [Sessions -> [audio : MaybeSession, stream : MaybeSession, live : MaybeSession]]
  /\ cancel \in [Cancellers -> {"new", "fire", "abort", "sweep", "fail", "done"}]

LiveTypeOK ==
  /\ stream \in [Sessions -> {"off", "listen", "heard", "press", "pressed", "ended"}]
  /\ status \in [Sessions -> {"not_requested", "active", "suspended", "complete"}]
  /\ inserted \in [Sessions -> Nat]

ProcTypeOK ==
  /\ proc \in [Sessions -> Awaits \cup {"off", "begin", "deliver", "finish", "publish", "failed",
                                        "partial", "done"}]
  /\ processing \in MaybeSession
  /\ aborted \subseteq Sessions

DaemonTypeOK ==
  /\ CoordinatorTypeOK
  /\ RuntimeTypeOK /\ AnswerTypeOK /\ WorldTypeOK
  /\ TaskTypeOK /\ LiveTypeOK /\ ProcTypeOK

(***************************************************************************)
(* A complete result in the cache belongs to a generation that complete    *)
(* accepted, so never to one that was cancelled, however late the task.    *)
(***************************************************************************)
ResultsNotCancelled ==
  \A s \in Sessions : results[s] = "full" => gen[s] \in redeemed /\ gen[s] \notin dropped

(***************************************************************************)
(* A session is answered with a result or with an error, never with both:  *)
(* record.result and wait_for_result look at the two caches separately.    *)
(***************************************************************************)
AnsweredOnce == \A s \in Sessions : results[s] # "none" => s \notin errors

(***************************************************************************)
(* A running capture process always has an owner that will end it: the     *)
(* runtime, the start that is about to publish it or give it up, or the    *)
(* stop that took it.                                                      *)
(***************************************************************************)
MicOwned ==
  \A s \in mic :
    \/ recorder = s
    \/ start[s] \in {"claim", "publish"}
    \/ \E t \in Stops : stop[t].at = "finalize" /\ job[stop[t].session].audio = s

=============================================================================
