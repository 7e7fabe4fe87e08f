---------------------------- MODULE EngineProtocol ----------------------------
(***************************************************************************)
(* The Python engine process (engine.py) and its wire protocol             *)
(* (protocol.py).                                                          *)
(*                                                                         *)
(* A reader thread cuts stdin into frames and posts them to the Qt         *)
(* application thread, which dispatches one request at a time, runs its    *)
(* handler and writes the response.  Runtime events are normalised and     *)
(* written by whichever thread raises them: the application thread, the    *)
(* processing thread or the live worker.  The recording overlay follows    *)
(* the same events through a Qt signal, which runs at once on the          *)
(* application thread and is queued from any other.                        *)
(*                                                                         *)
(* The host and the parts of the controller that raise no events are       *)
(* abstracted: a handler other than the dictation ones only answers.       *)
(***************************************************************************)
EXTENDS Naturals, Sequences, SequencesExt

CONSTANTS
  Calls,          \* the frames the host may write: method, parameter keys, validity, size
  MaxRequests,    \* bound on the frames the host writes
  MaxPipe,        \* bound on the frames and events that wait when the host writes
  MaxRecordings,  \* bound on the recordings
  MaxFrame        \* MAX_FRAME_BYTES, in chunks of the pipe

None == 0
Ids == 1..MaxRequests

CallSet ==
  [id : {None}, method : STRING, keys : SUBSET STRING, valid : BOOLEAN, envelope : BOOLEAN,
   size : Nat \ {0}, decodes : BOOLEAN]

ASSUME EngineAssumption ==
  Calls \subseteq CallSet /\ {MaxRequests, MaxPipe, MaxRecordings, MaxFrame} \subseteq Nat

Threads == {"main", "processing", "live"}

VARIABLES
  sent,       \* how many frames the host wrote
  stdin,      \* the frames in the pipe, oldest first
  open,       \* the host has not closed stdin
  buffered,   \* the chunks of the first frame that are in the reader's buffer
  reading,    \* the reader thread runs
  queue,      \* the application thread's event queue
  serving,    \* the request being served, or NoRequest
  seen,       \* ProtocolDispatcher._seen_ids
  handshake,  \* ProtocolDispatcher._handshake_complete
  recordings, \* how many recordings were started
  recording,  \* the recording that runs, or None
  thread,     \* the recording the processing thread is for, or None
  raised,     \* the runtime events each thread has yet to emit, oldest first
  sequence,   \* EventNormalizer._sequence
  state,      \* EventNormalizer._state
  sessions,   \* the session identifiers it drew; the last is _session_id
  pending,    \* the frame each thread normalised and has not written
  written,    \* the sequence number of the last event frame on stdout
  overlay,    \* what the overlay shows
  running,    \* application.exec() has not returned
  asked,      \* app.shutdown was accepted
  runs,       \* history: how often the handler of each identifier ran
  answers     \* history: how many responses each identifier got

hostVars == <<sent, stdin, open>>
readerVars == <<buffered, reading>>
dispatchVars == <<serving, seen, handshake, runs, answers>>
controllerVars == <<recordings, recording, thread>>
normalizerVars == <<sequence, state, sessions>>
engine == <<hostVars, readerVars, queue, dispatchVars, controllerVars, raised,
            normalizerVars, pending, written, overlay, running, asked>>

NoRequest == [id |-> None]
NoFrame == [seq |-> 0]

Methods == {"app.bootstrap", "app.shutdown", "dictation.start", "dictation.stop",
            "dictation.cancel", "settings.get", "settings.update", "modes.select",
            "audio.listDevices", "audio.testDevice", "diagnostics.run", "providers.list",
            "models.list", "models.download", "models.cancel", "models.remove",
            "compute.capabilities", "compute.probe", "app.restartEngine"}

Required(method) ==
  CASE method = "settings.update" -> {"changes"}
    [] method = "modes.select" -> {"modeId"}
    [] method \in {"models.download", "models.remove"} -> {"modelId"}
    [] OTHER -> {}

Optional(method) ==
  CASE method = "audio.testDevice" -> {"deviceId"}
    [] method = "models.cancel" -> {"jobId", "modelId"}
    [] method = "compute.probe" -> {"backend", "compute"}
    [] OTHER -> {}

\* The keys a handler takes, and the values it takes under them.
TakesParameters(r) ==
  /\ Required(r.method) \subseteq r.keys
  /\ r.keys \subseteq Required(r.method) \cup Optional(r.method)
  /\ r.method = "models.cancel" => \E key \in Optional(r.method) : r.keys = {key}
  /\ r.valid

\* What the controller raises instead of accepting the call.
ControllerRefuses(r) ==
  \/ r.method = "dictation.start" /\ recording # None
  \/ r.method = "dictation.stop" /\ recording = None

\* Why a request is refused: the envelope, a repeated identifier, a missing
\* handshake, an unknown method, the parameters, the controller.
Refusals(r) ==
  {code \in {"INVALID_ARGUMENT", "PROTOCOL_MISMATCH", "NOT_FOUND", "BUSY"} :
     \/ code = "INVALID_ARGUMENT" /\ (~r.envelope \/ r.id \in seen)
     \/ /\ r.envelope /\ r.id \notin seen
        /\ CASE ~handshake /\ r.method # "app.bootstrap" -> code = "PROTOCOL_MISMATCH"
             [] r.method \notin Methods -> code = "NOT_FOUND"
             [] ~TakesParameters(r) -> code = "INVALID_ARGUMENT"
             [] OTHER -> code = "BUSY" /\ ControllerRefuses(r)}

StateEvent(name, of) == [kind |-> "state", value |-> name, of |-> of]
Partial(of) == [kind |-> "partial", value |-> "text", of |-> of]
Transcript(of) == [kind |-> "transcript", value |-> "text", of |-> of]
Warning == [kind |-> "warning", value |-> "text", of |-> None]

\* What the processing thread of recording n may emit, in order.
Results(n) ==
  {<<StateEvent("cleaning", n), StateEvent("inserting", n), StateEvent("completed", n),
     Transcript(n)>>,
   <<StateEvent("failed", n), Warning>>,
   <<StateEvent("cancelled", n)>>}

Init ==
  /\ sent = 0 /\ stdin = <<>> /\ open = TRUE
  /\ buffered = 0 /\ reading = TRUE
  /\ queue = <<>>
  /\ serving = NoRequest /\ seen = {} /\ handshake = FALSE
  /\ runs = [id \in Ids |-> 0] /\ answers = [id \in Ids |-> 0]
  /\ recordings = 0 /\ recording = None /\ thread = None
  /\ raised = [t \in Threads |-> <<>>]
  /\ sequence = 0 /\ state = "idle" /\ sessions = 0
  /\ pending = [t \in Threads |-> NoFrame]
  /\ written = 0
  /\ overlay = "hidden"
  /\ running = TRUE /\ asked = FALSE

-----------------------------------------------------------------------------
(***************************************************************************)
(* The host and the reader thread                                          *)
(***************************************************************************)

\* The host writes a frame, under a new identifier or one it used before: a
\* request that timed out is sent again.  Identifiers are numbered as they are
\* first used.
HostSends(id, call) ==
  /\ open /\ sent < MaxRequests /\ Len(stdin) + Len(queue) < MaxPipe
  /\ id <= sent + 1
  /\ sent' = sent + 1
  /\ stdin' = Append(stdin, [call EXCEPT !.id = id])
  /\ UNCHANGED <<open, readerVars, queue, dispatchVars, controllerVars, raised,
                 normalizerVars, pending, written, overlay, running, asked>>

HostCloses ==
  /\ open /\ open' = FALSE
  /\ UNCHANGED <<sent, stdin, readerVars, queue, dispatchVars, controllerVars, raised,
                 normalizerVars, pending, written, overlay, running, asked>>

ReaderKeeps == <<hostVars, dispatchVars, controllerVars, raised, normalizerVars, pending,
                 written, overlay, running, asked>>

\* read1 brings part of a frame: it stays in the buffer, unless it outgrew it.
ReadPart ==
  /\ reading /\ stdin # <<>>
  /\ buffered + 1 < Head(stdin).size /\ buffered + 1 <= MaxFrame
  /\ buffered' = buffered + 1
  /\ UNCHANGED <<reading, queue, ReaderKeeps>>

\* The newline arrives and the frame decodes: it is posted to the application.
ReadFrame ==
  /\ reading /\ stdin # <<>>
  /\ buffered + 1 = Head(stdin).size
  /\ Head(stdin).size <= MaxFrame /\ Head(stdin).decodes
  /\ buffered' = 0
  /\ stdin' = Tail(stdin)
  /\ queue' = Append(queue, [kind |-> "request", frame |-> Head(stdin)])
  /\ UNCHANGED <<sent, open, reading, dispatchVars, controllerVars, raised, normalizerVars,
                 pending, written, overlay, running, asked>>

\* A frame that is too large or malformed ends the input, as does its end.
StopsReading ==
  IF stdin = <<>>
  THEN ~open
  ELSE \/ buffered + 1 > MaxFrame
       \/ buffered + 1 = Head(stdin).size /\ ~Head(stdin).decodes

\* Mutant: the end of the input reaches the application ahead of its queue.
ReadEofAtOnce ==
  /\ reading /\ StopsReading
  /\ reading' = FALSE /\ buffered' = 0
  /\ queue' = <<[kind |-> "quit"]>> \o queue
  /\ UNCHANGED ReaderKeeps

ReadEof ==
  /\ reading /\ StopsReading
  /\ reading' = FALSE /\ buffered' = 0
  /\ queue' = Append(queue, [kind |-> "eof"])
  /\ UNCHANGED ReaderKeeps

-----------------------------------------------------------------------------
(***************************************************************************)
(* The application thread: ProtocolDispatcher and the handlers             *)
(***************************************************************************)

MainIsFree == running /\ serving = NoRequest /\ raised["main"] = <<>> /\ pending["main"] = NoFrame
Takes(kind) == MainIsFree /\ queue # <<>> /\ Head(queue).kind = kind

\* Mutant: a request with a bad envelope or a repeated identifier is ignored.
RefuseSilently ==
  /\ Takes("request")
  /\ Refusals(Head(queue).frame) # {}
  /\ queue' = Tail(queue)
  /\ UNCHANGED <<hostVars, readerVars, dispatchVars, controllerVars, raised,
                 normalizerVars, pending, written, overlay, running, asked>>

\* The identifier is remembered once the envelope is valid; a refused request
\* is answered and runs nothing.
Refuse ==
  /\ Takes("request")
  /\ LET r == Head(queue).frame
     IN /\ Refusals(r) # {}
        /\ seen' = IF r.envelope THEN seen \cup {r.id} ELSE seen
        /\ answers' = [answers EXCEPT ![r.id] = @ + 1]
        /\ runs' = IF "BUSY" \in Refusals(r) THEN [runs EXCEPT ![r.id] = @ + 1] ELSE runs
  /\ queue' = Tail(queue)
  /\ UNCHANGED <<hostVars, readerVars, serving, handshake, controllerVars, raised,
                 normalizerVars, pending, written, overlay, running, asked>>

\* Mutant: a recording starts while the last one is being processed.
HandleStartAnyway ==
  /\ UNCHANGED <<thread, asked>>
  /\ recordings < MaxRecordings
  /\ recordings' = recordings + 1
  /\ recording' = recordings + 1
  /\ raised' = [raised EXCEPT !["main"] = <<StateEvent("recording", recordings + 1)>>]

\* A recording starts unless the last one is still being processed, or the
\* microphone fails: the request is accepted all the same.
HandleStart ==
  /\ UNCHANGED <<thread, asked>>
  /\ \/ /\ thread = None /\ recordings < MaxRecordings
        /\ recordings' = recordings + 1
        /\ recording' = recordings + 1
        /\ raised' = [raised EXCEPT !["main"] = <<StateEvent("recording", recordings + 1)>>]
     \/ /\ raised' = [raised EXCEPT !["main"] = <<Warning>>]
        /\ UNCHANGED <<recordings, recording>>

\* The live worker is joined and the capture stopped.
HandleStop ==
  /\ raised["live"] = <<>> /\ pending["live"] = NoFrame
  /\ recording' = None /\ thread' = recording
  /\ raised' = [raised EXCEPT !["main"] = <<StateEvent("processing", recording)>>]
  /\ UNCHANGED <<recordings, asked>>

\* The live worker is only told to stop; a recording is dropped here, a
\* dictation in progress by its own thread.
HandleCancel ==
  /\ recording' = None
  /\ raised' = IF recording = None THEN raised
               ELSE [raised EXCEPT !["main"] = <<StateEvent("cancelled", recording)>>]
  /\ UNCHANGED <<recordings, thread, asked>>

HandleOther(method) ==
  /\ asked' = (asked \/ method = "app.shutdown")
  /\ UNCHANGED <<controllerVars, raised>>

\* Mutant: an identifier that was used is not remembered.
RememberNothing(r) == seen' = seen
Remember(r) == seen' = seen \cup {r.id}

\* dispatch: the handler of an accepted request runs on this thread.
Serve ==
  /\ Takes("request")
  /\ LET r == Head(queue).frame
     IN /\ Refusals(r) = {}
        /\ Remember(r)
        /\ handshake' = (handshake \/ r.method = "app.bootstrap")
        /\ runs' = [runs EXCEPT ![r.id] = @ + 1]
        /\ serving' = r
        /\ CASE r.method = "dictation.start" -> HandleStart
             [] r.method = "dictation.stop" -> HandleStop
             [] r.method = "dictation.cancel" -> HandleCancel
             [] OTHER -> HandleOther(r.method)
        /\ queue' = IF r.method = "app.shutdown" THEN Append(Tail(queue), [kind |-> "quit"])
                    ELSE Tail(queue)
  /\ UNCHANGED <<hostVars, readerVars, answers, normalizerVars, pending, written, overlay, running>>

\* What a handler does once the state it announced was emitted: a start begins
\* the live worker, unless the one of a cancelled recording still runs; a stop
\* begins the processing thread.
ThreadsStart ==
  CASE serving.method = "dictation.stop" /\ thread # None ->
         \E result \in Results(thread) : raised' = [raised EXCEPT !["processing"] = result]
    [] serving.method = "dictation.start" /\ recording # None
       /\ raised["live"] = <<>> /\ pending["live"] = NoFrame ->
         raised' = [raised EXCEPT !["live"] = <<Partial(recording)>>]
    [] OTHER -> UNCHANGED raised

\* The handler returns and its response is written.
Respond ==
  /\ running /\ serving # NoRequest /\ raised["main"] = <<>> /\ pending["main"] = NoFrame
  /\ ThreadsStart
  /\ answers' = [answers EXCEPT ![serving.id] = @ + 1]
  /\ serving' = NoRequest
  /\ UNCHANGED <<hostVars, readerVars, queue, seen, handshake, runs, controllerVars,
                 normalizerVars, pending, written, overlay, running, asked>>

\* request_shutdown: the event loop is left after what is queued already.
TakeEof ==
  /\ Takes("eof")
  /\ queue' = Append(Tail(queue), [kind |-> "quit"])
  /\ UNCHANGED <<hostVars, readerVars, dispatchVars, controllerVars, raised, normalizerVars,
                 pending, written, overlay, running, asked>>

Quit ==
  /\ Takes("quit")
  /\ running' = FALSE
  /\ overlay' = "hidden"
  /\ queue' = Tail(queue)
  /\ UNCHANGED <<hostVars, readerVars, dispatchVars, controllerVars, raised, normalizerVars,
                 pending, written, asked>>

-----------------------------------------------------------------------------
(***************************************************************************)
(* Events: EventNormalizer, the writer and the overlay                     *)
(***************************************************************************)

\* Mutant: only two of the final states hide the overlay.
ShownIgnoring(name) ==
  CASE name = "recording" -> "recording"
    [] name \in {"processing", "cleaning", "inserting"} -> "processing"
    [] name \in {"idle", "completed"} -> "hidden"
    [] OTHER -> overlay

\* route_overlay.
Shown(name) ==
  CASE name = "recording" -> "recording"
    [] name \in {"processing", "cleaning", "inserting"} -> "processing"
    [] name \in {"idle", "completed", "cancelled", "failed", "error"} -> "hidden"
    [] OTHER -> overlay

\* A change to recording draws a session identifier.
Drawn(event) ==
  IF event.kind = "state" /\ event.value = "recording" /\ state # "recording"
  THEN sessions + 1 ELSE sessions

\* runtime_event under its lock: the event gets the next number and, when it is
\* about the dictation, the current session.
Normalize(t) ==
  /\ raised[t] # <<>> /\ pending[t] = NoFrame
  /\ t = "main" => running
  /\ LET event == Head(raised[t])
     IN /\ state' = IF event.kind = "state" THEN event.value ELSE state
        /\ sessions' = Drawn(event)
        /\ sequence' = sequence + 1
        /\ pending' = [pending EXCEPT ![t] =
             [seq |-> sequence + 1, kind |-> event.kind, value |-> event.value,
              of |-> event.of, session |-> Drawn(event)]]
  /\ raised' = [raised EXCEPT ![t] = Tail(@)]
  /\ UNCHANGED <<hostVars, readerVars, queue, dispatchVars, controllerVars, written, overlay,
                 running, asked>>

\* The frame is written after the lock was released; then the overlay is told,
\* directly from the application thread and through its queue from the others.
Emit(t) ==
  /\ pending[t] # NoFrame
  /\ written' = pending[t].seq
  /\ pending' = [pending EXCEPT ![t] = NoFrame]
  /\ IF pending[t].kind # "state" THEN UNCHANGED <<overlay, queue>>
     ELSE IF t = "main" THEN overlay' = Shown(pending[t].value) /\ UNCHANGED queue
     ELSE queue' = Append(queue, [kind |-> "overlay", value |-> pending[t].value])
          /\ UNCHANGED overlay
  /\ UNCHANGED <<hostVars, readerVars, dispatchVars, controllerVars, raised, normalizerVars,
                 running, asked>>

RouteOverlay ==
  /\ Takes("overlay")
  /\ overlay' = Shown(Head(queue).value)
  /\ queue' = Tail(queue)
  /\ UNCHANGED <<hostVars, readerVars, dispatchVars, controllerVars, raised, normalizerVars,
                 pending, written, running, asked>>

\* The processing thread ends when it emitted everything.
ThreadEnds ==
  /\ thread # None /\ raised["processing"] = <<>> /\ pending["processing"] = NoFrame
  /\ serving # NoRequest => serving.method # "dictation.stop"
  /\ thread' = None
  /\ UNCHANGED <<hostVars, readerVars, queue, dispatchVars, recordings, recording, raised,
                 normalizerVars, pending, written, overlay, running, asked>>

-----------------------------------------------------------------------------

EngineStep ==
  \/ ReadPart \/ ReadFrame \/ ReadEof
  \/ Refuse \/ Serve \/ Respond \/ TakeEof \/ Quit
  \/ RouteOverlay \/ ThreadEnds
  \/ \E t \in Threads : Normalize(t) \/ Emit(t)

Next ==
  \/ \E id \in Ids, call \in Calls : HostSends(id, call)
  \/ HostCloses
  \/ EngineStep

Spec == Init /\ [][Next]_engine

\* Threads keep running; the host may stop talking at any time.
FairSpec ==
  /\ Spec
  /\ WF_engine(ReadPart \/ ReadFrame \/ ReadEof)
  /\ WF_engine(Refuse \/ Serve \/ Respond \/ TakeEof \/ Quit \/ RouteOverlay
               \/ Normalize("main") \/ Emit("main"))
  /\ WF_engine(Normalize("live") \/ Emit("live"))
  /\ WF_engine(Normalize("processing") \/ Emit("processing") \/ ThreadEnds)

-----------------------------------------------------------------------------
(***************************************************************************)
(* Properties                                                              *)
(***************************************************************************)

\* Every variable holds what its declaration says.
TypeOK ==
  /\ sent \in 0..MaxRequests /\ open \in BOOLEAN
  /\ buffered \in 0..MaxFrame /\ reading \in BOOLEAN
  /\ seen \subseteq Ids /\ handshake \in BOOLEAN
  /\ serving = NoRequest \/ serving.id \in Ids
  /\ recordings \in 0..MaxRecordings /\ {recording, thread} \subseteq 0..recordings
  /\ DOMAIN raised = Threads /\ DOMAIN pending = Threads
  /\ sessions <= recordings /\ written <= sequence
  /\ overlay \in {"hidden", "recording", "processing"}
  /\ {running, asked} \subseteq BOOLEAN

\* A request that is sent again under its identifier, because its answer was
\* late, never runs its handler a second time.
RunOnce == \A id \in Ids : runs[id] <= 1

\* Closing stdin is a way to stop: unless app.shutdown came first, whatever was
\* read before is still answered before the event loop is left.
AnsweredBeforeQuit ==
  ~running /\ ~asked => \A i \in DOMAIN queue : queue[i].kind # "request"

\* A transcript and every state reach the client under the session of the
\* recording they belong to, whichever thread emits them and whatever the application thread
\* started in the meantime.
OwnSession ==
  \A t \in Threads :
    pending[t] # NoFrame /\ pending[t].kind \in {"transcript", "state"}
      => pending[t].session = pending[t].of

\* Once nothing is recorded or processed and no event is on its way, the
\* overlay is gone: no order of direct and queued updates leaves it behind.
AllIsQuiet ==
  /\ recording = None /\ thread = None
  /\ \A t \in Threads : raised[t] = <<>> /\ pending[t] = NoFrame
  /\ \A i \in DOMAIN queue : queue[i].kind # "overlay"
OverlayGone == AllIsQuiet => overlay = "hidden"

\* A request that was read is eventually answered, unless the engine was left:
\* the join of the live worker in a stop never keeps the others waiting.
IsQueued(id) == \E i \in DOMAIN queue : queue[i].kind = "request" /\ queue[i].frame.id = id
EventuallyAnswered == \A id \in Ids : IsQueued(id) ~> (answers[id] > 0 \/ ~running)

===============================================================================
