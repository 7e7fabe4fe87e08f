----------------------- MODULE DictationRuntimeProofs -----------------------
(***************************************************************************)
(* Proofs about DictationRuntime for every number of sessions, chunks and  *)
(* crashes, every set of faults, with and without live insertion, a GPU    *)
(* and retention.                                                          *)
(*                                                                         *)
(* ThreadInv says who may be doing what: it follows the field              *)
(* _processing_thread, which nothing locks, and gives that there is one    *)
(* dictation at a time.  On top of it StoreInv follows the session that    *)
(* the one thread works on through its row, its recording and its text.    *)
(***************************************************************************)
EXTENDS DictationRuntime, TLAPS

-----------------------------------------------------------------------------
(***************************************************************************)
(* The first inductive invariant.                                          *)
(***************************************************************************)

\* The application thread is between the decision to record and the hand-over.
Capturing == main \in {"open", "live", "join", "stop"} \/ IsRecording

\* From its spawn until it resets it, the field names the thread.
Owns(s) == AtWork(s) \/ proc[s] = "leave"
ThreadOwnsField == \A s \in Sessions : Owns(s) => processing = s

\* Nothing records while a thread may still need the field.
Exclusive ==
  \A s \in Sessions : Owns(s) => mic = {} /\ ~Capturing /\ main # "build"

\* A start that was let through finds the microphone closed.
StartFindsMicClosed == main \in {"alive", "build", "open"} => mic = {}

\* Whoever stops or cancels the recording closes the microphone.
CapturingHasMic == Capturing /\ main # "open" => session \in mic

SessionThere == main \in {"open", "live", "join", "stop"} => session # None

\* A thread works on the session that stop and cancel act on, and the one that
\* records has no thread yet.
WorksOnSession ==
  /\ \A s \in Sessions : AtWork(s) => work[s] = session
  /\ \A s \in Sessions : work[s] # s => proc[s] # "off"
  /\ \A s \in Sessions : s > built => proc[s] = "off"
  /\ \A s \in Sessions : s = session /\ Capturing => proc[s] = "off"

ThreadInv ==
  /\ TypeOK
  /\ ThreadOwnsField /\ Exclusive
  /\ StartFindsMicClosed /\ CapturingHasMic /\ SessionThere /\ MicReachable
  /\ WorksOnSession

-----------------------------------------------------------------------------
(***************************************************************************)
(* The second one.                                                         *)
(***************************************************************************)

\* Nothing was stored, retained or delivered for a session that is to come.
Untouched(s) == s \notin rows \cup kept \cup inserted \cup cancelled
FreshIsUntouched ==
  /\ \A s \in Sessions : s > built => Untouched(s)
  /\ \A s \in Sessions : s = session /\ Capturing => Untouched(s)

\* What has been delivered can no longer be cancelled.
DeliveredIsFinal ==
  \A s \in inserted :
    s \notin cancelled /\ (s = session => state[s] \in {"inserting"} \cup Terminal)

\* Where the thread is tells what the disk has of the session it works on.
Before == {"copy", "enter", "check1", "transcribe", "check2", "clean", "check3", "retain", "provider"}
After == {"check4", "inserting", "check5", "insert", "save"}

ProgressOf(s) ==
  /\ proc[s] \in Before \cup {"retry"} => session \notin rows \cup kept
  /\ proc[s] = "add" => session \notin rows
  /\ proc[s] \in After => (session \in kept => session \in rows)
  /\ proc[s] \in {"check5", "insert", "save"} => state[session] = "inserting"
  /\ proc[s] \in {"insert", "save", "retry"} => session \notin cancelled
  /\ proc[s] = "broken" =>
       \/ session \notin rows \cup kept
       \/ /\ state[session] = "inserting" /\ session \notin cancelled
          /\ session \in kept => session \in rows
  /\ proc[s] \in {"release", "retry"} => state[session] \in Terminal
  /\ proc[s] = "release" =>
       /\ session \in kept => session \in rows \cup overtaken
       /\ session \in cancelled => session \notin rows \cup kept \/ session \in overtaken
  /\ proc[s] \notin {"save", "release"} => session \notin inserted
  /\ closed /\ proc[s] # "add" => session \notin rows \cup kept \/ session \in overtaken

Progress == \A s \in Sessions : AtWork(s) => ProgressOf(s)

\* A session that was left at work without a thread left nothing behind.
AbandonedIsEmpty ==
  session # None /\ state[session] \in {"processing", "cleaning"} /\ (\A s \in Sessions : ~AtWork(s))
    => session \notin rows \cup kept

StoreInv ==
  /\ FreshIsUntouched /\ DeliveredIsFinal /\ Progress /\ AbandonedIsEmpty
  /\ CancelledLeavesNothing /\ KeptHasRow

-----------------------------------------------------------------------------
(***************************************************************************)
(* Types                                                                   *)
(***************************************************************************)

\* Init makes a value of the type of every variable.
LEMMA InitTypes == Init => TypeOK
<1> SUFFICES ASSUME Init PROVE TypeOK
  OBVIOUS
<1> USE DictationAssumption DEF Init, None
<1>1. SessionTypeOK
  <2>1. state \in [Sessions -> States]
    BY DEF States
  <2>2. closed \in BOOLEAN
    OBVIOUS
  <2>3. QED
    BY <2>1, <2>2 DEF SessionTypeOK, MainAt
<1>2. ThreadTypeOK
  BY DEF ThreadTypeOK, ThreadAt
<1>3. LiveTypeOK
  <2>1. live \in [Sessions -> LiveAt] /\ chunks \in [Sessions -> 0..MaxChunks]
    BY DEF LiveAt
  <2>2. liveStop \in BOOLEAN
    OBVIOUS
  <2>3. QED
    BY <2>1, <2>2 DEF LiveTypeOK
<1>4. DiskTypeOK
  BY DEF DiskTypeOK
<1>5. QED
  BY <1>1, <1>2, <1>3, <1>4 DEF TypeOK

\* Session numbers stay below the bound because a session is only built while
\* built is below it.
LEMMA StepSessionTypes == TypeOK /\ SessionThere /\ [Next]_runtime => SessionTypeOK'
<1> SUFFICES ASSUME SessionTypeOK, ThreadTypeOK, SessionThere, [Next]_runtime PROVE SessionTypeOK'
  BY DEF TypeOK
<1> USE DictationAssumption DEF SessionTypeOK, Sessions, None, MainAtStep
<1>1. CASE UNCHANGED <<sessionVars, main, closed, mic, crashes>>
  BY <1>1 DEF sessionVars
<1>2. CASE RequestStart \/ AskAlive \/ StartLiveWorker \/ RequestStop \/ JoinLiveWorker
  BY <1>2 DEF RequestStart, AskAlive, StartLiveWorker, RequestStop, JoinLiveWorker, sessionVars,
     MainAt
<1>3. ASSUME NewSession("idle"), UNCHANGED <<cancelled, closed, mic, crashes>>, main' \in MainAt
      PROVE  SessionTypeOK'
  <2>1. state' \in [Sessions -> States]
    BY <1>3 DEF NewSession, States, Resting
  <2>2. QED
    BY <1>3, <2>1 DEF NewSession
<1>4. CASE BuildSession
  BY <1>4, <1>3 DEF BuildSession, MainAt
<1>5. CASE OpenMicrophone
  <2>1. mic' \subseteq Sessions
    <3>1. session \in Sessions
      BY <1>5 DEF OpenMicrophone, SessionThere
    <3>2. QED
      BY <1>5, <3>1 DEF OpenMicrophone, OpenSource
  <2>2. state' \in [Sessions -> States]
    BY <1>5 DEF OpenMicrophone, States, Resting
  <2>3. QED
    BY <1>5, <2>1, <2>2 DEF OpenMicrophone, MainAt
<1>6. CASE StopCapture
  <2>1. state' \in [Sessions -> States]
    BY <1>6 DEF StopCapture, EndCapture, States, Resting, Working
  <2>2. QED
    BY <1>6, <2>1 DEF StopCapture, EndCapture, MainAt
<1>7. CASE RequestCancel \/ Shutdown
  <2>1. /\ state' \in [Sessions -> States]
        /\ cancelled' \subseteq Sessions /\ mic' \subseteq Sessions
    BY <1>7 DEF RequestCancel, Shutdown, CancelSession, States, Resting
  <2>2. QED
    BY <1>7, <2>1 DEF RequestCancel, Shutdown, MainAt
<1>8. ASSUME NEW s \in Sessions, ProcStep(s) PROVE SessionTypeOK'
  <2>1. CASE RetryOnCpu(s)
    BY <2>1, <1>1, <1>3 DEF RetryOnCpu, sessionVars
  <2>2. CASE UNCHANGED sessionVars
    BY <2>2, <1>8, <1>1 DEF ProcStep, CopyForRetry, Enter, Transcribe, Clean, Check, RetainAudio,
       AddHistory, CheckStored, SetInserting, InsertFinal, SaveDelivery, Fail, RetryOnCpu,
       Release, Leave, Forget
  <2>3. ASSUME NEW value \in States, SetState(s, value),
               UNCHANGED <<built, session, cancelled, main, closed, mic, crashes>>
        PROVE  SessionTypeOK'
    <3>1. state' \in [Sessions -> States]
      BY <2>3 DEF SetState
    <3>2. QED
      BY <2>3, <3>1
  <2>4. {"processing", "cleaning", "inserting", "cancelled", "completed", "failed"} \subseteq States
    BY DEF States, Resting, Working
  <2>5. CASE Enter(s) \/ Clean(s) \/ SetInserting(s) \/ SaveDelivery(s) \/ Fail(s)
    BY <2>5, <2>2, <2>3, <2>4 DEF Enter, Clean, SetInserting, SaveDelivery, Fail, sessionVars
  <2>6. CASE Check(s, "check1", "transcribe") \/ Check(s, "check2", "clean") \/
             Check(s, "check3", "retain") \/
             CheckStored(s, "check4", "inserting") \/ CheckStored(s, "check5", "insert")
    BY <2>6, <2>2, <2>3, <2>4 DEF Check, CheckStored, sessionVars
  <2>7. QED
    BY <1>8, <2>1, <2>2, <2>5, <2>6 DEF ProcStep, CopyForRetry, Transcribe, RetainAudio,
       AddHistory, InsertFinal, Release, Leave, Forget
<1>9. ASSUME NEW s \in Sessions, LiveWorkerStep(s) PROVE SessionTypeOK'
  BY <1>9, <1>1 DEF LiveWorkerStep, LiveBegin, LiveTake, LiveInfer, LiveInsert, LiveDelete
<1>10. CASE Die
  <2>1. state' \in [Sessions -> States]
    BY <1>10 DEF Die, States
  <2>2. QED
    BY <1>10, <2>1 DEF Die, MainAt
<1>11. CASE Restart
  BY <1>11 DEF Restart, sessionVars, MainAt
<1>12. QED
  BY <1>1, <1>2, <1>4, <1>5, <1>6, <1>7, <1>8, <1>9, <1>10, <1>11
  DEF Next, MainStep, Request, runtime

\* A thread is spawned for the session that recorded and moves on to one that
\* was just built.
LEMMA StepThreadTypes == TypeOK /\ SessionThere /\ [Next]_runtime => ThreadTypeOK'
<1> SUFFICES ASSUME SessionTypeOK, ThreadTypeOK, [Next]_runtime PROVE ThreadTypeOK'
  BY DEF TypeOK
<1> USE DictationAssumption DEF ThreadTypeOK, Sessions, None
<1>1. CASE UNCHANGED threadVars
  BY <1>1 DEF threadVars
<1>2. CASE StopCapture
  BY <1>2 DEF StopCapture, SessionTypeOK, ThreadAt
<1>3. ASSUME NEW s \in Sessions, ProcStep(s) PROVE ThreadTypeOK'
  <2>1. proc' \in [Sessions -> ThreadAt]
    BY <1>3, ZenonT(60) DEF ProcStep, CopyForRetry, Enter, Transcribe, Clean, Check, RetainAudio,
       AddHistory, CheckStored, SetInserting, InsertFinal, SaveDelivery, Fail, RetryOnCpu,
       Release, Leave, Forget, ProcAt, ThreadAt, Steps
  <2>2. CASE RetryOnCpu(s)
    BY <2>1, <2>2 DEF RetryOnCpu, NewSession, SessionTypeOK
  <2>3. CASE ~RetryOnCpu(s)
    BY <1>3, <2>1, <2>3 DEF ProcStep, CopyForRetry, Enter, Transcribe, Clean, Check, RetainAudio,
       AddHistory, CheckStored, SetInserting, InsertFinal, SaveDelivery, Fail,
       Release, Leave, Forget
  <2>4. QED
    BY <2>2, <2>3
<1>4. ASSUME NEW s \in Sessions, LiveWorkerStep(s) PROVE ThreadTypeOK'
  BY <1>4, <1>1 DEF LiveWorkerStep, LiveBegin, LiveTake, LiveInfer, LiveInsert, LiveDelete
<1>5. CASE Die
  BY <1>5 DEF Die, ThreadAt
<1>6. QED
  BY <1>1, <1>2, <1>3, <1>4, <1>5 DEF Next, MainStep, Request, AskAlive, BuildSession,
     OpenMicrophone, StartLiveWorker, JoinLiveWorker, RequestStart, RequestStop, RequestCancel,
     Shutdown, Restart, runtime

\* A chunk is only taken below its bound.
LEMMA StepLiveTypes == TypeOK /\ SessionThere /\ [Next]_runtime => LiveTypeOK'
<1> SUFFICES ASSUME SessionTypeOK, LiveTypeOK, [Next]_runtime PROVE LiveTypeOK'
  BY DEF TypeOK
<1> USE DictationAssumption DEF LiveTypeOK, Sessions, None
<1>1. CASE UNCHANGED liveVars
  BY <1>1 DEF liveVars
<1>2. CASE BuildSession
  BY <1>2, <1>1 DEF BuildSession, NewSession, SessionTypeOK, liveVars
<1>3. CASE StartLiveWorker
  <2>1. live' \in [Sessions -> LiveAt]
    BY <1>3 DEF StartLiveWorker, LiveAt
  <2>2. liveThread' \in 0..MaxSessions
    BY <1>3 DEF StartLiveWorker, SessionTypeOK
  <2>3. liveStop' \in BOOLEAN
    BY <1>3 DEF StartLiveWorker
  <2>4. QED
    BY <1>3, <2>1, <2>2, <2>3 DEF StartLiveWorker
<1>4. CASE RequestStop \/ JoinLiveWorker \/ RequestCancel \/ Shutdown
  <2>1. liveThread' \in 0..MaxSessions
    BY <1>4 DEF RequestStop, JoinLiveWorker, RequestCancel, Shutdown, LeaveLiveWorker
  <2>2. liveStop' \in BOOLEAN
    BY <1>4 DEF RequestStop, JoinLiveWorker, RequestCancel, Shutdown, LeaveLiveWorker
  <2>3. QED
    BY <1>4, <2>1, <2>2 DEF RequestStop, JoinLiveWorker, RequestCancel, Shutdown
<1>5. ASSUME NEW s \in Sessions, RetryOnCpu(s) \/ Forget(s) PROVE LiveTypeOK'
  BY <1>5 DEF RetryOnCpu, Forget, NewSession, SessionTypeOK
<1>6. ASSUME NEW s \in Sessions, ProcStep(s) PROVE LiveTypeOK'
  BY <1>6, <1>1, <1>5 DEF ProcStep, CopyForRetry, Enter, Transcribe, Clean, Check, RetainAudio,
     AddHistory, CheckStored, SetInserting, InsertFinal, SaveDelivery, Fail, Release, Leave
<1>7. ASSUME NEW s \in Sessions, LiveWorkerStep(s) PROVE LiveTypeOK'
  <2>1. live' \in [Sessions -> LiveAt]
    BY <1>7 DEF LiveWorkerStep, LiveBegin, LiveTake, LiveInfer, LiveInsert, LiveDelete, LiveStep,
       LiveAt
  <2>2. chunks' \in [Sessions -> 0..MaxChunks]
    <3>1. CASE LiveTake(s)
      <4>1. \/ chunks' = chunks
            \/ chunks[s] < MaxChunks /\ chunks' = [chunks EXCEPT ![s] = chunks[s] + 1]
        BY <3>1 DEF LiveTake
      <4>2. chunks[s] \in 0..MaxChunks /\ chunks \in [Sessions -> 0..MaxChunks]
        OBVIOUS
      <4>3. QED
        BY <4>1, <4>2
    <3>2. CASE ~LiveTake(s)
      BY <1>7, <3>2 DEF LiveWorkerStep, LiveBegin, LiveInfer, LiveInsert, LiveDelete
    <3>3. QED
      BY <3>1, <3>2
  <2>3. QED
    BY <1>7, <2>1, <2>2 DEF LiveWorkerStep, LiveBegin, LiveTake, LiveInfer, LiveInsert, LiveDelete
<1>8. CASE Die
  <2>1. live' \in [Sessions -> LiveAt]
    BY <1>8 DEF Die, LiveAt
  <2>2. liveStop' \in BOOLEAN
    BY <1>8 DEF Die
  <2>3. QED
    BY <1>8, <2>1, <2>2 DEF Die
<1>9. QED
  BY <1>1, <1>2, <1>3, <1>4, <1>6, <1>7, <1>8 DEF Next, MainStep, Request, AskAlive,
     OpenMicrophone, StopCapture, RequestStart, Restart, runtime

\* The disk only ever holds what sessions put there.
LEMMA StepDiskTypes == TypeOK /\ SessionThere /\ [Next]_runtime => DiskTypeOK'
<1> SUFFICES ASSUME SessionTypeOK, ThreadTypeOK, DiskTypeOK, SessionThere, [Next]_runtime
             PROVE  DiskTypeOK'
  BY DEF TypeOK
<1> USE DEF DiskTypeOK
<1>1. CASE UNCHANGED <<diskVars, overtaken>>
  BY <1>1 DEF diskVars
<1>2. UnderWay \subseteq Sessions
  BY DEF UnderWay, ThreadTypeOK
<1>3. CASE Shutdown \/ Die
  BY <1>3, <1>2 DEF Shutdown, Die, diskVars
<1>4. ASSUME NEW s \in Sessions, NEW kind \in {"rec", "copy", "chunk"},
             files' = files \cup {<<kind, s>>}, UNCHANGED <<kept, rows, inserted, overtaken>>
      PROVE  DiskTypeOK'
  BY <1>4
<1>5. ASSUME NEW file, DeleteAudio(file) PROVE files' \subseteq {"rec", "copy", "chunk"} \X Sessions
  BY <1>5 DEF DeleteAudio
<1>6. CASE StopCapture
  <2>1. session \in Sessions
    BY <1>6, DictationAssumption DEF StopCapture, MainAtStep, SessionThere, SessionTypeOK, Sessions, None
  <2>2. files' = files \/ files' = files \cup {<<"rec", session>>}
    BY <1>6 DEF StopCapture, EndCapture, WriteWav
  <2>3. QED
    BY <1>6, <2>1, <2>2, <1>4 DEF StopCapture
<1>7. ASSUME NEW s \in Sessions, ProcStep(s) PROVE DiskTypeOK'
  <2>1. work[s] \in Sessions
    BY DEF ThreadTypeOK
  <2>2. CASE CopyForRetry(s)
    BY <2>2, <1>4 DEF CopyForRetry
  <2>3. CASE RetainAudio(s) \/ Fail(s) \/ Release(s)
    BY <2>3, <2>1, <1>5 DEF RetainAudio, Fail, Release
  <2>4. CASE AddHistory(s) \/ InsertFinal(s)
    BY <2>4, <2>1 DEF AddHistory, InsertFinal
  <2>5. CASE CheckStored(s, "check4", "inserting") \/ CheckStored(s, "check5", "insert")
    BY <2>5 DEF CheckStored, TakeBack
  <2>6. QED
    BY <1>7, <1>1, <2>2, <2>3, <2>4, <2>5 DEF ProcStep, Enter, Transcribe, Clean, Check,
       SetInserting, SaveDelivery, RetryOnCpu, Leave, Forget
<1>8. ASSUME NEW s \in Sessions, LiveWorkerStep(s) PROVE DiskTypeOK'
  <2>1. CASE LiveTake(s)
    <3>1. files' = files \/ files' = files \cup {<<"chunk", s>>}
      BY <2>1 DEF LiveTake, WriteWav
    <3>2. QED
      BY <2>1, <3>1, <1>4 DEF LiveTake
  <2>2. CASE LiveDelete(s)
    BY <2>2, <1>5 DEF LiveDelete
  <2>3. QED
    BY <1>8, <1>1, <2>1, <2>2 DEF LiveWorkerStep, LiveBegin, LiveInfer, LiveInsert
<1>9. CASE Restart
  BY <1>9 DEF Restart, CleanupStale
<1>10. QED
  BY <1>1, <1>3, <1>6, <1>7, <1>8, <1>9 DEF Next, MainStep, Request, AskAlive, BuildSession,
     OpenMicrophone, StartLiveWorker, JoinLiveWorker, RequestStart, RequestStop, RequestCancel,
     runtime

\* Only a start that was let through replaces the session, and it is there
\* until the recording is handed over.
LEMMA StepSessionThere == TypeOK /\ SessionThere /\ [Next]_runtime => SessionThere'
<1> SUFFICES ASSUME SessionTypeOK, SessionThere, [Next]_runtime PROVE SessionThere'
  BY DEF TypeOK
<1> USE DEF SessionThere
<1>1. CASE UNCHANGED <<session, main>>
  BY <1>1
<1>2. ASSUME NewSession("idle") PROVE session' # None
  BY <1>2, DictationAssumption DEF NewSession, SessionTypeOK, None
<1>3. CASE MainStep
  BY <1>3, <1>2 DEF MainStep, AskAlive, BuildSession, OpenMicrophone, StartLiveWorker,
     JoinLiveWorker, StopCapture, MainAtStep, sessionVars
<1>4. CASE Request
  BY <1>4 DEF Request, RequestStart, RequestStop, RequestCancel, Shutdown, MainAtStep,
     IsRecording, sessionVars
<1>5. ASSUME NEW s \in Sessions, ProcStep(s) PROVE SessionThere'
  BY <1>5, <1>1, <1>2 DEF ProcStep, CopyForRetry, Enter, Transcribe, Clean, Check, RetainAudio,
     AddHistory, CheckStored, SetInserting, InsertFinal, SaveDelivery, Fail, RetryOnCpu,
     Release, Leave, Forget, sessionVars
<1>6. ASSUME NEW s \in Sessions, LiveWorkerStep(s) PROVE SessionThere'
  BY <1>6 DEF LiveWorkerStep, LiveBegin, LiveTake, LiveInfer, LiveInsert, LiveDelete, sessionVars
<1>7. CASE Die \/ Restart
  BY <1>7 DEF Die, Restart, MainAtStep
<1>8. QED
  BY <1>1, <1>3, <1>4, <1>5, <1>6, <1>7 DEF Next, runtime, sessionVars

LEMMA StepTypes == TypeOK /\ SessionThere /\ [Next]_runtime => TypeOK' /\ SessionThere'
BY StepSessionTypes, StepThreadTypes, StepLiveTypes, StepDiskTypes, StepSessionThere DEF TypeOK

\* Every variable keeps its type, for every bound and every set of faults.
THEOREM RuntimeTypes == Spec => []TypeOK
<1>1. Init => TypeOK /\ SessionThere
  BY InitTypes DEF Init, SessionThere
<1>2. TypeOK /\ SessionThere /\ [Next]_runtime => (TypeOK /\ SessionThere)'
  BY StepTypes
<1>3. QED
  BY <1>1, <1>2, PTL DEF Spec

-----------------------------------------------------------------------------
(***************************************************************************)
(* One dictation at a time                                                 *)
(***************************************************************************)
Roles ==
  /\ ThreadOwnsField /\ Exclusive
  /\ StartFindsMicClosed /\ CapturingHasMic /\ MicReachable
  /\ WorksOnSession

\* What the roles are defined by.
roleVars == <<built, session, state, main, processing, proc, work, mic>>

LEMMA RolesStutter == Roles /\ UNCHANGED roleVars => Roles'
BY DEF Roles, roleVars, ThreadOwnsField, Exclusive, StartFindsMicClosed, CapturingHasMic, MicReachable,
   WorksOnSession, Owns, AtWork, Capturing, IsRecording

LEMMA InitRoles == Init => Roles
BY DEF Init, Roles, ThreadOwnsField, Exclusive, StartFindsMicClosed, CapturingHasMic, MicReachable,
   WorksOnSession, Owns, AtWork, Steps, Capturing, IsRecording

\* The one thread at work, what it works on, and what cannot go on meanwhile.
LEMMA TheThread ==
  ASSUME ThreadInv, NEW s \in Sessions, AtWork(s)
  PROVE  /\ processing = s /\ work[s] = session /\ session \in Sessions
         /\ mic = {} /\ ~Capturing /\ main # "build"
         /\ \A t \in Sessions : Owns(t) => t = s
BY DEF ThreadInv, TypeOK, ThreadTypeOK, ThreadOwnsField, Exclusive, WorksOnSession, Owns, Sessions

\* The application thread: a start gets through when the field is None or names
\* a thread that is not alive, and by ThreadOwnsField no other one needs it.
LEMMA MainKeepsRoles == ThreadInv /\ (MainStep \/ Request) => Roles'
<1> SUFFICES ASSUME ThreadInv, MainStep \/ Request PROVE Roles'
  OBVIOUS
<1> USE DEF Roles, ThreadInv, ThreadOwnsField, Exclusive, StartFindsMicClosed, CapturingHasMic, MicReachable,
            WorksOnSession, Owns, Capturing, MainAtStep
<1>1. /\ built \in Nat /\ built <= MaxSessions /\ session \in 0..built
      /\ state \in [Sessions -> States] /\ proc \in [Sessions -> ThreadAt]
  BY DictationAssumption DEF TypeOK, SessionTypeOK, ThreadTypeOK
<1>2. \A s \in Sessions : s \in Nat /\ s # None
  BY DictationAssumption DEF Sessions, None
<1>3. CASE RequestStart
  <2>1. UNCHANGED <<sessionVars, threadVars, mic>> /\ mic = {} /\ ~IsRecording
    BY <1>2, <1>3 DEF RequestStart, IsRecording, TypeOK, SessionTypeOK
  <2>2. CASE main' = "build" /\ processing = None
    <3>1. \A s \in Sessions : ~Owns(s)
      BY <1>2, <2>2
    <3>2. QED
      BY <2>1, <2>2, <3>1 DEF IsRecording, AtWork, sessionVars, threadVars
  <2>3. CASE main' = "alive"
    BY <2>1, <2>3 DEF IsRecording, AtWork, sessionVars, threadVars
  <2>4. QED
    BY <1>3, <2>2, <2>3 DEF RequestStart
<1>4. CASE AskAlive
  <2>1. CASE main' = "idle" /\ UNCHANGED <<sessionVars, threadVars, mic>>
    <3>1. UNCHANGED <<built, session, state, processing, proc, work, mic>> /\ main = "alive"
      BY <1>4, <2>1 DEF AskAlive, sessionVars, threadVars
    <3>2. IsRecording' <=> IsRecording
      BY <3>1 DEF IsRecording
    <3>3. QED
      BY <2>1, <3>1, <3>2 DEF AtWork
  <2>2. CASE /\ main = "alive" /\ main' = "build" /\ processing # None /\ ~Alive(processing)
             /\ UNCHANGED <<sessionVars, threadVars, mic>>
    <3>1. \A s \in Sessions : ~Owns(s)
      BY <2>2 DEF Alive, AtWork, Steps
    <3>2. QED
      BY <2>2, <3>1 DEF IsRecording, AtWork, sessionVars, threadVars
  <2>3. QED
    BY <1>4, <2>1, <2>2 DEF AskAlive
<1>5. CASE BuildSession
  <2>1. CASE main = "build" /\ main' = "open" /\ NewSession("idle")
    <3>1. \A s \in Sessions : ~Owns(s)
      BY <2>1
    <3>2. session' = built + 1 /\ built + 1 \in Sessions /\ built' = built + 1
      BY <2>1, <1>1, DictationAssumption DEF NewSession, Sessions
    <3>3. proc' = proc /\ work' = work /\ mic' = mic /\ mic = {} /\ processing' = processing
      BY <1>5, <2>1 DEF BuildSession, threadVars
    <3>4. \A s \in Sessions : s > built' => proc[s] = "off"
      BY <3>2, <1>1, <1>2
    <3>5. proc[session'] = "off"
      BY <3>2, <1>1
    <3>6. QED
      BY <2>1, <3>1, <3>2, <3>3, <3>4, <3>5 DEF AtWork
  <2>2. CASE main' = "idle" /\ UNCHANGED <<built, session, state>>
    BY <1>5, <2>2 DEF BuildSession, IsRecording, AtWork, threadVars
  <2>3. QED
    BY <1>5, <2>1, <2>2 DEF BuildSession
<1>6. CASE OpenMicrophone
  <2>1. session \in Sessions /\ main = "open" /\ mic = {}
    BY <1>6, <1>1, DictationAssumption DEF OpenMicrophone, SessionThere, Sessions, None
  <2>2. UNCHANGED <<built, session, processing, proc, work>>
    BY <1>6 DEF OpenMicrophone, threadVars
  <2>3. \A s \in Sessions : ~Owns(s) /\ ~Owns(s)'
    BY <2>1, <2>2 DEF AtWork
  <2>4. CASE main' = "live" /\ state' = [state EXCEPT ![session] = "recording"] /\ mic' = mic \cup {session}
    BY <1>1, <2>1, <2>2, <2>3, <2>4 DEF AtWork
  <2>5. CASE main' = "idle" /\ state' = [state EXCEPT ![session] = "failed"] /\ mic' = mic
    BY <1>1, <2>1, <2>2, <2>3, <2>5 DEF AtWork, IsRecording
  <2>6. QED
    BY <1>6, <2>4, <2>5 DEF OpenMicrophone, OpenSource
<1>7. CASE StartLiveWorker \/ RequestStop \/ JoinLiveWorker
  <2>1. \A s \in Sessions : ~Owns(s)
    BY <1>7 DEF StartLiveWorker, RequestStop, JoinLiveWorker
  <2>2. QED
    BY <1>7, <2>1 DEF StartLiveWorker, RequestStop, JoinLiveWorker, IsRecording, AtWork,
       sessionVars, threadVars
<1>8. CASE StopCapture
  <2>1. session \in Sessions /\ proc[session] = "off" /\ work[session] = session
    BY <1>8, <1>1, DictationAssumption DEF StopCapture, SessionThere, Sessions, None
  <2>2. /\ main = "stop" /\ main' = "idle" /\ mic' = {}
        /\ UNCHANGED <<built, session, work>>
    BY <1>8 DEF StopCapture, EndCapture
  <2>3. \A s \in Sessions : ~Owns(s)
    BY <2>2
  <2>4. CASE /\ state' = [state EXCEPT ![session] = "processing"]
             /\ processing' = session /\ proc' = [proc EXCEPT ![session] = "copy"]
    <3>1. \A s \in Sessions : Owns(s)' => s = session
      BY <2>3, <2>4, <1>1 DEF AtWork
    <3>2. ~IsRecording'
      BY <2>1, <2>2, <2>4, <1>1 DEF IsRecording
    <3>3. \A s \in Sessions : proc'[s] = "off" => proc[s] = "off"
      BY <2>4, <1>1
    <3>4. \A s \in Sessions : s # session => proc'[s] = proc[s]
      BY <2>4, <1>1
    <3>5. QED
      BY <2>1, <2>2, <2>4, <3>1, <3>2, <3>3, <3>4, <1>1, <1>2 DEF AtWork
  <2>5. CASE state' = [state EXCEPT ![session] = "failed"] /\ UNCHANGED <<processing, proc>>
    BY <1>1, <2>1, <2>2, <2>3, <2>5 DEF IsRecording, AtWork
  <2>6. QED
    BY <1>8, <2>4, <2>5 DEF StopCapture, EndCapture
<1>9. CASE RequestCancel \/ Shutdown
  <2>1. UNCHANGED <<built, session, processing, proc, work>> /\ main' \in {"idle", "quit"}
    BY <1>9 DEF RequestCancel, Shutdown, threadVars
  <2>2. \A s \in Sessions : Owns(s)' <=> Owns(s)
    BY <2>1 DEF AtWork
  <2>3. CASE UNCHANGED <<state, mic>>
    BY <2>1, <2>2, <2>3, <1>9 DEF IsRecording, AtWork, RequestCancel, Shutdown
  <2>4. CASE /\ IsRecording /\ state' = [state EXCEPT ![session] = "cancelled"]
             /\ mic' = mic \ {session}
    <3>1. session \in Sessions /\ mic' = {}
      BY <2>4, <1>1, DictationAssumption DEF IsRecording, Sessions, None
    <3>2. ~IsRecording'
      BY <2>4, <2>1, <3>1, <1>1 DEF IsRecording
    <3>3. QED
      BY <2>1, <2>2, <2>4, <3>1, <3>2 DEF AtWork
  <2>5. QED
    BY <1>9, <2>3, <2>4 DEF RequestCancel, Shutdown, CancelSession, IsRecording
<1>10. QED
  BY <1>3, <1>4, <1>5, <1>6, <1>7, <1>8, <1>9 DEF MainStep, Request

\* A thread at work leaves the microphone alone and never makes its session
\* record; it gives up the field only when it leaves.
LEMMA ProcKeepsRoles ==
  ASSUME ThreadInv, NEW s \in Sessions, ProcStep(s) PROVE Roles'
<1> USE DEF Roles, ThreadInv, ThreadOwnsField, Exclusive, StartFindsMicClosed, CapturingHasMic, MicReachable,
            WorksOnSession, Capturing
<1>1. /\ built \in Nat /\ built <= MaxSessions /\ session \in 0..built
      /\ state \in [Sessions -> States] /\ proc \in [Sessions -> ThreadAt]
      /\ work \in [Sessions -> Sessions]
  BY DictationAssumption DEF TypeOK, SessionTypeOK, ThreadTypeOK
<1>2. \A t \in Sessions : t \in Nat /\ t # None
  BY DictationAssumption DEF Sessions, None
<1>3. ASSUME AtWork(s), NEW here, here # "off", proc' = [proc EXCEPT ![s] = here],
             NEW value, value # "recording",
             state' = state \/ state' = [state EXCEPT ![session] = value],
             UNCHANGED <<built, session, main, processing, work, mic>>
      PROVE  Roles'
  <2>1. \A t \in Sessions : Owns(t)' => t = s
    BY <1>1, <1>3, TheThread DEF Owns, AtWork
  <2>2. ~IsRecording'
    BY <1>1, <1>3, TheThread DEF IsRecording
  <2>3. \A t \in Sessions : proc'[t] = "off" <=> proc[t] = "off"
    BY <1>1, <1>3 DEF AtWork, Steps
  <2>4. QED
    BY <1>3, <2>1, <2>2, <2>3, TheThread DEF Owns
<1>4. CASE CopyForRetry(s)
  BY <1>3, <1>4 DEF CopyForRetry, ProcAt, AtWork, sessionVars
<1>5. CASE Enter(s) \/ Transcribe(s) \/ Clean(s) \/ SetInserting(s) \/ SaveDelivery(s)
  <2>1. AtWork(s) /\ work[s] = session
    BY <1>5, TheThread DEF Enter, Transcribe, Clean, SetInserting, SaveDelivery, ProcAt, AtWork, Steps
  <2>2. QED
    BY <1>3, <1>5, <2>1 DEF Enter, Transcribe, Clean, SetInserting, SaveDelivery, ProcAt,
       SetState, sessionVars
<1>6. CASE Check(s, "check1", "transcribe") \/ Check(s, "check2", "clean") \/
           Check(s, "check3", "retain")
  <2>1. AtWork(s) /\ work[s] = session
    BY <1>6, TheThread DEF Check, ProcAt, AtWork, Steps
  <2>2. QED
    BY <1>3, <1>6, <2>1 DEF Check, ProcAt, SetState
<1>7. CASE CheckStored(s, "check4", "inserting") \/ CheckStored(s, "check5", "insert")
  <2>1. AtWork(s) /\ work[s] = session
    BY <1>7, TheThread DEF CheckStored, ProcAt, AtWork, Steps
  <2>2. QED
    BY <1>3, <1>7, <2>1 DEF CheckStored, ProcAt, SetState
<1>8. CASE RetainAudio(s) \/ AddHistory(s) \/ InsertFinal(s) \/ Release(s)
  <2>1. AtWork(s)
    BY <1>8 DEF RetainAudio, AddHistory, InsertFinal, Release, ProcAt, AtWork, Steps
  <2>2. QED
    BY <1>3, <1>8, <2>1 DEF RetainAudio, AddHistory, InsertFinal, Release, ProcAt, sessionVars
<1>9. CASE Fail(s)
  <2>1. AtWork(s) /\ work[s] = session
    BY <1>9, TheThread DEF Fail, AtWork, Steps
  <2>2. QED
    BY <1>3, <1>9, <2>1 DEF Fail, SetState
<1>10. CASE RetryOnCpu(s)
  <2>1. AtWork(s)
    BY <1>10 DEF RetryOnCpu, ProcAt, AtWork
  <2>2. CASE /\ proc' = [proc EXCEPT ![s] = "enter"] /\ NewSession("idle")
             /\ work' = [work EXCEPT ![s] = built']
    <3>1. session' = built + 1 /\ built + 1 \in Sessions /\ built' = built + 1
      BY <2>2, <1>1, DictationAssumption DEF NewSession, Sessions
    <3>2. \A t \in Sessions : Owns(t)' => t = s
      BY <1>1, <2>1, <2>2, TheThread DEF Owns, AtWork
    <3>3. ~IsRecording'
      BY <1>1, <2>2, <3>1 DEF NewSession, IsRecording
    <3>4. \A t \in Sessions : proc'[t] = "off" <=> proc[t] = "off"
      BY <1>1, <2>1, <2>2 DEF AtWork, Steps
    <3>5. work'[s] = session' /\ \A t \in Sessions : t # s => work'[t] = work[t]
      BY <1>1, <2>2, <3>1
    <3>6. \A t \in Sessions : t > built' => t > built
      BY <1>1, <1>2, <3>1
    <3>7. proc'[s] # "off"
      BY <1>1, <2>2
    <3>8. UNCHANGED <<main, processing, mic>>
      BY <1>10 DEF RetryOnCpu
    <3>9. QED
      BY <2>1, <3>1, <3>2, <3>3, <3>4, <3>5, <3>6, <3>7, <3>8, TheThread DEF Owns
  <2>3. CASE proc' = [proc EXCEPT ![s] = "release"] /\ UNCHANGED <<built, session, state, work>>
    BY <1>3, <1>10, <2>1, <2>3 DEF RetryOnCpu
  <2>4. QED
    BY <1>10, <2>2, <2>3 DEF RetryOnCpu, ProcAt
<1>11. CASE Leave(s)
  <2>1. \A t \in Sessions : ~Owns(t)'
    BY <1>1, <1>11 DEF Leave, ProcAt, Owns, AtWork, Steps
  <2>2. \A t \in Sessions : proc'[t] = "off" <=> proc[t] = "off"
    BY <1>1, <1>11 DEF Leave, ProcAt
  <2>3. QED
    BY <1>11, <2>1, <2>2 DEF Leave, Owns, IsRecording, sessionVars
<1>12. CASE Forget(s)
  <2>1. \A t \in Sessions : (Owns(t)' <=> Owns(t)) /\ (AtWork(t)' <=> AtWork(t))
    BY <1>1, <1>12 DEF Forget, ProcAt, Owns, AtWork, Steps
  <2>2. \A t \in Sessions : proc'[t] = "off" <=> proc[t] = "off"
    BY <1>1, <1>12 DEF Forget, ProcAt
  <2>3. QED
    BY <1>12, <2>1, <2>2 DEF Forget, IsRecording, sessionVars
<1>13. QED
  BY <1>4, <1>5, <1>6, <1>7, <1>8, <1>9, <1>10, <1>11, <1>12 DEF ProcStep

\* Every step keeps the first invariant.
LEMMA StepThreads == ThreadInv /\ [Next]_runtime => ThreadInv'
<1> SUFFICES ASSUME ThreadInv, [Next]_runtime PROVE ThreadInv'
  OBVIOUS
<1>1. TypeOK' /\ SessionThere' /\ Roles
  BY StepTypes DEF ThreadInv, Roles
<1> SUFFICES Roles'
  BY <1>1 DEF ThreadInv, Roles
<1>2. CASE UNCHANGED runtime
  BY <1>1, <1>2, RolesStutter DEF runtime, sessionVars, threadVars, roleVars
<1>3. CASE MainStep \/ Request
  BY <1>3, MainKeepsRoles
<1>4. ASSUME NEW s \in Sessions, ProcStep(s) PROVE Roles'
  BY <1>4, ProcKeepsRoles
<1>5. ASSUME NEW s \in Sessions, LiveWorkerStep(s) PROVE Roles'
  BY <1>1, <1>5, RolesStutter DEF LiveWorkerStep, LiveBegin, LiveTake, LiveInfer, LiveInsert,
     LiveDelete, sessionVars, threadVars, roleVars
<1>6. CASE Die
  <2>1. proc \in [Sessions -> ThreadAt] /\ \A s \in Sessions : s # None
    BY DictationAssumption DEF ThreadInv, TypeOK, ThreadTypeOK, Sessions, None
  <2>2. \A s \in Sessions : (proc'[s] = "off" <=> proc[s] = "off") /\ ~Owns(s)'
    BY <1>6, <2>1 DEF Die, Owns, AtWork, Steps
  <2>3. QED
    BY <1>1, <1>6, <2>1, <2>2 DEF Die, Roles, ThreadOwnsField, Exclusive, StartFindsMicClosed,
       CapturingHasMic, MicReachable, WorksOnSession, Owns, Capturing, IsRecording
<1>7. CASE Restart
  <2>1. UNCHANGED <<built, session, state, processing, proc, work, mic>> /\ main = "down" /\ main' = "idle"
    BY <1>7 DEF Restart, MainAtStep, sessionVars, threadVars
  <2>2. IsRecording' <=> IsRecording
    BY <2>1 DEF IsRecording
  <2>3. QED
    BY <1>1, <2>1, <2>2 DEF Roles, ThreadOwnsField, Exclusive, StartFindsMicClosed, CapturingHasMic,
       MicReachable, WorksOnSession, Owns, AtWork, Capturing
<1>8. QED
  BY <1>2, <1>3, <1>4, <1>5, <1>6, <1>7 DEF Next

LEMMA ThreadInvHolds == Spec => []ThreadInv
<1>1. Init => ThreadInv
  BY InitTypes, InitRoles DEF ThreadInv, Roles, Init, SessionThere
<1>2. QED
  BY <1>1, StepThreads, PTL DEF Spec

\* OneDictation: whatever the threads do between two looks at the field that
\* names them, there are never two at work, nor one and an open microphone.
THEOREM DictationsAreExclusive == Spec => []OneDictation
<1>1. ThreadInv => OneDictation
  BY DEF ThreadInv, ThreadOwnsField, Exclusive, Owns, OneDictation
<1>2. QED
  BY <1>1, ThreadInvHolds, PTL

\* MicReachable: a stop or a cancel always finds the microphone that is open.
THEOREM MicrophoneReachable == Spec => []MicReachable
<1>1. ThreadInv => MicReachable
  BY DEF ThreadInv
<1>2. QED
  BY <1>1, ThreadInvHolds, PTL

-----------------------------------------------------------------------------
(***************************************************************************)
(* What a dictation leaves behind                                          *)
(***************************************************************************)
storeVars == <<built, session, state, cancelled, main, proc, work, closed, kept, rows, inserted,
               overtaken>>

LEMMA StoreStutter == StoreInv /\ UNCHANGED storeVars => StoreInv'
BY DEF StoreInv, storeVars, FreshIsUntouched, Untouched, Capturing, IsRecording, DeliveredIsFinal,
   Progress, ProgressOf, AbandonedIsEmpty, CancelledLeavesNothing, KeptHasRow, AtWork

LEMMA InitStore == Init => StoreInv
BY DEF Init, StoreInv, FreshIsUntouched, Untouched, DeliveredIsFinal, Progress, AbandonedIsEmpty,
   CancelledLeavesNothing, KeptHasRow, AtWork, Steps

\* A step of the one thread only has to account for the session it works on.
LEMMA ThreadFrame ==
  ASSUME ThreadInv, StoreInv, NEW s \in Sessions, AtWork(s),
         NEW here, proc' = [proc EXCEPT ![s] = here],
         NEW value, value # "recording",
         state' = state \/ state' = [state EXCEPT ![session] = value],
         UNCHANGED <<built, session, cancelled, main, work, closed, overtaken>>,
         \A t \in Sessions : t # session =>
           (t \in rows' <=> t \in rows) /\ (t \in kept' <=> t \in kept) /\ (t \in inserted' <=> t \in inserted),
         rows' \subseteq Sessions, kept' \subseteq Sessions, inserted' \subseteq Sessions,
         session \in inserted' => session \notin cancelled /\ state'[session] \in {"inserting"} \cup Terminal,
         AtWork(s)' => ProgressOf(s)',
         ~AtWork(s)' =>
           /\ session \in kept' => session \in rows' \cup overtaken
           /\ session \in cancelled /\ session \notin overtaken => session \notin rows' \cup kept'
           /\ state'[session] \in {"processing", "cleaning"} => session \notin rows' \cup kept'
  PROVE  StoreInv'
<1> USE DEF StoreInv, ThreadInv
<1>1. /\ proc \in [Sessions -> ThreadAt] /\ state \in [Sessions -> States]
      /\ cancelled \subseteq Sessions /\ built \in Nat /\ session <= built
  BY DictationAssumption DEF TypeOK, ThreadTypeOK, SessionTypeOK
<1>2. work[s] = session /\ session \in Sessions /\ \A t \in Sessions : AtWork(t) => t = s
  BY TheThread DEF Owns
<1>3. ~Capturing /\ ~Capturing'
  BY <1>1, <1>2, TheThread DEF Capturing, IsRecording
<1>4. \A t \in Sessions : t # s => proc'[t] = proc[t] /\ (AtWork(t)' <=> AtWork(t))
  BY <1>1 DEF AtWork
<1>5. \A t \in Sessions : t # session => state'[t] = state[t]
  BY <1>1
<1>6. FreshIsUntouched'
  <2>1. \A t \in Sessions : t > built' => t # session /\ t > built
    BY <1>1, <1>2, DictationAssumption DEF Sessions
  <2>2. QED
    BY <1>3, <2>1 DEF FreshIsUntouched, Untouched
<1>7. DeliveredIsFinal'
  BY <1>5 DEF DeliveredIsFinal
<1>8. Progress'
  BY <1>2, <1>4 DEF Progress
<1>9. AbandonedIsEmpty'
  BY DEF AbandonedIsEmpty
<1>10. CancelledLeavesNothing'
  <2>1. ASSUME NEW t \in cancelled' PROVE t \notin inserted'
    BY <1>1, <2>1 DEF CancelledLeavesNothing
  <2>2. ASSUME NEW t \in cancelled', \A u \in Sessions : work'[u] = t => ~AtWork(u)',
               t \notin overtaken'
        PROVE  t \notin rows' \cup kept'
    <3>1. CASE t = session
      BY <1>2, <2>2, <3>1
    <3>2. CASE t # session
      <4>1. \A u \in Sessions : work[u] = t => ~AtWork(u)
        BY <1>2, <3>2
      <4>2. QED
        BY <1>1, <2>2, <3>2, <4>1 DEF CancelledLeavesNothing
    <3>3. QED
      BY <3>1, <3>2
  <2>3. QED
    BY <2>1, <2>2 DEF CancelledLeavesNothing
<1>11. KeptHasRow'
  <2> SUFFICES ASSUME NEW t \in kept'
               PROVE  t \in rows' \cup overtaken' \/ \E u \in Sessions : work'[u] = t /\ proc'[u] = "add"
    BY DEF KeptHasRow
  <2>1. CASE t = session
    <3>1. CASE AtWork(s)'
      <4>1. session \in rows' \cup overtaken' \/ proc'[s] = "add"
        BY <2>1, <3>1 DEF AtWork, Steps, ProgressOf, Before, After
      <4>2. QED
        BY <1>2, <2>1, <4>1
    <3>2. QED
      BY <2>1, <3>1
  <2>2. CASE t # session
    <3>1. t \in kept
      BY <2>2
    <3>2. ~\E u \in Sessions : work[u] = t /\ proc[u] = "add"
      BY <1>2, <2>2 DEF AtWork, Steps
    <3>3. QED
      BY <2>2, <3>1, <3>2 DEF KeptHasRow
  <2>3. QED
    BY <2>1, <2>2
<1>12. QED
  BY <1>6, <1>7, <1>8, <1>9, <1>10, <1>11

\* The steps of the thread, but for the move to a CPU session: where it stands
\* tells what the disk may have of its session.
LEMMA ProcKeepsStore ==
  ASSUME ThreadInv, StoreInv, NEW s \in Sessions, ProcStep(s), ~RetryOnCpu(s) PROVE StoreInv'
<1>1. /\ proc \in [Sessions -> ThreadAt] /\ state \in [Sessions -> States]
      /\ rows \subseteq Sessions /\ kept \subseteq Sessions /\ inserted \subseteq Sessions
  BY DEF ThreadInv, TypeOK, ThreadTypeOK, SessionTypeOK, DiskTypeOK
<1>2. CASE ~AtWork(s)
  <2>1. Leave(s) \/ Forget(s)
    BY <1>2 DEF ProcStep, CopyForRetry, Enter, Transcribe, Clean, Check, RetainAudio, AddHistory,
       CheckStored, SetInserting, InsertFinal, SaveDelivery, Fail, RetryOnCpu, Release, ProcAt,
       AtWork, Steps
  <2>2. /\ proc[s] # "add" /\ proc'[s] # "add" /\ ~AtWork(s)'
        /\ \A t \in Sessions : t # s => proc'[t] = proc[t]
        /\ UNCHANGED <<built, session, state, cancelled, main, work, closed, kept, rows, inserted, overtaken>>
    BY <1>1, <2>1 DEF Leave, Forget, ProcAt, AtWork, Steps, sessionVars, diskVars
  <2>3. \A t \in Sessions : (AtWork(t)' <=> AtWork(t)) /\ (proc'[t] = "add" <=> proc[t] = "add")
    BY <1>2, <2>2 DEF AtWork
  <2>4. \A t \in Sessions : AtWork(t)' => proc'[t] = proc[t]
    BY <2>2
  <2>5. FreshIsUntouched' /\ DeliveredIsFinal'
    BY <2>2 DEF StoreInv, FreshIsUntouched, Untouched, Capturing, IsRecording, DeliveredIsFinal
  <2>6. Progress'
    BY <2>2, <2>3, <2>4 DEF StoreInv, Progress, ProgressOf
  <2>7. AbandonedIsEmpty' /\ CancelledLeavesNothing' /\ KeptHasRow'
    BY <2>2, <2>3 DEF StoreInv, AbandonedIsEmpty, CancelledLeavesNothing, KeptHasRow
  <2>8. QED
    BY <2>5, <2>6, <2>7 DEF StoreInv
<1>3. CASE AtWork(s)
  <2>1. work[s] = session /\ session \in Sessions /\ ProgressOf(s)
    BY <1>3, TheThread DEF StoreInv, Progress
  <2>2. session \in inserted => session \notin cancelled /\ state[session] \in {"inserting"} \cup Terminal
    BY DEF StoreInv, DeliveredIsFinal
  <2> USE <1>1, <1>3, <2>1, <2>2 DEF Before, After, AtWork, Steps, Terminal
  <2>3. CASE CopyForRetry(s)
    BY <2>3, ThreadFrame DEF CopyForRetry, ProcAt, ProgressOf, sessionVars
  <2>4. CASE Enter(s) \/ Transcribe(s) \/ Clean(s)
    BY <2>4, ThreadFrame DEF Enter, Transcribe, Clean, ProcAt, SetState, ProgressOf, sessionVars, diskVars
  <2>5. CASE Check(s, "check1", "transcribe") \/ Check(s, "check2", "clean") \/
             Check(s, "check3", "retain")
    BY <2>5, ThreadFrame DEF Check, ProcAt, SetState, ProgressOf, diskVars
  <2>6. CASE RetainAudio(s)
    BY <2>6, ThreadFrame DEF RetainAudio, ProcAt, ProgressOf, sessionVars
  <2>7. CASE AddHistory(s)
    BY <2>7, ThreadFrame, ZenonT(60) DEF AddHistory, ProcAt, ProgressOf, sessionVars
  <2>8. CASE CheckStored(s, "check4", "inserting") \/ CheckStored(s, "check5", "insert")
    BY <2>8, ThreadFrame DEF CheckStored, TakeBack, ProcAt, SetState, ProgressOf
  <2>9. CASE SetInserting(s) \/ SaveDelivery(s)
    BY <2>9, ThreadFrame DEF SetInserting, SaveDelivery, ProcAt, SetState, ProgressOf, diskVars
  <2>10. CASE InsertFinal(s)
    BY <2>10, ThreadFrame DEF InsertFinal, ProcAt, ProgressOf, sessionVars
  <2>11. CASE Fail(s)
    BY <2>11, ThreadFrame DEF Fail, SetState, ProgressOf
  <2>12. CASE Release(s)
    BY <2>12, ThreadFrame, ZenonT(60) DEF Release, ProcAt, ProgressOf, sessionVars
  <2>13. QED
    BY <2>3, <2>4, <2>5, <2>6, <2>7, <2>8, <2>9, <2>10, <2>11, <2>12
    DEF ProcStep, RetryOnCpu, Leave, Forget, ProcAt
<1>4. QED
  BY <1>2, <1>3

\* The CPU session is new, and a failed GPU attempt that is retried has left
\* nothing behind.
LEMMA RetryKeepsStore ==
  ASSUME ThreadInv, StoreInv, NEW s \in Sessions, RetryOnCpu(s) PROVE StoreInv'
<1>1. /\ proc \in [Sessions -> ThreadAt] /\ state \in [Sessions -> States]
      /\ work \in [Sessions -> Sessions] /\ built \in Nat /\ session <= built
      /\ rows \subseteq Sessions /\ kept \subseteq Sessions /\ inserted \subseteq Sessions
      /\ cancelled \subseteq Sessions
  BY DictationAssumption DEF ThreadInv, TypeOK, ThreadTypeOK, SessionTypeOK, DiskTypeOK
<1>2. AtWork(s) /\ proc[s] = "retry"
  BY DEF RetryOnCpu, ProcAt, AtWork
<1>3. /\ work[s] = session /\ session \in Sessions /\ ~Capturing
      /\ \A t \in Sessions : AtWork(t) => t = s
  BY <1>2, TheThread DEF Owns
<1>4. ProgressOf(s)
  BY <1>2 DEF StoreInv, Progress
<1>5. UNCHANGED <<cancelled, main, closed, kept, rows, inserted, overtaken>>
  BY DEF RetryOnCpu, diskVars
<1>6. CASE proc' = [proc EXCEPT ![s] = "release"] /\ UNCHANGED <<built, session, state, work>>
  <2>1. proc'[s] = "release" /\ AtWork(s)'
    BY <1>1, <1>6 DEF AtWork
  <2>2. session \notin rows \cup kept /\ state[session] \in Terminal /\ session \notin inserted
    BY <1>2, <1>4 DEF ProgressOf
  <2>3. ProgressOf(s)'
    BY <1>5, <1>6, <2>1, <2>2 DEF ProgressOf, Before, After
  <2>4. QED
    BY <1>1, <1>2, <1>3, <1>5, <1>6, <2>1, <2>2, <2>3, ThreadFrame
<1>7. CASE proc' = [proc EXCEPT ![s] = "enter"] /\ NewSession("idle") /\ work' = [work EXCEPT ![s] = built']
  <2>1. /\ session' = built + 1 /\ built' = built + 1 /\ built + 1 \in Sessions
        /\ state'[session'] = "idle" /\ session' # session
        /\ \A t \in Sessions : t # session' => state'[t] = state[t]
    BY <1>1, <1>7, DictationAssumption DEF NewSession, Sessions
  <2>2. session' \notin rows \cup kept \cup inserted \cup cancelled
    <3>1. built + 1 > built
      BY <1>1
    <3>2. QED
      BY <2>1, <3>1 DEF StoreInv, FreshIsUntouched, Untouched
  <2>3. \A t \in Sessions : (AtWork(t)' <=> t = s) /\ proc'[t] # "add"
    BY <1>1, <1>2, <1>3, <1>7 DEF AtWork, Steps
  <2>4. \A t \in Sessions : t # s => work'[t] = work[t]
    BY <1>1, <1>7
  <2>5. proc'[s] = "enter" /\ work'[s] = session'
    BY <1>1, <1>7, <2>1
  <2>6. session \notin rows \cup kept
    BY <1>2, <1>4 DEF ProgressOf
  <2>7. FreshIsUntouched'
    <3>1. ~Capturing'
      BY <1>3, <1>5, <2>1 DEF Capturing, IsRecording
    <3>2. \A t \in Sessions : t > built' => t > built
      BY <1>1, <2>1, DictationAssumption DEF Sessions
    <3>3. QED
      BY <1>5, <3>1, <3>2 DEF StoreInv, FreshIsUntouched, Untouched
  <2>8. DeliveredIsFinal'
    BY <1>5, <2>2 DEF StoreInv, DeliveredIsFinal, Untouched
  <2>9. Progress'
    BY <1>5, <2>2, <2>3, <2>5 DEF Progress, ProgressOf, Untouched, Before, After
  <2>10. AbandonedIsEmpty'
    BY <2>1 DEF AbandonedIsEmpty
  <2>11. CancelledLeavesNothing'
    <3>1. ASSUME NEW t \in cancelled, t # session,
                 \A u \in Sessions : work'[u] = t => ~AtWork(u)'
          PROVE  \A u \in Sessions : work[u] = t => ~AtWork(u)
      BY <1>3, <3>1
    <3>2. QED
      BY <1>1, <1>5, <2>6, <3>1 DEF StoreInv, CancelledLeavesNothing
  <2>12. KeptHasRow'
    <3>1. \A t \in Sessions : ~AtWork(t) => proc[t] # "add"
      BY DEF AtWork, Steps
    <3>2. \A t \in Sessions : proc[t] # "add"
      BY <1>2, <1>3, <3>1
    <3>3. QED
      BY <1>5, <3>2 DEF StoreInv, KeptHasRow
  <2>13. QED
    BY <2>7, <2>8, <2>9, <2>10, <2>11, <2>12 DEF StoreInv
<1>8. QED
  BY <1>6, <1>7 DEF RetryOnCpu, ProcAt

\* The application thread: a cancellation is only accepted before the text is
\* being delivered, and a shutdown notes what it overtakes.
LEMMA MainKeepsStore == ThreadInv /\ StoreInv /\ (MainStep \/ Request) => StoreInv'
<1> SUFFICES ASSUME ThreadInv, StoreInv, MainStep \/ Request PROVE StoreInv'
  OBVIOUS
<1>1. /\ proc \in [Sessions -> ThreadAt] /\ state \in [Sessions -> States]
      /\ work \in [Sessions -> Sessions] /\ built \in Nat /\ session \in 0..built
      /\ rows \subseteq Sessions /\ kept \subseteq Sessions /\ inserted \subseteq Sessions
      /\ cancelled \subseteq Sessions /\ built <= MaxSessions
  BY DictationAssumption DEF ThreadInv, TypeOK, ThreadTypeOK, SessionTypeOK, DiskTypeOK
<1>2. \A s \in Sessions : s \in Nat /\ s # None
  BY DictationAssumption DEF Sessions, None
<1>3. \A s \in Sessions : AtWork(s) => work[s] = session
  BY DEF ThreadInv, WorksOnSession
<1>4. \A s \in Sessions : AtWork(s) => ~Capturing /\ main # "build"
  BY DEF ThreadInv, Exclusive, Owns
<1>5. \A s \in Sessions : proc[s] = "add" => AtWork(s)
  BY DEF AtWork, Steps
<1>6. CASE RequestStart \/ AskAlive \/ StartLiveWorker \/ RequestStop \/ JoinLiveWorker
  <2>1. UNCHANGED <<built, session, state, cancelled, proc, work, closed, kept, rows, inserted, overtaken>>
    BY <1>6 DEF RequestStart, AskAlive, StartLiveWorker, RequestStop, JoinLiveWorker,
       sessionVars, threadVars, diskVars
  <2>2. Capturing' => Capturing
    BY <1>6, <2>1 DEF RequestStart, AskAlive, StartLiveWorker, RequestStop, JoinLiveWorker,
       MainAtStep, Capturing, IsRecording
  <2>3. QED
    BY <2>1, <2>2 DEF StoreInv, FreshIsUntouched, Untouched, DeliveredIsFinal, Progress, ProgressOf,
       AbandonedIsEmpty, CancelledLeavesNothing, KeptHasRow, AtWork
<1>7. ASSUME NEW value, state' = [state EXCEPT ![session] = value],
             session \in Sessions, Untouched(session), \A s \in Sessions : ~AtWork(s),
             value \notin {"processing", "cleaning"},
             UNCHANGED <<built, session, cancelled, proc, work, closed, kept, rows, inserted, overtaken>>
      PROVE  StoreInv'
  <2>1. \A s \in Sessions : ~AtWork(s)'
    BY <1>7 DEF AtWork
  <2>2. FreshIsUntouched'
    BY <1>7 DEF StoreInv, FreshIsUntouched, Untouched
  <2>3. DeliveredIsFinal'
    BY <1>7 DEF StoreInv, DeliveredIsFinal, Untouched
  <2>4. Progress' /\ AbandonedIsEmpty'
    BY <1>1, <1>7, <2>1 DEF Progress, AbandonedIsEmpty
  <2>5. CancelledLeavesNothing' /\ KeptHasRow'
    BY <1>7, <2>1 DEF StoreInv, CancelledLeavesNothing, KeptHasRow
  <2>6. QED
    BY <2>2, <2>3, <2>4, <2>5 DEF StoreInv
<1>8. CASE BuildSession
  <2>1. CASE UNCHANGED <<built, session, state>> /\ main' = "idle"
    BY <1>8, <2>1 DEF BuildSession, StoreInv, FreshIsUntouched, Untouched, Capturing, IsRecording,
       DeliveredIsFinal, Progress, ProgressOf, AbandonedIsEmpty, CancelledLeavesNothing, KeptHasRow,
       AtWork, threadVars, diskVars
  <2>2. CASE main = "build" /\ NewSession("idle")
    <3>1. /\ session' = built + 1 /\ built' = built + 1 /\ built + 1 \in Sessions
          /\ state'[session'] = "idle"
      BY <1>1, <2>2, DictationAssumption DEF NewSession, Sessions
    <3>2. UNCHANGED <<cancelled, proc, work, closed, kept, rows, inserted, overtaken>>
      BY <1>8 DEF BuildSession, threadVars, diskVars
    <3>3. session' \notin rows \cup kept \cup inserted \cup cancelled
      <4>1. built + 1 > built
        BY <1>1
      <4>2. QED
        BY <3>1, <4>1 DEF StoreInv, FreshIsUntouched, Untouched
    <3>4. \A s \in Sessions : ~AtWork(s) /\ ~AtWork(s)'
      BY <1>4, <2>2, <3>2 DEF AtWork
    <3>5. FreshIsUntouched'
      <4>1. \A s \in Sessions : s > built' => s > built
        BY <1>1, <1>2, <3>1
      <4>2. QED
        BY <3>2, <3>3, <4>1 DEF StoreInv, FreshIsUntouched, Untouched
    <3>6. DeliveredIsFinal' /\ Progress' /\ AbandonedIsEmpty'
      BY <3>1, <3>2, <3>3, <3>4 DEF StoreInv, DeliveredIsFinal, Progress, AbandonedIsEmpty, Untouched
    <3>7. CancelledLeavesNothing' /\ KeptHasRow'
      BY <3>2, <3>4 DEF StoreInv, CancelledLeavesNothing, KeptHasRow
    <3>8. QED
      BY <3>5, <3>6, <3>7 DEF StoreInv
  <2>3. QED
    BY <1>8, <2>1, <2>2 DEF BuildSession, MainAtStep
<1>9. CASE OpenMicrophone
  <2>1. main = "open" /\ Capturing
    BY <1>9 DEF OpenMicrophone, MainAtStep, Capturing
  <2>2. session \in Sessions
    BY <1>1, <2>1, DictationAssumption, SMTT(30) DEF ThreadInv, SessionThere, Sessions, None
  <2>3. Untouched(session) /\ \A s \in Sessions : ~AtWork(s)
    BY <1>4, <2>1, <2>2 DEF StoreInv, FreshIsUntouched
  <2>4. QED
    BY <1>7, <1>9, <2>1, <2>2, <2>3 DEF OpenMicrophone, threadVars, diskVars
<1>10. CASE StopCapture
  <2>1. main = "stop" /\ main' = "idle" /\ Capturing
    BY <1>10 DEF StopCapture, MainAtStep, Capturing
  <2>2. session \in Sessions
    BY <1>1, <2>1, DictationAssumption DEF ThreadInv, SessionThere, Sessions, None
  <2>3. Untouched(session) /\ \A s \in Sessions : ~AtWork(s)
    BY <1>4, <2>1, <2>2 DEF StoreInv, FreshIsUntouched
  <2>4. UNCHANGED <<built, session, cancelled, work, closed, kept, rows, inserted, overtaken>>
    BY <1>10 DEF StopCapture
  <2>5. CASE state' = [state EXCEPT ![session] = "failed"] /\ proc' = proc
    <3>1. UNCHANGED <<built, session, cancelled, proc, work, closed, kept, rows, inserted, overtaken>>
      BY <2>4, <2>5
    <3>2. QED
      <4>1. \A s \in Sessions : ~AtWork(s)
        BY <2>3
      <4>2. Untouched(session)
        BY <2>3
      <4>3. state' = [state EXCEPT ![session] = "failed"]
        BY <2>5
      <4>4. "failed" \notin {"processing", "cleaning"}
        OBVIOUS
      <4>5. QED
        BY <1>7, <2>2, <3>1, <4>1, <4>2, <4>3, <4>4
  <2>6. CASE /\ state' = [state EXCEPT ![session] = "processing"]
             /\ proc' = [proc EXCEPT ![session] = "copy"]
    <3>1. work[session] = session /\ proc'[session] = "copy" /\ state'[session] = "processing"
      BY <1>1, <2>1, <2>2, <2>6 DEF ThreadInv, WorksOnSession
    <3>2. \A s \in Sessions : AtWork(s)' <=> s = session
      BY <1>1, <2>2, <2>3, <2>6 DEF AtWork
    <3>3. \A s \in Sessions : proc[s] # "add"
      BY <1>5, <2>3
    <3>4. ~Capturing'
      BY <2>1, <2>4, <3>1 DEF Capturing, IsRecording
    <3>5. FreshIsUntouched' /\ DeliveredIsFinal'
      BY <2>3, <2>4, <3>4 DEF StoreInv, FreshIsUntouched, DeliveredIsFinal, Untouched
    <3>6. Progress'
      BY <2>3, <2>4, <3>1, <3>2 DEF Progress, ProgressOf, Untouched, Before, After
    <3>7. AbandonedIsEmpty' /\ KeptHasRow'
      BY <2>2, <2>4, <3>2, <3>3 DEF StoreInv, AbandonedIsEmpty, KeptHasRow
    <3>8. CancelledLeavesNothing'
      BY <2>3, <2>4 DEF StoreInv, CancelledLeavesNothing, Untouched
    <3>9. QED
      BY <3>5, <3>6, <3>7, <3>8 DEF StoreInv
  <2>7. QED
    BY <1>10, <2>5, <2>6 DEF StopCapture, EndCapture
<1>11. CASE RequestCancel \/ Shutdown
  <2>1. /\ UNCHANGED <<built, session, proc, work, kept, rows, inserted>>
        /\ main = "idle" /\ main' \in {"idle", "quit"}
        /\ CancelSession
    BY <1>11 DEF RequestCancel, Shutdown, MainAtStep, threadVars, diskVars
  <2>2. \A s \in Sessions : (AtWork(s)' <=> AtWork(s))
    BY <2>1 DEF AtWork
  <2>3. overtaken \subseteq overtaken'
    BY <1>11 DEF RequestCancel, Shutdown
  <2>4. \A s \in Sessions : closed' /\ AtWork(s) => closed \/ session \in overtaken'
    BY <1>3, <1>11 DEF RequestCancel, Shutdown, UnderWay
  <2>5. \/ UNCHANGED <<state, cancelled>> /\ ~IsRecording
        \/ /\ IsRecording /\ session \in Sessions
           /\ state' = [state EXCEPT ![session] = "cancelled"] /\ cancelled' = cancelled \cup {session}
        \/ /\ session \in Sessions /\ state[session] \in {"processing", "cleaning"}
           /\ state' = state /\ cancelled' = cancelled \cup {session}
    BY <1>1, <2>1, DictationAssumption DEF CancelSession, IsRecording, Sessions, None
  <2>6. ~Capturing'
    BY <1>1, <2>1, <2>5 DEF Capturing, IsRecording
  <2>7. IsRecording => Untouched(session) /\ \A s \in Sessions : ~AtWork(s)
    BY <1>4, <2>5 DEF StoreInv, FreshIsUntouched, Capturing
  <2>8. FreshIsUntouched'
    BY <1>1, <1>2, <2>1, <2>5, <2>6 DEF StoreInv, FreshIsUntouched, Untouched
  <2>9. DeliveredIsFinal'
    BY <1>1, <2>1, <2>5, <2>7 DEF StoreInv, DeliveredIsFinal, Untouched, Terminal
  <2>10. Progress'
    <3> SUFFICES ASSUME NEW s \in Sessions, AtWork(s) PROVE ProgressOf(s)'
      BY <2>2 DEF Progress
    <3>1. ProgressOf(s) /\ state' = state /\ session \in Sessions
      BY <1>1, <1>3, <2>5, <2>7 DEF StoreInv, Progress
    <3>2. cancelled' = cancelled \/ state[session] \in {"processing", "cleaning"}
      BY <2>5, <2>7
    <3>3. session \in cancelled' => session \in cancelled \/ state[session] \in {"processing", "cleaning"}
      BY <3>2
    <3>4. QED
      BY <2>1, <2>3, <2>4, <3>1, <3>3 DEF ProgressOf, Terminal
  <2>11. AbandonedIsEmpty'
    BY <1>1, <2>1, <2>2, <2>5 DEF StoreInv, AbandonedIsEmpty
  <2>12. CancelledLeavesNothing'
    <3>1. ASSUME NEW t \in cancelled
          PROVE  /\ t \notin inserted
                 /\ (\A u \in Sessions : work[u] = t => ~AtWork(u)') /\ t \notin overtaken'
                      => t \notin rows \cup kept
      BY <2>2, <2>3 DEF StoreInv, CancelledLeavesNothing
    <3>2. ASSUME session \in cancelled', session \notin cancelled
          PROVE  /\ session \notin inserted
                 /\ (\A u \in Sessions : work[u] = session => ~AtWork(u)') => session \notin rows \cup kept
      <4>1. CASE IsRecording
        BY <2>7, <4>1 DEF Untouched
      <4>2. CASE session \in Sessions /\ state[session] \in {"processing", "cleaning"}
        BY <1>2, <1>3, <2>2, <4>2 DEF StoreInv, DeliveredIsFinal, AbandonedIsEmpty, Terminal
      <4>3. QED
        BY <2>5, <3>2, <4>1, <4>2
    <3>3. QED
      BY <2>1, <2>5, <3>1, <3>2 DEF CancelledLeavesNothing
  <2>13. KeptHasRow'
    BY <2>1, <2>3 DEF StoreInv, KeptHasRow
  <2>14. QED
    BY <2>8, <2>9, <2>10, <2>11, <2>12, <2>13 DEF StoreInv
<1>12. QED
  BY <1>6, <1>8, <1>9, <1>10, <1>11 DEF MainStep, Request

\* Every step keeps the second invariant.
LEMMA StepStore == ThreadInv /\ StoreInv /\ [Next]_runtime => StoreInv'
<1> SUFFICES ASSUME ThreadInv, StoreInv, [Next]_runtime PROVE StoreInv'
  OBVIOUS
<1>1. CASE UNCHANGED runtime
  BY <1>1, StoreStutter DEF runtime, sessionVars, threadVars, diskVars, storeVars
<1>2. CASE MainStep \/ Request
  BY <1>2, MainKeepsStore
<1>3. ASSUME NEW s \in Sessions, ProcStep(s) PROVE StoreInv'
  BY <1>3, ProcKeepsStore, RetryKeepsStore
<1>4. ASSUME NEW s \in Sessions, LiveWorkerStep(s) PROVE StoreInv'
  BY <1>4, StoreStutter DEF LiveWorkerStep, LiveBegin, LiveTake, LiveInfer, LiveInsert,
     LiveDelete, sessionVars, threadVars, diskVars, storeVars
<1>5. CASE Die
  <2>1. \A s \in Sessions : ~AtWork(s)' /\ proc'[s] # "add"
    BY <1>5 DEF Die, AtWork, Steps
  <2>2. /\ UNCHANGED <<built, cancelled, work, kept, rows, inserted>>
        /\ session' = None /\ main' = "down" /\ overtaken' = overtaken \cup UnderWay
    BY <1>5 DEF Die, diskVars
  <2>3. \A s \in Sessions : s # None
    BY DictationAssumption DEF Sessions, None
  <2>4. inserted \subseteq Sessions /\ cancelled \subseteq Sessions
    BY DEF ThreadInv, TypeOK, SessionTypeOK, DiskTypeOK
  <2>5. FreshIsUntouched' /\ DeliveredIsFinal' /\ Progress' /\ AbandonedIsEmpty'
    BY <2>1, <2>2, <2>3, <2>4 DEF StoreInv, FreshIsUntouched, Untouched, DeliveredIsFinal, Progress,
       AbandonedIsEmpty
  <2>6. CancelledLeavesNothing'
    <3>1. \A t \in cancelled : t \notin UnderWay => \A u \in Sessions : work[u] = t => ~AtWork(u)
      BY DEF UnderWay
    <3>2. QED
      BY <2>2, <3>1 DEF StoreInv, CancelledLeavesNothing
  <2>7. KeptHasRow'
    <3>1. \A u \in Sessions : proc[u] = "add" => work[u] \in UnderWay
      BY DEF UnderWay, AtWork, Steps
    <3>2. QED
      BY <2>2, <3>1 DEF StoreInv, KeptHasRow
  <2>8. QED
    BY <2>5, <2>6, <2>7 DEF StoreInv
<1>6. CASE Restart
  BY <1>6 DEF Restart, MainAtStep, StoreInv, FreshIsUntouched, Untouched, Capturing, IsRecording,
     DeliveredIsFinal, Progress, ProgressOf, AbandonedIsEmpty, CancelledLeavesNothing, KeptHasRow,
     AtWork, sessionVars, threadVars
<1>7. QED
  BY <1>1, <1>2, <1>3, <1>4, <1>5, <1>6 DEF Next

LEMMA StoreInvHolds == Spec => []StoreInv
<1>1. Init => StoreInv
  BY InitStore
<1>2. QED
  BY <1>1, StepStore, ThreadInvHolds, PTL DEF Spec

\* CancelledLeavesNothing: a cancellation that is accepted, at whichever step of
\* the thread it lands, leaves no text, no row and no recording.
THEOREM CancellationIsComplete == Spec => []CancelledLeavesNothing
<1>1. StoreInv => CancelledLeavesNothing
  BY DEF StoreInv
<1>2. QED
  BY <1>1, StoreInvHolds, PTL

\* KeptHasRow: whatever fails between the move of a recording and its row, no
\* retained recording stays without one.
THEOREM RetainedHaveRows == Spec => []KeptHasRow
<1>1. StoreInv => KeptHasRow
  BY DEF StoreInv
<1>2. QED
  BY <1>1, StoreInvHolds, PTL


-----------------------------------------------------------------------------
(***************************************************************************)
(* DictationRuntime implements DictationContract.  Each step of a thread   *)
(* is one step of the contract or leaves the phases of all sessions, the   *)
(* microphone, the cancellations and the deliveries as they are.           *)
(***************************************************************************)

AllInv == ThreadInv /\ StoreInv

-----------------------------------------------------------------------------
(***************************************************************************)
(* The phases                                                              *)
(***************************************************************************)

\* What the invariants say of sessions, threads and the microphone.
LEMMA Facts ==
  ASSUME AllInv
  PROVE  /\ built \in Nat /\ session \in 0..built /\ session <= built /\ mic \subseteq {session}
         /\ session # None => session \in Sessions
         /\ proc \in [Sessions -> ThreadAt] /\ state \in [Sessions -> States]
         /\ work \in [Sessions -> Sessions]
         /\ cancelled \subseteq Sessions /\ inserted \subseteq Sessions
         /\ \A s \in Sessions : s \in Nat /\ s # None
         /\ UnderWay \subseteq {session}
         /\ \A s \in Sessions : AtWork(s) =>
              /\ session \in Sessions /\ UnderWay = {session} /\ mic = {} /\ ~Capturing
              /\ main # "build"
<1>1. \A s \in Sessions : s \in Nat /\ s # None
  BY DictationAssumption DEF Sessions, None
<1>2. UnderWay \subseteq {session}
  BY DEF AllInv, ThreadInv, WorksOnSession, UnderWay
<1>3. \A s \in Sessions : AtWork(s) => session \in UnderWay
  BY DEF AllInv, ThreadInv, WorksOnSession, UnderWay
<1>4. \A s \in Sessions : AtWork(s) => session \in Sessions
  BY DEF AllInv, ThreadInv, WorksOnSession, TypeOK, ThreadTypeOK
<1>5. /\ built \in Nat /\ session \in 0..built /\ session <= built
      /\ session # None => session \in Sessions
  BY DictationAssumption DEF AllInv, ThreadInv, TypeOK, SessionTypeOK, Sessions, None
<1>6. /\ proc \in [Sessions -> ThreadAt] /\ state \in [Sessions -> States]
      /\ work \in [Sessions -> Sessions]
      /\ cancelled \subseteq Sessions /\ inserted \subseteq Sessions
      /\ mic \subseteq {session}
  BY DEF AllInv, ThreadInv, TypeOK, SessionTypeOK, ThreadTypeOK, DiskTypeOK, MicReachable
<1>7. \A s \in Sessions : AtWork(s) => mic = {} /\ ~Capturing /\ main # "build"
  BY DEF AllInv, ThreadInv, Exclusive, Owns
<1>8. \A s \in Sessions : AtWork(s) => UnderWay = {session}
  BY <1>2, <1>3
<1>9. QED
  BY <1>1, <1>2, <1>4, <1>5, <1>6, <1>7, <1>8

\* Nothing that a phase is made of changes.
LEMMA SamePhases ==
  ASSUME UNCHANGED <<built, session, mic>>, main = "open" <=> main' = "open",
         UnderWay' = UnderWay
  PROVE  \A s \in Sessions : PhaseOf(s)' = PhaseOf(s)
BY DEF PhaseOf

\* A thread that is at work before and after a step works on the same session.
LEMMA SameUnderWay ==
  ASSUME AllInv, UNCHANGED work, \A t \in Sessions : AtWork(t)' <=> AtWork(t)
  PROVE  UnderWay' = UnderWay
BY DEF UnderWay

\* Then the step is a stutter of the contract.
LEMMA StutterOfContract ==
  ASSUME \A s \in Sessions : PhaseOf(s)' = PhaseOf(s), UNCHANGED <<mic, cancelled, inserted>>
  PROVE  [Contract!ContractNext]_(Contract!contract)
BY DEF Contract!contract

-----------------------------------------------------------------------------
(***************************************************************************)
(* The application thread                                                  *)
(***************************************************************************)
LEMMA QuietMainStep ==
  ASSUME AllInv,
         RequestStart \/ AskAlive \/ StartLiveWorker \/ RequestStop \/ JoinLiveWorker \/ Restart
  PROVE  [Contract!ContractNext]_(Contract!contract)
<1>1. UNCHANGED <<built, session, mic, work, proc, cancelled, inserted>> /\ main # "open" /\ main' # "open"
  BY DEF RequestStart, AskAlive, StartLiveWorker, RequestStop, JoinLiveWorker, Restart, MainAtStep,
     sessionVars, threadVars, diskVars
<1>2. UnderWay' = UnderWay
  BY <1>1, SameUnderWay DEF AtWork
<1>3. QED
  BY <1>1, <1>2, SamePhases, StutterOfContract

\* A session that was just built is still new.
LEMMA BuildIsStutter ==
  ASSUME AllInv, BuildSession PROVE [Contract!ContractNext]_(Contract!contract)
<1>1. UNCHANGED <<mic, work, proc, cancelled, inserted>> /\ main = "build"
  BY DEF BuildSession, MainAtStep, threadVars, diskVars
<1>2. UnderWay' = UnderWay
  BY <1>1, SameUnderWay DEF AtWork
<1>3. CASE main' = "idle" /\ UNCHANGED <<built, session>>
  BY <1>1, <1>2, <1>3, SamePhases, StutterOfContract
<1>4. CASE main' = "open" /\ session' = built + 1 /\ built' = built + 1
  <2>1. UnderWay = {} /\ mic = {}
    BY <1>1, Facts DEF UnderWay, AllInv, ThreadInv, StartFindsMicClosed
  <2>2. ASSUME NEW s \in Sessions PROVE PhaseOf(s)' = PhaseOf(s)
    <3>1. s \in Nat /\ built \in Nat
      BY Facts
    <3>2. CASE s > built
      BY <1>4, <3>1, <3>2 DEF PhaseOf
    <3>3. CASE ~(s > built)
      <4>1. ~(s > built') /\ s # session'
        BY <1>4, <3>1, <3>3
      <4>2. PhaseOf(s) = "over"
        BY <1>1, <2>1, <3>3 DEF PhaseOf
      <4>3. PhaseOf(s)' = "over"
        BY <1>1, <1>2, <2>1, <4>1 DEF PhaseOf
      <4>4. QED
        BY <4>2, <4>3
    <3>4. QED
      BY <3>2, <3>3
  <2>3. QED
    BY <1>1, <2>2, StutterOfContract
<1>5. QED
  BY <1>3, <1>4 DEF BuildSession, NewSession, MainAtStep

\* The microphone opens, or the session is given up.
LEMMA OpenIsRecord ==
  ASSUME AllInv, OpenMicrophone PROVE Contract!ContractNext
<1>1. UNCHANGED <<built, session, work, proc, cancelled, inserted>> /\ main = "open" /\ main' # "open"
  BY DEF OpenMicrophone, MainAtStep, threadVars, diskVars
<1>2. session \in Sessions /\ session <= built /\ mic = {}
  BY <1>1, Facts DEF AllInv, ThreadInv, SessionThere, StartFindsMicClosed
<1>3. UnderWay = {} /\ UnderWay' = {}
  <2>1. \A s \in Sessions : ~AtWork(s)
    BY <1>1, Facts DEF Capturing
  <2>2. QED
    BY <1>1, <2>1 DEF UnderWay, AtWork
<1>4. \A s \in Sessions : PhaseOf(s) \in {"new", "over"}
  BY <1>2, <1>3 DEF PhaseOf
<1>5. PhaseOf(session) = "new"
  BY <1>1 DEF PhaseOf
<1>6. \A s \in Sessions : s # session => ((s \in mic' <=> s \in mic) => PhaseOf(s)' = PhaseOf(s))
  BY <1>1, <1>2, <1>3 DEF PhaseOf
<1>7. CASE mic' = mic \cup {session}
  <2>1. PhaseOf(session)' = "recording" /\ mic' = {session}
    BY <1>1, <1>2, <1>7, Facts DEF PhaseOf
  <2>2. \A s \in Sessions : s # session => PhaseOf(s)' = PhaseOf(s)
    BY <1>6, <1>7
  <2>3. Contract!Record(session)
    <3>1. \A s \in Sessions : [t \in Sessions |-> PhaseOf(t)][s] \notin {"recording", "working"}
      BY <1>4
    <3>2. Contract!Nobody
      BY <3>1 DEF Contract!Nobody, Contract!Busy
    <3>3. QED
      BY <1>1, <1>2, <1>5, <2>1, <2>2, <3>2 DEF Contract!Record
  <2>4. QED
    BY <1>2, <2>3 DEF Contract!ContractNext
<1>8. CASE mic' = mic
  <2>1. PhaseOf(session)' = "over"
    BY <1>1, <1>2, <1>3, <1>8, Facts DEF PhaseOf
  <2>2. \A s \in Sessions : s # session => PhaseOf(s)' = PhaseOf(s)
    BY <1>6, <1>8
  <2>3. Contract!GiveUp(session)
    BY <1>1, <1>2, <1>5, <1>8, <2>1, <2>2 DEF Contract!GiveUp
  <2>4. QED
    BY <1>2, <2>3 DEF Contract!ContractNext
<1>9. QED
  BY <1>7, <1>8 DEF OpenMicrophone, OpenSource

\* The recording is handed over, or nothing was heard.
LEMMA StopIsStop ==
  ASSUME AllInv, StopCapture PROVE Contract!ContractNext
<1>1. UNCHANGED <<built, session, work, cancelled, inserted>> /\ main = "stop" /\ main' = "idle"
  BY DEF StopCapture, MainAtStep
<1>2. session \in Sessions /\ session <= built /\ mic = {session} /\ mic' = {} /\ Capturing
  <2>1. session \in Sessions /\ session <= built /\ Capturing
    BY <1>1, Facts DEF AllInv, ThreadInv, SessionThere, Capturing
  <2>2. session \in mic /\ mic \subseteq {session}
    BY <1>1, <2>1, Facts DEF AllInv, ThreadInv, CapturingHasMic
  <2>3. mic' = mic \ {session}
    BY DEF StopCapture, EndCapture
  <2>4. QED
    BY <2>1, <2>2, <2>3
<1>3. work[session] = session /\ UnderWay = {} /\ \A s \in Sessions : ~AtWork(s)
  BY <1>2, Facts DEF AllInv, ThreadInv, WorksOnSession, UnderWay
<1>4. PhaseOf(session) = "recording"
  BY <1>1, <1>2, Facts DEF PhaseOf
<1>5. CASE proc' = [proc EXCEPT ![session] = "copy"]
  <2>1. \A s \in Sessions : AtWork(s)' <=> s = session
    BY <1>2, <1>3, <1>5, Facts DEF AtWork
  <2>2. UnderWay' = {session}
    BY <1>1, <1>2, <1>3, <2>1 DEF UnderWay
  <2>3. PhaseOf(session)' = "working"
    BY <1>1, <1>2, <2>2, Facts DEF PhaseOf
  <2>4. \A s \in Sessions : s # session => PhaseOf(s)' = PhaseOf(s)
    BY <1>1, <1>2, <1>3, <2>2 DEF PhaseOf
  <2>5. Contract!Stop(session)
    BY <1>1, <1>2, <1>4, <2>3, <2>4 DEF Contract!Stop
  <2>6. QED
    BY <1>2, <2>5 DEF Contract!ContractNext
<1>6. CASE proc' = proc
  <2>1. UnderWay' = {}
    BY <1>1, <1>3, <1>6 DEF UnderWay, AtWork
  <2>2. PhaseOf(session)' = "over"
    BY <1>1, <1>2, <2>1, Facts DEF PhaseOf
  <2>3. \A s \in Sessions : s # session => PhaseOf(s)' = PhaseOf(s)
    BY <1>1, <1>2, <1>3, <2>1 DEF PhaseOf
  <2>4. Contract!GiveUp(session)
    BY <1>1, <1>2, <1>4, <2>2, <2>3 DEF Contract!GiveUp
  <2>5. QED
    BY <1>2, <2>4 DEF Contract!ContractNext
<1>7. QED
  BY <1>5, <1>6 DEF StopCapture

\* A cancellation that is accepted finds a recording, which it ends, or work
\* whose text is not out.
LEMMA CancelIsCancel ==
  ASSUME AllInv, RequestCancel \/ Shutdown PROVE [Contract!ContractNext]_(Contract!contract)
<1>1. /\ UNCHANGED <<built, session, work, proc, inserted>>
      /\ main = "idle" /\ main' \in {"idle", "quit"} /\ CancelSession
  BY DEF RequestCancel, Shutdown, MainAtStep, threadVars, diskVars
<1>2. UnderWay' = UnderWay
  BY <1>1, SameUnderWay DEF AtWork
<1>3. CASE UNCHANGED <<mic, cancelled>>
  BY <1>1, <1>2, <1>3, SamePhases, StutterOfContract
<1>4. CASE IsRecording /\ cancelled' = cancelled \cup {session} /\ mic' = mic \ {session}
  <2>1. session \in Sessions /\ session <= built /\ mic = {session} /\ mic' = {} /\ session \notin inserted
    <3>1. session \in Sessions /\ session <= built /\ Capturing
      BY <1>4, Facts DEF IsRecording, Capturing
    <3>2. session \in mic /\ mic \subseteq {session}
      BY <1>1, <3>1, Facts DEF AllInv, ThreadInv, CapturingHasMic
    <3>3. session \notin inserted
      BY <3>1 DEF AllInv, StoreInv, FreshIsUntouched, Untouched
    <3>4. QED
      BY <1>4, <3>1, <3>2, <3>3
  <2>2. UnderWay = {}
    BY <1>4, Facts DEF UnderWay, Capturing
  <2>3. PhaseOf(session) = "recording" /\ PhaseOf(session)' = "over"
    BY <1>1, <1>2, <2>1, <2>2, Facts DEF PhaseOf
  <2>4. \A s \in Sessions : s # session => PhaseOf(s)' = PhaseOf(s)
    BY <1>1, <1>2, <2>1 DEF PhaseOf
  <2>5. Contract!Cancel(session)
    BY <1>1, <1>4, <2>1, <2>3, <2>4 DEF Contract!Cancel
  <2>6. QED
    BY <2>1, <2>5 DEF Contract!ContractNext
<1>5. CASE /\ session \in Sessions /\ state[session] \in {"processing", "cleaning"}
           /\ cancelled' = cancelled \cup {session} /\ mic' = mic
  <2>1. session \notin inserted
    BY <1>5 DEF AllInv, StoreInv, DeliveredIsFinal, Terminal
  <2>2. PhaseOf(session) # "new" /\ PhaseOf(session) # "recording"
    BY <1>1, <1>5, Facts DEF PhaseOf, AllInv, ThreadInv, MicReachable
  <2>3. \A s \in Sessions : PhaseOf(s)' = PhaseOf(s)
    BY <1>1, <1>2, <1>5, SamePhases
  <2>4. Contract!Cancel(session)
    BY <1>1, <1>5, <2>1, <2>2, <2>3 DEF Contract!Cancel
  <2>5. QED
    BY <1>5, <2>4 DEF Contract!ContractNext
<1>6. QED
  <2>1. session # None => session \in Sessions
    BY Facts
  <2>2. CASE session = None
    BY <1>1, <1>3, <2>2 DEF CancelSession
  <2>3. CASE session # None /\ state[session] = "recording"
    BY <1>1, <1>4, <2>3 DEF CancelSession, IsRecording
  <2>4. CASE session # None /\ state[session] \in {"processing", "cleaning"}
    <3>1. cancelled' = cancelled \cup {session} /\ mic' = mic
      BY <1>1, <2>4 DEF CancelSession
    <3>2. QED
      BY <1>5, <2>1, <2>4, <3>1
  <2>5. CASE session # None /\ state[session] \notin {"recording", "processing", "cleaning"}
    BY <1>1, <1>3, <2>5 DEF CancelSession
  <2>6. QED
    BY <2>2, <2>3, <2>4, <2>5

-----------------------------------------------------------------------------
(***************************************************************************)
(* The processing thread                                                   *)
(***************************************************************************)

\* The session of a thread at work is the one in phase "working".
LEMMA WorkingPhase ==
  ASSUME AllInv, NEW s \in Sessions, AtWork(s)
  PROVE  /\ session \in Sessions /\ PhaseOf(session) = "working"
         /\ \A t \in Sessions : t # session => PhaseOf(t) \in {"new", "over"}
<1>1. /\ session \in Sessions /\ session <= built /\ UnderWay = {session} /\ mic = {} /\ ~Capturing
      /\ session \in Nat /\ built \in Nat
  BY Facts
<1>2. main # "open"
  BY <1>1 DEF Capturing
<1>3. QED
  BY <1>1, <1>2 DEF PhaseOf

\* A thread that stays at work, or was through with it, changes no phase.
LEMMA QuietProcStep ==
  ASSUME AllInv, NEW s \in Sessions, AtWork(s)' <=> AtWork(s),
         \A t \in Sessions : t # s => proc'[t] = proc[t],
         UNCHANGED <<built, session, main, work, mic, cancelled, inserted>>
  PROVE  [Contract!ContractNext]_(Contract!contract)
<1>1. \A t \in Sessions : AtWork(t)' <=> AtWork(t)
  BY DEF AtWork
<1>2. UnderWay' = UnderWay
  BY <1>1, SameUnderWay
<1>3. QED
  BY <1>2, SamePhases, StutterOfContract

\* A thread that leaves its work gives the session up.
LEMMA LeavingGivesUp ==
  ASSUME AllInv, NEW s \in Sessions, AtWork(s), ~AtWork(s)',
         \A t \in Sessions : t # s => proc'[t] = proc[t],
         UNCHANGED <<built, session, main, work, mic, cancelled, inserted>>
  PROVE  Contract!ContractNext
<1>1. /\ session \in Sessions /\ UnderWay = {session} /\ mic = {} /\ session <= built
      /\ session \in Nat /\ built \in Nat
  BY Facts
<1>2. \A t \in Sessions : ~AtWork(t)'
  BY TheThread DEF AllInv, Owns, AtWork
<1>3. UnderWay' = {}
  BY <1>2 DEF UnderWay
<1>4. PhaseOf(session) = "working" /\ main # "open"
  BY WorkingPhase, Facts DEF Capturing
<1>5. PhaseOf(session)' = "over"
  BY <1>1, <1>3, <1>4 DEF PhaseOf
<1>6. \A t \in Sessions : t # session => PhaseOf(t)' = PhaseOf(t)
  BY <1>1, <1>3 DEF PhaseOf
<1>7. Contract!GiveUp(session)
  BY <1>1, <1>4, <1>5, <1>6 DEF Contract!GiveUp
<1>8. QED
  BY <1>1, <1>7 DEF Contract!ContractNext

\* The text goes out once, and not after a cancellation.
LEMMA InsertIsDeliver ==
  ASSUME AllInv, NEW s \in Sessions, InsertFinal(s), inserted' = inserted \cup {work[s]}
  PROVE  [Contract!ContractNext]_(Contract!contract)
<1>1. /\ proc[s] = "insert" /\ AtWork(s)
      /\ UNCHANGED <<built, session, main, work, mic, cancelled>>
      /\ proc' = [proc EXCEPT ![s] = "save"] \/ proc' = [proc EXCEPT ![s] = "broken"]
  BY DEF InsertFinal, ProcAt, AtWork, Steps, sessionVars
<1>2. work[s] = session /\ session \in Sessions
  BY <1>1, TheThread DEF AllInv
<1>3. session \notin cancelled /\ session \notin inserted
  BY <1>1 DEF AllInv, StoreInv, Progress, ProgressOf
<1>4. \A t \in Sessions : AtWork(t)' <=> AtWork(t)
  BY <1>1, Facts DEF AtWork, Steps
<1>5. UnderWay' = UnderWay
  BY <1>1, <1>4, SameUnderWay
<1>6. \A t \in Sessions : PhaseOf(t)' = PhaseOf(t)
  BY <1>1, <1>5, SamePhases
<1>7. PhaseOf(session) = "working"
  BY <1>1, WorkingPhase
<1>8. Contract!Deliver(session)
  BY <1>1, <1>2, <1>3, <1>6, <1>7 DEF Contract!Deliver
<1>9. QED
  BY <1>2, <1>8 DEF Contract!ContractNext

\* The CPU session takes over the dictation of the failed GPU attempt.
LEMMA RetryIsHandOn ==
  ASSUME AllInv, NEW s \in Sessions, RetryOnCpu(s), NewSession("idle"),
         work' = [work EXCEPT ![s] = built'], proc' = [proc EXCEPT ![s] = "enter"]
  PROVE  [Contract!ContractNext]_(Contract!contract)
<1>1. proc[s] = "retry" /\ AtWork(s) /\ UNCHANGED <<main, mic, cancelled, inserted>>
  BY DEF RetryOnCpu, ProcAt, AtWork, diskVars
<1>2. /\ session \in Sessions /\ session <= built /\ session \in Nat /\ built \in Nat
      /\ UnderWay = {session} /\ mic = {} /\ main # "open"
  BY <1>1, Facts DEF Capturing
<1>3. session' = built + 1 /\ built' = built + 1 /\ built + 1 \in Sessions
  BY <1>2, DictationAssumption DEF NewSession, Sessions
<1>4. session \notin cancelled /\ session \notin inserted
  BY <1>1 DEF AllInv, StoreInv, Progress, ProgressOf
<1>5. \A t \in Sessions : AtWork(t)' <=> t = s
  BY <1>1, Facts, TheThread DEF AllInv, Owns, AtWork, Steps
<1>6. work'[s] = built + 1
  BY <1>3, Facts
<1>7. UnderWay' = {built + 1}
  BY <1>5, <1>6 DEF UnderWay
<1>8. PhaseOf(session) = "working"
  BY <1>1, WorkingPhase
<1>9. PhaseOf(built + 1) = "new"
  BY <1>2, <1>3 DEF PhaseOf
<1>10. session # built + 1
  BY <1>2
<1>11. ASSUME NEW t \in Sessions
       PROVE  PhaseOf(t)' = IF t = session THEN "over" ELSE IF t = built + 1 THEN "working" ELSE PhaseOf(t)
  <2>1. t \in Nat
    BY Facts
  <2>2. CASE t = session
    BY <1>1, <1>2, <1>3, <1>7, <1>10, <2>2 DEF PhaseOf
  <2>3. CASE t = built + 1
    BY <1>1, <1>2, <1>3, <1>7, <2>3 DEF PhaseOf
  <2>4. CASE t # session /\ t # built + 1
    BY <1>1, <1>2, <1>3, <1>7, <2>1, <2>4 DEF PhaseOf
  <2>5. QED
    BY <1>2, <2>2, <2>3, <2>4
<1>12. Contract!HandOn(session, built + 1)
  BY <1>1, <1>2, <1>3, <1>4, <1>8, <1>9, <1>10, <1>11 DEF Contract!HandOn
<1>13. QED
  BY <1>2, <1>3, <1>12 DEF Contract!ContractNext

LEMMA ProcKeepsContract ==
  ASSUME AllInv, NEW s \in Sessions, ProcStep(s) PROVE [Contract!ContractNext]_(Contract!contract)
<1>1. proc \in [Sessions -> ThreadAt]
  BY Facts
<1>2. CASE RetryOnCpu(s)
  <2>1. CASE NewSession("idle") /\ work' = [work EXCEPT ![s] = built'] /\ proc' = [proc EXCEPT ![s] = "enter"]
    BY <1>2, <2>1, RetryIsHandOn
  <2>2. CASE UNCHANGED <<built, session, work>> /\ proc' = [proc EXCEPT ![s] = "release"]
    <3>1. AtWork(s) /\ AtWork(s)'
      BY <1>1, <1>2, <2>2 DEF RetryOnCpu, ProcAt, AtWork
    <3>2. QED
      BY <1>1, <1>2, <2>2, <3>1, QuietProcStep DEF RetryOnCpu, diskVars
  <2>3. QED
    BY <1>2, <2>1, <2>2 DEF RetryOnCpu, ProcAt
<1>3. CASE ~RetryOnCpu(s)
  <2>1. /\ UNCHANGED <<built, session, main, work, mic, cancelled>>
        /\ \A t \in Sessions : t # s => proc'[t] = proc[t]
    BY <1>1, <1>3 DEF ProcStep, CopyForRetry, Enter, Transcribe, Clean, Check, RetainAudio,
       AddHistory, CheckStored, SetInserting, InsertFinal, SaveDelivery, Fail, Release, Leave,
       Forget, ProcAt, sessionVars
  <2>2. CASE inserted' = inserted
    <3>1. CASE AtWork(s)' <=> AtWork(s)
      BY <2>1, <2>2, <3>1, QuietProcStep
    <3>2. CASE AtWork(s) /\ ~AtWork(s)'
      BY <2>1, <2>2, <3>2, LeavingGivesUp
    <3>3. AtWork(s)' => AtWork(s)
      <4>1. CASE Leave(s) \/ Forget(s)
        BY <1>1, <4>1 DEF Leave, Forget, ProcAt, AtWork, Steps
      <4>2. CASE ~(Leave(s) \/ Forget(s))
        BY <1>3, <4>2 DEF ProcStep, CopyForRetry, Enter, Transcribe, Clean, Check, RetainAudio,
           AddHistory, CheckStored, SetInserting, InsertFinal, SaveDelivery, Fail, Release,
           ProcAt, AtWork, Steps
      <4>3. QED
        BY <4>1, <4>2
    <3>4. QED
      BY <3>1, <3>2, <3>3
  <2>3. CASE InsertFinal(s) /\ inserted' = inserted \cup {work[s]}
    BY <2>3, InsertIsDeliver
  <2>4. QED
    BY <1>3, <2>2, <2>3 DEF ProcStep, CopyForRetry, Enter, Transcribe, Clean, Check, RetainAudio,
       AddHistory, CheckStored, SetInserting, InsertFinal, SaveDelivery, Fail, Release, Leave,
       Forget, diskVars
<1>4. QED
  BY <1>2, <1>3

-----------------------------------------------------------------------------
(***************************************************************************)
(* The end of the process, and the whole                                   *)
(***************************************************************************)
LEMMA DieIsCrash ==
  ASSUME AllInv, Die PROVE Contract!ContractNext
<1>1. /\ UNCHANGED <<built, cancelled, inserted>>
      /\ session' = None /\ main' = "down" /\ mic' = {}
  BY DEF Die, diskVars
<1>2. UnderWay' = {}
  BY DEF Die, UnderWay, AtWork, Steps
<1>3. \A s \in Sessions : PhaseOf(s)' = IF s > built THEN "new" ELSE "over"
  BY <1>1, <1>2, Facts DEF PhaseOf
<1>4. \A s \in Sessions :
        s > built => PhaseOf(s) = "new" /\ ~(s = session /\ main = "open")
  BY Facts DEF PhaseOf
<1>5. DEFINE begun == {s \in Sessions : s = session /\ main = "open"}
<1>6. ASSUME NEW s \in Sessions
      PROVE  PhaseOf(s)' = IF PhaseOf(s) \in {"recording", "working"} \/ s \in begun THEN "over" ELSE PhaseOf(s)
  <2>1. CASE s > built
    BY <1>3, <1>4, <2>1
  <2>2. CASE ~(s > built)
    BY <1>3, <2>2 DEF PhaseOf
  <2>3. QED
    BY <2>1, <2>2
<1>7. begun \in SUBSET Sessions
  OBVIOUS
<1> HIDE DEF begun
<1>8. Contract!Crash
  BY <1>1, <1>6, <1>7 DEF Contract!Crash, Contract!Busy
<1>9. QED
  BY <1>8 DEF Contract!ContractNext

LEMMA LiveStepIsStutter ==
  ASSUME AllInv, NEW s \in Sessions, LiveWorkerStep(s)
  PROVE  [Contract!ContractNext]_(Contract!contract)
<1>1. UNCHANGED <<built, session, main, proc, work, mic, cancelled, inserted>>
  BY DEF LiveWorkerStep, LiveBegin, LiveTake, LiveInfer, LiveInsert, LiveDelete, sessionVars,
     threadVars, diskVars
<1>2. UnderWay' = UnderWay
  BY <1>1, SameUnderWay DEF AtWork
<1>3. QED
  BY <1>1, <1>2, SamePhases, StutterOfContract

LEMMA StepKeepsContract ==
  AllInv /\ [Next]_runtime => [Contract!ContractNext]_(Contract!contract)
<1> SUFFICES ASSUME AllInv, [Next]_runtime PROVE [Contract!ContractNext]_(Contract!contract)
  OBVIOUS
<1>1. CASE UNCHANGED runtime
  <2>1. UNCHANGED <<built, session, main, proc, work, mic, cancelled, inserted>>
    BY <1>1 DEF runtime, sessionVars, threadVars, diskVars
  <2>2. UnderWay' = UnderWay
    BY <2>1, SameUnderWay DEF AtWork
  <2>3. QED
    BY <2>1, <2>2, SamePhases, StutterOfContract
<1>2. CASE MainStep \/ Request \/ Restart
  BY <1>2, QuietMainStep, BuildIsStutter, OpenIsRecord, StopIsStop, CancelIsCancel DEF MainStep, Request
<1>3. ASSUME NEW s \in Sessions, ProcStep(s) PROVE [Contract!ContractNext]_(Contract!contract)
  BY <1>3, ProcKeepsContract
<1>4. ASSUME NEW s \in Sessions, LiveWorkerStep(s) PROVE [Contract!ContractNext]_(Contract!contract)
  BY <1>4, LiveStepIsStutter
<1>5. CASE Die
  BY <1>5, DieIsCrash
<1>6. QED
  BY <1>1, <1>2, <1>3, <1>4, <1>5 DEF Next

\* KeepsContract: the runtime is an implementation of the contract of a
\* dictation, so no interleaving of its threads, no retry and no failure shows.
THEOREM RuntimeKeepsContract == Spec => KeepsContract
<1>1. Init => Contract!ContractInit
  <2>1. ASSUME Init, NEW s \in Sessions PROVE PhaseOf(s) = "new"
    BY <2>1, DictationAssumption DEF Init, PhaseOf, Sessions
  <2>2. QED
    BY <2>1 DEF Init, Contract!ContractInit
<1>2. QED
  BY <1>1, StepKeepsContract, ThreadInvHolds, StoreInvHolds, PTL
  DEF Spec, AllInv, KeepsContract, Contract!ContractSpec

===============================================================================
