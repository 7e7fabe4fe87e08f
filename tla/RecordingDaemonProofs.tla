------------------------ MODULE RecordingDaemonProofs ------------------------
(***************************************************************************)
(* Proofs about CaptureCoordinator, for every set of sessions and every    *)
(* bound on the counter, and about RecordingDaemon for every number of     *)
(* sessions, requests and timers, every set of faults, overlapping         *)
(* requests or not.                                                        *)
(*                                                                         *)
(* First the coordinator by itself: CoordinatorInv is the type invariant,  *)
(* BusyIsCurrent, and the bookkeeping of the settled generations that      *)
(* RedeemedNeverDropped needs.  No task of the daemon uses the coordinator *)
(* other than through its methods, so these theorems hold of the whole     *)
(* daemon.  Then the inductive invariant DeliveryInv, which follows a      *)
(* generation from the request that was given it, through the stop and     *)
(* the processing task, to the result cache.                               *)
(***************************************************************************)
EXTENDS RecordingDaemon, TLAPS

\* Settled generations are never ahead of the counter.
SettledInPast == \A g \in redeemed \cup dropped : g <= generation

CoordinatorInv ==
  /\ CoordinatorTypeOK
  /\ BusyIsCurrent
  /\ SettledInPast
  /\ RedeemedNeverDropped
  /\ BusyIsUnsettled

-----------------------------------------------------------------------------
(***************************************************************************)
(* The default coordinator (Idle, generation 0) satisfies the invariant.   *)
(***************************************************************************)
LEMMA InitEstablishesInv == CoordinatorInit => CoordinatorInv
BY CoordinatorAssumption DEF CoordinatorInit, CoordinatorInv, CoordinatorTypeOK,
   CaptureState, Idle, Phases, Busy, Startable, BusyIsCurrent, SettledInPast,
   RedeemedNeverDropped, BusyIsUnsettled

(***************************************************************************)
(* The types are kept by every method, whatever tokens it is called with.  *)
(***************************************************************************)
LEMMA StepKeepsTypes ==
  CoordinatorTypeOK /\ [CoordinatorNext]_coordinator => CoordinatorTypeOK'
<1> SUFFICES ASSUME CoordinatorTypeOK, [CoordinatorNext]_coordinator
             PROVE  CoordinatorTypeOK'
  OBVIOUS
<1> USE DEF CoordinatorTypeOK, CaptureState, Phases, Busy, Startable
<1>1. ASSUME NEW s \in Sessions, StartSession(s) PROVE CoordinatorTypeOK'
  BY <1>1 DEF StartSession
<1>2. ASSUME NEW s \in Sessions, StartStopped(s) PROVE CoordinatorTypeOK'
  BY <1>2 DEF StartStopped
<1>3. CASE StopCapture
  BY <1>3 DEF StopCapture
<1>4. ASSUME NEW g \in Tokens, BeginProcessing(g) PROVE CoordinatorTypeOK'
  BY <1>4 DEF BeginProcessing
<1>5. ASSUME NEW g \in Tokens, BeginDelivery(g) PROVE CoordinatorTypeOK'
  BY <1>5 DEF BeginDelivery
<1>6. ASSUME NEW g \in Tokens, Complete(g) PROVE CoordinatorTypeOK'
  BY <1>6 DEF Complete, IsCurrent, Idle, Tokens
<1>7. CASE Cancel
  <2>1. state' \in CaptureState
    BY <1>7 DEF Cancel, Idle
  <2>2. generation' \in Nat /\ redeemed' \subseteq Nat
    BY <1>7 DEF Cancel
  <2>3. dropped' \subseteq Nat
    BY <1>7 DEF Cancel, DropCurrent
  <2>4. QED
    BY <2>1, <2>2, <2>3
<1>8. CASE Fail
  BY <1>8 DEF Fail, DropCurrent
<1>9. CASE UNCHANGED coordinator
  BY <1>9 DEF coordinator
<1>10. QED
  BY <1>1, <1>2, <1>3, <1>4, <1>5, <1>6, <1>7, <1>8, <1>9
  DEF CoordinatorNext, Toggle

(***************************************************************************)
(* The rest of the invariant.  Only start_session opens a generation, and  *)
(* it is one above every settled one; only complete, cancel and fail       *)
(* settle one, and they leave the busy phases at the same time.            *)
(***************************************************************************)
LEMMA StepKeepsInv ==
  CoordinatorInv /\ [CoordinatorNext]_coordinator => CoordinatorInv'
<1> SUFFICES ASSUME CoordinatorInv, [CoordinatorNext]_coordinator
             PROVE  CoordinatorInv'
  OBVIOUS
<1>0. CoordinatorTypeOK'
  BY StepKeepsTypes DEF CoordinatorInv
<1> DEFINE Fencing == BusyIsCurrent /\ SettledInPast /\ RedeemedNeverDropped /\ BusyIsUnsettled
<1> USE DEF CoordinatorInv, CoordinatorTypeOK, CaptureState, Phases, Busy, Startable,
            BusyIsCurrent, SettledInPast, RedeemedNeverDropped, BusyIsUnsettled
<1>1. ASSUME NEW s \in Sessions, StartSession(s) PROVE Fencing'
  BY <1>1 DEF StartSession
<1>2. ASSUME NEW s \in Sessions, StartStopped(s) PROVE Fencing'
  BY <1>2 DEF StartStopped
<1>3. ASSUME StopCapture PROVE Fencing'
  BY <1>3 DEF StopCapture
<1>4. ASSUME NEW g \in Tokens, BeginProcessing(g) PROVE Fencing'
  BY <1>4 DEF BeginProcessing
<1>5. ASSUME NEW g \in Tokens, BeginDelivery(g) PROVE Fencing'
  BY <1>5 DEF BeginDelivery
<1>6. ASSUME NEW g \in Tokens, Complete(g) PROVE Fencing'
  BY <1>6 DEF Complete, IsCurrent, Idle, Tokens
<1>7. ASSUME Cancel PROVE Fencing'
  <2>1. BusyIsCurrent' /\ BusyIsUnsettled'
    BY <1>7 DEF Cancel, Idle
  <2>2. redeemed' = redeemed /\ generation' >= generation
    BY <1>7 DEF Cancel
  <2>3. \A g \in dropped' : g \in dropped \/ (g = generation /\ g \notin redeemed)
    BY <1>7 DEF Cancel, DropCurrent
  <2>4. RedeemedNeverDropped'
    BY <2>2, <2>3
  <2>5. SettledInPast'
    BY <2>2, <2>3, <1>0
  <2>6. QED
    BY <2>1, <2>4, <2>5
<1>8. ASSUME Fail PROVE Fencing'
  <2>1. BusyIsCurrent' /\ BusyIsUnsettled'
    BY <1>8 DEF Fail
  <2>2. redeemed' = redeemed /\ generation' >= generation
    BY <1>8 DEF Fail
  <2>3. \A g \in dropped' : g \in dropped \/ (g = generation /\ g \notin redeemed)
    BY <1>8 DEF Fail, DropCurrent
  <2>4. RedeemedNeverDropped'
    BY <2>2, <2>3
  <2>5. SettledInPast'
    BY <2>2, <2>3, <1>0
  <2>6. QED
    BY <2>1, <2>4, <2>5
<1>9. ASSUME UNCHANGED coordinator PROVE Fencing'
  BY <1>9 DEF coordinator
<1>10. Fencing'
  BY <1>1, <1>2, <1>3, <1>4, <1>5, <1>6, <1>7, <1>8, <1>9
  DEF CoordinatorNext, Toggle
<1>11. QED
  BY <1>0, <1>10

(***************************************************************************)
(* The inductive invariant holds in every reachable state of state.rs.     *)
(***************************************************************************)
THEOREM CoordinatorInvariant == CoordinatorSpec => []CoordinatorInv
<1>1. QED
  BY InitEstablishesInv, StepKeepsInv, PTL DEF CoordinatorSpec

(***************************************************************************)
(* Type correctness of the coordinator's fields.                           *)
(***************************************************************************)
THEOREM CoordinatorTypes == CoordinatorSpec => []CoordinatorTypeOK
<1>1. CoordinatorInv => CoordinatorTypeOK
  BY DEF CoordinatorInv
<1>2. QED
  BY <1>1, CoordinatorInvariant, PTL

(***************************************************************************)
(* While anything is under way the state's generation is the counter's.    *)
(***************************************************************************)
THEOREM BusyAlwaysCurrent == CoordinatorSpec => []BusyIsCurrent
<1>1. CoordinatorInv => BusyIsCurrent
  BY DEF CoordinatorInv
<1>2. QED
  BY <1>1, CoordinatorInvariant, PTL

(***************************************************************************)
(* complete never accepts a generation that cancel or fail gave up, and    *)
(* neither gives up one that complete accepted.                            *)
(***************************************************************************)
THEOREM LateResultsDiscarded == CoordinatorSpec => []RedeemedNeverDropped
<1>1. CoordinatorInv => RedeemedNeverDropped
  BY DEF CoordinatorInv
<1>2. QED
  BY <1>1, CoordinatorInvariant, PTL

-----------------------------------------------------------------------------
(***************************************************************************)
(* Refinement: the initial coordinator is a fresh fence, and each accepted *)
(* method is a step of the fence or leaves it as it was.                   *)
(***************************************************************************)
LEMMA InitIsFenceInit == CoordinatorInit => Fence!FenceInit
BY DEF CoordinatorInit, Fence!FenceInit, Idle, Busy

LEMMA StepIsFenceStep ==
  CoordinatorInv /\ [CoordinatorNext]_coordinator => [Fence!FenceNext]_(Fence!fence)
<1> SUFFICES ASSUME CoordinatorInv, [CoordinatorNext]_coordinator
             PROVE  [Fence!FenceNext]_(Fence!fence)
  OBVIOUS
<1> USE DEF CoordinatorInv, CoordinatorTypeOK, CaptureState, Phases, Busy, Startable, BusyIsCurrent
<1> USE DEF Fence!FenceNext, Fence!fence
<1>1. ASSUME NEW s \in Sessions, StartSession(s) PROVE Fence!Open
  BY <1>1 DEF StartSession, Fence!Open
<1>2. ASSUME NEW s \in Sessions, StartStopped(s) PROVE Fence!Open
  BY <1>2 DEF StartStopped, Fence!Open
<1>3. CASE StopCapture
  BY <1>3 DEF StopCapture
<1>4. ASSUME NEW g \in Tokens, BeginProcessing(g) PROVE UNCHANGED Fence!fence
  BY <1>4 DEF BeginProcessing
<1>5. ASSUME NEW g \in Tokens, BeginDelivery(g) PROVE UNCHANGED Fence!fence
  BY <1>5 DEF BeginDelivery
<1>6. ASSUME NEW g \in Tokens, Complete(g) PROVE Fence!Redeem
  BY <1>6 DEF Complete, IsCurrent, Idle, Fence!Redeem
<1>7. CASE Cancel
  <2>1. CASE state.phase \in Busy
    BY <1>7, <2>1 DEF Cancel, DropCurrent, Idle, Fence!Drop
  <2>2. CASE state.phase \notin Busy
    BY <1>7, <2>2 DEF Cancel, DropCurrent, Idle, Fence!Burn
  <2>3. QED
    BY <2>1, <2>2
<1>8. CASE Fail
  <2>1. CASE state.phase \in Busy
    BY <1>8, <2>1 DEF Fail, DropCurrent, Fence!Drop
  <2>2. CASE state.phase \notin Busy
    BY <1>8, <2>2 DEF Fail, DropCurrent
  <2>3. QED
    BY <2>1, <2>2
<1>9. CASE UNCHANGED coordinator
  BY <1>9 DEF coordinator
<1>10. QED
  BY <1>1, <1>2, <1>3, <1>4, <1>5, <1>6, <1>7, <1>8, <1>9
  DEF CoordinatorNext, Toggle

(***************************************************************************)
(* The coordinator is an implementation of the ticket fence.               *)
(***************************************************************************)
THEOREM CoordinatorRefinesFence == CoordinatorSpec => ImplementsFence
<1>1. QED
  BY InitIsFenceInit, StepIsFenceStep, CoordinatorInvariant, PTL
  DEF CoordinatorSpec, ImplementsFence, Fence!FenceSpec

-----------------------------------------------------------------------------
(***************************************************************************)
(* Each step of the daemon is a step of the coordinator or leaves it as it *)
(* was.  A token that is accepted is the current generation, hence one     *)
(* that was handed out.                                                    *)
(***************************************************************************)
LEMMA DaemonStepIsCoordinatorStep ==
  CoordinatorInv /\ [DaemonNext]_daemon => [CoordinatorNext]_coordinator
<1> SUFFICES ASSUME CoordinatorInv, [DaemonNext]_daemon
             PROVE  [CoordinatorNext]_coordinator
  OBVIOUS
<1> USE DEF CoordinatorNext
<1>0. /\ \A g : BeginProcessing(g) \/ BeginDelivery(g) \/ Complete(g) => g \in Tokens
      /\ TimedSessions \subseteq Sessions
  <2>1. ASSUME NEW g, BeginProcessing(g) \/ BeginDelivery(g) \/ Complete(g) PROVE g \in Tokens
    BY <2>1 DEF CoordinatorInv, CoordinatorTypeOK, BusyIsCurrent, Busy, Tokens,
                BeginProcessing, BeginDelivery, Complete, IsCurrent
  <2>2. QED
    BY <2>1, DaemonAssumption
<1>1. ASSUME NEW s \in Sessions,
            Admit(s) \/ OpenRecorder(s) \/ Publish(s) \/ StartStream(s) \/
              Attach(s) \/ Abandon(s) \/ StageFile(s) \/ AnswerFile(s)
     PROVE  UNCHANGED coordinator
  BY <1>1 DEF Admit, OpenRecorder, Publish, StartStream, Attach, Abandon, StageFile,
     AnswerFile
<1>2. ASSUME NEW s \in Sessions, Claim(s) PROVE [CoordinatorNext]_coordinator
  BY <1>2, <1>0 DEF Claim
<1>3. ASSUME NEW s \in Sessions, GiveUp(s) PROVE [CoordinatorNext]_coordinator
  BY <1>3, <1>0 DEF GiveUp
<1>4. ASSUME NEW s \in Sessions, ClaimFile(s) PROVE [CoordinatorNext]_coordinator
  BY <1>4, <1>0 DEF ClaimFile
<1>5. ASSUME NEW s \in Sessions,
            Batch(s) \/ StreamBreaks(s) \/ PressDelta(s) \/ CountDelta(s)
     PROVE  UNCHANGED coordinator
  BY <1>5 DEF Batch, StreamBreaks, PressDelta, CountDelta
<1>6. ASSUME NEW s \in Sessions,
            Infer(s) \/ PressSuffix(s) \/ CountSuffix(s) \/ Copied(s) \/
              PublishResult(s) \/ KeepPartial(s) \/ PublishPartial(s) \/ CleanUp(s)
     PROVE  UNCHANGED coordinator
  BY <1>6 DEF Infer, PressSuffix, CountSuffix, Copied, PublishResult, KeepPartial,
     PublishPartial, CleanUp
<1>7. ASSUME NEW s \in Sessions, Begin(s) PROVE [CoordinatorNext]_coordinator
  BY <1>7, <1>0 DEF Begin
<1>8. ASSUME NEW s \in Sessions, Deliver(s) PROVE [CoordinatorNext]_coordinator
  BY <1>8, <1>0 DEF Deliver
<1>9. ASSUME NEW s \in Sessions, Finish(s) PROVE [CoordinatorNext]_coordinator
  BY <1>9, <1>0 DEF Finish
<1>10. ASSUME NEW s \in Sessions, ReportError(s) PROVE [CoordinatorNext]_coordinator
  BY <1>10, <1>0 DEF ReportError
<1>11. ASSUME NEW s \in Sessions, FailPartial(s) PROVE [CoordinatorNext]_coordinator
  BY <1>11, <1>0 DEF FailPartial
<1>12. ASSUME NEW t \in Stops,
            TakeRecorder(t) \/ Finalize(t) \/ Quiesce(t) \/ SpawnProcessing(t) \/
              Register(t)
     PROVE  UNCHANGED coordinator
  BY <1>12 DEF TakeRecorder, Finalize, Quiesce, SpawnProcessing, Register
<1>13. ASSUME NEW t \in Stops, RequestStop(t) PROVE [CoordinatorNext]_coordinator
  BY <1>13, <1>0 DEF RequestStop
<1>14. ASSUME NEW c \in Cancellers,
            AbortProcessing(c) \/ Sweep(c)
     PROVE  UNCHANGED coordinator
  BY <1>14 DEF AbortProcessing, Sweep
<1>15. ASSUME NEW c \in Cancellers, RequestCancel(c) PROVE [CoordinatorNext]_coordinator
  BY <1>15, <1>0 DEF RequestCancel
<1>16. ASSUME NEW s \in TimedSessions,
            TimerFires(s)
     PROVE  UNCHANGED coordinator
  BY <1>16 DEF TimerFires
<1>17. ASSUME NEW s \in TimedSessions, TimerCancels(s) PROVE [CoordinatorNext]_coordinator
  BY <1>17, <1>0 DEF TimerCancels
<1>18. ASSUME NEW s \in TimedSessions, TimerFails(s) PROVE [CoordinatorNext]_coordinator
  BY <1>18, <1>0 DEF TimerFails
<1>19. CASE WorkerDies
  BY <1>19 DEF WorkerDies
<1>20. CASE UNCHANGED daemon
  BY <1>20 DEF daemon
<1>21. QED
  BY <1>1, <1>2, <1>3, <1>4, <1>5, <1>6, <1>7, <1>8, <1>9, <1>10, <1>11, <1>12, <1>13,
     <1>14, <1>15, <1>16, <1>17, <1>18, <1>19, <1>20
  DEF DaemonNext, StartStep, StreamStep, ProcStep, StopStep, CancelStep, TimerStep

(***************************************************************************)
(* The daemon is a client of the coordinator: every run of the daemon is a *)
(* run of the coordinator's specification.                                 *)
(***************************************************************************)
THEOREM DaemonUsesCoordinator == DaemonSpec => CoordinatorSpec
<1>1. DaemonInit => CoordinatorInit /\ CoordinatorInv
  BY InitEstablishesInv DEF DaemonInit
<1>2. CoordinatorInv /\ [DaemonNext]_daemon => CoordinatorInv'
  BY DaemonStepIsCoordinatorStep, StepKeepsInv
<1>3. QED
  BY <1>1, <1>2, DaemonStepIsCoordinatorStep, PTL DEF DaemonSpec, CoordinatorSpec

-----------------------------------------------------------------------------
(***************************************************************************)
(* Types.  The coordinator's part is StepKeepsTypes, proved above;         *)
(* what is left is one step for each action.                               *)
(***************************************************************************)
TasksTypeOK ==
  RuntimeTypeOK /\ AnswerTypeOK /\ WorldTypeOK /\ TaskTypeOK /\ LiveTypeOK /\ ProcTypeOK

LEMMA DaemonStepKeepsTypes ==
  CoordinatorInv /\ DaemonTypeOK /\ [DaemonNext]_daemon => DaemonTypeOK'
<1> SUFFICES ASSUME CoordinatorInv, DaemonTypeOK, [DaemonNext]_daemon
             PROVE  DaemonTypeOK'
  OBVIOUS
<1>0. CoordinatorTypeOK'
  BY DaemonStepIsCoordinatorStep, StepKeepsTypes DEF CoordinatorInv
<1> SUFFICES TasksTypeOK'
  BY <1>0 DEF DaemonTypeOK, TasksTypeOK
<1> USE DaemonAssumption, CoordinatorAssumption
    DEF DaemonTypeOK, TasksTypeOK, CoordinatorTypeOK, CaptureState, RuntimeTypeOK, AnswerTypeOK,
        WorldTypeOK, TaskTypeOK, LiveTypeOK, ProcTypeOK, MaybeSession, Cancellers, Awaits,
        runtimeVars, answerVars, worldVars, taskVars, liveVars, procVars
<1>1. ASSUME NEW s \in Sessions, Admit(s) PROVE TasksTypeOK'
  BY <1>1 DEF Admit, StartAt
<1>2. ASSUME NEW s \in Sessions, OpenRecorder(s) PROVE TasksTypeOK'
  <2>1. RuntimeTypeOK' /\ AnswerTypeOK'
    BY <1>2 DEF OpenRecorder, StartAt
  <2>2. WorldTypeOK'
    BY <1>2 DEF OpenRecorder, StartAt
  <2>3. TaskTypeOK'
    BY <1>2 DEF OpenRecorder, StartAt
  <2>4. LiveTypeOK'
    BY <1>2 DEF OpenRecorder, StartAt
  <2>5. ProcTypeOK'
    BY <1>2 DEF OpenRecorder, StartAt
  <2>6. QED
    BY <2>1, <2>2, <2>3, <2>4, <2>5
<1>3. ASSUME NEW s \in Sessions, Claim(s) PROVE TasksTypeOK'
  <2>1. RuntimeTypeOK' /\ AnswerTypeOK'
    BY <1>3 DEF Claim, StartAt, StartSession
  <2>2. WorldTypeOK'
    BY <1>3 DEF Claim, StartAt, StartSession
  <2>3. TaskTypeOK'
    <3>1. start' \in [Sessions -> {"new", "open", "claim", "publish", "stream", "attach", "abandon",
                                   "giveup", "claimfile", "processing", "done", "error"}]
      BY <1>3 DEF Claim, StartAt
    <3>2. generation' \in Nat
      BY <1>0
    <3>3. gen' \in [Sessions -> Nat]
      BY <1>3, <3>2 DEF Claim
    <3>4. UNCHANGED <<stop, job, cancel>>
      BY <1>3 DEF Claim
    <3>5. QED
      BY <3>1, <3>3, <3>4
  <2>4. LiveTypeOK'
    BY <1>3 DEF Claim, StartAt, StartSession
  <2>5. ProcTypeOK'
    BY <1>3 DEF Claim, StartAt, StartSession
  <2>6. QED
    BY <2>1, <2>2, <2>3, <2>4, <2>5
<1>4. ASSUME NEW s \in Sessions, Publish(s) PROVE TasksTypeOK'
  BY <1>4 DEF Publish, StartAt
<1>5. ASSUME NEW s \in Sessions, StartStream(s) PROVE TasksTypeOK'
  BY <1>5 DEF StartStream, StartAt, Answering
<1>6. ASSUME NEW s \in Sessions, Attach(s) PROVE TasksTypeOK'
  BY <1>6 DEF Attach, StartAt
<1>7. ASSUME NEW s \in Sessions, Abandon(s) PROVE TasksTypeOK'
  BY <1>7 DEF Abandon, StartAt
<1>8. ASSUME NEW s \in Sessions, GiveUp(s) PROVE TasksTypeOK'
  BY <1>8 DEF GiveUp, StartAt
<1>9. ASSUME NEW s \in Sessions, StageFile(s) PROVE TasksTypeOK'
  BY <1>9 DEF StageFile, StartAt
<1>10. ASSUME NEW s \in Sessions, ClaimFile(s) PROVE TasksTypeOK'
  <2>1. RuntimeTypeOK' /\ AnswerTypeOK'
    BY <1>10 DEF ClaimFile, StartAt, StartStopped
  <2>2. WorldTypeOK'
    BY <1>10 DEF ClaimFile, StartAt, StartStopped
  <2>3. TaskTypeOK'
    <3>1. (job \in [Sessions -> [audio : MaybeSession, stream : MaybeSession, live : MaybeSession]])'
      <4> DEFINE Jobs == [audio : MaybeSession, stream : MaybeSession, live : MaybeSession]
      <4>1. [job[s] EXCEPT !.audio = s] \in Jobs
        <5>1. job[s] \in Jobs
          OBVIOUS
        <5>2. QED
          BY <5>1
      <4>2. job' \in {job, [job EXCEPT ![s] = [job[s] EXCEPT !.audio = s]]}
        BY <1>10 DEF ClaimFile
      <4>3. QED
        BY <4>1, <4>2, SMTT(30)
    <3>2. generation' \in Nat
      BY <1>0
    <3>3. start' \in [Sessions -> {"new", "open", "claim", "publish", "stream", "attach", "abandon",
                                   "giveup", "claimfile", "processing", "done", "error"}]
      BY <1>10 DEF ClaimFile, StartAt
    <3>4. gen' \in [Sessions -> Nat]
      BY <1>10, <3>2 DEF ClaimFile
    <3>5. QED
      BY <1>10, <3>1, <3>3, <3>4 DEF ClaimFile
  <2>4. LiveTypeOK'
    BY <1>10 DEF ClaimFile, StartAt, StartStopped
  <2>5. ProcTypeOK'
    <3>1. proc' \in [Sessions -> Awaits \cup {"off", "begin", "deliver", "finish", "publish", "failed",
                                             "partial", "done"}]
      BY <1>10 DEF ClaimFile
    <3>2. UNCHANGED <<processing, aborted>>
      BY <1>10 DEF ClaimFile
    <3>3. QED
      BY <3>1, <3>2
  <2>6. QED
    BY <2>1, <2>2, <2>3, <2>4, <2>5
<1>11. ASSUME NEW s \in Sessions, AnswerFile(s) PROVE TasksTypeOK'
  BY <1>11 DEF AnswerFile, StartAt
<1>12. ASSUME NEW s \in Sessions, Batch(s) PROVE TasksTypeOK'
  BY <1>12 DEF Batch, StreamAt
<1>13. ASSUME NEW s \in Sessions, StreamBreaks(s) PROVE TasksTypeOK'
  BY <1>13, SMTT(30) DEF StreamBreaks, StreamAt
<1>14. ASSUME NEW s \in Sessions, PressDelta(s) PROVE TasksTypeOK'
  <2>1. RuntimeTypeOK' /\ AnswerTypeOK'
    BY <1>14 DEF PressDelta, StreamAt
  <2>2. WorldTypeOK'
    <3>1. typed' \in [Sessions -> Nat]
      BY <1>14 DEF PressDelta
    <3>2. UNCHANGED <<mic, audio>>
      BY <1>14 DEF PressDelta
    <3>3. QED
      BY <3>1, <3>2
  <2>3. TaskTypeOK'
    BY <1>14 DEF PressDelta, StreamAt
  <2>4. LiveTypeOK'
    <3>1. stream' \in [Sessions -> {"off", "listen", "heard", "press", "pressed", "ended"}]
      BY <1>14 DEF PressDelta, StreamAt
    <3>2. status' \in [Sessions -> {"not_requested", "active", "suspended", "complete"}]
      BY <1>14 DEF PressDelta
    <3>3. QED
      BY <1>14, <3>1, <3>2 DEF PressDelta
  <2>5. ProcTypeOK'
    BY <1>14 DEF PressDelta, StreamAt
  <2>6. QED
    BY <2>1, <2>2, <2>3, <2>4, <2>5
<1>15. ASSUME NEW s \in Sessions, CountDelta(s) PROVE TasksTypeOK'
  BY <1>15 DEF CountDelta, StreamAt
<1>16. ASSUME NEW s \in Sessions, Infer(s) PROVE TasksTypeOK'
  BY <1>16 DEF Infer, ProcAt, Answering
<1>17. ASSUME NEW s \in Sessions, PressSuffix(s) PROVE TasksTypeOK'
  <2>1. RuntimeTypeOK' /\ AnswerTypeOK'
    BY <1>17 DEF PressSuffix, ProcAt
  <2>2. WorldTypeOK'
    BY <1>17 DEF PressSuffix, ProcAt
  <2>3. TaskTypeOK'
    BY <1>17 DEF PressSuffix, ProcAt
  <2>4. LiveTypeOK'
    BY <1>17 DEF PressSuffix, ProcAt
  <2>5. ProcTypeOK'
    BY <1>17 DEF PressSuffix, ProcAt
  <2>6. QED
    BY <2>1, <2>2, <2>3, <2>4, <2>5
<1>18. ASSUME NEW s \in Sessions, CountSuffix(s) PROVE TasksTypeOK'
  <2>1. RuntimeTypeOK' /\ AnswerTypeOK'
    BY <1>18 DEF CountSuffix, ProcAt
  <2>2. WorldTypeOK'
    BY <1>18 DEF CountSuffix, ProcAt
  <2>3. TaskTypeOK'
    BY <1>18 DEF CountSuffix, ProcAt
  <2>4. LiveTypeOK'
    <3>1. inserted' \in [Sessions -> Nat]
      <4>1. CASE LiveOf(s) \in Sessions
        BY <1>18, <4>1 DEF CountSuffix
      <4>2. CASE LiveOf(s) \notin Sessions
        BY <1>18, <4>2, ZenonT(60) DEF CountSuffix
      <4>3. QED
        BY <4>1, <4>2
    <3>2. status' \in [Sessions -> {"not_requested", "active", "suspended", "complete"}]
      BY <1>18 DEF CountSuffix
    <3>3. QED
      BY <1>18, <3>1, <3>2 DEF CountSuffix
  <2>5. ProcTypeOK'
    BY <1>18 DEF CountSuffix, ProcAt
  <2>6. QED
    BY <2>1, <2>2, <2>3, <2>4, <2>5
<1>19. ASSUME NEW s \in Sessions, Begin(s) PROVE TasksTypeOK'
  <2>1. UNCHANGED <<runtimeVars, answerVars, worldVars, taskVars, liveVars, processing, aborted>>
    BY <1>19 DEF Begin
  <2>2. proc' \in [Sessions -> Awaits \cup {"off", "begin", "deliver", "finish", "publish", "failed",
                                             "partial", "done"}]
    BY <1>19 DEF Begin, ProcAt
  <2>3. QED
    BY <2>1, <2>2
<1>20. ASSUME NEW s \in Sessions, Deliver(s) PROVE TasksTypeOK'
  <2>1. UNCHANGED <<runtimeVars, results, errors, worldVars, taskVars, liveVars, processing, aborted>>
    BY <1>20 DEF Deliver
  <2>2. proc' \in [Sessions -> Awaits \cup {"off", "begin", "deliver", "finish", "publish", "failed",
                                             "partial", "done"}]
    BY <1>20 DEF Deliver, ProcAt
  <2>3. history' \in [Sessions -> Nat]
    BY <1>20 DEF Deliver
  <2>4. QED
    BY <2>1, <2>2, <2>3
<1>21. ASSUME NEW s \in Sessions, Copied(s) PROVE TasksTypeOK'
  BY <1>21 DEF Copied, ProcAt
<1>22. ASSUME NEW s \in Sessions, Finish(s) PROVE TasksTypeOK'
  BY <1>22 DEF Finish, ProcAt
<1>23. ASSUME NEW s \in Sessions, PublishResult(s) PROVE TasksTypeOK'
  BY <1>23 DEF PublishResult, ProcAt
<1>24. ASSUME NEW s \in Sessions, ReportError(s) PROVE TasksTypeOK'
  BY <1>24 DEF ReportError, ProcAt
<1>25. ASSUME NEW s \in Sessions, KeepPartial(s) PROVE TasksTypeOK'
  BY <1>25 DEF KeepPartial, ProcAt
<1>26. ASSUME NEW s \in Sessions, PublishPartial(s) PROVE TasksTypeOK'
  BY <1>26 DEF PublishPartial, ProcAt
<1>27. ASSUME NEW s \in Sessions, FailPartial(s) PROVE TasksTypeOK'
  BY <1>27 DEF FailPartial, ProcAt
<1>28. ASSUME NEW s \in Sessions, CleanUp(s) PROVE TasksTypeOK'
  BY <1>28 DEF CleanUp, ProcAt
<1>29. ASSUME NEW t \in Stops, RequestStop(t) PROVE TasksTypeOK'
  BY <1>29 DEF RequestStop
<1>30. ASSUME NEW t \in Stops, TakeRecorder(t) PROVE TasksTypeOK'
  <2>1. RuntimeTypeOK' /\ AnswerTypeOK'
    BY <1>30 DEF TakeRecorder, StopAt
  <2>2. WorldTypeOK'
    BY <1>30 DEF TakeRecorder, StopAt
  <2>3. TaskTypeOK'
    <3>1. UNCHANGED <<start, gen, cancel>>
      BY <1>30 DEF TakeRecorder
    <3>2. stop' \in [Stops -> [at : {"new", "take", "finalize", "quiesce", "spawn", "register",
                                     "done", "error"}, session : MaybeSession]]
      BY <1>30 DEF TakeRecorder, StopAt
    <3>3. job' \in [Sessions -> [audio : MaybeSession, stream : MaybeSession, live : MaybeSession]]
      BY <1>30 DEF TakeRecorder
    <3>4. QED
      BY <3>1, <3>2, <3>3
  <2>4. LiveTypeOK'
    BY <1>30 DEF TakeRecorder, StopAt
  <2>5. ProcTypeOK'
    BY <1>30 DEF TakeRecorder, StopAt
  <2>6. QED
    BY <2>1, <2>2, <2>3, <2>4, <2>5
<1>31. ASSUME NEW t \in Stops, Finalize(t) PROVE TasksTypeOK'
  <2>1. RuntimeTypeOK' /\ AnswerTypeOK'
    BY <1>31 DEF Finalize, StopAt
  <2>2. WorldTypeOK'
    BY <1>31 DEF Finalize, StopAt
  <2>3. TaskTypeOK'
    BY <1>31 DEF Finalize, StopAt
  <2>4. LiveTypeOK'
    BY <1>31 DEF Finalize, StopAt
  <2>5. ProcTypeOK'
    BY <1>31 DEF Finalize, StopAt
  <2>6. QED
    BY <2>1, <2>2, <2>3, <2>4, <2>5
<1>32. ASSUME NEW t \in Stops, Quiesce(t) PROVE TasksTypeOK'
  <2>1. RuntimeTypeOK' /\ AnswerTypeOK'
    BY <1>32 DEF Quiesce, StopAt, Replaced
  <2>2. WorldTypeOK'
    BY <1>32 DEF Quiesce, StopAt
  <2>3. TaskTypeOK'
    BY <1>32 DEF Quiesce, StopAt
  <2>4. LiveTypeOK'
    BY <1>32 DEF Quiesce, StopAt
  <2>5. ProcTypeOK'
    BY <1>32 DEF Quiesce, StopAt
  <2>6. QED
    BY <2>1, <2>2, <2>3, <2>4, <2>5
<1>33. ASSUME NEW t \in Stops, SpawnProcessing(t) PROVE TasksTypeOK'
  <2>1. RuntimeTypeOK' /\ AnswerTypeOK'
    BY <1>33 DEF SpawnProcessing, StopAt
  <2>2. WorldTypeOK'
    BY <1>33 DEF SpawnProcessing, StopAt
  <2>3. TaskTypeOK'
    BY <1>33 DEF SpawnProcessing, StopAt
  <2>4. LiveTypeOK'
    BY <1>33 DEF SpawnProcessing, StopAt
  <2>5. ProcTypeOK'
    BY <1>33 DEF SpawnProcessing, StopAt
  <2>6. QED
    BY <2>1, <2>2, <2>3, <2>4, <2>5
<1>34. ASSUME NEW t \in Stops, Register(t) PROVE TasksTypeOK'
  BY <1>34 DEF Register, StopAt
<1>35. ASSUME NEW c \in Cancellers, RequestCancel(c) PROVE TasksTypeOK'
  BY <1>35 DEF RequestCancel, CancelAt
<1>36. ASSUME NEW c \in Cancellers, AbortProcessing(c) PROVE TasksTypeOK'
  BY <1>36 DEF AbortProcessing, CancelAt
<1>37. ASSUME NEW c \in Cancellers, Sweep(c) PROVE TasksTypeOK'
  BY <1>37 DEF Sweep, CancelAt, Replaced
<1>38. ASSUME NEW s \in TimedSessions, TimerFires(s) PROVE TasksTypeOK'
  BY <1>38 DEF TimerFires, CancelAt
<1>39. ASSUME NEW s \in TimedSessions, TimerCancels(s) PROVE TasksTypeOK'
  BY <1>39 DEF TimerCancels, CancelAt
<1>40. ASSUME NEW s \in TimedSessions, TimerFails(s) PROVE TasksTypeOK'
  BY <1>40 DEF TimerFails, CancelAt
<1>41. CASE WorkerDies
  BY <1>41 DEF WorkerDies
<1>42. CASE UNCHANGED daemon
  BY <1>42 DEF daemon
<1>43. QED
  BY <1>1, <1>2, <1>3, <1>4, <1>5, <1>6, <1>7, <1>8, <1>9, <1>10, <1>11, <1>12, <1>13,
     <1>14, <1>15, <1>16, <1>17, <1>18, <1>19, <1>20, <1>21, <1>22, <1>23, <1>24, <1>25, <1>26,
     <1>27, <1>28, <1>29, <1>30, <1>31, <1>32, <1>33, <1>34, <1>35, <1>36, <1>37, <1>38, <1>39,
     <1>40, <1>41, <1>42
  DEF DaemonNext, StartStep, StreamStep, ProcStep, StopStep, CancelStep, TimerStep

(* The initial state is typed. *)
LEMMA DaemonInitIsTyped == DaemonInit => CoordinatorInv /\ DaemonTypeOK
<1> SUFFICES ASSUME DaemonInit PROVE CoordinatorInv /\ DaemonTypeOK
  OBVIOUS
<1>1. CoordinatorInv
  BY InitEstablishesInv DEF DaemonInit
<1>2. TasksTypeOK
  BY DaemonAssumption, CoordinatorAssumption
  DEF DaemonInit, TasksTypeOK, RuntimeTypeOK, AnswerTypeOK, WorldTypeOK, TaskTypeOK, LiveTypeOK,
      ProcTypeOK, MaybeSession, Cancellers, NoJob, Awaits
<1>3. QED
  BY <1>1, <1>2 DEF CoordinatorInv, DaemonTypeOK, TasksTypeOK

(***************************************************************************)
(* Every variable of the daemon keeps its type, however many sessions and  *)
(* requests there are.                                                     *)
(***************************************************************************)
THEOREM DaemonTypes == DaemonSpec => []DaemonTypeOK
<1>1. DaemonInit => CoordinatorInv /\ DaemonTypeOK
  BY DaemonInitIsTyped
<1>2. CoordinatorInv /\ DaemonTypeOK /\ [DaemonNext]_daemon => (CoordinatorInv /\ DaemonTypeOK)'
  BY DaemonStepIsCoordinatorStep, StepKeepsInv, DaemonStepKeepsTypes
<1>3. QED
  BY <1>1, <1>2, PTL DEF DaemonSpec

-----------------------------------------------------------------------------
(***************************************************************************)
(* The inductive invariant.  A generation belongs to the request it was    *)
(* given to: the session is claimed once, stopped by at most one request,  *)
(* and processed by at most one task, which starts after the stop.         *)
(***************************************************************************)
Claimed(s) == start[s] \notin {"new", "open", "claim", "claimfile"}
Requested(t) == stop[t].at # "new"

BusyClaimed == state.phase \in Busy => state.session \in Sessions /\ Claimed(state.session)

StopsClaimed ==
  \A t \in Stops : Requested(t) => stop[t].session \in Sessions /\ Claimed(stop[t].session)

StoppedOnce ==
  \A t, u \in Stops : Requested(t) /\ Requested(u) /\ t # u => stop[t].session # stop[u].session

NotYetStopped ==
  state.phase = "capturing" =>
    /\ proc[state.session] = "off"
    /\ \A t \in Stops : Requested(t) => stop[t].session # state.session

StopsBeforeProc ==
  \A t \in Stops :
    stop[t].at \in {"take", "finalize", "quiesce", "spawn"} => proc[stop[t].session] = "off"

ProcsClaimed == \A s \in Sessions : proc[s] # "off" => Claimed(s)

Published ==
  \A s \in Sessions :
    proc[s] = "publish" \/ results[s] = "full" => Claimed(s) /\ gen[s] \in redeemed

AnswersComeLast ==
  \A s \in Sessions :
    /\ s \in errors => proc[s] \in {"cleanup", "done"}
    /\ results[s] # "none" => proc[s] \in {"partial", "cleanup", "done"}

DeliveryInv ==
  /\ BusyClaimed /\ StopsClaimed /\ StoppedOnce /\ NotYetStopped /\ StopsBeforeProc
  /\ ProcsClaimed /\ Published /\ AnswersComeLast /\ AnsweredOnce /\ MicOwned


LEMMA StepKeepsDeliveryInv ==
  CoordinatorInv /\ DaemonTypeOK /\ DeliveryInv /\ [DaemonNext]_daemon => DeliveryInv'
<1> SUFFICES ASSUME CoordinatorInv, DaemonTypeOK, DeliveryInv, [DaemonNext]_daemon
             PROVE  DeliveryInv'
  OBVIOUS
<1> USE DaemonAssumption, CoordinatorAssumption
    DEF DeliveryInv, Claimed, Requested, Busy, Startable, Running, Awaits, Cancellers,
        CoordinatorTypeOK, CaptureState, DaemonTypeOK, RuntimeTypeOK, AnswerTypeOK, WorldTypeOK,
        TaskTypeOK, LiveTypeOK, ProcTypeOK, MaybeSession, coordinator,
        runtimeVars, answerVars, worldVars, taskVars, liveVars, procVars
<1>1. ASSUME NEW s \in Sessions, Admit(s) PROVE DeliveryInv'
  BY <1>1 DEF Admit, StartAt, BusyClaimed, StopsClaimed, StoppedOnce, NotYetStopped,
     StopsBeforeProc, ProcsClaimed, Published, AnswersComeLast, AnsweredOnce, MicOwned
<1>2. ASSUME NEW s \in Sessions, OpenRecorder(s) PROVE DeliveryInv'
  <2>1. BusyClaimed'
    BY <1>2 DEF BusyClaimed, OpenRecorder, StartAt
  <2>2. StopsClaimed'
    BY <1>2 DEF StopsClaimed, OpenRecorder, StartAt
  <2>3. StoppedOnce'
    BY <1>2 DEF StoppedOnce, OpenRecorder, StartAt
  <2>4. NotYetStopped'
    BY <1>2 DEF NotYetStopped, OpenRecorder, StartAt
  <2>5. StopsBeforeProc'
    BY <1>2 DEF StopsBeforeProc, OpenRecorder, StartAt
  <2>6. ProcsClaimed'
    BY <1>2 DEF ProcsClaimed, OpenRecorder, StartAt
  <2>7. Published'
    BY <1>2 DEF Published, OpenRecorder, StartAt
  <2>8. AnswersComeLast'
    BY <1>2 DEF AnswersComeLast, OpenRecorder, StartAt
  <2>9. AnsweredOnce'
    BY <1>2 DEF AnsweredOnce, OpenRecorder, StartAt
  <2>10. MicOwned'
    BY <1>2 DEF MicOwned, OpenRecorder, StartAt
  <2>11. QED
    BY <2>1, <2>2, <2>3, <2>4, <2>5, <2>6, <2>7, <2>8, <2>9, <2>10
<1>3. ASSUME NEW s \in Sessions, Claim(s) PROVE DeliveryInv'
  BY <1>3 DEF Claim, StartAt, StartSession, BusyClaimed, StopsClaimed, StoppedOnce,
     NotYetStopped, StopsBeforeProc, ProcsClaimed, Published, AnswersComeLast, AnsweredOnce,
     MicOwned
<1>4. ASSUME NEW s \in Sessions, Publish(s) PROVE DeliveryInv'
  BY <1>4 DEF Publish, StartAt, BusyClaimed, StopsClaimed, StoppedOnce, NotYetStopped,
     StopsBeforeProc, ProcsClaimed, Published, AnswersComeLast, AnsweredOnce, MicOwned
<1>5. ASSUME NEW s \in Sessions, StartStream(s) PROVE DeliveryInv'
  BY <1>5 DEF StartStream, StartAt, BusyClaimed, StopsClaimed, StoppedOnce, NotYetStopped,
     StopsBeforeProc, ProcsClaimed, Published, AnswersComeLast, AnsweredOnce, MicOwned
<1>6. ASSUME NEW s \in Sessions, Attach(s) PROVE DeliveryInv'
  BY <1>6 DEF Attach, StartAt, BusyClaimed, StopsClaimed, StoppedOnce, NotYetStopped,
     StopsBeforeProc, ProcsClaimed, Published, AnswersComeLast, AnsweredOnce, MicOwned
<1>7. ASSUME NEW s \in Sessions, Abandon(s) PROVE DeliveryInv'
  BY <1>7 DEF Abandon, StartAt, BusyClaimed, StopsClaimed, StoppedOnce, NotYetStopped,
     StopsBeforeProc, ProcsClaimed, Published, AnswersComeLast, AnsweredOnce, MicOwned
<1>8. ASSUME NEW s \in Sessions, GiveUp(s) PROVE DeliveryInv'
  BY <1>8 DEF GiveUp, StartAt, Fail, BusyClaimed, StopsClaimed, StoppedOnce, NotYetStopped,
     StopsBeforeProc, ProcsClaimed, Published, AnswersComeLast, AnsweredOnce, MicOwned
<1>9. ASSUME NEW s \in Sessions, StageFile(s) PROVE DeliveryInv'
  BY <1>9 DEF StageFile, StartAt, BusyClaimed, StopsClaimed, StoppedOnce, NotYetStopped,
     StopsBeforeProc, ProcsClaimed, Published, AnswersComeLast, AnsweredOnce, MicOwned
<1>10. ASSUME NEW s \in Sessions, ClaimFile(s) PROVE DeliveryInv'
  <2>1. BusyClaimed'
    BY <1>10 DEF BusyClaimed, ClaimFile, StartAt, StartStopped
  <2>2. StopsClaimed'
    BY <1>10 DEF StopsClaimed, ClaimFile, StartAt, StartStopped
  <2>3. StoppedOnce'
    BY <1>10 DEF StoppedOnce, ClaimFile, StartAt, StartStopped
  <2>4. NotYetStopped'
    BY <1>10 DEF NotYetStopped, ClaimFile, StartAt, StartStopped
  <2>5. StopsBeforeProc'
    BY <1>10 DEF StopsBeforeProc, StopsClaimed, ClaimFile, StartAt, StartStopped
  <2>6. ProcsClaimed'
    BY <1>10 DEF ProcsClaimed, ClaimFile, StartAt, StartStopped
  <2>7. Published'
    BY <1>10 DEF Published, ClaimFile, StartAt, StartStopped
  <2>8. AnswersComeLast'
    BY <1>10, SMTT(30) DEF AnswersComeLast, ProcsClaimed, ClaimFile, StartAt, StartStopped
  <2>9. AnsweredOnce'
    BY <1>10 DEF AnsweredOnce, ClaimFile, StartAt, StartStopped
  <2>10. MicOwned'
    <3> SUFFICES ASSUME NEW r \in mic
                 PROVE  \/ recorder = r
                        \/ start'[r] \in {"claim", "publish"}
                        \/ \E t \in Stops : stop[t].at = "finalize" /\ job'[stop[t].session].audio = r
      BY <1>10 DEF MicOwned, ClaimFile
    <3>1. \A q \in Sessions : start[q] \in {"claim", "publish"} => start'[q] = start[q]
      BY <1>10 DEF ClaimFile, StartAt
    <3>2. ASSUME NEW t \in Stops, stop[t].at = "finalize"
          PROVE  job'[stop[t].session] = job[stop[t].session]
      <4>1. stop[t].session \in Sessions /\ stop[t].session # s
        BY <1>10, <3>2 DEF ClaimFile, StartAt, StopsClaimed
      <4>2. QED
        BY <1>10, <4>1 DEF ClaimFile
    <3>3. recorder' = recorder /\ stop' = stop
      BY <1>10 DEF ClaimFile
    <3>4. \/ recorder = r
          \/ start[r] \in {"claim", "publish"}
          \/ \E t \in Stops : stop[t].at = "finalize" /\ job[stop[t].session].audio = r
      BY DEF MicOwned
    <3>5. r \in Sessions
      OBVIOUS
    <3>6. QED
      BY <3>1, <3>2, <3>3, <3>4, <3>5
  <2>11. QED
    BY <2>1, <2>2, <2>3, <2>4, <2>5, <2>6, <2>7, <2>8, <2>9, <2>10
<1>11. ASSUME NEW s \in Sessions, AnswerFile(s) PROVE DeliveryInv'
  BY <1>11 DEF AnswerFile, StartAt, BusyClaimed, StopsClaimed, StoppedOnce, NotYetStopped,
     StopsBeforeProc, ProcsClaimed, Published, AnswersComeLast, AnsweredOnce, MicOwned
<1>12. ASSUME NEW s \in Sessions, Batch(s) PROVE DeliveryInv'
  BY <1>12 DEF Batch, StreamAt, BusyClaimed, StopsClaimed, StoppedOnce, NotYetStopped,
     StopsBeforeProc, ProcsClaimed, Published, AnswersComeLast, AnsweredOnce, MicOwned
<1>13. ASSUME NEW s \in Sessions, StreamBreaks(s) PROVE DeliveryInv'
  BY <1>13 DEF StreamBreaks, StreamAt, BusyClaimed, StopsClaimed, StoppedOnce, NotYetStopped,
     StopsBeforeProc, ProcsClaimed, Published, AnswersComeLast, AnsweredOnce, MicOwned
<1>14. ASSUME NEW s \in Sessions, PressDelta(s) PROVE DeliveryInv'
  BY <1>14 DEF PressDelta, StreamAt, BusyClaimed, StopsClaimed, StoppedOnce, NotYetStopped,
     StopsBeforeProc, ProcsClaimed, Published, AnswersComeLast, AnsweredOnce, MicOwned
<1>15. ASSUME NEW s \in Sessions, CountDelta(s) PROVE DeliveryInv'
  BY <1>15 DEF CountDelta, StreamAt, BusyClaimed, StopsClaimed, StoppedOnce, NotYetStopped,
     StopsBeforeProc, ProcsClaimed, Published, AnswersComeLast, AnsweredOnce, MicOwned
<1>16. ASSUME NEW s \in Sessions, Infer(s) PROVE DeliveryInv'
  <2>0. /\ proc[s] # "off" /\ proc'[s] # "off"
        /\ \A r \in Sessions : r # s => proc'[r] = proc[r]
    BY <1>16 DEF Infer, ProcAt
  <2>1. BusyClaimed'
    BY <1>16, <2>0 DEF BusyClaimed, Infer, ProcAt
  <2>2. StopsClaimed'
    BY <1>16, <2>0 DEF StopsClaimed, Infer, ProcAt
  <2>3. StoppedOnce'
    BY <1>16, <2>0 DEF StoppedOnce, Infer, ProcAt
  <2>4. NotYetStopped'
    <3>1. state' = state /\ stop' = stop
      BY <1>16 DEF Infer
    <3>2. state.phase = "capturing" => state.session # s
      BY <2>0 DEF NotYetStopped
    <3>3. QED
      BY <2>0, <3>1, <3>2 DEF NotYetStopped, BusyClaimed
  <2>5. StopsBeforeProc'
    BY <1>16, <2>0 DEF StopsBeforeProc, StopsClaimed, Infer
  <2>6. ProcsClaimed'
    BY <1>16, <2>0 DEF ProcsClaimed, Infer, ProcAt
  <2>7. Published'
    BY <1>16, <2>0 DEF Published, Infer, ProcAt
  <2>8. AnswersComeLast'
    BY <1>16, <2>0 DEF AnswersComeLast, Infer, ProcAt
  <2>9. AnsweredOnce'
    BY <1>16, <2>0 DEF AnsweredOnce, Infer, ProcAt
  <2>10. MicOwned'
    BY <1>16, <2>0 DEF MicOwned, Infer, ProcAt
  <2>11. QED
    BY <2>1, <2>2, <2>3, <2>4, <2>5, <2>6, <2>7, <2>8, <2>9, <2>10
<1>17. ASSUME NEW s \in Sessions, PressSuffix(s) PROVE DeliveryInv'
  <2>0. /\ proc[s] # "off" /\ proc'[s] # "off"
        /\ \A r \in Sessions : r # s => proc'[r] = proc[r]
    BY <1>17 DEF PressSuffix, ProcAt
  <2>1. BusyClaimed'
    BY <1>17, <2>0 DEF BusyClaimed, PressSuffix, ProcAt
  <2>2. StopsClaimed'
    BY <1>17, <2>0 DEF StopsClaimed, PressSuffix, ProcAt
  <2>3. StoppedOnce'
    BY <1>17, <2>0 DEF StoppedOnce, PressSuffix, ProcAt
  <2>4. NotYetStopped'
    <3>1. state' = state /\ stop' = stop
      BY <1>17 DEF PressSuffix
    <3>2. state.phase = "capturing" => state.session # s
      BY <2>0 DEF NotYetStopped
    <3>3. QED
      BY <2>0, <3>1, <3>2 DEF NotYetStopped, BusyClaimed
  <2>5. StopsBeforeProc'
    BY <1>17, <2>0 DEF StopsBeforeProc, StopsClaimed, PressSuffix
  <2>6. ProcsClaimed'
    BY <1>17, <2>0 DEF ProcsClaimed, PressSuffix, ProcAt
  <2>7. Published'
    BY <1>17, <2>0 DEF Published, PressSuffix, ProcAt
  <2>8. AnswersComeLast'
    BY <1>17, <2>0 DEF AnswersComeLast, PressSuffix, ProcAt
  <2>9. AnsweredOnce'
    BY <1>17, <2>0 DEF AnsweredOnce, PressSuffix, ProcAt
  <2>10. MicOwned'
    BY <1>17, <2>0 DEF MicOwned, PressSuffix, ProcAt
  <2>11. QED
    BY <2>1, <2>2, <2>3, <2>4, <2>5, <2>6, <2>7, <2>8, <2>9, <2>10
<1>18. ASSUME NEW s \in Sessions, CountSuffix(s) PROVE DeliveryInv'
  <2>0. /\ proc[s] # "off" /\ proc'[s] # "off"
        /\ \A r \in Sessions : r # s => proc'[r] = proc[r]
    BY <1>18 DEF CountSuffix, ProcAt
  <2>1. BusyClaimed'
    BY <1>18, <2>0 DEF BusyClaimed, CountSuffix, ProcAt
  <2>2. StopsClaimed'
    BY <1>18, <2>0 DEF StopsClaimed, CountSuffix, ProcAt
  <2>3. StoppedOnce'
    BY <1>18, <2>0 DEF StoppedOnce, CountSuffix, ProcAt
  <2>4. NotYetStopped'
    <3>1. state' = state /\ stop' = stop
      BY <1>18 DEF CountSuffix
    <3>2. state.phase = "capturing" => state.session # s
      BY <2>0 DEF NotYetStopped
    <3>3. QED
      BY <2>0, <3>1, <3>2 DEF NotYetStopped, BusyClaimed
  <2>5. StopsBeforeProc'
    BY <1>18, <2>0 DEF StopsBeforeProc, StopsClaimed, CountSuffix
  <2>6. ProcsClaimed'
    BY <1>18, <2>0 DEF ProcsClaimed, CountSuffix, ProcAt
  <2>7. Published'
    BY <1>18, <2>0 DEF Published, CountSuffix, ProcAt
  <2>8. AnswersComeLast'
    BY <1>18, <2>0 DEF AnswersComeLast, CountSuffix, ProcAt
  <2>9. AnsweredOnce'
    BY <1>18, <2>0 DEF AnsweredOnce, CountSuffix, ProcAt
  <2>10. MicOwned'
    BY <1>18, <2>0 DEF MicOwned, CountSuffix, ProcAt
  <2>11. QED
    BY <2>1, <2>2, <2>3, <2>4, <2>5, <2>6, <2>7, <2>8, <2>9, <2>10
<1>19. ASSUME NEW s \in Sessions, Begin(s) PROVE DeliveryInv'
  <2>0. /\ proc[s] # "off" /\ proc'[s] # "off"
        /\ \A r \in Sessions : r # s => proc'[r] = proc[r]
    BY <1>19 DEF Begin, ProcAt
  <2>1. BusyClaimed'
    <3>1. start' = start /\ state'.session = state.session
      BY <1>19 DEF Begin, BeginProcessing
    <3>2. state'.phase \in Busy => state.phase \in Busy
      BY <1>19 DEF Begin, BeginProcessing
    <3>3. QED
      BY <3>1, <3>2 DEF BusyClaimed
  <2>2. StopsClaimed'
    BY <1>19, <2>0 DEF StopsClaimed, Begin, ProcAt, BeginProcessing
  <2>3. StoppedOnce'
    BY <1>19, <2>0 DEF StoppedOnce, Begin, ProcAt, BeginProcessing
  <2>4. NotYetStopped'
    <3> SUFFICES ASSUME state'.phase = "capturing"
                 PROVE  /\ proc'[state'.session] = "off"
                        /\ \A t \in Stops : Requested(t)' => stop'[t].session # state'.session
      BY DEF NotYetStopped
    <3>1. state' = state /\ stop' = stop
      BY <1>19 DEF Begin, BeginProcessing
    <3>2. state.session # s
      BY <2>0, <3>1 DEF NotYetStopped
    <3>3. QED
      BY <2>0, <3>1, <3>2 DEF NotYetStopped, BusyClaimed
  <2>5. StopsBeforeProc'
    BY <1>19, <2>0 DEF StopsBeforeProc, StopsClaimed, Begin
  <2>6. ProcsClaimed'
    BY <1>19, <2>0 DEF ProcsClaimed, Begin, ProcAt, BeginProcessing
  <2>7. Published'
    BY <1>19, <2>0 DEF Published, Begin, ProcAt, BeginProcessing
  <2>8. AnswersComeLast'
    BY <1>19, <2>0 DEF AnswersComeLast, Begin, ProcAt, BeginProcessing
  <2>9. AnsweredOnce'
    BY <1>19, <2>0 DEF AnsweredOnce, Begin, ProcAt, BeginProcessing
  <2>10. MicOwned'
    BY <1>19, <2>0 DEF MicOwned, Begin, ProcAt, BeginProcessing
  <2>11. QED
    BY <2>1, <2>2, <2>3, <2>4, <2>5, <2>6, <2>7, <2>8, <2>9, <2>10
<1>20. ASSUME NEW s \in Sessions, Deliver(s) PROVE DeliveryInv'
  <2>0. /\ proc[s] # "off" /\ proc'[s] # "off"
        /\ \A r \in Sessions : r # s => proc'[r] = proc[r]
    BY <1>20 DEF Deliver, ProcAt
  <2>1. BusyClaimed'
    BY <1>20, <2>0 DEF BusyClaimed, Deliver, ProcAt, BeginDelivery
  <2>2. StopsClaimed'
    BY <1>20, <2>0 DEF StopsClaimed, Deliver, ProcAt, BeginDelivery
  <2>3. StoppedOnce'
    BY <1>20, <2>0 DEF StoppedOnce, Deliver, ProcAt, BeginDelivery
  <2>4. NotYetStopped'
    <3> SUFFICES ASSUME state'.phase = "capturing"
                 PROVE  /\ proc'[state'.session] = "off"
                        /\ \A t \in Stops : Requested(t)' => stop'[t].session # state'.session
      BY DEF NotYetStopped
    <3>1. state' = state /\ stop' = stop
      BY <1>20 DEF Deliver, BeginDelivery
    <3>2. state.session # s
      BY <2>0, <3>1 DEF NotYetStopped
    <3>3. QED
      BY <2>0, <3>1, <3>2 DEF NotYetStopped, BusyClaimed
  <2>5. StopsBeforeProc'
    BY <1>20, <2>0 DEF StopsBeforeProc, StopsClaimed, Deliver
  <2>6. ProcsClaimed'
    BY <1>20, <2>0 DEF ProcsClaimed, Deliver, ProcAt, BeginDelivery
  <2>7. Published'
    BY <1>20, <2>0 DEF Published, Deliver, ProcAt, BeginDelivery
  <2>8. AnswersComeLast'
    BY <1>20, <2>0 DEF AnswersComeLast, Deliver, ProcAt, BeginDelivery
  <2>9. AnsweredOnce'
    BY <1>20, <2>0 DEF AnsweredOnce, Deliver, ProcAt, BeginDelivery
  <2>10. MicOwned'
    BY <1>20, <2>0 DEF MicOwned, Deliver, ProcAt, BeginDelivery
  <2>11. QED
    BY <2>1, <2>2, <2>3, <2>4, <2>5, <2>6, <2>7, <2>8, <2>9, <2>10
<1>21. ASSUME NEW s \in Sessions, Copied(s) PROVE DeliveryInv'
  BY <1>21 DEF Copied, ProcAt, BusyClaimed, StopsClaimed, StoppedOnce, NotYetStopped,
     StopsBeforeProc, ProcsClaimed, Published, AnswersComeLast, AnsweredOnce, MicOwned
<1>22. ASSUME NEW s \in Sessions, Finish(s) PROVE DeliveryInv'
  <2>0. /\ proc[s] # "off" /\ proc'[s] # "off"
        /\ \A r \in Sessions : r # s => proc'[r] = proc[r]
    BY <1>22 DEF Finish, ProcAt
  <2>1. BusyClaimed'
    BY <1>22, <2>0 DEF BusyClaimed, Finish, ProcAt, IsCurrent, Complete, Idle
  <2>2. StopsClaimed'
    BY <1>22, <2>0 DEF StopsClaimed, Finish, ProcAt, IsCurrent, Complete, Idle
  <2>3. StoppedOnce'
    BY <1>22, <2>0 DEF StoppedOnce, Finish, ProcAt, IsCurrent, Complete, Idle
  <2>4. NotYetStopped'
    <3> SUFFICES ASSUME state'.phase = "capturing"
                 PROVE  /\ proc'[state'.session] = "off"
                        /\ \A t \in Stops : Requested(t)' => stop'[t].session # state'.session
      BY DEF NotYetStopped
    <3>1. state' = state /\ stop' = stop
      BY <1>22 DEF Finish, Complete, Idle
    <3>2. state.session # s
      BY <2>0, <3>1 DEF NotYetStopped
    <3>3. QED
      BY <2>0, <3>1, <3>2 DEF NotYetStopped, BusyClaimed
  <2>5. StopsBeforeProc'
    BY <1>22, <2>0 DEF StopsBeforeProc, StopsClaimed, Finish
  <2>6. ProcsClaimed'
    BY <1>22, <2>0 DEF ProcsClaimed, Finish, ProcAt, IsCurrent, Complete, Idle
  <2>7. Published'
    <3>1. /\ start' = start /\ gen' = gen /\ results' = results
          /\ redeemed \subseteq redeemed'
      BY <1>22 DEF Finish, Complete
    <3>2. proc'[s] = "publish" => gen[s] \in redeemed'
      BY <1>22 DEF Finish, ProcAt, Complete
    <3>3. Claimed(s)
      BY <2>0 DEF ProcsClaimed
    <3>4. QED
      BY <2>0, <3>1, <3>2, <3>3 DEF Published
  <2>8. AnswersComeLast'
    BY <1>22, <2>0 DEF AnswersComeLast, Finish, ProcAt, IsCurrent, Complete, Idle
  <2>9. AnsweredOnce'
    BY <1>22, <2>0 DEF AnsweredOnce, Finish, ProcAt, IsCurrent, Complete, Idle
  <2>10. MicOwned'
    BY <1>22, <2>0 DEF MicOwned, Finish, ProcAt, IsCurrent, Complete, Idle
  <2>11. QED
    BY <2>1, <2>2, <2>3, <2>4, <2>5, <2>6, <2>7, <2>8, <2>9, <2>10
<1>23. ASSUME NEW s \in Sessions, PublishResult(s) PROVE DeliveryInv'
  BY <1>23 DEF PublishResult, ProcAt, BusyClaimed, StopsClaimed, StoppedOnce, NotYetStopped,
     StopsBeforeProc, ProcsClaimed, Published, AnswersComeLast, AnsweredOnce, MicOwned
<1>24. ASSUME NEW s \in Sessions, ReportError(s) PROVE DeliveryInv'
  BY <1>24 DEF ReportError, ProcAt, Fail, BusyClaimed, StopsClaimed, StoppedOnce, NotYetStopped,
     StopsBeforeProc, ProcsClaimed, Published, AnswersComeLast, AnsweredOnce, MicOwned
<1>25. ASSUME NEW s \in Sessions, KeepPartial(s) PROVE DeliveryInv'
  BY <1>25 DEF KeepPartial, ProcAt, BusyClaimed, StopsClaimed, StoppedOnce, NotYetStopped,
     StopsBeforeProc, ProcsClaimed, Published, AnswersComeLast, AnsweredOnce, MicOwned
<1>26. ASSUME NEW s \in Sessions, PublishPartial(s) PROVE DeliveryInv'
  BY <1>26, SMTT(30) DEF PublishPartial, ProcAt, BusyClaimed, StopsClaimed, StoppedOnce, NotYetStopped,
     StopsBeforeProc, ProcsClaimed, Published, AnswersComeLast, AnsweredOnce, MicOwned
<1>27. ASSUME NEW s \in Sessions, FailPartial(s) PROVE DeliveryInv'
  BY <1>27 DEF FailPartial, ProcAt, Fail, BusyClaimed, StopsClaimed, StoppedOnce, NotYetStopped,
     StopsBeforeProc, ProcsClaimed, Published, AnswersComeLast, AnsweredOnce, MicOwned
<1>28. ASSUME NEW s \in Sessions, CleanUp(s) PROVE DeliveryInv'
  BY <1>28 DEF CleanUp, ProcAt, BusyClaimed, StopsClaimed, StoppedOnce, NotYetStopped,
     StopsBeforeProc, ProcsClaimed, Published, AnswersComeLast, AnsweredOnce, MicOwned
<1>29. ASSUME NEW t \in Stops, RequestStop(t) PROVE DeliveryInv'
  BY <1>29 DEF RequestStop, StopCapture, BusyClaimed, StopsClaimed, StoppedOnce, NotYetStopped,
     StopsBeforeProc, ProcsClaimed, Published, AnswersComeLast, AnsweredOnce, MicOwned
<1>30. ASSUME NEW t \in Stops, TakeRecorder(t) PROVE DeliveryInv'
  <2>0. /\ Requested(t) /\ stop[t].session \in Sessions
        /\ stop'[t].session = stop[t].session /\ stop'[t].at # "new" /\ stop[t].at # "new"
        /\ \A u \in Stops : u # t => stop'[u] = stop[u]
    BY <1>30 DEF TakeRecorder, StopAt, StopsClaimed
  <2>1. BusyClaimed'
    BY <1>30, <2>0 DEF BusyClaimed, TakeRecorder, StopAt
  <2>2. StopsClaimed'
    BY <1>30, <2>0 DEF StopsClaimed, TakeRecorder, StopAt
  <2>3. StoppedOnce'
    BY <1>30, <2>0 DEF StoppedOnce, TakeRecorder, StopAt
  <2>4. NotYetStopped'
    BY <1>30, <2>0 DEF NotYetStopped, TakeRecorder, StopAt
  <2>5. StopsBeforeProc'
    BY <1>30, <2>0 DEF StopsBeforeProc, TakeRecorder, StopAt
  <2>6. ProcsClaimed'
    BY <1>30, <2>0 DEF ProcsClaimed, TakeRecorder, StopAt
  <2>7. Published'
    BY <1>30, <2>0 DEF Published, TakeRecorder, StopAt
  <2>8. AnswersComeLast'
    BY <1>30, <2>0 DEF AnswersComeLast, TakeRecorder, StopAt
  <2>9. AnsweredOnce'
    BY <1>30, <2>0 DEF AnsweredOnce, TakeRecorder, StopAt
  <2>10. MicOwned'
    <3> DEFINE Owned(r) == \/ recorder' = r
                           \/ start'[r] \in {"claim", "publish"}
                           \/ \E u \in Stops : stop'[u].at = "finalize" /\ job'[stop'[u].session].audio = r
    <3> SUFFICES ASSUME NEW r \in mic PROVE Owned(r)
      BY <1>30 DEF MicOwned, TakeRecorder
    <3>1. CASE recorder = r
      <4>1. stop'[t].at = "finalize"
        BY <1>30, <3>1 DEF TakeRecorder, StopAt
      <4>2. job'[stop[t].session].audio = recorder
        BY <1>30, <2>0, <3>1 DEF TakeRecorder
      <4>3. QED
        BY <2>0, <3>1, <4>1, <4>2
    <3>2. CASE start[r] \in {"claim", "publish"}
      BY <1>30, <3>2 DEF TakeRecorder
    <3>3. ASSUME NEW u \in Stops, stop[u].at = "finalize", job[stop[u].session].audio = r
          PROVE  Owned(r)
      <4>1. u # t
        BY <1>30, <3>3 DEF TakeRecorder, StopAt
      <4>2. stop[u].session # stop[t].session
        BY <2>0, <3>3, <4>1 DEF StoppedOnce
      <4>3. job'[stop[u].session] = job[stop[u].session]
        <5>1. stop[u].session \in Sessions
          BY <3>3 DEF StopsClaimed
        <5>2. \/ job' = job
              \/ job' = [job EXCEPT ![stop[t].session] =
                           [audio |-> recorder, stream |-> streamTask, live |-> live]]
          BY <1>30 DEF TakeRecorder
        <5>3. QED
          BY <4>2, <5>1, <5>2
      <4>4. QED
        BY <2>0, <3>3, <4>1, <4>3
    <3>4. QED
      BY <3>1, <3>2, <3>3 DEF MicOwned
  <2>11. QED
    BY <2>1, <2>2, <2>3, <2>4, <2>5, <2>6, <2>7, <2>8, <2>9, <2>10
<1>31. ASSUME NEW t \in Stops, Finalize(t) PROVE DeliveryInv'
  <2>0. /\ Requested(t) /\ stop[t].session \in Sessions
        /\ stop'[t].session = stop[t].session /\ stop'[t].at # "new" /\ stop[t].at # "new"
        /\ \A u \in Stops : u # t => stop'[u] = stop[u]
    BY <1>31 DEF Finalize, StopAt, StopsClaimed
  <2>1. BusyClaimed'
    BY <1>31, <2>0 DEF BusyClaimed, Finalize, StopAt
  <2>2. StopsClaimed'
    BY <1>31, <2>0 DEF StopsClaimed, Finalize
  <2>3. StoppedOnce'
    BY <1>31, <2>0, SMTT(30) DEF StoppedOnce, Finalize, StopAt
  <2>4. NotYetStopped'
    BY <1>31, <2>0 DEF NotYetStopped, Finalize, StopAt
  <2>5. StopsBeforeProc'
    BY <1>31, <2>0 DEF StopsBeforeProc, Finalize, StopAt
  <2>6. ProcsClaimed'
    BY <1>31, <2>0 DEF ProcsClaimed, Finalize, StopAt
  <2>7. Published'
    BY <1>31, <2>0 DEF Published, Finalize, StopAt
  <2>8. AnswersComeLast'
    BY <1>31, <2>0 DEF AnswersComeLast, Finalize, StopAt
  <2>9. AnsweredOnce'
    BY <1>31, <2>0 DEF AnsweredOnce, Finalize, StopAt
  <2>10. MicOwned'
    <3>1. /\ recorder' = recorder /\ start' = start /\ job' = job
          /\ mic' = mic \ {job[stop[t].session].audio}
      BY <1>31 DEF Finalize, StopAt
    <3>2. ASSUME NEW r \in mic', NEW u \in Stops, stop[u].at = "finalize", job[stop[u].session].audio = r
          PROVE  stop'[u] = stop[u]
      BY <2>0, <3>1, <3>2
    <3>3. QED
      BY <3>1, <3>2 DEF MicOwned
  <2>11. QED
    BY <2>1, <2>2, <2>3, <2>4, <2>5, <2>6, <2>7, <2>8, <2>9, <2>10
<1>32. ASSUME NEW t \in Stops, Quiesce(t) PROVE DeliveryInv'
  <2>0. /\ Requested(t) /\ stop[t].session \in Sessions
        /\ stop'[t].session = stop[t].session /\ stop'[t].at # "new" /\ stop[t].at # "new"
        /\ \A u \in Stops : u # t => stop'[u] = stop[u]
    BY <1>32 DEF Quiesce, StopAt, StopsClaimed
  <2>1. BusyClaimed'
    BY <1>32, <2>0 DEF BusyClaimed, Quiesce, StopAt
  <2>2. StopsClaimed'
    BY <1>32, <2>0 DEF StopsClaimed, Quiesce
  <2>3. StoppedOnce'
    BY <1>32, <2>0 DEF StoppedOnce, Quiesce
  <2>4. NotYetStopped'
    BY <1>32, <2>0 DEF NotYetStopped, Quiesce, StopAt
  <2>5. StopsBeforeProc'
    BY <1>32, <2>0 DEF StopsBeforeProc, Quiesce, StopAt
  <2>6. ProcsClaimed'
    BY <1>32, <2>0 DEF ProcsClaimed, Quiesce, StopAt
  <2>7. Published'
    BY <1>32, <2>0 DEF Published, Quiesce, StopAt
  <2>8. AnswersComeLast'
    BY <1>32, <2>0 DEF AnswersComeLast, Quiesce, StopAt
  <2>9. AnsweredOnce'
    BY <1>32, <2>0 DEF AnsweredOnce, Quiesce, StopAt
  <2>10. MicOwned'
    <3>1. /\ recorder' = recorder /\ start' = start /\ job' = job
          /\ mic' = mic /\ stop[t].at # "finalize"
      BY <1>32 DEF Quiesce, StopAt
    <3>2. ASSUME NEW r \in mic', NEW u \in Stops, stop[u].at = "finalize", job[stop[u].session].audio = r
          PROVE  stop'[u] = stop[u]
      BY <2>0, <3>1, <3>2
    <3>3. QED
      BY <3>1, <3>2 DEF MicOwned
  <2>11. QED
    BY <2>1, <2>2, <2>3, <2>4, <2>5, <2>6, <2>7, <2>8, <2>9, <2>10
<1>33. ASSUME NEW t \in Stops, SpawnProcessing(t) PROVE DeliveryInv'
  <2>0. /\ Requested(t) /\ stop[t].session \in Sessions
        /\ stop'[t].session = stop[t].session /\ stop'[t].at # "new" /\ stop[t].at # "new"
        /\ \A u \in Stops : u # t => stop'[u] = stop[u]
    BY <1>33 DEF SpawnProcessing, StopAt, StopsClaimed
  <2>1. BusyClaimed'
    BY <1>33, <2>0 DEF BusyClaimed, SpawnProcessing, StopAt
  <2>2. StopsClaimed'
    BY <1>33, <2>0 DEF StopsClaimed, SpawnProcessing, StopAt
  <2>3. StoppedOnce'
    BY <1>33, <2>0 DEF StoppedOnce, SpawnProcessing, StopAt
  <2>4. NotYetStopped'
    BY <1>33, <2>0 DEF NotYetStopped, SpawnProcessing, StopAt
  <2>5. StopsBeforeProc'
    <3>1. stop'[t].at = "register"
      BY <1>33 DEF SpawnProcessing, StopAt
    <3>2. ASSUME NEW u \in Stops, u # t, Requested(u)
          PROVE  proc'[stop[u].session] = proc[stop[u].session]
      BY <1>33, <2>0, <3>2 DEF SpawnProcessing, StoppedOnce
    <3>3. QED
      BY <2>0, <3>1, <3>2 DEF StopsBeforeProc
  <2>6. ProcsClaimed'
    BY <1>33, <2>0 DEF ProcsClaimed, StopsClaimed, SpawnProcessing
  <2>7. Published'
    BY <1>33, <2>0 DEF Published, SpawnProcessing, StopAt
  <2>8. AnswersComeLast'
    <3>1. proc[stop[t].session] = "off" /\ errors' = errors /\ results' = results
      BY <1>33 DEF SpawnProcessing, StopAt, StopsBeforeProc
    <3>2. \A r \in Sessions : r # stop[t].session => proc'[r] = proc[r]
      BY <1>33 DEF SpawnProcessing
    <3>3. QED
      BY <2>0, <3>1, <3>2 DEF AnswersComeLast
  <2>9. AnsweredOnce'
    BY <1>33, <2>0 DEF AnsweredOnce, SpawnProcessing, StopAt
  <2>10. MicOwned'
    BY <1>33, <2>0 DEF MicOwned, SpawnProcessing, StopAt
  <2>11. QED
    BY <2>1, <2>2, <2>3, <2>4, <2>5, <2>6, <2>7, <2>8, <2>9, <2>10
<1>34. ASSUME NEW t \in Stops, Register(t) PROVE DeliveryInv'
  BY <1>34 DEF Register, StopAt, BusyClaimed, StopsClaimed, StoppedOnce, NotYetStopped,
     StopsBeforeProc, ProcsClaimed, Published, AnswersComeLast, AnsweredOnce, MicOwned
<1>35. ASSUME NEW c \in Cancellers, RequestCancel(c) PROVE DeliveryInv'
  BY <1>35 DEF RequestCancel, CancelAt, Cancel, Idle, BusyClaimed, StopsClaimed, StoppedOnce,
     NotYetStopped, StopsBeforeProc, ProcsClaimed, Published, AnswersComeLast, AnsweredOnce,
     MicOwned
<1>36. ASSUME NEW c \in Cancellers, AbortProcessing(c) PROVE DeliveryInv'
  BY <1>36 DEF AbortProcessing, CancelAt, BusyClaimed, StopsClaimed, StoppedOnce, NotYetStopped,
     StopsBeforeProc, ProcsClaimed, Published, AnswersComeLast, AnsweredOnce, MicOwned
<1>37. ASSUME NEW c \in Cancellers, Sweep(c) PROVE DeliveryInv'
  BY <1>37 DEF Sweep, CancelAt, BusyClaimed, StopsClaimed, StoppedOnce, NotYetStopped,
     StopsBeforeProc, ProcsClaimed, Published, AnswersComeLast, AnsweredOnce, MicOwned
<1>38. ASSUME NEW s \in TimedSessions, TimerFires(s) PROVE DeliveryInv'
  BY <1>38 DEF TimerFires, CancelAt, BusyClaimed, StopsClaimed, StoppedOnce, NotYetStopped,
     StopsBeforeProc, ProcsClaimed, Published, AnswersComeLast, AnsweredOnce, MicOwned
<1>39. ASSUME NEW s \in TimedSessions, TimerCancels(s) PROVE DeliveryInv'
  BY <1>39 DEF TimerCancels, CancelAt, Cancel, Idle, BusyClaimed, StopsClaimed, StoppedOnce,
     NotYetStopped, StopsBeforeProc, ProcsClaimed, Published, AnswersComeLast, AnsweredOnce,
     MicOwned
<1>40. ASSUME NEW s \in TimedSessions, TimerFails(s) PROVE DeliveryInv'
  BY <1>40 DEF TimerFails, CancelAt, Fail, BusyClaimed, StopsClaimed, StoppedOnce,
     NotYetStopped, StopsBeforeProc, ProcsClaimed, Published, AnswersComeLast, AnsweredOnce,
     MicOwned
<1>41. CASE WorkerDies
  BY <1>41 DEF WorkerDies, BusyClaimed, StopsClaimed, StoppedOnce, NotYetStopped,
     StopsBeforeProc, ProcsClaimed, Published, AnswersComeLast, AnsweredOnce, MicOwned
<1>42. CASE UNCHANGED daemon
  BY <1>42 DEF daemon, BusyClaimed, StopsClaimed, StoppedOnce, NotYetStopped, StopsBeforeProc,
     ProcsClaimed, Published, AnswersComeLast, AnsweredOnce, MicOwned
<1>43. QED
  BY <1>1, <1>2, <1>3, <1>4, <1>5, <1>6, <1>7, <1>8, <1>9, <1>10, <1>11, <1>12, <1>13,
     <1>14, <1>15, <1>16, <1>17, <1>18, <1>19, <1>20, <1>21, <1>22, <1>23, <1>24, <1>25, <1>26,
     <1>27, <1>28, <1>29, <1>30, <1>31, <1>32, <1>33, <1>34, <1>35, <1>36, <1>37, <1>38, <1>39,
     <1>40, <1>41, <1>42
  DEF DaemonNext, StartStep, StreamStep, ProcStep, StopStep, CancelStep, TimerStep

(***************************************************************************)
(* The invariant holds of every run of the daemon, together with the       *)
(* coordinator's and the types.                                            *)
(***************************************************************************)
THEOREM DeliveryInvariant == DaemonSpec => [](CoordinatorInv /\ DaemonTypeOK /\ DeliveryInv)
<1> DEFINE Inv == CoordinatorInv /\ DaemonTypeOK /\ DeliveryInv
<1>1. DaemonInit => Inv
  <2> SUFFICES ASSUME DaemonInit PROVE Inv
    OBVIOUS
  <2>1. CoordinatorInv /\ DaemonTypeOK
    BY DaemonInitIsTyped
  <2>2. DeliveryInv
    BY CoordinatorAssumption
    DEF DaemonInit, CoordinatorInit, Idle, Busy, DeliveryInv, BusyClaimed, StopsClaimed, StoppedOnce,
        NotYetStopped, StopsBeforeProc, ProcsClaimed, Published, AnswersComeLast, AnsweredOnce,
        MicOwned, Requested, Claimed
  <2>3. QED
    BY <2>1, <2>2
<1>2. Inv /\ [DaemonNext]_daemon => Inv'
  BY DaemonStepIsCoordinatorStep, StepKeepsInv, DaemonStepKeepsTypes, StepKeepsDeliveryInv
<1>3. QED
  BY <1>1, <1>2, PTL DEF DaemonSpec

(***************************************************************************)
(* "Generation IDs discard late worker results": whatever the order of     *)
(* stops, cancellations, timers and late tasks, a complete result in the   *)
(* cache is of a generation that `complete' accepted and that nothing      *)
(* cancelled or failed.                                                    *)
(***************************************************************************)
THEOREM LateResultsNeverCached == DaemonSpec => []ResultsNotCancelled
<1>1. CoordinatorInv /\ DaemonTypeOK /\ DeliveryInv => ResultsNotCancelled
  BY DEF CoordinatorInv, RedeemedNeverDropped, DeliveryInv, Published, ResultsNotCancelled
<1>2. QED
  BY <1>1, DeliveryInvariant, PTL

(***************************************************************************)
(* A session never has both a result and an error.                         *)
(***************************************************************************)
THEOREM SessionsAnsweredOnce == DaemonSpec => []AnsweredOnce
<1>1. DeliveryInv => AnsweredOnce
  BY DEF DeliveryInv
<1>2. QED
  BY <1>1, DeliveryInvariant, PTL

(***************************************************************************)
(* No capture process is orphaned by the interleaving of starts, stops,    *)
(* failures, cancellations and timers.                                     *)
(***************************************************************************)
THEOREM MicrophoneAlwaysOwned == DaemonSpec => []MicOwned
<1>1. DeliveryInv => MicOwned
  BY DEF DeliveryInv
<1>2. QED
  BY <1>1, DeliveryInvariant, PTL
===============================================================================
