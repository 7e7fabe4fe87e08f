------------------------ MODULE CaptureCoordinator ------------------------
(***************************************************************************)
(* crates/openwhisper-core/src/state.rs: the one global capture of the     *)
(* daemon.  Every method of CaptureCoordinator runs under one std::Mutex,  *)
(* so each accepted call is one atomic action; a rejected call returns an  *)
(* error and changes nothing, which is a stuttering step.                  *)
(*                                                                         *)
(* `redeemed' and `dropped' are history variables: the generations that    *)
(* `complete' accepted, and the ones that cancel or fail ended while their *)
(* work was still going on.  No action reads them.                         *)
(***************************************************************************)
EXTENDS Integers

CONSTANTS
  Sessions,        \* session ids
  NoSession,       \* Option::None for a session id
  MaxGeneration    \* bound on the u64 generation counter

ASSUME CoordinatorAssumption ==
  /\ NoSession \notin Sessions
  /\ MaxGeneration \in Nat

VARIABLES
  state,           \* CaptureCoordinator.state
  generation,      \* CaptureCoordinator.generation
  redeemed,
  dropped

coordinator == <<state, generation, redeemed, dropped>>

Busy == {"capturing", "transcribing", "processing", "delivering"}
Startable == {"idle", "failed"}
Phases == Busy \cup Startable

Idle == [phase |-> "idle", session |-> NoSession, generation |-> 0]

CaptureState ==
  [phase : Phases, session : Sessions \cup {NoSession}, generation : Nat]

CoordinatorTypeOK ==
  /\ state \in CaptureState
  /\ generation \in Nat
  /\ redeemed \subseteq Nat
  /\ dropped \subseteq Nat

CoordinatorInit ==
  /\ state = Idle
  /\ generation = 0
  /\ redeemed = {}
  /\ dropped = {}

\* start and start_session: accepted from Idle or Failed only.
StartSession(s) ==
  /\ state.phase \in Startable
  /\ generation < MaxGeneration
  /\ generation' = generation + 1
  /\ state' = [phase |-> "capturing", session |-> s, generation |-> generation + 1]
  /\ UNCHANGED <<redeemed, dropped>>

\* stop: the capture becomes a transcription of the same generation.
StopCapture ==
  /\ state.phase = "capturing"
  /\ state' = [state EXCEPT !.phase = "transcribing"]
  /\ UNCHANGED <<generation, redeemed, dropped>>

\* start_session and stop by a caller that keeps the lock between them, as
\* transcribe.file does: nobody sees the capturing phase.
StartStopped(s) ==
  /\ state.phase \in Startable
  /\ generation < MaxGeneration
  /\ generation' = generation + 1
  /\ state' = [phase |-> "transcribing", session |-> s, generation |-> generation + 1]
  /\ UNCHANGED <<redeemed, dropped>>

\* toggle: one command that starts or stops, whichever the phase allows.
Toggle(s) == StartSession(s) \/ StopCapture

\* begin_processing(g) and begin_delivery(g): refused for any other generation.
BeginProcessing(g) ==
  /\ state.phase = "transcribing"
  /\ state.generation = g
  /\ state' = [state EXCEPT !.phase = "processing"]
  /\ UNCHANGED <<generation, redeemed, dropped>>

BeginDelivery(g) ==
  /\ state.phase = "processing"
  /\ state.generation = g
  /\ state' = [state EXCEPT !.phase = "delivering"]
  /\ UNCHANGED <<generation, redeemed, dropped>>

\* complete(g) returns true exactly when this holds.
IsCurrent(g) ==
  /\ state.phase \in {"transcribing", "processing", "delivering"}
  /\ state.generation = g

Complete(g) ==
  /\ IsCurrent(g)
  /\ state' = Idle
  /\ redeemed' = redeemed \cup {g}
  /\ UNCHANGED <<generation, dropped>>

\* The work of the current state, if any, is abandoned.
DropCurrent ==
  dropped' = IF state.phase \in Busy THEN dropped \cup {state.generation} ELSE dropped

\* cancel: refused when Idle; also clears a Failed state.
Cancel ==
  /\ state.phase # "idle"
  /\ generation < MaxGeneration
  /\ generation' = generation + 1
  /\ state' = Idle
  /\ DropCurrent
  /\ UNCHANGED redeemed

\* fail: unconditional, whatever the state is and whoever calls it.
Fail ==
  /\ state' = [phase |-> "failed", session |-> state.session, generation |-> generation]
  /\ DropCurrent
  /\ UNCHANGED <<generation, redeemed>>

\* The tokens that callers can hold: every generation handed out so far.
Tokens == 0..generation

CoordinatorNext ==
  \/ \E s \in Sessions : StartSession(s) \/ StartStopped(s) \/ Toggle(s)
  \/ StopCapture
  \/ \E g \in Tokens : BeginProcessing(g) \/ BeginDelivery(g) \/ Complete(g)
  \/ Cancel
  \/ Fail

CoordinatorSpec == CoordinatorInit /\ [][CoordinatorNext]_coordinator

(***************************************************************************)
(* Properties                                                              *)
(***************************************************************************)

(***************************************************************************)
(* The generation stored in the state and the counter are two fields that  *)
(* cancel and start_session update separately, while fail copies one into  *)
(* the other.  Whatever is going on, the work the state names is the work  *)
(* of the newest generation: a token of an earlier one cannot match it.    *)
(***************************************************************************)
BusyIsCurrent == state.phase \in Busy => state.generation = generation

(***************************************************************************)
(* A generation whose result was accepted by `complete' is never one that  *)
(* was cancelled or failed under way, in either order: the fence that the  *)
(* daemon's late tasks rely on.                                            *)
(***************************************************************************)
RedeemedNeverDropped == redeemed \cap dropped = {}

(***************************************************************************)
(* The busy generation is still undecided.                                 *)
(***************************************************************************)
BusyIsUnsettled ==
  state.phase \in Busy => state.generation \notin redeemed \cup dropped

(***************************************************************************)
(* The coordinator implements the abstract ticket fence.                   *)
(***************************************************************************)
Fence == INSTANCE GenerationFence
           WITH current <- generation, open <- state.phase \in Busy

ImplementsFence == Fence!FenceSpec
=============================================================================
