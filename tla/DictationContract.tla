-------------------------- MODULE DictationContract --------------------------
(***************************************************************************)
(* What the user is promised of a dictation, whatever threads, retries and *)
(* failures it takes: one at a time is recorded and worked on, the         *)
(* microphone is open exactly while one is recorded, its text is delivered *)
(* at most once and only by the work on it, and never after a cancellation *)
(* was accepted.  A failed attempt may be handed on to a new session, a    *)
(* cancelled one may not.                                                  *)
(*                                                                         *)
(* This is the abstract specification; DictationRuntime implements it.     *)
(***************************************************************************)
CONSTANT Sessions

VARIABLES phase,      \* of each session: new, recording, working or over
          mic,        \* the sessions with an open microphone
          cancelled,  \* the sessions whose cancellation was accepted
          delivered   \* the sessions whose text reached the target

contract == <<phase, mic, cancelled, delivered>>

Busy == {"recording", "working"}
Nobody == \A s \in Sessions : phase[s] \notin Busy

ContractInit ==
  /\ phase = [s \in Sessions |-> "new"]
  /\ mic = {} /\ cancelled = {} /\ delivered = {}

Record(s) ==
  /\ phase[s] = "new" /\ Nobody
  /\ phase' = [phase EXCEPT ![s] = "recording"]
  /\ mic' = {s}
  /\ UNCHANGED <<cancelled, delivered>>

\* A session that came to nothing: no microphone, nothing heard, or a failure.
GiveUp(s) ==
  /\ phase[s] # "over"
  /\ phase' = [phase EXCEPT ![s] = "over"]
  /\ mic' = mic \ {s}
  /\ UNCHANGED <<cancelled, delivered>>

Stop(s) ==
  /\ phase[s] = "recording"
  /\ phase' = [phase EXCEPT ![s] = "working"]
  /\ mic' = {}
  /\ UNCHANGED <<cancelled, delivered>>

\* Accepted until the text is out; a recording ends at once.
Cancel(s) ==
  /\ phase[s] # "new" /\ s \notin delivered
  /\ cancelled' = cancelled \cup {s}
  /\ IF phase[s] = "recording"
     THEN phase' = [phase EXCEPT ![s] = "over"] /\ mic' = {}
     ELSE UNCHANGED <<phase, mic>>
  /\ UNCHANGED delivered

Deliver(s) ==
  /\ phase[s] = "working" /\ s \notin cancelled \cup delivered
  /\ delivered' = delivered \cup {s}
  /\ UNCHANGED <<phase, mic, cancelled>>

HandOn(s, t) ==
  /\ phase[s] = "working" /\ s \notin cancelled \cup delivered
  /\ phase[t] = "new"
  /\ phase' = [phase EXCEPT ![s] = "over", ![t] = "working"]
  /\ UNCHANGED <<mic, cancelled, delivered>>

\* The process ends: what was under way, or about to begin, is over.
Crash ==
  /\ \E begun \in SUBSET Sessions :
       phase' = [s \in Sessions |-> IF phase[s] \in Busy \/ s \in begun THEN "over" ELSE phase[s]]
  /\ mic' = {}
  /\ UNCHANGED <<cancelled, delivered>>

ContractNext ==
  \/ \E s \in Sessions :
       \/ Record(s) \/ GiveUp(s) \/ Stop(s) \/ Cancel(s) \/ Deliver(s)
       \/ \E t \in Sessions : HandOn(s, t)
  \/ Crash

ContractSpec == ContractInit /\ [][ContractNext]_contract
=============================================================================
