--------------------------- MODULE GenerationFence ---------------------------
(***************************************************************************)
(* What the capture coordinator promises to everything that runs late: a   *)
(* generation is a ticket.  Tickets are handed out once, at most one is     *)
(* open at a time, and an open ticket ends in exactly one way: it is        *)
(* redeemed by the work that holds it, or it is dropped (cancelled or       *)
(* failed).  A dropped ticket can never be redeemed afterwards, which is    *)
(* how "generation IDs discard late worker results".                        *)
(*                                                                         *)
(* This is the abstract specification; CaptureCoordinator implements it.   *)
(***************************************************************************)
EXTENDS Integers

VARIABLES current,    \* the highest ticket number in use
          open,       \* whether ticket `current' is open
          redeemed,   \* tickets whose work was accepted
          dropped     \* tickets whose work must be discarded

fence == <<current, open, redeemed, dropped>>

FenceInit ==
  /\ current = 0
  /\ open = FALSE
  /\ redeemed = {}
  /\ dropped = {}

\* A new ticket is opened; its number was never used before.
Open ==
  /\ ~open
  /\ current' = current + 1
  /\ open' = TRUE
  /\ UNCHANGED <<redeemed, dropped>>

\* Only the open ticket can be redeemed, and only once.
Redeem ==
  /\ open
  /\ redeemed' = redeemed \cup {current}
  /\ open' = FALSE
  /\ UNCHANGED <<current, dropped>>

\* The open ticket is dropped; a cancellation also burns the next number.
Drop ==
  /\ open
  /\ dropped' = dropped \cup {current}
  /\ current' \in {current, current + 1}
  /\ open' = FALSE
  /\ UNCHANGED redeemed

\* A number may be burnt while nothing is open.
Burn ==
  /\ ~open
  /\ current' = current + 1
  /\ UNCHANGED <<open, redeemed, dropped>>

FenceNext == Open \/ Redeem \/ Drop \/ Burn

FenceSpec == FenceInit /\ [][FenceNext]_fence

(***************************************************************************)
(* No ticket is both redeemed and dropped, and none beyond `current' is     *)
(* settled.                                                                *)
(***************************************************************************)
SettledOnce == redeemed \cap dropped = {}
=============================================================================
