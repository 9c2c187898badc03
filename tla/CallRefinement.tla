--------------------------- MODULE CallRefinement ---------------------------
(***************************************************************************)
(* CallState implements AbstractCall: of all that its threads share, the   *)
(* owner can tell no more than the bytes, the one outcome, the answer and  *)
(* that the call has been freed.                                           *)
(***************************************************************************)
EXTENDS CallState

Abstract == INSTANCE AbstractCall WITH
    Outcomes <- Codes,
    Burst <- ReadBufferSize,
    Ahead <- HighWater + ReadBufferSize - 1,
    delivered <- sent,
    taken <- got,
    outcome <- IF claimed THEN verdict ELSE "pending",
    told <- report,
    held <- own # "freed"

\* Every step of the network thread, the owner and a cancelling thread is, to
\* the owner, one step of AbstractCall or none: cronet.h's contract for
\* cronet_call_read, cronet_call_response and cronet_call_free.
ImplementsAbstractCall == Abstract!Spec

-----------------------------------------------------------------------------

\* The same call as its engine sees it.
Phase ==
    IF own \in {"new", "freed"} THEN "free"
    ELSE IF registered
    THEN IF destroyRequested THEN "cancelled" ELSE "live"
    ELSE IF released THEN "released" ELSE "leaving"

Life == INSTANCE CallLife WITH phase <- Phase

\* What Engine relies on: a call is taken off live_calls_ and then released,
\* once, by the network thread alone, and freed only after both.
ImplementsCallLife == Life!Spec
=============================================================================
