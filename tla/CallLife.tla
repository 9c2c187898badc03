------------------------------ MODULE CallLife ------------------------------
(***************************************************************************)
(* What an engine relies on of one of its calls, from the address that     *)
(* cronet_call_start returns until that address may be returned again.     *)
(* CallState implements this for the one call it models, and Engine keeps  *)
(* to it for each address it deals with.                                   *)
(***************************************************************************)

VARIABLE phase

Init == phase = "free"

\* RegisterCall: the call is on the engine's list, its request may run.
Start == phase = "free" /\ phase' = "live"

\* The request's teardown has been asked for.
Cancel == phase = "live" /\ phase' = "cancelled"

\* The network thread takes the call off the engine's list, and from here on
\* nothing that is done with the call involves the engine ...
Unregister == phase \in {"live", "cancelled"} /\ phase' = "leaving"

\* ... then it lets the call go.
Release == phase = "leaving" /\ phase' = "released"

\* Only then does cronet_call_free delete it.
Free == phase = "released" /\ phase' = "free"

Next == Start \/ Cancel \/ Unregister \/ Release \/ Free

Spec == Init /\ [][Next]_phase
=============================================================================
