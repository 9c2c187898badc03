---------------------------- MODULE AbstractCall ----------------------------
(***************************************************************************)
(* What a call promises the Python code that owns it, whatever its threads *)
(* are doing: bytes are delivered ahead of the owner by a bounded amount   *)
(* and never after the outcome; there is one outcome; the owner is told of *)
(* the end of the body only when it has every byte, and of a response or   *)
(* an error only when there is an outcome; the call is let go of once,     *)
(* afterwards.                                                             *)
(***************************************************************************)
EXTENDS Integers

CONSTANTS
    Outcomes,   \* how a call may end
    Burst,      \* the most bytes one delivery brings
    Ahead       \* the most bytes delivered and not yet taken

VARIABLES
    delivered,  \* bytes the network has handed to the call
    taken,      \* bytes the call has handed to its owner
    outcome,    \* how the call ended, or "pending"
    told,       \* what the owner's request was answered with, or "none"
    held        \* the owner still holds the call

vars == <<delivered, taken, outcome, told, held>>

Init ==
    /\ delivered = 0 /\ taken = 0
    /\ outcome = "pending" /\ told = "none" /\ held = TRUE

\* Backpressure: never more than Ahead bytes in front of the owner.
Deliver ==
    /\ held /\ outcome = "pending"
    /\ \E n \in 1..Burst :
         /\ delivered + n - taken <= Ahead
         /\ delivered' = delivered + n
    /\ UNCHANGED <<taken, outcome, told, held>>

Take ==
    /\ held /\ told = "none"
    /\ \E n \in 1..(delivered - taken) : taken' = taken + n
    /\ UNCHANGED <<delivered, outcome, told, held>>

End ==
    /\ held /\ outcome = "pending"
    /\ outcome' \in Outcomes
    /\ UNCHANGED <<delivered, taken, told, held>>

\* A timeout and an abandoned request may be answered at any time.
Answers == {"response", "streamed", "error", "timeout", "abandoned"}

Answer(a) ==
    /\ held /\ told = "none"
    /\ a \in {"response", "streamed", "error"} => outcome # "pending"
    /\ a \in {"response", "streamed"} => taken = delivered
    /\ told' = a
    /\ UNCHANGED <<delivered, taken, outcome, held>>

LetGo ==
    /\ held /\ outcome # "pending" /\ told # "none"
    /\ held' = FALSE
    /\ UNCHANGED <<delivered, taken, outcome, told>>

Next == Deliver \/ Take \/ End \/ (\E a \in Answers : Answer(a)) \/ LetGo

Spec == Init /\ [][Next]_vars
=============================================================================
