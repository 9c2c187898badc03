----------------------------- MODULE MCDeadline -----------------------------
(* Deadline with two ticks to a millisecond: no limit, one already past, one *)
(* below a millisecond, two milliseconds and two and a half.                 *)
EXTENDS Deadline
CONSTANT None
MCLimits == {None, -1, 1, 4, 5}
MCErrors == {-7, -130}
=============================================================================
