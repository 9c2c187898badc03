---------------------------- MODULE MCCallState ----------------------------
(* Small instances of CallState for TLC.                                   *)
EXTENDS CallRefinement

\* Chromium's default, no redirects, and a limit a chain can run past.
MCLimits == {-1, 0, 1}
=============================================================================
