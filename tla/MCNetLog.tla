------------------------------ MODULE MCNetLog ------------------------------
(* Small instances of NetLog for TLC.                                      *)
EXTENDS NetLog
=============================================================================
