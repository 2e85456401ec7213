---------------------------- MODULE MCRetryPolicy ----------------------------
(* An instance of RetryPolicy for TLC. *)
EXTENDS RetryPolicy

\* None, negative, below and above a millisecond, at and above every maximum.
SomeOverrides == {-1, 0, 1, 2, 7, 12, 13, MaxInt}
=============================================================================
