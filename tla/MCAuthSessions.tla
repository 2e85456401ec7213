--------------------------- MODULE MCAuthSessions ---------------------------
(* An instance of AuthSessions for TLC. *)
EXTENDS AuthSessions, TLC

\* Requests are interchangeable, and so are passwords.
Symmetry == Permutations(Request) \cup Permutations(Password)
=============================================================================
