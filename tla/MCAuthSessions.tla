--------------------------- MODULE MCAuthSessions ---------------------------
(* AuthSessions for TLC. *)
EXTENDS AuthSessions, TLC

\* Attempts and goroutines are interchangeable; the users are not.
Symmetry == Permutations(Logins) \cup Permutations(Requests)
=============================================================================
