------------------------- MODULE MCTerminalSessions -------------------------
(* TerminalSessions on a small instance; users, requests and sockets are     *)
(* interchangeable.                                                          *)
EXTENDS TerminalSessions, TLC

Symmetry == Permutations(Users) \cup Permutations(Requests) \cup Permutations(Sockets)
=============================================================================
