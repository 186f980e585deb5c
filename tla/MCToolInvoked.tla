---------------------------- MODULE MCToolInvoked ----------------------------
(* A small instance of ToolInvoked for TLC. *)
EXTENDS ToolInvoked, TLC

\* Sound for the safety runs: the specification treats these values alike.
Symmetry ==
  Permutations(Update) \cup Permutations(CallId) \cup Permutations(Result)
=============================================================================
