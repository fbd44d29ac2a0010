---------------------------- MODULE MCPollEngine ----------------------------
(* Small instances of PollEngine for TLC. *)
EXTENDS PollEngineLedger, TLC

CONSTANTS k1, k2, k3

\* Calls, sources and projects are told apart only by identity.
IdentitySymmetry == Permutations(Calls) \cup Permutations(Sources) \cup Permutations(Projects)

=============================================================================
