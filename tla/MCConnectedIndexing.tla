------------------------- MODULE MCConnectedIndexing -------------------------
(* A bounded instance of ConnectedIndexing for TLC.                        *)
EXTENDS ConnectedIndexing

CONSTANTS r1, r2, s1, s2

TwoWorktrees == <<[slot |-> s1, repo |-> r1], [slot |-> s2, repo |-> r2]>>
=============================================================================
