---------------------------- MODULE MCIndexing ----------------------------
(* A bounded instance of Indexing for TLC: the worktree starts in any one    *)
(* snapshot, and the model value a configuration gives to each constant is   *)
(* all that it needs.                                                        *)
EXTENDS Indexing
=============================================================================
