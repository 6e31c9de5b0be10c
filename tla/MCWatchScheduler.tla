-------------------------- MODULE MCWatchScheduler --------------------------
(* Bounded instances of WatchScheduler for TLC.                            *)
EXTENDS WatchScheduler

(* A backend that names paths, one more than the accumulator can hold.     *)
TwoPaths == {"src/lib.rs", "Cargo.toml"}
=============================================================================
