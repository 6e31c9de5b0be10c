------------------------- MODULE MCGenerationStore -------------------------
(* Bounded instances of GenerationStore for TLC.                           *)
EXTENDS GenerationStore, TLC

(* Repositories are interchangeable, and so are configured slots: no       *)
(* action or property names one of them.                                   *)
Symmetric == Permutations(Repo) \cup Permutations(ConfiguredSlot)
=============================================================================
