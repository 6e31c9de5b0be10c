------------------------- MODULE MCEngineeringMemory -------------------------
(* A bounded instance of EngineeringMemory for TLC: four versions of one   *)
(* record, two commits, two processes.                                     *)
EXTENDS EngineeringMemory, TLC

CONSTANTS a, b, c, d, p, q, h1, h2

(* A record begun twice and merged twice, and two updates of one version   *)
(* that are merged.                                                        *)
CompetingMerges == [parents |-> a :> {} @@ b :> {} @@ c :> {a, b} @@ d :> {a, b},
                    display |-> a :> 1 @@ b :> 1 @@ c :> 2 @@ d :> 2]
Diamond         == [parents |-> a :> {} @@ b :> {a} @@ c :> {a} @@ d :> {b, c},
                    display |-> a :> 1 @@ b :> 2 @@ c :> 2 @@ d :> 3]

FourVersions == {CompetingMerges, Diamond}

(* Nothing tells the processes apart.                                      *)
Symmetry == Permutations({p, q})

SharedHistory == h1 :> {a} @@ h2 :> {a, b}
=============================================================================
