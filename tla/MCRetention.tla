----------------------------- MODULE MCRetention -----------------------------
(* A bounded instance of Retention for TLC: two snapshots that share the   *)
(* artifact of an unchanged file.                                          *)
EXTENDS Retention

CONSTANTS r1, s1, s2, a1, a2, a3

MCArtifactsOf == [s \in {s1, s2} |-> IF s = s1 THEN {a1, a2} ELSE {a2, a3}]

MCSlotRank == [r \in {r1} |-> 1]
=============================================================================
