--------------------------- MODULE MCSourceCapture ---------------------------
(* Commit 1 tracks every file, commit 2 only the sources, commit 3 nothing.*)
EXTENDS SourceCapture

MCTree == [h \in Head |-> [f \in File |->
             IF h = 3 \/ (h = 2 /\ f \notin Source) THEN Absent ELSE IF f = 1 THEN 1 ELSE 2]]
=============================================================================
