------------------------- MODULE MCAutonomousRunner -------------------------
(***************************************************************************)
(* Small instances of AutonomousRunner.                                    *)
(***************************************************************************)
EXTENDS AutonomousRunner

CONSTANTS t1, t2, t3, t4, f1, e1, e2, p1, p2

AnyPoint == PCs \ {"down"}

\* A failed t3 leaves one project.
TwoProjects == [t \in Tasks |-> IF t \in {t1, t2} THEN p1 ELSE p2]
=============================================================================
