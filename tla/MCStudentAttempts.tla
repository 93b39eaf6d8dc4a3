------------------------- MODULE MCStudentAttempts -------------------------
(* One family of StudentAttempts over two cells, with one failed call.      *)
EXTENDS StudentAttempts
=============================================================================
