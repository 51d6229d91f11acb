--------------------------- MODULE MCTaskRuntime ---------------------------
(* Small instances of TaskRuntime for TLC. *)
EXTENDS TaskRuntime

\* One delay below SCHEDULER_MINTICKS and one above it.
ShortAndLong == {1, 3}

\* The submitted tasks are interchangeable; used with safety properties only.
Symmetry == Permutations(Tasks)
=============================================================================
