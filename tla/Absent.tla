------------------------------- MODULE Absent -------------------------------
(* What stands for an empty string, a nil pointer or a missing file.       *)
CONSTANT None
=============================================================================
