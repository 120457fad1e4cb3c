----------------------------- MODULE MCAccessLog -----------------------------
(* A ring small enough to go round more than once. *)
EXTENDS AccessLog
=============================================================================
