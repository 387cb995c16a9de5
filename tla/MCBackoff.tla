------------------------------ MODULE MCBackoff ------------------------------
(* A six-bit Duration, and every policy that can be written with it.       *)
EXTENDS Backoff

AllSettings == Durations
=============================================================================
