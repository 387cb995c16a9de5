------------------------------ MODULE MCStartup ------------------------------
(* A small instance of Startup for TLC.                                    *)
EXTENDS Startup

\* Every configuration, with the numbers at and next to their limits.
AtLimits == {x \in Setting : x.concurrency \in 0 .. 1 /\ x.attempts \in 0 .. 1}
=============================================================================
