------------------------------ MODULE MCPipeline ------------------------------
(* A small instance of Pipeline for TLC.                                   *)
EXTENDS Pipeline

\* A refusal that may differ from one sending to the next, and one without a type.
SomeRefusals == {"authentication-failed", "plain"}

\* Any verdict does: that "delivered" needs a push is Delivery's to say.
SomeStatuses == {"permanently-failed"}
=============================================================================
