------------------------------- MODULE MCWriter -------------------------------
(* Small instances of Writer for TLC.                                      *)
EXTENDS Writer, FiniteSets

\* A submission with nothing wrong.
Good == [route |-> "notifications", creds |-> "listed", key |-> "plain", body |-> "valid"]

Faults(x) == Cardinality({f \in DOMAIN x : x[f] # Good[f]})

\* One thing out of the ordinary, or two that different checks stop, so that
\* the order of the checks shows.
Odd ==
    {x \in Request : Faults(x) <= 1}
      \cup {x \in Request : Faults(x) = 2 /\ x.creds # "unlisted" /\ x.body \in {"valid", "invalid"}}

\* Nothing wrong but a second Idempotency-Key header.
TwoKeys == {[Good EXCEPT !.key = "many"]}
=============================================================================
