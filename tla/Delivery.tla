------------------------------- MODULE Delivery -------------------------------
(***************************************************************************)
(* What the deliverer promises of the messages on its topic, with no       *)
(* worker, retry or restart in sight: delivery is at least once, a verdict *)
(* comes before the message is retired, and "delivered" is said only of a  *)
(* message the provider took.                                              *)
(***************************************************************************)
CONSTANTS Messages, Statuses

VARIABLES
    pending,   \* messages the broker still owes to the subscription
    taken,     \* messages the provider has taken at least once
    verdicts   \* <<m, s>>: an outcome with status s was recorded for m

dvars == <<pending, taken, verdicts>>

Init == pending = Messages /\ taken = {} /\ verdicts = {}

\* The provider takes m, possibly again.
Take(m) == taken' = taken \cup {m} /\ UNCHANGED <<pending, verdicts>>

\* An outcome is recorded for m; verdicts of several deliveries may differ.
Decide(m, s) ==
    /\ s = "delivered" => m \in taken
    /\ verdicts' = verdicts \cup {<<m, s>>}
    /\ UNCHANGED <<pending, taken>>

\* m is acknowledged, for good.
Retire(m) ==
    /\ \E s \in Statuses : <<m, s>> \in verdicts
    /\ pending' = pending \ {m}
    /\ UNCHANGED <<taken, verdicts>>

Next == \E m \in Messages : Take(m) \/ Retire(m) \/ \E s \in Statuses : Decide(m, s)

Spec == Init /\ [][Next]_dvars
=============================================================================
