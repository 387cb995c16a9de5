----------------------------- MODULE PushContract -----------------------------
(***************************************************************************)
(* What PushProvider promises of a call of Push: a success was taken, a    *)
(* permanent failure never is, and a transient one leaves it open, for as  *)
(* long as the service may still be at it.                                 *)
(***************************************************************************)
CONSTANT Calls

VARIABLES
    taken,    \* the calls whose notification the service has taken
    verdict   \* verdict[c]: what Push returned

cvars == <<taken, verdict>>

Verdicts == {"success", "transient", "permanent"}

Init == taken = {} /\ verdict = [c \in Calls |-> "none"]

Take(c) ==
    /\ verdict[c] # "permanent"
    /\ taken' = taken \cup {c}
    /\ UNCHANGED verdict

\* A local provider takes and answers in one step.
Answer(c, v) ==
    /\ verdict[c] = "none"
    /\ taken' \in {taken, taken \cup {c}}
    /\ v = "success" => c \in taken'
    /\ v = "permanent" => c \notin taken'
    /\ verdict' = [verdict EXCEPT ![c] = v]

Next == \E c \in Calls : Take(c) \/ \E v \in Verdicts : Answer(c, v)

Spec == Init /\ [][Next]_cvars
=============================================================================
