------------------------------ MODULE Acceptance ------------------------------
(***************************************************************************)
(* What the writer promises of the submissions it is sent, with no         *)
(* connection, handler or process in sight: "accepted" is said only of a   *)
(* notification the topic holds, "refused" only of one that was never      *)
(* handed to it.  "retry" promises nothing: the topic may hold it.         *)
(***************************************************************************)
CONSTANT Submissions

VARIABLES
    handed,   \* submissions handed to the Pulsar client
    held,     \* submissions the topic holds
    told      \* told[s]: what the caller was told

avars == <<handed, held, told>>

Init == handed = {} /\ held = {} /\ told = [s \in Submissions |-> "nothing"]

\* The writer hands s to the Pulsar client, before it answers.
Hand(s) ==
    /\ told[s] = "nothing"
    /\ handed' = handed \cup {s}
    /\ UNCHANGED <<held, told>>

\* The broker stores s, perhaps long after the writer gave up on it.
Hold(s) ==
    /\ s \in handed
    /\ held' = held \cup {s}
    /\ UNCHANGED <<handed, told>>

\* The writer answers s, once.
Tell(s, word) ==
    /\ told[s] = "nothing"
    /\ word = "accepted" => s \in held
    /\ word = "refused" => s \notin handed
    /\ told' = [told EXCEPT ![s] = word]
    /\ UNCHANGED <<handed, held>>

Words == {"accepted", "refused", "retry"}

Next == \E s \in Submissions : Hand(s) \/ Hold(s) \/ \E word \in Words : Tell(s, word)

Spec == Init /\ [][Next]_avars
=============================================================================
