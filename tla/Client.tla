-------------------------------- MODULE Client --------------------------------
(***************************************************************************)
(* notificationclient: what a caller of Client.Submit is told about its    *)
(* submission.  A call fails before it sends anything, or waits for the    *)
(* answer and makes a result of what it reads of it.  While it waits, the  *)
(* transport may send the request again: NewRequest of a bytes.Reader sets *)
(* GetBody, and with an Idempotency-Key header net/http takes the POST for *)
(* repeatable when a connection that was used before breaks without having *)
(* answered.  What the answer is, and whether a request arrives, is the    *)
(* concern of who extends this.                                            *)
(***************************************************************************)
EXTENDS Naturals

CONSTANTS
    Submissions,   \* the calls of Submit
    MaxSends       \* bound: how often one call sends its request

ASSUME SendsAssumption == MaxSends \in Nat \ {0}

\* <<s, k>> is what call s sends the k-th time: one more request to a writer.
Requests == Submissions \X (1..MaxSends)

VARIABLES
    keyed,    \* the submissions whose caller gave an IdempotencyKey
    call,     \* call[s]: "idle", "waiting" or "returned"
    sent,     \* sent[s]: how often s has sent its request
    result    \* result[s]: what Submit returned

clvars == <<keyed, call, sent, result>>

\* The requests that are on their way, or further.
posted == {r \in Requests : r[2] <= sent[r[1]]}

\* The only request s can still be answered: the connections of the others broke.
Latest(s) == <<s, sent[s]>>

-----------------------------------------------------------------------------
(* Answers: the envelope, the writer's problem documents, and the plain    *)
(* text of the router and of the panic handler.                            *)

Problems == {"validation-failed", "authentication-required", "authentication-failed",
             "unsupported-content-type", "substrate-unavailable", "internal"}
Answers == Problems \cup {"envelope", "plain"}

\* The types sentinelFor knows; the writer never sends the last one.
KnownTypes == Problems \cup {"idempotency-conflict"}

Sentinels == KnownTypes \cup {"unknown-problem-type"}

\* Mutant of Sentinel: a type nobody knows is passed on.
SentinelRaw(a) == a

\* Mutant of Sentinel: told by the status, as 5xx is the writer's fault.
SentinelByStatus(a) ==
    CASE a \in {"substrate-unavailable", "internal", "plain"} -> "internal"
      [] OTHER -> a

\* decodeProblem and sentinelFor: plain text leaves the type empty.
Sentinel(a) == IF a \in KnownTypes THEN a ELSE "unknown-problem-type"

\* What Submit returns without a problem document: the response, an error of
\* its own, the transport's, or the one of a body that could not be read.
Others == {"response", "local error", "transport error", "unreadable body"}

ClientInit ==
    /\ keyed \in SUBSET Submissions
    /\ call = [s \in Submissions |-> "idle"]
    /\ sent = [s \in Submissions |-> 0]
    /\ result = [s \in Submissions |-> "none"]

Return(s, r) ==
    /\ call' = [call EXCEPT ![s] = "returned"]
    /\ result' = [result EXCEPT ![s] = r]
    /\ UNCHANGED <<keyed, sent>>

\* No request, an unknown content type, text that cannot be encoded, or an
\* address or a header that makes no request.
FailLocally(s) ==
    /\ call[s] = "idle"
    /\ Return(s, "local error")

Send(s) ==
    /\ call[s] = "idle"
    /\ call' = [call EXCEPT ![s] = "waiting"]
    /\ sent' = [sent EXCEPT ![s] = 1]
    /\ UNCHANGED <<keyed, result>>

\* Of one that was not written at all the first sending stands for both.
Resend(s) ==
    /\ s \in keyed
    /\ call[s] = "waiting" /\ sent[s] < MaxSends
    /\ sent' = [sent EXCEPT ![s] = @ + 1]
    /\ UNCHANGED <<keyed, call, result>>

\* The connection fails or the caller's context ends, wherever the request is.
GiveUp(s) ==
    /\ call[s] = "waiting"
    /\ Return(s, "transport error")

\* parseResponse: the status is looked at when the whole body was read.
ReadAnswer(s, a) ==
    /\ call[s] = "waiting"
    /\ \/ Return(s, "unreadable body")
       \/ Return(s, IF a = "envelope" THEN "response" ELSE Sentinel(a))

ClientTypeOK ==
    /\ keyed \subseteq Submissions
    /\ call \in [Submissions -> {"idle", "waiting", "returned"}]
    /\ sent \in [Submissions -> 0..MaxSends]
    /\ \A s \in Submissions : /\ call[s] = "idle" <=> sent[s] = 0 /\ result[s] = "none"
                              /\ sent[s] > 1 => s \in keyed
    /\ result \in [Submissions -> Sentinels \cup Others \cup {"none"}]
=============================================================================
