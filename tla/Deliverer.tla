------------------------------ MODULE Deliverer ------------------------------
(***************************************************************************)
(* The deliverer process: Concurrency worker goroutines run one shared     *)
(* consumer.Run over one Shared Pulsar subscription.  A worker receives a  *)
(* message, dispatches it to the push provider with bounded retries,       *)
(* records the outcome and acknowledges the message.                       *)
(*                                                                         *)
(* Steps are cut where another actor can come in between: around Receive,  *)
(* around the provider call, around the backoff sleep, and between         *)
(* Record and Ack.  The broker, the push provider, the clock and the       *)
(* operator who signals, kills and starts the process are external.        *)
(***************************************************************************)
EXTENDS Naturals, FiniteSets

CONSTANTS
    Workers,          \* the goroutines started by main (DELIVERER_CONCURRENCY)
    Messages,         \* the messages on the topic
    KindsInPlay,      \* which kinds of message the topic may hold
    PermanentReasons, \* reasons a provider gives with a PermanentError
    MaxAttempts,      \* DELIVERER_RETRY_MAX_ATTEMPTS
    DecryptFailure,   \* what Receive returns for an undecryptable message
    MaxStarts,        \* bound: times the process is started
    MaxRedeliveries,  \* bound: redeliveries of a message to a live process
    NoMessage         \* a worker that holds no message

(***************************************************************************)
(* A "pushable" message decrypts and decodes to a notification with a      *)
(* Pushover target; so does an "unencrypted" one, which the broker let in  *)
(* as cleartext.  An "untargeted" one decodes but has no known target.     *)
(***************************************************************************)
Kinds == {"pushable", "unencrypted", "untargeted", "malformed", "undecryptable"}

ASSUME WorkersAssumption == Workers # {} /\ NoMessage \notin Messages
ASSUME KindsAssumption == KindsInPlay \subseteq Kinds
ASSUME ReasonsAssumption ==
    PermanentReasons \subseteq {"provider-rejected-recipient",
                                "provider-rejected-payload", "provider-auth-failed"}
ASSUME AttemptsAssumption == MaxAttempts \in Nat \ {0}
ASSUME DecryptAssumption == DecryptFailure \in {"receive error", "policy violation"}
ASSUME BoundsAssumption == MaxStarts \in Nat \ {0} /\ MaxRedeliveries \in Nat

VARIABLES
    kind,         \* kind[m]: what the message is; fixed
    overdue,      \* the messages whose expires_at has passed
    place,        \* place[m]: "backlog", "unacked" or "acked" on the subscription
    deliveries,   \* deliveries[m]: how many times Receive has returned m
    redelivered,  \* redelivered[m]: redeliveries while the process lived
    proc,         \* the process: "up", "stopping" (ctx cancelled) or "down"
    starts,       \* how many times it was started
    pc,           \* pc[w]: where worker w is
    msg,          \* msg[w]: the message worker w holds
    nth,          \* nth[w]: which delivery of that message it is
    attempt,      \* attempt[w]: the retry iterator's counter
    answer,       \* answer[w]: what the last Push returned
    calls,        \* <<m, n, k>>: attempt k of delivery n of m reached Push
    accepted,     \* the calls the provider took the notification from
    outcomes,     \* the records the recorder has written
    violations,   \* policy-violation records, which name no notification
    cut           \* <<m, n>>: deliveries a crash cut before an outcome

broker == <<place, deliveries, redelivered>>
process == <<proc, starts>>
provider == <<calls, accepted>>
records == <<outcomes, violations>>
local == <<msg, nth, attempt, answer>>
vars == <<kind, overdue, broker, process, pc, local, provider, records, cut>>

-----------------------------------------------------------------------------

Statuses == {"delivered", "permanently-failed", "expired"}
Reasons == PermanentReasons \cup
           {"none", "provider-rejected-payload", "retry-budget-exhausted", "expired"}
Answers == PermanentReasons \cup {"success", "transient"}

Outcome == [msg : Messages, nth : Nat, status : Statuses, reason : Reasons,
            attempts : Nat]

Points == {"receive", "handle", "push", "answered", "sleep", "ack", "failed", "stopped"}

\* Where a worker holds a message, and where it has no outcome for it yet.
Undecided == {"handle", "push", "answered", "sleep"}
Holding == Undecided \cup {"ack"}

Decodes(m) == kind[m] \notin {"malformed", "undecryptable"}
Targeted(m) == kind[m] \in {"pushable", "unencrypted"}

Running == proc \in {"up", "stopping"}

\* Mutant of Cancelled: the context given to the workers is never cancelled.
CancelledNever == FALSE

\* Mutant of Cancelled: the loop takes any wake-up for a cancellation.
CancelledAlways == Running

\* ctx.Done: main has seen SIGINT or SIGTERM.
Cancelled == proc = "stopping"

\* isExpired, for the clock read when Dispatch begins.
Expired(m) == m \in overdue

\* Mutant of Done: one attempt too many.
DoneOffByOne(w) == attempt[w] > MaxAttempts

\* Iterator.Done.
Done(w) == attempt[w] >= MaxAttempts

\* Mutant of Drained: main does not wait for the workers.
DrainedAtOnce == TRUE

\* wg.Wait: every worker's Run has returned.
Drained == \A w \in Workers : pc[w] \in {"stopped", "failed"}

\* Mutant of Succeeded: only a PermanentError counts as a failure.
SucceededUnlessRefused(w) == answer[w] \notin PermanentReasons

Succeeded(w) == answer[w] = "success"

\* Mutant of AbandonedAttempts: the attempt that was never made is counted.
AbandonedAttemptsCounted(w) == attempt[w]

\* The attempt the cancelled sleep preceded was never made.
AbandonedAttempts(w) == attempt[w] - 1

Init ==
    /\ kind \in [Messages -> KindsInPlay]
    /\ overdue = {}
    /\ place = [m \in Messages |-> "backlog"]
    /\ deliveries = [m \in Messages |-> 0]
    /\ redelivered = [m \in Messages |-> 0]
    /\ proc = "up"
    /\ starts = 1
    /\ pc = [w \in Workers |-> "receive"]
    /\ msg = [w \in Workers |-> NoMessage]
    /\ nth = [w \in Workers |-> 0]
    /\ attempt = [w \in Workers |-> 0]
    /\ answer = [w \in Workers |-> "none"]
    /\ calls = {}
    /\ accepted = {}
    /\ outcomes = {}
    /\ violations = 0
    /\ cut = {}

-----------------------------------------------------------------------------
(* consumer.Run: Receive and its error branches.                           *)

\* The broker hands m out; until it is acknowledged nobody else gets it.
HandOut(m) ==
    /\ place[m] = "backlog"
    /\ place' = [place EXCEPT ![m] = "unacked"]
    /\ deliveries' = [deliveries EXCEPT ![m] = @ + 1]
    /\ UNCHANGED redelivered

\* Receive returns a message.  A cancelled context does not prevent it: when
\* both are ready, the client's select takes either.
Receive(w) ==
    /\ pc[w] = "receive" /\ Running
    /\ \E m \in Messages :
        /\ kind[m] # "undecryptable"
        /\ HandOut(m)
        /\ msg' = [msg EXCEPT ![w] = m]
        /\ nth' = [nth EXCEPT ![w] = deliveries[m] + 1]
    /\ pc' = [pc EXCEPT ![w] = "handle"]
    /\ UNCHANGED <<kind, overdue, process, attempt, answer, provider, records, cut>>

\* A decrypt failure surfaces as the policy sentinel: Run records the
\* violation under the empty identifier and receives again, with no Ack.
ReceiveViolation(w) ==
    /\ pc[w] = "receive" /\ Running
    /\ DecryptFailure = "policy violation"
    /\ \E m \in Messages : kind[m] = "undecryptable" /\ HandOut(m)
    /\ violations' = violations + 1
    /\ UNCHANGED <<kind, overdue, process, pc, local, provider, outcomes, cut>>

\* A decrypt failure surfaces as a plain error: Run returns it, and main
\* starts no other worker in its place.
ReceiveUndecryptable(w) ==
    /\ pc[w] = "receive" /\ Running
    /\ DecryptFailure = "receive error"
    /\ \E m \in Messages : kind[m] = "undecryptable" /\ HandOut(m)
    /\ pc' = [pc EXCEPT ![w] = "failed"]
    /\ UNCHANGED <<kind, overdue, process, local, provider, records, cut>>

\* Any other Receive error ends the worker in the same way.
ReceiveError(w) ==
    /\ pc[w] = "receive" /\ Running
    /\ pc' = [pc EXCEPT ![w] = "failed"]
    /\ UNCHANGED <<kind, overdue, broker, process, local, provider, records, cut>>

\* Receive returns the context's error: Run returns nil.
ReceiveCancelled(w) ==
    /\ pc[w] = "receive" /\ Cancelled
    /\ pc' = [pc EXCEPT ![w] = "stopped"]
    /\ UNCHANGED <<kind, overdue, broker, process, local, provider, records, cut>>

-----------------------------------------------------------------------------
(* consumer.handle and Dispatcher.Dispatch up to the retry loop.           *)

\* Recorder.Record for the message w holds; all that remains is the Ack.
Record(w, status, reason, attempts) ==
    /\ outcomes' = outcomes \cup
         {[msg |-> msg[w], nth |-> nth[w], status |-> status, reason |-> reason,
           attempts |-> attempts]}
    /\ pc' = [pc EXCEPT ![w] = "ack"]
    /\ attempt' = [attempt EXCEPT ![w] = 0]
    /\ answer' = [answer EXCEPT ![w] = "none"]
    /\ UNCHANGED <<kind, overdue, broker, process, msg, nth, provider, violations, cut>>

\* Mutant of RejectMalformed: handle's error skips the record and the Ack.
RejectMalformedSilently(w) ==
    /\ pc[w] = "handle"
    /\ ~Decodes(msg[w])
    /\ pc' = [pc EXCEPT ![w] = "receive"]
    /\ msg' = [msg EXCEPT ![w] = NoMessage]
    /\ nth' = [nth EXCEPT ![w] = 0]
    /\ UNCHANGED <<kind, overdue, broker, process, attempt, answer, provider, records, cut>>

\* The body is not a Notification.
RejectMalformed(w) ==
    /\ pc[w] = "handle"
    /\ ~Decodes(msg[w])
    /\ Record(w, "permanently-failed", "provider-rejected-payload", 0)

\* expires_at has passed; it is looked at once, before the target.
DropExpired(w) ==
    /\ pc[w] = "handle"
    /\ Decodes(msg[w])
    /\ Expired(msg[w])
    /\ Record(w, "expired", "expired", 0)

\* resolve finds no provider for the target.
RejectUntargeted(w) ==
    /\ pc[w] = "handle"
    /\ Decodes(msg[w]) /\ ~Targeted(msg[w])
    /\ ~Expired(msg[w])
    /\ Record(w, "permanently-failed", "provider-rejected-payload", 0)

\* Mutant of StartDispatch: the consumer acknowledges before it dispatches.
StartDispatchAcked(w) ==
    /\ pc[w] = "handle"
    /\ Targeted(msg[w])
    /\ ~Expired(msg[w])
    /\ attempt' = [attempt EXCEPT ![w] = 1]
    /\ place' = [place EXCEPT ![msg[w]] = "acked"]
    /\ pc' = [pc EXCEPT ![w] = "push"]
    /\ UNCHANGED <<kind, overdue, deliveries, redelivered, process, msg, nth, answer,
                   provider, records, cut>>

\* The first turn of the retry loop, which does not sleep.
StartDispatch(w) ==
    /\ pc[w] = "handle"
    /\ Targeted(msg[w])
    /\ ~Expired(msg[w])
    /\ attempt' = [attempt EXCEPT ![w] = 1]
    /\ pc' = [pc EXCEPT ![w] = "push"]
    /\ UNCHANGED <<kind, overdue, broker, process, msg, nth, answer, provider, records, cut>>

-----------------------------------------------------------------------------
(* The retry loop.                                                         *)

\* The provider's side of a call: success says it took the notification, a
\* permanent error that it did not; a transient one (a timeout, a 5xx, a
\* response that is lost or not understood) leaves it open.
Took(a) == CASE a = "success"   -> {TRUE}
             [] a = "transient" -> BOOLEAN
             [] OTHER           -> {FALSE}

Push(w) ==
    LET call == <<msg[w], nth[w], attempt[w]>>
    IN  /\ pc[w] = "push"
        /\ \E a \in Answers : \E took \in Took(a) :
            /\ answer' = [answer EXCEPT ![w] = a]
            /\ accepted' = IF took THEN accepted \cup {call} ELSE accepted
        /\ calls' = calls \cup {call}
        /\ pc' = [pc EXCEPT ![w] = "answered"]
        /\ UNCHANGED <<kind, overdue, broker, process, msg, nth, attempt, records, cut>>

RecordDelivered(w) ==
    /\ pc[w] = "answered" /\ Succeeded(w)
    /\ Record(w, "delivered", "none", attempt[w])

RecordPermanent(w) ==
    /\ pc[w] = "answered" /\ answer[w] \in PermanentReasons
    /\ Record(w, "permanently-failed", answer[w], attempt[w])

\* A transient error with budget left: Next, then the backoff sleep.
Retry(w) ==
    /\ pc[w] = "answered" /\ answer[w] = "transient"
    /\ ~Done(w)
    /\ attempt' = [attempt EXCEPT ![w] = @ + 1]
    /\ answer' = [answer EXCEPT ![w] = "none"]
    /\ pc' = [pc EXCEPT ![w] = "sleep"]
    /\ UNCHANGED <<kind, overdue, broker, process, msg, nth, provider, records, cut>>

\* A transient error and Done.
RecordExhausted(w) ==
    /\ pc[w] = "answered" /\ answer[w] = "transient"
    /\ Done(w)
    /\ Record(w, "permanently-failed", "retry-budget-exhausted", attempt[w])

\* The timer fires, or the jittered backoff is zero and sleep returns at
\* once, cancelled or not.
Wake(w) ==
    /\ pc[w] = "sleep"
    /\ pc' = [pc EXCEPT ![w] = "push"]
    /\ UNCHANGED <<kind, overdue, broker, process, local, provider, records, cut>>

\* The context is cancelled during the sleep: the loop gives up.
AbandonBackoff(w) ==
    /\ pc[w] = "sleep" /\ Cancelled
    /\ Record(w, "permanently-failed", "retry-budget-exhausted", AbandonedAttempts(w))

\* msg.Ack.  The broker may never see it: the error is dropped.
Ack(w) ==
    /\ pc[w] = "ack"
    /\ \/ place' = [place EXCEPT ![msg[w]] = "acked"]
       \/ UNCHANGED place
    /\ pc' = [pc EXCEPT ![w] = "receive"]
    /\ msg' = [msg EXCEPT ![w] = NoMessage]
    /\ nth' = [nth EXCEPT ![w] = 0]
    /\ UNCHANGED <<kind, overdue, deliveries, redelivered, process, attempt, answer,
                   provider, records, cut>>

-----------------------------------------------------------------------------
(* The process: signal, orderly exit, crash, start.                        *)

Signal ==
    /\ proc = "up"
    /\ proc' = "stopping"
    /\ UNCHANGED <<kind, overdue, broker, starts, pc, local, provider, records, cut>>

\* The consumer is gone: whatever it had not acknowledged is delivered again.
Disconnect ==
    /\ proc' = "down"
    /\ place' = [m \in Messages |-> IF place[m] = "unacked" THEN "backlog" ELSE place[m]]
    /\ pc' = [w \in Workers |-> "stopped"]
    /\ msg' = [w \in Workers |-> NoMessage]
    /\ nth' = [w \in Workers |-> 0]
    /\ attempt' = [w \in Workers |-> 0]
    /\ answer' = [w \in Workers |-> "none"]
    /\ UNCHANGED <<kind, overdue, deliveries, redelivered, starts, provider, records>>

\* After ctx.Done main waits for every worker, then closes the reader.
Exit ==
    /\ Cancelled
    /\ Drained
    /\ Disconnect
    /\ UNCHANGED cut

Crash ==
    /\ Running
    /\ Disconnect
    /\ cut' = cut \cup {<<msg[w], nth[w]>> : w \in {v \in Workers : pc[v] \in Undecided}}

Start ==
    /\ proc = "down"
    /\ starts < MaxStarts
    /\ proc' = "up"
    /\ starts' = starts + 1
    /\ pc' = [w \in Workers |-> "receive"]
    /\ UNCHANGED <<kind, overdue, broker, local, provider, records, cut>>

-----------------------------------------------------------------------------
(* The environment: time passes, and the broker delivers an unacknowledged *)
(* message again to the live process (its connection was re-established).  *)

Deadline(m) ==
    /\ m \notin overdue
    /\ overdue' = overdue \cup {m}
    /\ UNCHANGED <<kind, broker, process, pc, local, provider, records, cut>>

Redeliver(m) ==
    /\ Running
    /\ place[m] = "unacked"
    /\ redelivered[m] < MaxRedeliveries
    /\ place' = [place EXCEPT ![m] = "backlog"]
    /\ redelivered' = [redelivered EXCEPT ![m] = @ + 1]
    /\ UNCHANGED <<kind, overdue, deliveries, process, pc, local, provider, records, cut>>

-----------------------------------------------------------------------------

Worker(w) ==
    \/ Receive(w)
    \/ ReceiveViolation(w)
    \/ ReceiveUndecryptable(w)
    \/ ReceiveCancelled(w)
    \/ RejectMalformed(w)
    \/ DropExpired(w)
    \/ RejectUntargeted(w)
    \/ StartDispatch(w)
    \/ Push(w)
    \/ RecordDelivered(w)
    \/ RecordPermanent(w)
    \/ Retry(w)
    \/ RecordExhausted(w)
    \/ Wake(w)
    \/ AbandonBackoff(w)
    \/ Ack(w)

Next ==
    \/ \E w \in Workers : Worker(w) \/ ReceiveError(w)
    \/ Signal \/ Exit \/ Crash \/ Start
    \/ \E m \in Messages : Deadline(m) \/ Redeliver(m)

Spec == Init /\ [][Next]_vars

(***************************************************************************)
(* A goroutine that can run is run, a Push returns (the HTTP client has a  *)
(* timeout) and a timer fires; main leaves once its workers are done.      *)
(* Nothing is assumed of signals, crashes, errors, redeliveries, deadlines *)
(* or restarts.                                                            *)
(***************************************************************************)
Fairness == (\A w \in Workers : WF_vars(Worker(w))) /\ WF_vars(Exit)

FairSpec == Spec /\ Fairness

-----------------------------------------------------------------------------
(* What must hold.                                                         *)

TypeOK ==
    /\ kind \in [Messages -> KindsInPlay]
    /\ overdue \subseteq Messages
    /\ place \in [Messages -> {"backlog", "unacked", "acked"}]
    /\ deliveries \in [Messages -> Nat]
    /\ redelivered \in [Messages -> 0 .. MaxRedeliveries]
    /\ proc \in {"up", "stopping", "down"}
    /\ starts \in 1 .. MaxStarts
    /\ pc \in [Workers -> Points]
    /\ msg \in [Workers -> Messages \cup {NoMessage}]
    /\ nth \in [Workers -> Nat]
    /\ attempt \in [Workers -> 0 .. MaxAttempts]
    /\ answer \in [Workers -> Answers \cup {"none"}]
    /\ calls \subseteq Messages \X Nat \X Nat
    /\ accepted \subseteq calls
    /\ outcomes \subseteq Outcome
    /\ violations \in Nat
    /\ cut \subseteq Messages \X Nat

\* Worker w holds delivery n of m and has no outcome for it yet.
InHand(w, m, n) == pc[w] \in Undecided /\ msg[w] = m /\ nth[w] = n

Decided(m, n) == \E o \in outcomes : o.msg = m /\ o.nth = n

(***************************************************************************)
(* A message leaves the topic only when an outcome was recorded for it:    *)
(* Ack comes after Dispatch on every path of Run, through crashes,         *)
(* redeliveries and lost acknowledgements.                                 *)
(***************************************************************************)
AckedOnlyAfterOutcome ==
    \A m \in Messages : place[m] = "acked" => \E o \in outcomes : o.msg = m

(***************************************************************************)
(* "Dispatch processes n and emits exactly one terminal outcome": of every *)
(* delivery that Receive returned, exactly one worker is still at work on  *)
(* it, or exactly one outcome was recorded, or a crash cut it.  An orderly *)
(* shutdown cuts none.                                                     *)
(***************************************************************************)
OneOutcomePerDelivery ==
    /\ \A o1, o2 \in outcomes : o1.msg = o2.msg /\ o1.nth = o2.nth => o1 = o2
    /\ \A m \in {x \in Messages : kind[x] # "undecryptable"} :
         \A n \in 1 .. deliveries[m] :
           LET hands == {w \in Workers : InHand(w, m, n)}
           IN  IF Decided(m, n) \/ <<m, n>> \in cut
               THEN hands = {} /\ ~(Decided(m, n) /\ <<m, n>> \in cut)
               ELSE \E w \in Workers : hands = {w}

(***************************************************************************)
(* The attempts of an outcome are the pushes really made for it: attempts  *)
(* 1 to o.attempts reached the provider and no other ever does, also when  *)
(* the loop was left in the middle of a backoff.  A delivery never makes   *)
(* more than MaxAttempts.                                                  *)
(***************************************************************************)
AttemptsAccount ==
    /\ \A o \in outcomes :
         {c \in calls : c[1] = o.msg /\ c[2] = o.nth}
           = {<<o.msg, o.nth, k>> : k \in 1 .. o.attempts}
    /\ \A c \in calls :
         /\ c[3] <= MaxAttempts
         /\ \A k \in 1 .. c[3] : <<c[1], c[2], k>> \in calls

(***************************************************************************)
(* The verdict agrees with the provider about the last attempt: it took a  *)
(* "delivered" notification and refused one that failed for a reason of    *)
(* its own.  Only the exhausted budget leaves it open.                     *)
(***************************************************************************)
VerdictMatchesProvider ==
    \A o \in outcomes :
      LET last == <<o.msg, o.nth, o.attempts>>
      IN  /\ o.status = "delivered" => last \in accepted
          /\ (o.status # "delivered" /\ o.reason # "retry-budget-exhausted")
               => last \notin accepted
          /\ o.status = "expired" => o.msg \in overdue

(***************************************************************************)
(* While the process lives, no message is stuck: one that was handed out   *)
(* and not acknowledged is held by a worker, or its last delivery has an   *)
(* outcome (the Ack was lost), or it could not be decrypted.               *)
(***************************************************************************)
NothingStranded ==
    \A m \in Messages :
      place[m] = "unacked" /\ kind[m] # "undecryptable" =>
        \/ \E w \in Workers : pc[w] \in Holding /\ msg[w] = m /\ nth[w] = deliveries[m]
        \/ Decided(m, deliveries[m])

(***************************************************************************)
(* The retry budget is reported as exhausted before it is only because     *)
(* some process was told to stop: no other error of the sleep exists.      *)
(***************************************************************************)
EarlyExhaustionOnlyOnShutdown ==
    (\E o \in outcomes : o.reason = "retry-budget-exhausted" /\ o.attempts # MaxAttempts)
      => proc # "up" \/ starts > 1

(***************************************************************************)
(* A message that was acknowledged is pushed again only where the broker   *)
(* had handed out a second copy to the same process.                       *)
(***************************************************************************)
PushedAfterAck == [][\A c \in calls' \ calls :
                        place[c[1]] = "acked" => redelivered[c[1]] > 0]_vars

(***************************************************************************)
(* Each message that can be decrypted gets an outcome, if from some time   *)
(* on the process is up with a worker that did not fail.                   *)
(***************************************************************************)
Alive == proc = "up" /\ \E w \in Workers : pc[w] # "failed"

EveryMessageDecided ==
    <>[]Alive => \A m \in Messages :
                   <>(kind[m] = "undecryptable" \/ \E o \in outcomes : o.msg = m)

(***************************************************************************)
(* A signalled process goes down: every worker leaves its loop, from a     *)
(* Push, from a backoff or from Receive, and main stops waiting.           *)
(***************************************************************************)
ShutdownCompletes == proc = "stopping" ~> proc = "down"

-----------------------------------------------------------------------------
(* What the repository's documents say and the code does not do.           *)

(***************************************************************************)
(* data-model.md: retry-budget-exhausted means that the transient errors   *)
(* exceeded DELIVERER_RETRY_MAX_ATTEMPTS.                                  *)
(***************************************************************************)
ExhaustedMeansBudgetSpent ==
    \A o \in outcomes : o.reason = "retry-budget-exhausted" => o.attempts = MaxAttempts

(***************************************************************************)
(* main.go: the deliverer emits a terminal outcome for every message; here *)
(* for every message that decrypts, if the process stays up from some time *)
(* on.                                                                     *)
(***************************************************************************)
DecidedWhileUp ==
    <>[](proc = "up") => \A m \in Messages :
        <>(kind[m] = "undecryptable" \/ \E o \in outcomes : o.msg = m)

(***************************************************************************)
(* spec.md FR-016: of a message that is unencrypted or cannot be           *)
(* decrypted, the violation is recorded and nothing is dispatched.         *)
(***************************************************************************)
EncryptionPolicyEnforced ==
    \A m \in Messages :
      /\ kind[m] = "undecryptable" /\ deliveries[m] > 0 => violations > 0
      /\ kind[m] = "unencrypted" => \A c \in calls : c[1] # m

-----------------------------------------------------------------------------
(* The deliverer implements what Delivery promises.                        *)

D == INSTANCE Delivery WITH
       pending <- {m \in Messages : place[m] # "acked"},
       taken <- {m \in Messages : \E c \in accepted : c[1] = m},
       verdicts <- {<<o.msg, o.status>> : o \in outcomes}

ImplementsDelivery == D!Spec
=============================================================================
