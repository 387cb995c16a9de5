-------------------------------- MODULE Writer --------------------------------
(***************************************************************************)
(* The writer process: an HTTP server whose handlers authenticate, decode  *)
(* and validate a submission, publish it to the topic and answer.          *)
(*                                                                         *)
(* Each request has a connection and a goroutine of its own.  A handler    *)
(* waits in two places, for the body and in Send; steps are cut there, and *)
(* what it does between them is one step.  The clients, the Pulsar client, *)
(* the broker and the operator are external.                               *)
(***************************************************************************)
EXTENDS Naturals

CONSTANTS
    Requests,         \* the requests clients may send
    RequestsInPlay,   \* which kinds of request they may be
    MaxStarts         \* bound: times the process is started

(***************************************************************************)
(* What a request is, as far as the writer tells requests apart.  "creds"  *)
(* is "none" without a non-empty bearer token and "unlisted" when the      *)
(* token is not in the tokens file; "key" is the Idempotency-Key header:   *)
(* "plain" when absent or one UTF-8 value, "many" when given more than     *)
(* once, "not UTF-8" when its bytes are not.  Of the body: "unreadable" is *)
(* over 1 MiB, "unsupported" has another content type, "undecodable" is no *)
(* Notification, "invalid" fails Validate.                                 *)
(***************************************************************************)
Routes == {"healthz", "notifications", "elsewhere"}
Credentials == {"none", "unlisted", "listed"}
KeyHeaders == {"plain", "many", "not UTF-8"}
Bodies == {"unreadable", "unsupported", "undecodable", "invalid", "valid"}
Request == [route : Routes, creds : Credentials, key : KeyHeaders, body : Bodies]

ASSUME RequestsAssumption == RequestsInPlay \subseteq Request
ASSUME StartsAssumption == MaxStarts \in Nat \ {0}

VARIABLES
    req,       \* req[r]: what request r is; fixed
    pc,        \* pc[r]: where the connection or handler of r is
    gone,      \* requests whose client closed the connection
    queued,    \* requests whose notification was handed to the producer
    stored,    \* requests whose notification the broker has stored
    failure,   \* failure[r]: the error Ingester.Accept returned
    answer,    \* answer[r]: status and kind of the answer written
    counted,   \* counted[r]: the outcome label of the submissions counter
    proc,      \* the process: "up", "draining", "closed" (publisher) or "down"
    ending,    \* how it came to close the publisher
    starts     \* how many times it was started

topic == <<queued, stored>>
replies == <<failure, answer, counted>>
process == <<proc, ending, starts>>
vars == <<req, pc, gone, topic, replies, process>>

-----------------------------------------------------------------------------
(* Answers: the problem documents, the envelope and what is neither.       *)

Problem(status, type) == [status |-> status, kind |-> type]

ValidationFailed == Problem(400, "validation-failed")
AuthenticationRequired == Problem(401, "authentication-required")
AuthenticationFailed == Problem(401, "authentication-failed")
UnsupportedContentType == Problem(415, "unsupported-content-type")
SubstrateUnavailable == Problem(503, "substrate-unavailable")
Internal == Problem(500, "internal")
ProblemDocuments == {ValidationFailed, AuthenticationRequired, AuthenticationFailed,
                     UnsupportedContentType, SubstrateUnavailable, Internal}

Accepted == [status |-> 202, kind |-> "envelope"]
Healthy == [status |-> 204, kind |-> "empty"]
NoRoute == [status |-> 404, kind |-> "plain"]
Panicked == [status |-> 500, kind |-> "plain"]
Answers == ProblemDocuments \cup {Accepted, Healthy, NoRoute, Panicked}

NoAnswer == [status |-> 0, kind |-> "none"]

Outcomes == {"accepted", "validation_failed", "auth_failed", "substrate_unavailable",
             "internal"}

\* What Accept returns when it fails: a ValidationError, an error of the
\* identifier's or of proto.Marshal, or a PublishError around the context's
\* error, the client's own or the one of a closed producer.
PublishErrors == {"cancelled", "not sent", "closed"}
Failures == {"validation", "identifier", "marshal"} \cup PublishErrors

\* Mutant of IngestAnswer: a failed publish is the caller's fault.
IngestAnswerBlaming(f) == IF f = "marshal" THEN Internal ELSE ValidationFailed

\* writeIngestError.  Publish makes every PublishError transient.
IngestAnswer(f) ==
    CASE f = "validation" -> ValidationFailed
      [] f \in PublishErrors -> SubstrateUnavailable
      [] OTHER -> Internal

\* Mutant of IngestOutcome: only validation errors are told apart.
IngestOutcomeCoarse(f) == IF f = "validation" THEN "validation_failed" ELSE "internal"

\* Mutant of IngestOutcome: the error itself is the label.
IngestOutcomeRaw(f) == f

\* outcomeForIngestError.
IngestOutcome(f) ==
    CASE f = "validation" -> "validation_failed"
      [] f \in PublishErrors -> "substrate_unavailable"
      [] OTHER -> "internal"

\* decodeBody: the whole body is read before its content type is looked at.
DecodeProblem(body) ==
    IF body = "unsupported" THEN UnsupportedContentType ELSE ValidationFailed

-----------------------------------------------------------------------------

Points == {"unsent", "connected", "reading", "sending", "answered", "closed", "cut",
           "crashed"}
Handling == {"reading", "sending"}

Running == proc \in {"up", "draining", "closed"}

Init ==
    /\ req \in [Requests -> RequestsInPlay]
    /\ pc = [r \in Requests |-> "unsent"]
    /\ gone = {} /\ queued = {} /\ stored = {}
    /\ failure = [r \in Requests |-> "none"]
    /\ answer = [r \in Requests |-> NoAnswer]
    /\ counted = [r \in Requests |-> "none"]
    /\ proc = "up" /\ ending = "none" /\ starts = 1

\* The server writes answer a and the goroutine ends.
Write(r, a) ==
    /\ pc' = [pc EXCEPT ![r] = "answered"]
    /\ answer' = [answer EXCEPT ![r] = a]

\* An answer from the middleware, the router or the recovery: the handler,
\* whose deferred function counts, was never called.
Turn(r, a) ==
    /\ Write(r, a)
    /\ UNCHANGED <<req, gone, topic, failure, counted, process>>

\* An answer from the handler, counted by its deferred function.
Finish(r, a, outcome) ==
    /\ Write(r, a)
    /\ counted' = [counted EXCEPT ![r] = outcome]
    /\ UNCHANGED <<req, gone, topic, process>>

\* Accept returned error f.
Fail(r, f) ==
    /\ failure' = [failure EXCEPT ![r] = f]
    /\ Finish(r, IngestAnswer(f), IngestOutcome(f))

-----------------------------------------------------------------------------
(* The chain in front of the handler.                                      *)

\* A listener that is open accepts the connection.
Connect(r) ==
    /\ proc = "up" /\ pc[r] = "unsent"
    /\ pc' = [pc EXCEPT ![r] = "connected"]
    /\ UNCHANGED <<req, gone, topic, replies, process>>

\* A connection without a request is closed: by its client, or by Shutdown.
CloseIdle(r) ==
    /\ Running /\ pc[r] = "connected"
    /\ pc' = [pc EXCEPT ![r] = "closed"]
    /\ UNCHANGED <<req, gone, topic, replies, process>>

\* The header of r has arrived.  A connection accepted earlier is served
\* during a shutdown too.
Arrived(r) == Running /\ pc[r] = "connected"

\* conditionalAuth: the health check goes round the authentication.
AnswerHealth(r) ==
    /\ Arrived(r) /\ req[r].route = "healthz"
    /\ Turn(r, Healthy)

\* auth.Middleware stops whom Authenticate does not know.
RefuseCaller(r) ==
    /\ Arrived(r) /\ req[r].route # "healthz"
    /\ \/ req[r].creds = "none" /\ Turn(r, AuthenticationRequired)
       \/ req[r].creds = "unlisted" /\ Turn(r, AuthenticationFailed)

\* Mutant of Admitted: the authentication is left out of the chain.
AdmittedUnknown(r) == Arrived(r) /\ req[r].route # "healthz"

Admitted(r) == Arrived(r) /\ req[r].route # "healthz" /\ req[r].creds = "listed"

\* No route has this path and method; mux answers in plain text.
MissRoute(r) ==
    /\ Admitted(r) /\ req[r].route = "elsewhere"
    /\ Turn(r, NoRoute)

\* The generated wrapper calls its ErrorHandlerFunc, which NewServer leaves
\* nil; recoverMiddleware answers, in plain text and past the access log.
PanicOnKeys(r) ==
    /\ Admitted(r) /\ req[r].route = "notifications"
    /\ req[r].key = "many"
    /\ Turn(r, Panicked)

\* The handler is called and waits for the body, for as long as it takes.
StartHandler(r) ==
    /\ Admitted(r) /\ req[r].route = "notifications"
    /\ req[r].key # "many"
    /\ pc' = [pc EXCEPT ![r] = "reading"]
    /\ UNCHANGED <<req, gone, topic, replies, process>>

-----------------------------------------------------------------------------
(* SubmitNotification and Ingester.Accept.                                 *)

\* io.ReadAll returns the body, or an error when its client has gone.
Read(r, body) ==
    /\ Running /\ pc[r] = "reading"
    /\ body = req[r].body \/ (r \in gone /\ body = "unreadable")

RejectBody(r) ==
    \E body \in {"unreadable", "unsupported", "undecodable"} :
      /\ Read(r, body)
      /\ Finish(r, DecodeProblem(body), "validation_failed")
      /\ UNCHANGED failure

RejectInvalid(r) == Read(r, "invalid") /\ Fail(r, "validation")

\* The source of randomness fails.
FailIdentifier(r) == Read(r, "valid") /\ Fail(r, "identifier")

\* The header replaced the key of the body, and Validate looks at its length
\* only: bytes that are no UTF-8 are first refused by proto.Marshal.
FailMarshal(r) == Read(r, "valid") /\ req[r].key = "not UTF-8" /\ Fail(r, "marshal")

\* Mutant of Publishable: validation is skipped.
PublishableUnchecked(r) ==
    /\ Read(r, "valid") \/ Read(r, "invalid")
    /\ req[r].key = "plain"

Publishable(r) == Read(r, "valid") /\ req[r].key = "plain"

\* Mutant of Publish: Send does not wait for the broker.
PublishForget(r) ==
    /\ Publishable(r) /\ proc # "closed"
    /\ queued' = queued \cup {r}
    /\ Write(r, Accepted)
    /\ counted' = [counted EXCEPT ![r] = "accepted"]
    /\ UNCHANGED <<req, gone, stored, failure, process>>

\* Send hands the notification to the producer and waits for the broker.
Publish(r) ==
    /\ Publishable(r) /\ proc # "closed"
    /\ queued' = queued \cup {r}
    /\ pc' = [pc EXCEPT ![r] = "sending"]
    /\ UNCHANGED <<req, gone, stored, replies, process>>

\* main has closed the publisher under the handler.
PublishClosed(r) == Publishable(r) /\ proc = "closed" /\ Fail(r, "closed")

\* Send returns: the broker has stored the message.
SendOk(r) ==
    /\ Running /\ pc[r] = "sending" /\ r \in stored
    /\ Finish(r, Accepted, "accepted")
    /\ UNCHANGED failure

\* Send returns an error, whether the broker stored the message or not: the
\* request's context was cancelled, the client gave up, or it was closed.
SendError(r) ==
    /\ Running /\ pc[r] = "sending"
    /\ \/ r \in gone /\ Fail(r, "cancelled")
       \/ Fail(r, "not sent")
       \/ proc = "closed" /\ Fail(r, "closed")

-----------------------------------------------------------------------------
(* The environment: a client disconnects; the broker stores what the       *)
(* producer had sent, possibly after the producer gave up on it.           *)

Leave(r) ==
    /\ pc[r] \in Handling
    /\ gone' = gone \cup {r}
    /\ UNCHANGED <<req, pc, topic, replies, process>>

Store(r) ==
    /\ r \in queued \ stored
    /\ stored' = stored \cup {r}
    /\ UNCHANGED <<req, pc, gone, queued, replies, process>>

-----------------------------------------------------------------------------
(* main: the signal, Shutdown with its grace period, the deferred Close of *)
(* the publisher and the exit that ends what still runs.                   *)

Signal ==
    /\ proc = "up"
    /\ proc' = "draining"
    /\ UNCHANGED <<req, pc, gone, topic, replies, ending, starts>>

ClosePublisher(how) ==
    /\ proc' = "closed"
    /\ ending' = how
    /\ UNCHANGED <<req, pc, gone, topic, replies, starts>>

\* Mutant of Idle: Shutdown does not wait for handlers that read a body.
IdleUnlessSending == \A r \in Requests : pc[r] # "sending"

\* Shutdown waits until no connection is in use.
Idle == \A r \in Requests : pc[r] \notin Handling \cup {"connected"}

ShutdownDone == proc = "draining" /\ Idle /\ ClosePublisher("orderly")

\* Mutant of GraceExpires: the context of Shutdown has no deadline.
GraceExpiresNever == FALSE

\* Shutdown returns its context's error, which main ignores.
GraceExpires == proc = "draining" /\ ~Idle /\ ClosePublisher("grace expired")

\* ListenAndServe fails: main returns the error without a Shutdown.
ListenerFails == proc = "up" /\ ClosePublisher("listener failed")

\* The process is gone, and with it every connection.
Stop(fate) ==
    /\ proc' = "down"
    /\ ending' = "none"
    /\ pc' = [r \in Requests |-> IF pc[r] \in Handling THEN fate
                                 ELSE IF pc[r] = "connected" THEN "closed" ELSE pc[r]]
    /\ UNCHANGED <<req, gone, topic, replies, starts>>

Exit == proc = "closed" /\ Stop("cut")

Crash == Running /\ Stop("crashed")

Start ==
    /\ proc = "down" /\ starts < MaxStarts
    /\ proc' = "up"
    /\ starts' = starts + 1
    /\ UNCHANGED <<req, pc, gone, topic, replies, ending>>

-----------------------------------------------------------------------------

Chain(r) ==
    \/ AnswerHealth(r)
    \/ RefuseCaller(r)
    \/ MissRoute(r)
    \/ PanicOnKeys(r)
    \/ StartHandler(r)

HandleBody(r) ==
    \/ RejectBody(r)
    \/ RejectInvalid(r)
    \/ FailIdentifier(r)
    \/ FailMarshal(r)
    \/ Publish(r)
    \/ PublishClosed(r)

Send(r) == SendOk(r) \/ SendError(r)

Next ==
    \/ \E r \in Requests :
         Connect(r) \/ CloseIdle(r) \/ Chain(r) \/ HandleBody(r) \/ Send(r)
           \/ Leave(r) \/ Store(r)
    \/ Signal \/ ShutdownDone \/ GraceExpires \/ ListenerFails \/ Exit \/ Crash \/ Start

Spec == Init /\ [][Next]_vars

(***************************************************************************)
(* A Shutdown closes idle connections and ends with its grace period; main *)
(* then exits.  Nothing is assumed of a handler: its body may never end,   *)
(* the server has no read timeout, and its Send may be slower than grace.  *)
(***************************************************************************)
Fairness ==
    /\ \A r \in Requests : WF_vars(proc = "draining" /\ CloseIdle(r))
    /\ WF_vars(ShutdownDone \/ GraceExpires)
    /\ WF_vars(Exit)

FairSpec == Spec /\ Fairness

-----------------------------------------------------------------------------
(* What must hold.                                                         *)

TypeOK ==
    /\ req \in [Requests -> RequestsInPlay]
    /\ pc \in [Requests -> Points]
    /\ gone \subseteq Requests
    /\ queued \subseteq Requests
    /\ stored \subseteq queued
    /\ failure \in [Requests -> Failures \cup {"none"}]
    /\ answer \in [Requests -> Answers \cup {NoAnswer}]
    /\ counted \in [Requests -> Outcomes \cup {"none"}]
    /\ proc \in {"up", "draining", "closed", "down"}
    /\ ending \in {"none", "orderly", "grace expired", "listener failed"}
    /\ starts \in 1 .. MaxStarts

(***************************************************************************)
(* FR-005 ties the acknowledgement to the publish: a caller reads 202 only *)
(* when the broker has stored the notification, through disconnects,       *)
(* closed publishers, crashes and restarts.                                *)
(***************************************************************************)
AcceptedMeansStored == \A r \in Requests : answer[r] = Accepted => r \in stored

(***************************************************************************)
(* Only 503 leaves the caller in doubt.  Every other error answer is given *)
(* before the notification was handed to the producer, so that it never    *)
(* turns up on the topic later.                                            *)
(***************************************************************************)
RefusedMeansUnpublished ==
    \A r \in Requests :
      answer[r] \notin {NoAnswer, Accepted, SubstrateUnavailable} => r \notin queued

(***************************************************************************)
(* Nothing reaches the topic from a caller the tokens file does not list,  *)
(* or with a body that Validate refuses.                                   *)
(***************************************************************************)
OnlyCheckedPublished ==
    \A r \in queued : req[r].creds = "listed" /\ req[r].body = "valid"

\* The label each answer is counted under, by whom the handler was called.
CountedAs(a) ==
    CASE a = Accepted -> {"accepted"}
      [] a \in {ValidationFailed, UnsupportedContentType} -> {"validation_failed"}
      [] a = SubstrateUnavailable -> {"substrate_unavailable"}
      [] a = Internal -> {"internal"}
      [] OTHER -> {"none"}

(***************************************************************************)
(* handlers.go keeps outcomeForIngestError next to writeIngestError "so    *)
(* the two stay in sync": what is counted is what the caller was told, on  *)
(* every path.                                                             *)
(***************************************************************************)
CountedAsAnswered == \A r \in Requests : counted[r] \in CountedAs(answer[r])

(***************************************************************************)
(* An orderly shutdown disturbs no handler: only a grace period that ran   *)
(* out or a failed listener lets main close the publisher under a handler  *)
(* or exit before it has answered.                                         *)
(***************************************************************************)
OrderlyEndDisturbsNone ==
    [][\A r \in Requests :
         (pc[r] # pc'[r] /\ pc'[r] = "cut") \/ (failure[r] # failure'[r] /\ failure'[r] = "closed")
           => ending \in {"grace expired", "listener failed"}]_vars

(***************************************************************************)
(* A signalled process goes down, whatever its clients do: Shutdown is     *)
(* bounded by the grace period, and nothing after it waits for a handler.  *)
(***************************************************************************)
ShutdownCompletes == proc = "draining" ~> proc = "down"

-----------------------------------------------------------------------------
(* What the repository's documents say and the code does not do.           *)

(***************************************************************************)
(* errors.md: "Every non-2xx response from the writer is an RFC 9457       *)
(* application/problem+json document"; router.go says so of panics too.    *)
(***************************************************************************)
ErrorsAreProblems ==
    \A r \in Requests : answer[r].status >= 300 => answer[r] \in ProblemDocuments

-----------------------------------------------------------------------------
(* The writer implements what Acceptance promises.                         *)

Word(a) ==
    CASE a = NoAnswer -> "nothing"
      [] a = Accepted -> "accepted"
      [] a = SubstrateUnavailable -> "retry"
      [] OTHER -> "refused"

A == INSTANCE Acceptance WITH
       Submissions <- Requests,
       handed <- queued,
       held <- stored,
       told <- [r \in Requests |-> Word(answer[r])]

ImplementsAcceptance == A!Spec
=============================================================================
