# Verification of the notification pipeline

TLA+ models, TLC runs and TLAPS proofs for the Pulsar notification pipeline in
`src/`: a writer that accepts notifications over HTTP and publishes them,
encrypted, to a Pulsar topic, and a deliverer that consumes the topic and pushes
to Pushover. Where a document is quoted without a directory it is under
`src/specs/001-notification-pipeline/`.

## Inventory

| Part | State it keeps | Operations | Hard behaviour |
|---|---|---|---|
| client (`pkg/notificationclient`) | none | New, Submit, decode answers | lost answers, answers without a problem type, a POST the transport sends again |
| writer process (`cmd/writer`) | HTTP server, publisher, exporters | start, signal, bounded Shutdown | handlers still running when the publisher closes; a start that fails half way |
| HTTP server (`writer/httpserver`, `auth`, `problems`, `envelope`) | none | middleware chain, SubmitNotification | answer and counter against what was really published; panics |
| ingester (`writer/ingest`) | none | Validate, Accept | validation before the server's own fields are set; limits in bytes or characters |
| Pulsar wrapper (`pulsarlib`) | client, producer, consumer | Publish, Receive, Ack, Close | Send may fail after the broker stored the message; error translation; dropped Ack error |
| keys (`pulsarlib/keys.go`) | key files on disk | LoadKeySet, PublicKey, PrivateKey | rotation under running processes |
| deliverer process (`cmd/deliverer`) | signal context, worker goroutines | start, signal, wait for workers, close | crash, shutdown with work in hand, workers that end early |
| consumer loop (`deliverer/consumer`) | the message in hand | Receive, handle, Ack | order of record and Ack, error branches |
| dispatcher (`deliverer/dispatcher`) | attempt loop of one message | expiry check, resolve, push, retry, record | cancelled backoff, timeouts, a verdict after a lost answer |
| retry policy (`deliverer/retry`) | attempt counter | Next, Done | doubling in int64, unvalidated durations, jitter |
| outcome recorder (`deliverer/outcomes`) | none (a log) | Record | exactly once for each delivery |
| providers (`deliverer/provider/...`) | none / place in a script | Push | classification of cut, lost and late responses |
| configuration (`*/config`) | none | Load | conditions checked twice, or by nobody |

How they interact: client -> HTTP -> handlers -> ingester -> publisher -> broker
-> `Receive` of one of `DELIVERER_CONCURRENCY` workers -> dispatcher -> provider
-> recorder -> `Ack`. The workers share one Pulsar consumer on one Shared
subscription, one dispatcher and one recorder, and no other state; the requests
share one producer. Writer and deliverer share the topic and the key files, and
both are operated by the runbook `src/docs/key-rotation.md`.

What makes each part correct:

- writer: a 202 is given only for a message the broker stored; any error but 503
  only for one that was never handed to it; only checked submissions of listed
  callers are published; a shutdown ends, and disturbs nobody if it is orderly.
- ingester: accepts what the data model accepts, and nothing that cannot be sent.
- client: what Submit returns tells what happens to the notification, as far as
  the last request it sent can tell.
- keys: at every moment of a rotation the deliverer can read what it may receive.
- deliverer: a message leaves the topic only after its outcome is recorded; one
  outcome for a delivery; the outcome tells the truth about the attempts and the
  provider; nothing is stuck while the process lives; shutdown ends.
- retry: exponential, capped, bounded in number and in time.
- providers: a permanent failure is never of a notification the service took.
- both processes: whatever step fails, all that was opened is closed, and under
  nobody but the handlers a writer stopped waiting for.

## Modules

Three abstract specifications say what is promised; detailed modules implement
them, and `Pipeline` composes what is promised.

| Module | What it is | Implements | Instance | Proofs |
|---|---|---|---|---|
| `Acceptance` | promise: "accepted" only of what the topic holds, "refused" only of what was never handed over | | | |
| `Delivery` | promise: at least once, a verdict before a message is retired, "delivered" only of what was taken | | | |
| `PushContract` | promise: a success was taken, a permanent failure never is | | | |
| `Writer` | the writer process and its requests | `Acceptance` | `MCWriter` | `WriterProofs` |
| `Deliverer` | the deliverer process, its workers, the broker | `Delivery` | `MCDeliverer` | `DelivererProofs`, `DelivererAccounts`, `DelivererRefinement` |
| `Backoff` | `retry.Iterator` in two's complement, and what is slept | | `MCBackoff` | `BackoffProofs` |
| `Ingest` | Validate over the classes of every field, the stamping, the dispatcher's expiry check | | (by `Journey`) | `JourneyProofs` |
| `Provider` | Push of Pushover and of the sandbox, and their classification | `PushContract` | (by `Journey`) | `JourneyProofs` |
| `Journey` | one notification's contents from the caller to the last attempt | | `MCJourney` | `JourneyProofs` |
| `Client` | Submit | | (by `Pipeline`) | `PipelineProofs` |
| `Keys` | LoadKeySet, running writers, the rotation runbook | | (by `Pipeline`) | `PipelineProofs` |
| `Pipeline` | callers, writers, topic, deliverer and operator together | both halves | `MCPipeline` | `PipelineProofs` |
| `Startup` | `run()` of both binaries from Load to return | | `MCStartup` | `StartupProofs` |

`Writer` and `Deliverer` have the processes and abstract from contents;
`Journey` has the contents and abstracts from processes; `Startup` has what
comes before and after the work. `Pipeline` contains `Acceptance` and `Delivery`
where the code has a writer and a deliverer, which is sound because `Writer` and
`Deliverer` are shown to implement them.

### Writer

| Variable | Code |
|---|---|
| `req` | what a request is: route, credentials, Idempotency-Key header, body |
| `pc` | the connection or handler goroutine: unsent, connected, in `io.ReadAll` ("reading"), in `producer.Send` ("sending"), answered, closed, or ended with the process |
| `gone` | the request's context is cancelled |
| `queued`, `stored` | what the producer was given, what the broker holds (external) |
| `failure`, `answer`, `counted` | what Accept returned, what was written, the label of the submissions counter |
| `proc`, `ending`, `starts` | main: serving, in Shutdown, with the publisher closed, gone; why; how often started |

`AnswerHealth` to `StartHandler` are the chain recover -> request-id -> log ->
auth -> route in the order of `NewServer`; `RejectBody` to `PublishClosed` the
handler up to Send with everything Accept does; `SendOk` and `SendError` the
rest; `Signal`, `ShutdownDone`, `GraceExpires`, `ListenerFails`, `Exit`, `Crash`
and `Start` the process. Steps are cut where a handler waits: for the body and
in Send. The broker may store a message after Send failed, and after the crash.

### Deliverer

| Variable | Code |
|---|---|
| `pc`, `msg`, `attempt`, `answer` | a goroutine in `Consumer.Run`/`Dispatch`: where it is, its `ConsumedMessage`, `iter.attempt`, what `Push` returned |
| `proc` | main: before ctx.Done ("up"), in `wg.Wait` ("stopping"), gone ("down") |
| `outcomes`, `violations` | what `Recorder.Record` was called with |
| `kind`, `overdue` | what a message is, and whether `expires_at` has passed |
| `place`, `deliveries`, `redelivered` | the broker (external) |
| `calls`, `accepted` | the provider (external): requests it was sent, notifications it took |
| `nth`, `cut`, `starts` | history: which delivery a worker holds, deliveries a crash cut, process starts |

`Receive*` are the branches of `Run`; `RejectMalformed`, `DropExpired`,
`RejectUntargeted` and `StartDispatch` the ways through `handle` and the head of
`Dispatch`; `Push`, `RecordDelivered`, `RecordPermanent`, `Retry`,
`RecordExhausted`, `Wake` and `AbandonBackoff` the retry loop; `Ack` the end of
the iteration; `Signal`, `Exit`, `Crash` and `Start` the process; `Deadline` and
`Redeliver` the environment. An action that ends in `Record` is the whole path
to the record. An unknown error of `Push` is retried like a transient one.

Three points of the code that are easy to get wrong: `Receive` may still return
a message after the cancellation, since the client selects between the two; a
jittered backoff may be zero and `sleep` then returns at once, cancelled or not;
a Push that fails transiently may have been taken. External: the broker hands an
unacknowledged message to nobody else until the consumer disconnects or its
connection is re-established; whether the client returns an error for a message
it cannot decrypt is the constant `DecryptFailure`.

### Journey, Ingest, Provider

A field of a notification is the class of its value, one class for each thing
`Validate`, the data model or the dispatcher tells apart; "wide" is within a
limit in characters and over it in bytes, a "loose" URL is read by `net/url` and
outside RFC 3986, a "strange" one the other way round. Timestamps are absent,
the zero of Go, the zero of protobuf, or a moment up to `MaxTime`. There are two
clocks and nothing relates them: the writer's (`clock`) stamps `created_at`, the
deliverer's (`dclock`) is read once by `Dispatch` (`began`) and says what has
expired. `Accept` and `Refuse` are `Ingester.Accept`; `DropExpired`,
`RejectUntargeted` and `StartDispatch` the head of `Dispatch`; `Attempt` and
`Exchange` its calls of Push. A notification may also come from another producer
that has the public keys ("foreign"), since the dispatcher must be right about
those too.

`Provider` has a call of Push in two steps, the form sent and the response read,
and in between the service, external, which may take the notification, answer
with any status and body consistent with that, and do so after the caller gave
up. The body is read whole, or cut at 4096 bytes and then not decoded. Whether a
text of its errors has the word "user", "token" or "device" in it is free: the
provider looks for the words anywhere, so that they may be there by coincidence
or missing from a complaint about the recipient. That is why no property says
whom `provider-rejected-recipient` blames, only (`PushContract`) that nothing
blamed was taken. The sandbox runs under its mutex in one step.

### Client, Keys, Pipeline

`Client` is `Submit` with each way to return: its own errors, the transport's, an
unreadable body, the envelope, a problem document by `sentinelFor`. One call may
send more than one request: `NewRequest` of a `bytes.Reader` sets `GetBody`, and
with an Idempotency-Key header `net/http` sends the POST again when a connection
it has used before breaks without an answer (`Resend`, external, only for
`keyed` submissions). A request is `<<s, k>>`, the k-th sending of call s, and
only the last one can still be answered (`Latest`).

`Keys` has the names each running writer took from its environment, the files on
either side, and the operator's steps. The runbook's order is a guard only where
a later check of the code would not catch a violation.

`Pipeline` puts the messages between. Its writers and its deliverer are
`Acceptance` and `Delivery` of requests, each published under an identifier of
its own. A message is encrypted under all names of its writer and read with any
one of them; steps 6 and 7 of the runbook wait for the messages that are still
unfinished, those in the producers' hands included (the runbook's safety margin
stands for these). `alive` says whether the deliverer is up with a live worker;
it changes at any time, as crashes and failing workers make it.

### Startup

`Plan` is the order of construction in either `run()`; a step asks for its
settings and for what earlier steps built, or fails for reasons of its own
(files, the broker). `deferred` is the stack of deferred functions, run last
first by `Unwind`; `open` is what is open. Handlers come and go (`Handle`,
`HandlersEnd`) on connections that outlive the listener. `Shutdown` waits for
them until its deadline (`GraceExpires`); after that, or when `run()` returns the
listener's error, main goes on without them (`Abandons`) and closes the publisher
and the exporters under them. A signal before `NotifyContext` or after `stop()`
kills the process (`Kill`).

## Runs

| Run | Instance | States | Shows |
|---|---|---|---|
| `deliverer_safety` | 2 workers, 1 message of any of the 5 kinds, 2 attempts, 2 starts, 1 redelivery | 1,298,381 | the safety properties and the refinement of `Delivery` |
| `deliverer_live` | the same without a redelivery, fair | 56,228 | every message is decided while a worker lives; a signalled process goes down |
| `backoff` | all 4096 policies of a six-bit duration, 5 attempts | 433,086 | schedule and bound on the sleep, overflow included |
| `writer` | 2 requests with up to two oddities each, 2 starts, fair | 260,964 | the safety properties, the refinement of `Acceptance`, the end of a shutdown |
| `journey` | every class of every field alone and with those it is connected to, 2 moments of either clock, 2 attempts, a script of 2 | 155,374 | validation, expiry, attempts in turn, the refinement of `PushContract` |
| `pipeline` | 1 submission sent up to 2 times, 2 writers, one rotation with rollbacks, fair | 690,952 | the fate told, readability through a rotation, what is accepted is decided |
| `startup` | both binaries, every configuration at the limits, fair | 5,178 | nothing leaks, nothing is closed under a user main waits for, neither hangs |
| `deliverer_budget` | violation | | a shutdown in a backoff reports a spent budget that is not |
| `deliverer_workers` | violation, fair | | errors end all workers and the process stays up |
| `deliverer_policy` | violation | | an unencrypted message is dispatched, an undecryptable one ends a worker |
| `writer_errors` | violation | | two Idempotency-Key headers end in a panic and plain text |
| `journey_expiry` | violation | | a notification that has expired is accepted |

Why the bounds let the interesting things happen:

- deliverer: its hazards are about one message and at most two workers, the
  second with a second copy or started after a crash of the first. Workers hold
  one message at a time and no step reads two. Two attempts are the fewest with a
  backoff between them; two starts and a redelivery make up to four deliveries.
- writer: handlers share nothing but the process and the producer, so that two
  requests show every interference; two starts leave what the first process
  handed over to be stored under the second. Two oddities in one request show
  the order of the checks.
- journey: two moments (`MaxTime`, for each clock) are the fewest with an
  `expires_at` that passes, one that has passed and one that is still to come;
  `Others` and `Both` of `MCJourney` pair the fields that one rule reads or one
  branch hides.
- pipeline: submissions do not meet but in the guards of the operator's last
  steps; two writers can run under different configurations at once, which is
  what a rolling restart is. Two sendings (`MaxSends`) are the fewest of which the
  first can be published and the second refused, each by a writer and under keys
  of its own. The answers in play are one problem document that refuses, plain
  text, the envelope and 503; the outcome in play is the one that is not a
  success, for the client and the keys do not look at it.
- backoff: six bits are enough for a sound policy to double several times before
  its cap, and for doubling to wrap to either sign in an unsound one.

The proofs remove all these bounds for safety. `CHECK_DEADLOCK FALSE`: the
systems really stop, when all requests are answered and all messages
acknowledged, the process is down and not started again, or `run()` returned.

### Fairness

Weak fairness throughout, and only of what the code or its timers force:

- `Deliverer`: each worker and `Exit`. A goroutine that can run is run; a Push
  returns because the HTTP client has a 10 s timeout (`pushover.go:56`); a backoff
  ends because its timer fires; `wg.Wait` returns once the counter is zero.
  Nothing of signals, crashes, errors of Receive, redeliveries and restarts, so
  that `EveryMessageDecided` has the premise that the process stays up with a
  live worker from some time on. An acknowledgement may always be lost.
- `Writer`: closing idle connections while draining and the end of `Shutdown` (its
  grace period), `Exit`. Nothing of handlers: a body may never end, since the
  server has no read timeout, and a Send is not needed for a shutdown either.
- `Pipeline`: `Decide` of what is readable while `alive`, which is what
  `EveryMessageDecided` shows of `Deliverer` under the same premise.
  `AcceptedDecided` has the premise `<>[]alive`, since all workers may be dead in
  a live process (disagreement 2). Nothing of retiring: an Ack may be lost for
  ever, and its error is dropped (`apachepulsar.go:162`). Nothing of callers,
  writers, broker or operator.
- `Startup`: constructors return (the client's calls time out) and, outside
  serving, the steps of the end: workers leave once the context is cancelled,
  `Shutdown` is done or its deadline passes. A worker or listener may serve for
  ever, and a handler need never return.

### Disagreements between the documents and the code

Shown by a run that TLC refutes:

1. `retry-budget-exhausted` (data-model.md:157) is also recorded when a shutdown
   cancels a backoff, and the message is then acknowledged (`dispatcher.go:138`).
   `EarlyExhaustionOnlyOnShutdown` shows it is the only way.
2. A worker that ends with an error is not replaced (`main.go:135`), against "a
   terminal outcome for every message" (`main.go:5`, SC-003).
3. Nothing checks that a message was encrypted before it is dispatched, and
   `Receive` never returns the sentinel that `pulsarlib.go:65` promises
   (`apachepulsar.go:157`), against FR-016.
4. A request with two Idempotency-Key headers panics in the generated wrapper
   (`router.go:87`) and is answered in plain text, as are paths without a route,
   against `docs/errors.md:3` and the comment at `router.go:165`.
5. An `expires_at` in the past is accepted, since it is compared with the
   caller's `created_at` (`ingest.go:99`), against data-model.md:46; a zero
   `expires_at`, which data-model.md:29 calls never, is dropped.

Met while modelling, without a run of their own; the model follows the code:

- a panic skips the access log, whose line is written after the handler returns
  (`router.go:151`);
- a cancelled request is counted and answered as substrate-unavailable: the
  comment at `apachepulsar.go:126` says that the handler sorts these out, and no
  handler does;
- the label `auth_failed` is never counted: the middleware answers before the
  handler that has the counter;
- `Accept` may return an error that is neither of the two types its comment names
  (`ingest.go:89-92`): the identifier's and proto.Marshal's; they become 500;
- `Validate` and data-model.md differ in eight places. It lets through spaces at
  the ends of a title (line 77), a sound of any length, any past expiry, and a
  URL that `url.Parse` and `IsAbs` take (`ingest.go:234`) though RFC 3986, which
  line 110 asks for, does not: `https://host/a b` (`Lenient`). It counts data
  values, `url_title` and the idempotency key in bytes where the document says
  characters, and refuses a URL of RFC 3986 that `url.Parse` does not read:
  `https://ho%41st/` (`Stricter`);
- an expiry is checked by the deliverer's clock (`dispatcher.go:90`) against a
  moment the caller chose, and what has expired before the writer stamps it is
  accepted: a deliverer whose clock is behind pushes it
  (`StillbornPushedOnlyByLag`);
- `isRecipientRejection` takes the word "device" too, and any of its words
  anywhere in a text (`pushover.go:161`), where `pushover.go:9` and
  data-model.md:154 say the user or the token;
- the fields the writer assigns are overwritten, not "rejected" as
  `notification.proto:19-20` says;
- a 4xx other than 400, 401 and 403 is transient (`pushover.go`, the default
  case), where research.md:222 says permanent;
- `Attempts` of the sandbox counts a scripted "nil" twice (`sandbox.go:77`);
- FR-014 is not wired: `IdempotencyWindow` is read by nobody, as
  `docs/errors.md` says itself; at-least-once is all that `Delivery` promises.
  So an idempotency key does harm at present: because of it the transport may
  send the request again (`client.gen.go:325`), the writers publish it twice, or
  the second is refused (a token that has changed) and Submit returns an error
  that is not ambiguous for a notification that is delivered. `ResultTellsFate`
  has the exception for callers who give a key, and only for them;
- key files are read again for every use, not loaded at start-up
  (data-model.md, section 8; FR-017). The rotation is safe because of it;
- an error of the listener that races a signal is dropped; the log level is
  checked by `logging.New` and not by Load; durations are not checked at all.

## Proofs

All theorems are for any values of the constants that satisfy the named
assumptions of the modules: any sets of workers, messages, requests, writers and
submissions, any notifications, any script, any budget and any bounds.

**Deliverer** (`DelivererProofs`, `DelivererAccounts`, `DelivererRefinement`).
The safety properties are not inductive. The invariant that is has layers, each
inductive given the ones before it: `TypeOK` and `HoldsMessage`; `Custody`, a
delivery is in the hands of at most one worker; `Recorded`, a delivery has at
most one outcome, none while a worker still works on it (`AckAfterOutcome`);
`Pushed`, the calls of a delivery are what its worker has made or what its
outcome says (`AttemptsAccounted`); `Agreed`, what a worker heard is what the
provider did (`VerdictsTrue`); `Accounted`, each delivery is decided, in hand or
cut (`OneOutcome`, `NoneStranded`); `Alone`, without a redelivery a message has
one holder (`NoPushAfterAck`). `Implements`: a Push that was taken is a `Take`, a
record a `Decide`, an effective Ack a `Retire`, every other step stutters.
Two more layers say what reaches the provider: `Sorted`, which kind of message is
where (`TargetedOnly`, `ViolationsRecorded`), and `Limited`, how many deliveries
are left to a message (`DuplicatesBounded`: one for each start and each
redelivery to a live process, `MaxAttempts` pushes for each). `BrokerSteps` sorts
the steps by what they do to the subscription; `RecordsStand` follows from it, and
`HoldersCounted`, which counts workers: what waits on the subscription may still
be given to one more (`Copies`). `Alone` is its case without a redelivery.

**Backoff** (`BackoffProofs`). `Sound` is what the schedule needs: positive
durations that do not overflow when doubled. The invariant `Computing` says that
a call of Next, which starts from the beginning, passes through what earlier
calls gave. `BackoffBounded` needs no soundness: `Rested` says that a call in
progress has counted its attempt and not slept for it. Nor does `BackoffCapped`
for its first half: an overflow makes a backoff short or negative, never long.

**Writer** (`WriterProofs`). `Unanswered`, a handler at work has no answer, label
or error yet, is what answering once rests on. `TopicInv` adds that what is
queued was checked and what is answered agrees with `queued` and `stored`. It
gives the three properties of the topic, the counter and `Implements`.
`OrderlyEnd` rests on `Ended`: with an orderly end no handler is at work.
`WayInv` adds how far a request comes: `AnswersFollowRequests` says which answers
it may get, whatever else happens, and with `TopicInv` `DoubtsAreFew` names the
places where a stored notification is not known to be stored.

**Journey** (`JourneyProofs`). Lemmas about `Validate` for every notification:
what no error implies (`ValidContent`, `ValidTarget`, `ValidConforms`), what the
data model implies (`RefusedStrictly`). `AcceptedInv` carries the first through
stamping and the rest of the way. `CallInv`, for one call of Push, relates its
stage, the service's response, the result and whether the notification was
taken; `ProvidersKeepTheContract` maps the return of a call to `Answer` and the
service's work, late or not, to `Take`. `Following` relates the calls of one
notification to each other, for `AttemptsInTurn`. Nothing relates the clocks:
`StillbornNeedLag` and `EndsAreDue`, which says where each notification ends,
those included that `AcceptedIsAlive` misses, compare what Dispatch has read with
the stamp and hold for any drift.

**Pipeline** (`PipelineProofs`). `Provisioned`, the deliverer has every key that
is configured or that a running writer uses, is what a rotation keeps; with it
`ReadableStep` shows that no step of the operator leaves an unfinished message
unreadable. `Told` connects what became of a request with its answer, `Heard`
what Submit returned with the answer to the last request, for `FateTold`: the
requests before the last are what an error cannot speak of. `KeepsPromises`: the
composition implements `Acceptance` and `Delivery`, that is, adding client and
keys to them adds no behaviour. What `Delivery` promises in the abstract
(`DeliveryPromises`) then holds of the pipeline, and with `FateTold` gives
`RetiredIsDecided`, from Submit to the acknowledgement, with the same exception
for a caller who gave an idempotency key. `OldIsRetired` is what the rotation is
for.

**Startup** (`StartupProofs`). `Ordered` and `Owned`: what is open is what the
stack of deferred functions will close, and the stack is in the order of
opening. `Progressed` says how much of it each step of the plan has filled,
`Working` that workers run only while main waits for them and handlers only then
or abandoned, `Checked` that past Load
the settings are those Load accepts. `Done` adds that work begins after the whole
plan, for `ResultTrue`.

**Towards liveness.** A liveness property needs that steps lead to the goal, and
that they are taken. The first is proved, as an action property with a variant or
an order that no step goes back in; the second, weak fairness, is not:

| Theorem | What falls or rises | Half of |
|---|---|---|
| `HandlingsEnd` | the steps a worker has left for its delivery, at most `3 * MaxAttempts + 1` | `EveryMessageDecided`, `ShutdownCompletes` of `Deliverer` |
| `BackoffEnds` | the turns of Next's loop | the same: `Retry` is one step of `Deliverer` |
| `OnlyForward` | the stage of each request, and the process | `ShutdownCompletes` of `Writer` |
| `RunsForward` | the phase, and within it the plan, what is open or the stack; handlers come and go besides | `RunEnds` |

**Around the violations.** Where a run refutes what a document says, a theorem
says how far the code departs from it: `PlainOnlyByChance` for
`ErrorsAreProblems` (only an unknown path or two keys, of a listed caller, and
nothing was published), `ViolationsRecorded` and `TargetedOnly` for
`EncryptionPolicyEnforced` (a violation is recorded if and only if the decrypt
failure is the sentinel), `NoneReplaced` for `DecidedWhileUp` (once all workers
have failed, nothing is delivered until the process goes down),
`EarlyExhaustion` for `ExhaustedMeansBudgetSpent`, `EndsAreDue` for
`AcceptedIsAlive` (what had expired from the start waits, is dropped, or meets a
clock that is behind). `ResultTrue` tells what the exit status is worth: a
deliverer whose workers have all failed still ends with success once it is
signalled.

Only model-checked, because liveness and ENABLED are out of the prover's reach:
`EveryMessageDecided` and `ShutdownCompletes` of `Deliverer`, `ShutdownCompletes`
of `Writer`, `AcceptedDecided` of `Pipeline` and `RunEnds` of `Startup`. Every other property of a passing run has a theorem. Also only
model-checked is that the disagreements above do happen: a theorem can say that
nothing else does, a run shows the behaviour.

## Not modelled

- Metrics other than the submission counter, traces, log lines: nothing reads
  them. Their construction and shutdown are steps of `Startup`.
- Generated code: accessors, descriptors, JSON and protobuf layout, and an
  alternative client that nothing uses. The wrapper of `SubmitNotification`, the
  client's request builder and the enumeration of field codes are modelled.
- The emergency rotation of the runbook, which gives up messages on purpose.
- `funcoptslint`, scripts, dashboards, compose files: build-time tooling and
  assets with no part in the running system.
- The idempotency key that Submit leaves in the caller's Notification
  (`client.go:126`): nothing of the pipeline reads it.
- Redirects of the HTTP client (a 307 or 308 repeats the POST, with or without a
  key) and proxies between client and writer: the writer sends no redirect, and
  what a deployment puts between is not in the repository.
- Whom the push service really blames: `RecipientRejected` decides by words, and
  the words are free in the model.

## Plan

1. When FR-014 is wired: a store of keys in `Writer`, a caller that resubmits in
   `Pipeline` (the transport's own second sending is there), a sharper promise
   than at-least-once in `Delivery`, and `ResultTellsFate` without its exception.
2. Redirects and proxies between client and writer.
3. Larger instances of `Pipeline` with two submissions, outside the regular runs.
4. Proofs: more about the abstract specifications themselves, so that a change of
   either side can be checked against what its callers rely on.
