-------------------------------- MODULE Startup --------------------------------
(***************************************************************************)
(* run() of both binaries: the construction of everything, in order, each  *)
(* step of which may fail; the work; and the deferred functions that undo  *)
(* what was done.  Deliverer and Writer have the work itself.              *)
(***************************************************************************)
EXTENDS Integers, Sequences

CONSTANT Settings   \* the configurations in play

(***************************************************************************)
(* A configuration, as far as starting depends on it.  "required" is       *)
(* whether the variables without a default are set; "token" is whether     *)
(* PUSHOVER_APP_TOKEN is.  Log level and provider are words, "names" the   *)
(* encryption key names once blanks are removed.                           *)
(***************************************************************************)
Setting ==
    [ required    : BOOLEAN,
      level       : {"known", "unknown"},
      names       : {"some", "blank"},
      provider    : {"pushover", "sandbox", "unknown"},
      token       : BOOLEAN,
      concurrency : -1 .. 2,
      attempts    : -1 .. 2 ]

ASSUME SettingsAssumption == Settings \subseteq Setting

VARIABLES
    app,        \* "writer" or "deliverer"
    setting,    \* its configuration
    phase,      \* where run() is
    pos,        \* the next step of the plan
    open,       \* what is open
    deferred,   \* what deferred functions will close, the last first
    broken,     \* the listener has failed: its error is in errCh
    expired,    \* the grace period ran out before Shutdown was done
    result      \* what run() returns

vars == <<app, setting, phase, pos, open, deferred, broken, expired, result>>

Phases == {"starting", "serving", "stopping", "draining", "unwinding", "returned", "killed"}

\* "channel" is the producer or the subscription; "handlers" are open while a
\* request is handled.
Resources == {"exporters", "client", "channel", "signals", "listener", "handlers", "workers"}

\* What uses an x that is open.
Users ==
    [ exporters |-> {"client", "channel", "listener", "handlers", "workers"},
      client |-> {"channel"}, channel |-> {"listener", "handlers", "workers"},
      signals |-> {"workers"}, listener |-> {}, handlers |-> {}, workers |-> {} ]

WriterPlan == <<"config", "logger", "telemetry", "keys", "tokens", "publisher",
                "ingester", "handlers", "server">>

DelivererPlan == <<"config", "logger", "telemetry", "provider", "reader",
                   "dispatcher", "consumer">>

Plan == IF app = "writer" THEN WriterPlan ELSE DelivererPlan

Init ==
    /\ app \in {"writer", "deliverer"}
    /\ setting \in Settings
    /\ phase = "starting" /\ pos = 1
    /\ open = {} /\ deferred = <<>>
    /\ broken = FALSE /\ expired = FALSE /\ result = "none"

-----------------------------------------------------------------------------
(* What each step asks for.                                                *)

WriterLoad == setting.required /\ setting.names = "some"

\* buildProvider, and New of pushover.
BuildProvider ==
    \/ setting.provider = "pushover" /\ setting.token
    \/ setting.provider = "sandbox"

\* Mutant of DelivererLoad: the token is left to the provider.
DelivererLoadTokenless ==
    /\ setting.required
    /\ setting.provider \in {"pushover", "sandbox"}
    /\ setting.concurrency > 0 /\ setting.attempts > 0

DelivererLoad ==
    /\ setting.required
    /\ setting.provider = "sandbox" \/ (setting.provider = "pushover" /\ setting.token)
    /\ setting.concurrency > 0 /\ setting.attempts > 0

LogLevel == setting.level = "known"

LoadKeySet == setting.names = "some"

Built == {Plan[i] : i \in 1 .. (pos - 1)}

\* The required options of the constructors.
NewIngester == "publisher" \in Built
NewHandlers == "ingester" \in Built
NewServer == {"handlers", "tokens"} \subseteq Built
NewDispatcher == "provider" \in Built
NewConsumer == {"reader", "dispatcher"} \subseteq Built

Asks(step) ==
    CASE step = "config" -> IF app = "writer" THEN WriterLoad ELSE DelivererLoad
      [] step = "logger" -> LogLevel
      [] step = "keys" -> LoadKeySet
      [] step = "provider" -> BuildProvider
      [] step = "ingester" -> NewIngester
      [] step = "handlers" -> NewHandlers
      [] step = "server" -> NewServer
      [] step = "dispatcher" -> NewDispatcher
      [] step = "consumer" -> NewConsumer
      [] OTHER -> TRUE

\* The steps that read files or reach out, and fail for reasons of their own.
Outward == {"telemetry", "keys", "tokens", "publisher", "reader"}

-----------------------------------------------------------------------------

At(step) == phase = "starting" /\ pos <= Len(Plan) /\ Plan[pos] = step

\* Mutant of Pass: a step is left out.
Pass2 == pos' = pos + 2 /\ UNCHANGED <<app, setting, phase, broken, expired, result>>

Pass == pos' = pos + 1 /\ UNCHANGED <<app, setting, phase, broken, expired, result>>

Leave(with) ==
    /\ phase' = "unwinding" /\ result' = with
    /\ UNCHANGED <<app, setting, pos, broken, expired>>

\* Any step that opens nothing.
Construct(step) ==
    /\ At(step) /\ step \notin {"telemetry", "publisher", "reader"}
    /\ \/ Asks(step) /\ Pass
       \/ (step \in Outward \/ ~Asks(step)) /\ Leave("error")
    /\ UNCHANGED <<open, deferred>>

\* Mutant of InitTelemetry: the exporters are not shut down when the runtime
\* or the host metrics fail.
InitTelemetryLeaking ==
    /\ At("telemetry")
    /\ \/ Pass /\ open' = open \cup {"exporters"} /\ deferred' = Append(deferred, "exporters")
       \/ Leave("error") /\ open' \in {open, open \cup {"exporters"}} /\ UNCHANGED deferred

\* Init undoes what it did when a later part of it fails.
InitTelemetry ==
    /\ At("telemetry")
    /\ \/ Pass /\ open' = open \cup {"exporters"} /\ deferred' = Append(deferred, "exporters")
       \/ Leave("error") /\ UNCHANGED <<open, deferred>>

\* NewApachePublisher and NewApacheConsumer close the client when they fail;
\* the wrapper's Close closes the channel, then the client.
OpenPulsar(step) ==
    /\ step \in {"publisher", "reader"} /\ At(step)
    /\ \/ /\ Pass
          /\ open' = open \cup {"client", "channel"}
          /\ deferred' = deferred \o <<"client", "channel">>
       \/ Leave("error") /\ UNCHANGED <<open, deferred>>

Work ==
    IF app = "writer" THEN {"listener"}
    ELSE IF setting.concurrency > 0 THEN {"workers"} ELSE {}

\* NotifyContext and the goroutines.
Serve ==
    /\ phase = "starting" /\ pos > Len(Plan)
    /\ phase' = "serving"
    /\ open' = open \cup {"signals"} \cup Work
    /\ deferred' = Append(deferred, "signals")
    /\ UNCHANGED <<app, setting, pos, broken, expired, result>>

-----------------------------------------------------------------------------
(* The end: a signal, or an error of the listener.                         *)

\* ListenAndServe fails, at once or later; errCh has room for the error.
ListenerFails ==
    /\ phase \in {"serving", "stopping"} /\ "listener" \in open
    /\ open' = open \ {"listener"} /\ broken' = TRUE
    /\ UNCHANGED <<app, setting, phase, pos, deferred, expired, result>>

\* main's select takes the error, though a signal may have come as well.
ReturnError ==
    /\ phase = "serving" /\ broken
    /\ Leave("error")
    /\ UNCHANGED <<open, deferred>>

Signal ==
    /\ phase = "serving"
    /\ phase' = "stopping"
    /\ UNCHANGED <<app, setting, pos, open, deferred, broken, expired, result>>

\* Shutdown closes the listener first.
BeginShutdown ==
    /\ phase = "stopping" /\ app = "writer"
    /\ phase' = "draining"
    /\ open' = open \ {"listener"}
    /\ UNCHANGED <<app, setting, pos, deferred, broken, expired, result>>

\* Every connection is idle and closed.
ShutdownDone ==
    /\ phase = "draining" /\ "handlers" \notin open
    /\ Leave("ok")
    /\ UNCHANGED <<open, deferred>>

\* Shutdown gives up at its deadline, and its error is dropped.
GraceExpires ==
    /\ phase = "draining"
    /\ expired' = TRUE
    /\ phase' = "unwinding" /\ result' = "ok"
    /\ UNCHANGED <<app, setting, pos, open, deferred, broken>>

\* main goes on without waiting for the connections that are left.
Abandons == expired \/ (broken /\ result = "error")

\* A connection that was accepted lives on when the listener fails or closes.
Handle ==
    /\ app = "writer" /\ "handlers" \notin open
    /\ phase \in {"serving", "stopping", "draining"} \/ (phase = "unwinding" /\ Abandons)
    /\ open' = open \cup {"handlers"}
    /\ UNCHANGED <<app, setting, phase, pos, deferred, broken, expired, result>>

\* The last handler returns.
HandlersEnd ==
    /\ phase \in {"serving", "stopping", "draining", "unwinding"} /\ "handlers" \in open
    /\ open' = open \ {"handlers"}
    /\ UNCHANGED <<app, setting, phase, pos, deferred, broken, expired, result>>

\* Mutant of WorkersEnd: they do not look at the context.
WorkersEndOnError ==
    /\ phase = "serving" /\ "workers" \in open
    /\ open' = open \ {"workers"}
    /\ UNCHANGED <<app, setting, phase, pos, deferred, broken, expired, result>>

\* The last worker returns, with an error or because of the signal.
WorkersEnd ==
    /\ phase \in {"serving", "stopping"} /\ "workers" \in open
    /\ open' = open \ {"workers"}
    /\ UNCHANGED <<app, setting, phase, pos, deferred, broken, expired, result>>

\* Mutant of Wait: main does not wait for the workers.
WaitNot ==
    /\ phase = "stopping" /\ app = "deliverer"
    /\ Leave("ok")
    /\ UNCHANGED <<open, deferred>>

\* wg.Wait.
Wait ==
    /\ phase = "stopping" /\ app = "deliverer" /\ "workers" \notin open
    /\ Leave("ok")
    /\ UNCHANGED <<open, deferred>>

\* The deferred functions, the last first; their errors are dropped.
Unwind ==
    /\ phase = "unwinding" /\ deferred # <<>>
    /\ open' = open \ {deferred[Len(deferred)]}
    /\ deferred' = SubSeq(deferred, 1, Len(deferred) - 1)
    /\ UNCHANGED <<app, setting, phase, pos, broken, expired, result>>

Return ==
    /\ phase = "unwinding" /\ deferred = <<>>
    /\ phase' = "returned"
    /\ UNCHANGED <<app, setting, pos, open, deferred, broken, expired, result>>

\* A signal that nobody has asked for, or not any more, ends the process.
Kill ==
    /\ phase \in {"starting", "unwinding"} /\ "signals" \notin open
    /\ phase' = "killed"
    /\ UNCHANGED <<app, setting, pos, open, deferred, broken, expired, result>>

Steps == {WriterPlan[i] : i \in DOMAIN WriterPlan}
           \cup {DelivererPlan[i] : i \in DOMAIN DelivererPlan}

Start == InitTelemetry \/ Serve \/ \E step \in Steps : Construct(step) \/ OpenPulsar(step)

End == \/ BeginShutdown \/ ShutdownDone \/ GraceExpires
       \/ WorkersEnd \/ Wait \/ Unwind \/ Return

Next ==
    \/ Start \/ End \/ ListenerFails \/ ReturnError \/ Signal \/ Kill
    \/ Handle \/ HandlersEnd

Spec == Init /\ [][Next]_vars

(***************************************************************************)
(* Constructors return, since the Pulsar client's calls time out; Shutdown *)
(* is done or its deadline passes; the workers end once the context is     *)
(* cancelled (ShutdownCompletes of Deliverer), and may run for ever        *)
(* before.  No handler need ever return.                                   *)
(***************************************************************************)
FairSpec == Spec /\ WF_vars(Start) /\ WF_vars(phase # "serving" /\ End)

-----------------------------------------------------------------------------
(* What must hold.                                                         *)

TypeOK ==
    /\ app \in {"writer", "deliverer"}
    /\ setting \in Setting
    /\ phase \in Phases
    /\ pos \in 1 .. (Len(Plan) + 1)
    /\ open \subseteq Resources
    /\ deferred \in Seq(Resources)
    /\ broken \in BOOLEAN /\ expired \in BOOLEAN
    /\ result \in {"none", "ok", "error"}

\* The users that something may be closed under.
Abandoned == IF Abandons THEN {"handlers"} ELSE {}

(***************************************************************************)
(* When run() returns, at whatever step it failed, it has closed all that  *)
(* it opened: the Pulsar client is closed and the telemetry flushed on     *)
(* every way out.  What may still run is a handler, if the grace period    *)
(* ran out or the listener failed.                                         *)
(***************************************************************************)
NothingLeaked == phase = "returned" => open \subseteq Abandoned

(***************************************************************************)
(* What Load accepts is usable: no later step refuses the key names, the   *)
(* provider or its token, or misses what it needs, and no deliverer runs   *)
(* without workers or attempts.  There is one exception: an unknown log    *)
(* level passes Load and is refused by logging.New.                        *)
(***************************************************************************)
LoadedIsUsable ==
    /\ phase = "starting" /\ pos \in 2 .. Len(Plan) /\ ~Asks(Plan[pos]) =>
         Plan[pos] = "logger" /\ setting.level = "unknown"
    /\ phase = "serving" /\ app = "deliverer" => setting.concurrency > 0 /\ setting.attempts > 0

(***************************************************************************)
(* Nothing is closed under what still uses it: no reader under a worker,   *)
(* no publisher under a listener or a handler, no client under its         *)
(* channel, and the exporters after everything that reports to them.  Only *)
(* handlers may lose the publisher and the exporters under them, and only  *)
(* those that main did not wait for: the grace period ran out, or the      *)
(* listener failed and run() returned its error at once.                   *)
(***************************************************************************)
ClosedInOrder == [][\A x \in open \ open' : Users[x] \cap open' \subseteq Abandoned]_vars

(***************************************************************************)
(* Neither binary hangs while it starts or while it stops, whichever step  *)
(* fails, whenever the signal comes, and whether or not a handler ends.    *)
(***************************************************************************)
RunEnds ==
    /\ phase = "starting" ~> phase # "starting"
    /\ phase \in {"stopping", "draining", "unwinding"} ~> phase \in {"returned", "killed"}
=============================================================================
