------------------------------- MODULE Provider -------------------------------
(***************************************************************************)
(* The push provider main selects: Pushover behind its HTTP API, or the    *)
(* sandbox.  A call of the Pushover provider sends a form and classifies   *)
(* the response; the service may take a notification whose caller has long *)
(* given up.  The sandbox runs a call under its mutex, in one step.        *)
(***************************************************************************)
EXTENDS Integers, Sequences, FiniteSets

CONSTANTS
    Calls,   \* the calls of Push
    Script   \* WithScriptedErrors: "nil", or the error a call returns

ASSUME ScriptAssumption == Script \in Seq({"nil", "transient", "provider-rejected-payload"})

VARIABLES
    chosen,   \* the provider buildProvider has made
    stage,    \* stage[c]: "idle", "sent" or "returned"
    reply,    \* reply[c]: the service's response
    result,   \* result[c]: what Push returned
    taken,    \* the calls whose notification the service has taken
    pos       \* the sandbox's place in the script

pvars == <<chosen, stage, reply, result, taken, pos>>

PermanentReasons ==
    {"provider-rejected-recipient", "provider-rejected-payload", "provider-auth-failed"}

Results == PermanentReasons \cup {"success", "transient"}

-----------------------------------------------------------------------------
(* Responses of the service: an HTTP status, the status member of the JSON *)
(* body, and whether a text of its errors has one of the words in it that  *)
(* isRecipientRejection looks for.  It says 1 of what it took and refuses  *)
(* with 4xx what it did not; after a 5xx nobody knows.                     *)

Statuses == {200, 400, 401, 403, 404, 429, 500}
Body == [ok : {0, 1}, named : BOOLEAN]
Response == [http : Statuses, body : Body]

\* A body that is cut at 4096 bytes, or is no JSON, leaves pushoverResp zero.
Unread == [ok |-> 0, named |-> FALSE]

NoResponse == [http |-> 0, body |-> Unread]

Responses(took) ==
    {r \in Response :
       /\ r.body.ok = 1 <=> r.http = 200 /\ took
       /\ took => r.http \in {200, 500}}

\* "user", "token" or "device", in any case and anywhere in a text: the word
\* decides, and not what the service complains of.
RecipientRejected(body) == body.named

\* Mutant of Classify: the body of a 2xx is not looked at.
ClassifyStatus(http, body) ==
    CASE http \in 200 .. 299 -> "success"
      [] http \in {400, 401, 403} -> "provider-rejected-payload"
      [] OTHER -> "transient"

Classify(http, body) ==
    CASE http \in 200 .. 299 /\ body.ok = 1 -> "success"
      [] http = 400 -> IF RecipientRejected(body)
                       THEN "provider-rejected-recipient" ELSE "provider-rejected-payload"
      [] http \in {401, 403} -> "provider-auth-failed"
      [] OTHER -> "transient"

-----------------------------------------------------------------------------

ProviderInit ==
    /\ chosen \in {"pushover", "sandbox"}
    /\ stage = [c \in Calls |-> "idle"]
    /\ reply = [c \in Calls |-> NoResponse]
    /\ result = [c \in Calls |-> "none"]
    /\ taken = {}
    /\ pos = 0

Return(c, res) ==
    /\ stage' = [stage EXCEPT ![c] = "returned"]
    /\ result' = [result EXCEPT ![c] = res]

\* Push sends nothing without content (or a target: resolve stops those).
RefuseForm(c, content) ==
    /\ chosen = "pushover" /\ stage[c] = "idle" /\ ~content
    /\ Return(c, "provider-rejected-payload")
    /\ UNCHANGED <<chosen, reply, taken, pos>>

SendForm(c, content) ==
    /\ chosen = "pushover" /\ stage[c] = "idle" /\ content
    /\ stage' = [stage EXCEPT ![c] = "sent"]
    /\ UNCHANGED <<chosen, reply, result, taken, pos>>

\* The service handles the form, whether its caller still waits or gave up.
Serve(c) ==
    /\ chosen = "pushover" /\ stage[c] # "idle"
    /\ reply[c] = NoResponse /\ result[c] \in {"none", "transient"}
    /\ \E took \in BOOLEAN : \E r \in Responses(took) :
         /\ reply' = [reply EXCEPT ![c] = r]
         /\ taken' = IF took THEN taken \cup {c} ELSE taken
    /\ UNCHANGED <<chosen, stage, result, pos>>

\* The response arrives, its body whole or not.
ReadResponse(c) ==
    /\ chosen = "pushover" /\ stage[c] = "sent" /\ reply[c] # NoResponse
    /\ \E body \in {reply[c].body, Unread} : Return(c, Classify(reply[c].http, body))
    /\ UNCHANGED <<chosen, reply, taken, pos>>

\* The client's timeout, a broken connection or a cancelled context.
LoseResponse(c) ==
    /\ chosen = "pushover" /\ stage[c] = "sent"
    /\ Return(c, "transient")
    /\ UNCHANGED <<chosen, reply, taken, pos>>

\* The script's next entry, "nil" once it is used up.
Scripted == IF pos < Len(Script) THEN Script[pos + 1] ELSE "nil"

\* Mutant of PushSandbox: an entry that fails is not used up.
PushSandboxStuck(c) ==
    /\ chosen = "sandbox" /\ stage[c] = "idle"
    /\ IF Scripted = "nil"
       THEN Return(c, "success") /\ taken' = taken \cup {c} /\ pos' = Len(Script)
       ELSE Return(c, Scripted) /\ UNCHANGED <<taken, pos>>
    /\ UNCHANGED <<chosen, reply>>

PushSandbox(c) ==
    /\ chosen = "sandbox" /\ stage[c] = "idle"
    /\ pos' = IF pos < Len(Script) THEN pos + 1 ELSE pos
    /\ IF Scripted = "nil"
       THEN Return(c, "success") /\ taken' = taken \cup {c}
       ELSE Return(c, Scripted) /\ UNCHANGED taken
    /\ UNCHANGED <<chosen, reply>>

Begin(c, content) == RefuseForm(c, content) \/ SendForm(c, content) \/ PushSandbox(c)

Proceed(c) == Serve(c) \/ ReadResponse(c) \/ LoseResponse(c)

-----------------------------------------------------------------------------
(* What must hold.                                                         *)

ProviderTypeOK ==
    /\ chosen \in {"pushover", "sandbox"}
    /\ stage \in [Calls -> {"idle", "sent", "returned"}]
    /\ reply \in [Calls -> Response \cup {NoResponse}]
    /\ result \in [Calls -> Results \cup {"none"}]
    /\ taken \subseteq Calls
    /\ pos \in 0 .. Len(Script)

Failed == {c \in Calls : result[c] \notin {"success", "none"}}

(***************************************************************************)
(* "Each Push consumes the next script entry": calls neither share an      *)
(* entry nor skip one, so that as many calls fail as failures were used    *)
(* up, and no call fails after the script.                                 *)
(***************************************************************************)
SandboxKeepsScript ==
    chosen = "sandbox" =>
      Cardinality(Failed) = Cardinality({i \in 1 .. pos : Script[i] # "nil"})

P == INSTANCE PushContract WITH
       verdict <- [c \in Calls |-> IF result[c] \in PermanentReasons THEN "permanent"
                                   ELSE result[c]]

ImplementsPush == P!Spec
=============================================================================
