----------------------------- MODULE JourneyProofs -----------------------------
(***************************************************************************)
(* The way of a notification's contents, for any notifications, any script *)
(* and any budget: what Validate accepts, that it can be sent, when the     *)
(* stillborn are pushed, that the providers keep PushContract, in which    *)
(* order and for what Push is called, and where a notification ends.       *)
(***************************************************************************)
EXTENDS Journey, FiniteSetTheorems, TLAPS

-----------------------------------------------------------------------------
(* What Validate accepts and refuses.                                      *)

\* Without errors every part is without errors.
LEMMA ValidParts ==
  ASSUME NEW n, Validate(n) = {}
  PROVE  /\ ContentErrors(n) = {} /\ TargetErrors(n) = {}
         /\ TimestampErrors(n) = {} /\ KeyErrors(n) = {}
  BY DEF Validate

LEMMA ValidContent ==
  ASSUME NEW n, ContentErrors(n) = {}
  PROVE  /\ n.content
         /\ n.title \notin {"empty", "blank", "long"} /\ n.body \notin {"empty", "long"}
         /\ n.priority \in -2 .. 2
         /\ ~n.crowded /\ n.data \cap {"odd key", "long value", "wide value"} = {}
<1>1. n.content
  BY DEF ContentErrors
<1>2. /\ n.title # "empty" /\ n.title # "blank" /\ n.title # "long"
      /\ n.body # "empty" /\ n.body # "long"
      /\ n.priority \in -2 .. 2
      /\ DataErrors(n) = {}
  BY <1>1 DEF ContentErrors, When
<1>3. /\ ~n.crowded /\ "odd key" \notin n.data
      /\ n.data \cap {"long value", "wide value"} = {}
  BY <1>2 DEF DataErrors, When
<1> QED BY <1>1, <1>2, <1>3

LEMMA ValidTarget ==
  ASSUME NEW n, TargetErrors(n) = {}
  PROVE  /\ n.pushover
         /\ n.user \notin {"empty", "odd"}
         /\ n.device \notin {"odd", "long", "long and odd"}
         /\ n.url \notin {"long", "relative", "strange"}
         /\ n.url_title \notin {"wide", "long"}
         /\ n.url_title # "empty" => n.url # "empty"
<1>1. n.pushover
  BY DEF TargetErrors
<1>2. /\ n.user # "empty" /\ n.user # "odd"
      /\ n.device \notin {"odd", "long", "long and odd"}
      /\ UrlErrors(n) = {}
  BY <1>1 DEF TargetErrors, When
<1>3. /\ n.url \notin {"long", "relative", "strange"}
      /\ n.url_title \notin {"wide", "long"}
      /\ n.url_title # "empty" => n.url # "empty"
  BY <1>2 DEF UrlErrors, When
<1> QED BY <1>1, <1>2, <1>3

\* What Validate accepts, stamped, is as the data model wants it or lenient.
LEMMA ValidConforms ==
  ASSUME NEW n \in Notification, NEW now \in 1 .. MaxTime, Validate(n) = {}
  PROVE  LET s == Stamped(n, now) IN
           Conforms([s EXCEPT !.created = Absent], now) \/ Lenient(s)
<1> DEFINE s == Stamped(n, now)
           t == [s EXCEPT !.created = Absent]
<1>1. /\ ContentErrors(n) = {} /\ TargetErrors(n) = {} /\ KeyErrors(n) = {}
  BY ValidParts
<1>2. n.key \notin {"wide", "long"}
  BY <1>1 DEF KeyErrors, When
<1>3. /\ t.content = n.content /\ t.title = n.title /\ t.body = n.body
      /\ t.priority = n.priority /\ t.crowded = n.crowded /\ t.data = n.data
      /\ t.pushover = n.pushover /\ t.user = n.user /\ t.device = n.device
      /\ t.sound = n.sound /\ t.url = n.url /\ t.url_title = n.url_title
      /\ t.key = n.key /\ t.expires = n.expires /\ t.created = Absent
  BY DEF Stamped, Notification
<1>4. s.title = n.title /\ s.sound = n.sound /\ s.url = n.url /\ s.expires = n.expires /\ s.created = now
  BY DEF Stamped, Notification
<1> HIDE DEF s, t
<1>5. CASE n.title = "padded" \/ n.sound = "long" \/ n.url = "loose"
  BY <1>4, <1>5 DEF Lenient, s
<1>6. CASE n.expires # Absent /\ n.expires < now
  BY <1>4, <1>6 DEF Lenient, s
<1>7. CASE /\ n.title # "padded" /\ n.sound # "long" /\ n.url # "loose"
           /\ ~(n.expires # Absent /\ n.expires < now)
  <2>1. n.title = "plain" /\ n.body = "plain" /\ n.user = "plain"
    BY <1>1, <1>7, ValidContent, ValidTarget DEF Notification
  <2>2. /\ n.device \in {"empty", "plain"} /\ n.sound \in {"empty", "plain"}
        /\ n.url \in {"empty", "plain"} /\ n.url_title \in {"empty", "plain"}
        /\ n.key \in {"empty", "plain"}
    BY <1>1, <1>2, <1>7, ValidTarget DEF Notification
  <2>3. n.data \subseteq {"plain"} /\ ~n.crowded /\ n.priority \in -2 .. 2
    <3>1. n.data \subseteq DataEntries
      BY DEF Notification
    <3>2. n.data \cap {"odd key", "long value", "wide value"} = {}
      BY <1>1, ValidContent
    <3>3. n.data \subseteq {"plain"}
      BY <3>1, <3>2 DEF DataEntries
    <3> QED BY <1>1, <3>3, ValidContent
  <2>4. n.content /\ n.pushover /\ (n.url_title # "empty" => n.url # "empty")
    BY <1>1, ValidContent, ValidTarget
  <2>5. n.expires = Absent \/ n.expires >= now
    <3>1. n.expires \in Timestamps
      BY DEF Notification
    <3>2. n.expires \in Int /\ now \in Int
      BY <3>1, TimeAssumption DEF Timestamps, Absent, YearOne, Epoch
    <3> QED BY <1>7, <3>2
  <2>6. Conforms(t, now)
    BY <1>3, <2>1, <2>2, <2>3, <2>4, <2>5 DEF Conforms
  <2> QED BY <2>6 DEF t, s
<1> QED BY <1>5, <1>6, <1>7

\* What Validate refuses, the data model forbids, or it is counted in bytes.
LEMMA RefusedStrictly ==
  ASSUME NEW n \in Notification, NEW now \in 1 .. MaxTime,
         Conforms(n, now), ~Stricter(n)
  PROVE  Validate(n) = {}
<1>1. ContentErrors(n) = {}
  <2>1. DataErrors(n) = {} BY DEF Conforms, Stricter, DataErrors, When
  <2> QED BY <2>1 DEF Conforms, ContentErrors, When
<1>2. UrlErrors(n) = {} BY DEF Conforms, Stricter, UrlErrors, When
<1>3. TargetErrors(n) = {} BY <1>2 DEF Conforms, TargetErrors, When
<1>4. TimestampErrors(n) = {} BY DEF Conforms, TimestampErrors, When
<1>5. KeyErrors(n) = {} BY DEF Conforms, Stricter, KeyErrors, When
<1> QED BY <1>1, <1>3, <1>4, <1>5 DEF Validate

\* Every error has a code of the catalogue.
LEMMA ErrorsHaveCodes == \A n : Validate(n) \subseteq Codes
<1> SUFFICES ASSUME NEW n PROVE Validate(n) \subseteq Codes
  OBVIOUS
<1>1. \A c, e : e \in Codes => When(c, e) \subseteq Codes
  BY DEF When
<1>2. /\ <<"content.data", "too-many-entries">> \in Codes
      /\ <<"content.data", "key-invalid">> \in Codes
      /\ <<"content.data", "value-too-long">> \in Codes
  BY DEF Codes
<1>3. DataErrors(n) \subseteq Codes
  BY <1>1, <1>2 DEF DataErrors
<1>4. ContentErrors(n) \subseteq Codes
  BY <1>3 DEF ContentErrors, When, Codes
<1>5. UrlErrors(n) \subseteq Codes
  BY DEF UrlErrors, When, Codes
<1>6. /\ <<"target.pushover.user_or_group_key", "required">> \in Codes
      /\ <<"target.pushover.user_or_group_key", "malformed">> \in Codes
      /\ <<"target.pushover.device_name", "too-long">> \in Codes
      /\ <<"target.pushover.device_name", "malformed">> \in Codes
      /\ <<"target", "missing">> \in Codes
  BY DEF Codes
<1>7. TargetErrors(n) \subseteq Codes
  BY <1>1, <1>5, <1>6 DEF TargetErrors
<1>8. TimestampErrors(n) \subseteq Codes
  BY DEF TimestampErrors, When, Codes
<1>9. KeyErrors(n) \subseteq Codes
  BY DEF KeyErrors, When, Codes
<1> QED BY <1>4, <1>7, <1>8, <1>9 DEF Validate

-----------------------------------------------------------------------------
(* What the provider makes of a response.                                  *)

LEMMA Classified ==
  ASSUME NEW http, NEW body
  PROVE  /\ Classify(http, body) \in
              {"success", "provider-rejected-recipient", "provider-rejected-payload",
               "provider-auth-failed", "transient"}
         /\ Classify(http, body) = "success" => body.ok = 1
         /\ Classify(http, body) \in PermanentReasons => http \in {400, 401, 403}
<1>1. Classify(http, body) \in
        {"success", "provider-rejected-recipient", "provider-rejected-payload",
         "provider-auth-failed", "transient"}
  BY Zenon DEF Classify
<1>2. Classify(http, body) = "success" => body.ok = 1
  BY Zenon DEF Classify
<1>3. /\ Classify(http, body) \in {"provider-rejected-recipient", "provider-rejected-payload"}
           => http = 400
      /\ Classify(http, body) = "provider-auth-failed" => http \in {401, 403}
  BY Zenon DEF Classify
<1>4. Classify(http, body) \in PermanentReasons => http \in {400, 401, 403}
  BY <1>3 DEF PermanentReasons
<1> QED BY <1>1, <1>2, <1>4

\* The body read is the service's, or nothing and then no success.
LEMMA Reads ==
  ASSUME NEW took \in BOOLEAN, NEW r \in Responses(took), NEW body \in {r.body, Unread}
  PROVE  LET res == Classify(r.http, body) IN
           /\ res \in Results
           /\ res = "success" => took
           /\ res \in PermanentReasons => ~took
<1> DEFINE res == Classify(r.http, body)
<1>1. /\ r.body.ok = 1 => took
      /\ took => r.http \in {200, 500}
  BY DEF Responses
<1>2. body.ok = 1 => body = r.body
  BY DEF Unread
<1>3. res \in Results
  BY Classified DEF Results, PermanentReasons
<1>4. /\ res = "success" => body.ok = 1
      /\ res \in PermanentReasons => r.http \in {400, 401, 403}
  BY Classified
<1> HIDE DEF res
<1>5. res = "success" => took
  BY <1>1, <1>2, <1>4
<1>6. res \in PermanentReasons => ~took
  BY <1>1, <1>4
<1> QED BY <1>3, <1>5, <1>6 DEF res

-----------------------------------------------------------------------------
(* The calls of Push.  The invariant of a call: nothing is returned before *)
(* the form is sent, a response says whether the service took it, and the  *)
(* result goes with the response.                                          *)

CallInv(c) ==
    /\ stage[c] = "idle" => result[c] = "none" /\ c \notin taken
    /\ stage[c] = "sent" => result[c] = "none"
    /\ chosen = "pushover" => \/ reply[c] = NoResponse /\ c \notin taken
                              \/ reply[c] \in Responses(c \in taken)
    /\ result[c] = "success" => c \in taken
    /\ result[c] \in PermanentReasons => c \notin taken

PushInv == \A c \in Calls : CallInv(c)

Verdict(res) == IF res \in PermanentReasons THEN "permanent" ELSE res

\* A call that returns leaves the others as they were.
LEMMA Returned ==
  ASSUME ProviderTypeOK, NEW c \in Calls, NEW res \in Results, Return(c, res)
  PROVE  /\ stage' \in [Calls -> {"idle", "sent", "returned"}]
         /\ result' \in [Calls -> Results \cup {"none"}]
         /\ stage'[c] = "returned" /\ result'[c] = res
         /\ \A d \in Calls \ {c} : stage'[d] = stage[d] /\ result'[d] = result[d]
  BY DEF ProviderTypeOK, Return

\* For the contract, it has answered.
LEMMA Answered ==
  ASSUME ProviderTypeOK, NEW c \in Calls, NEW res \in Results, Return(c, res),
         result[c] = "none",
         taken' \in {taken, taken \cup {c}},
         res = "success" => c \in taken',
         res \in PermanentReasons => c \notin taken'
  PROVE  [P!Next]_(P!cvars)
<1> DEFINE old == [d \in Calls |-> Verdict(result[d])]
           new == [d \in Calls |-> Verdict(result'[d])]
           v   == Verdict(res)
<1>1. new = [old EXCEPT ![c] = v]
  BY Returned
<1>2. old[c] = "none"
  BY DEF Verdict, PermanentReasons
<1>3. v \in P!Verdicts
  BY DEF Verdict, Results, P!Verdicts
<1>4. /\ v = "success" => c \in taken'
      /\ v = "permanent" => c \notin taken'
  BY DEF Verdict, Results, PermanentReasons
<1> HIDE DEF v
<1>5. P!Answer(c, v)
  BY <1>1, <1>2, <1>4 DEF P!Answer, Verdict
<1> QED BY <1>3, <1>5 DEF P!Next

LEMMA ProviderStarts == ProviderInit => ProviderTypeOK /\ PushInv /\ P!Init
<1> SUFFICES ASSUME ProviderInit PROVE ProviderTypeOK /\ PushInv /\ P!Init
  OBVIOUS
<1>1. Len(Script) \in Nat
  BY ScriptAssumption
<1>2. ProviderTypeOK
  BY <1>1 DEF ProviderInit, ProviderTypeOK
<1>3. PushInv
  BY DEF ProviderInit, PushInv, CallInv, PermanentReasons
<1>4. P!Init
  BY DEF ProviderInit, P!Init, PermanentReasons
<1> QED BY <1>2, <1>3, <1>4

LEMMA RefuseFormKeeps ==
  ASSUME ProviderTypeOK, PushInv, NEW c \in Calls, NEW content, RefuseForm(c, content)
  PROVE  ProviderTypeOK' /\ PushInv' /\ [P!Next]_(P!cvars)
<1> DEFINE res == "provider-rejected-payload"
<1>1. res \in Results /\ res \in PermanentReasons
  BY DEF Results, PermanentReasons
<1>2. /\ Return(c, res) /\ stage[c] = "idle"
      /\ UNCHANGED <<chosen, reply, taken, pos>>
  BY DEF RefuseForm
<1>3. ProviderTypeOK'
  BY <1>1, <1>2, Returned DEF ProviderTypeOK
<1>4. CallInv(c)'
  BY <1>1, <1>2, Returned DEF CallInv, PushInv
<1>5. ASSUME NEW d \in Calls \ {c} PROVE CallInv(d)'
  BY <1>1, <1>2, <1>5, Returned DEF CallInv, PushInv
<1>6. [P!Next]_(P!cvars)
  BY <1>1, <1>2, Answered DEF CallInv, PushInv
<1> QED BY <1>3, <1>4, <1>5, <1>6 DEF PushInv

LEMMA SendFormKeeps ==
  ASSUME ProviderTypeOK, PushInv, NEW c \in Calls, NEW content, SendForm(c, content)
  PROVE  ProviderTypeOK' /\ PushInv' /\ [P!Next]_(P!cvars)
<1>1. /\ stage' = [stage EXCEPT ![c] = "sent"] /\ stage[c] = "idle"
      /\ UNCHANGED <<chosen, reply, result, taken, pos>>
  BY DEF SendForm
<1>2. ProviderTypeOK'
  BY <1>1 DEF ProviderTypeOK
<1>3. ASSUME NEW d \in Calls PROVE CallInv(d)'
  BY <1>1, <1>3 DEF CallInv, PushInv, ProviderTypeOK
<1>4. UNCHANGED P!cvars
  BY <1>1 DEF P!cvars
<1> QED BY <1>2, <1>3, <1>4 DEF PushInv

\* The service may take a notification after its caller has given up, and
\* never one that a permanent failure was returned for.
LEMMA ServeKeeps ==
  ASSUME ProviderTypeOK, PushInv, NEW c \in Calls, Serve(c)
  PROVE  ProviderTypeOK' /\ PushInv' /\ [P!Next]_(P!cvars)
<1>1. /\ chosen = "pushover" /\ stage[c] # "idle" /\ reply[c] = NoResponse
      /\ result[c] \in {"none", "transient"}
      /\ UNCHANGED <<chosen, stage, result, pos>>
  BY DEF Serve
<1>2. PICK took \in BOOLEAN : \E r \in Responses(took) :
        /\ reply' = [reply EXCEPT ![c] = r]
        /\ taken' = IF took THEN taken \cup {c} ELSE taken
  BY DEF Serve
<1>3. PICK r \in Responses(took) : reply' = [reply EXCEPT ![c] = r]
  BY <1>2
<1>4. c \notin taken
  BY <1>1 DEF PushInv, CallInv, Responses, Response, NoResponse, Statuses
<1>5. (took <=> c \in taken') /\ taken' \in {taken, taken \cup {c}}
  BY <1>2, <1>4
<1>6. ProviderTypeOK'
  <2>1. r \in Response
    BY DEF Responses
  <2> QED BY <1>1, <1>3, <1>5, <2>1 DEF ProviderTypeOK
<1>7. CallInv(c)'
  <2>1. reply'[c] \in Responses(c \in taken')
    <3>1. reply'[c] = r
      BY <1>3 DEF ProviderTypeOK
    <3>2. CASE took
      <4>1. c \in taken' /\ r \in Responses(TRUE)
        BY <1>5, <3>2
      <4> QED BY <3>1, <4>1 DEF Responses
    <3>3. CASE ~took
      <4>1. c \notin taken' /\ r \in Responses(FALSE)
        BY <1>5, <3>3
      <4> QED BY <3>1, <4>1 DEF Responses
    <3> QED BY <3>2, <3>3
  <2>2. stage'[c] # "idle" /\ (stage'[c] = "sent" => result'[c] = "none")
    BY <1>1 DEF PushInv, CallInv
  <2>3. result'[c] \notin PermanentReasons /\ result'[c] # "success"
    BY <1>1 DEF PermanentReasons
  <2> QED BY <2>1, <2>2, <2>3 DEF CallInv, PermanentReasons
<1>8. ASSUME NEW d \in Calls \ {c} PROVE CallInv(d)'
  <2>1. reply'[d] = reply[d] /\ (d \in taken' <=> d \in taken)
    BY <1>3, <1>5, <1>8 DEF ProviderTypeOK
  <2>2. CallInv(d)
    BY DEF PushInv
  <2> QED BY <1>1, <2>1, <2>2 DEF CallInv
<1>9. [P!Next]_(P!cvars)
  <2>1. P!Take(c) \/ UNCHANGED P!cvars
    BY <1>1, <1>5 DEF P!Take, P!cvars, PermanentReasons
  <2> QED BY <2>1 DEF P!Next
<1> QED BY <1>6, <1>7, <1>8, <1>9 DEF PushInv

LEMMA ReadResponseKeeps ==
  ASSUME ProviderTypeOK, PushInv, NEW c \in Calls, ReadResponse(c)
  PROVE  ProviderTypeOK' /\ PushInv' /\ [P!Next]_(P!cvars)
<1>1. /\ chosen = "pushover" /\ stage[c] = "sent" /\ reply[c] # NoResponse
      /\ UNCHANGED <<chosen, reply, taken, pos>>
  BY DEF ReadResponse
<1>2. PICK body \in {reply[c].body, Unread} : Return(c, Classify(reply[c].http, body))
  BY DEF ReadResponse
<1> DEFINE res == Classify(reply[c].http, body)
           took == c \in taken
<1>3. took \in BOOLEAN /\ reply[c] \in Responses(took)
  BY <1>1 DEF PushInv, CallInv
<1>4. /\ res \in Results
      /\ res = "success" => took
      /\ res \in PermanentReasons => ~took
  <2> HIDE DEF took
  <2> QED BY <1>3, Reads
<1> HIDE DEF res
<1>5. Return(c, res)
  BY <1>2 DEF res
<1>6. ProviderTypeOK'
  BY <1>1, <1>4, <1>5, Returned DEF ProviderTypeOK
<1>7. CallInv(c)'
  BY <1>1, <1>3, <1>4, <1>5, Returned DEF CallInv
<1>8. ASSUME NEW d \in Calls \ {c} PROVE CallInv(d)'
  BY <1>1, <1>4, <1>5, <1>8, Returned DEF CallInv, PushInv
<1>9. [P!Next]_(P!cvars)
  BY <1>1, <1>4, <1>5, Answered DEF CallInv, PushInv
<1> QED BY <1>6, <1>7, <1>8, <1>9 DEF PushInv

LEMMA LoseResponseKeeps ==
  ASSUME ProviderTypeOK, PushInv, NEW c \in Calls, LoseResponse(c)
  PROVE  ProviderTypeOK' /\ PushInv' /\ [P!Next]_(P!cvars)
<1>1. /\ Return(c, "transient") /\ stage[c] = "sent"
      /\ UNCHANGED <<chosen, reply, taken, pos>>
  BY DEF LoseResponse
<1>2. "transient" \in Results /\ "transient" \notin PermanentReasons
  BY DEF Results, PermanentReasons
<1>3. ProviderTypeOK'
  BY <1>1, <1>2, Returned DEF ProviderTypeOK
<1>4. CallInv(c)'
  BY <1>1, <1>2, Returned DEF CallInv, PushInv
<1>5. ASSUME NEW d \in Calls \ {c} PROVE CallInv(d)'
  BY <1>1, <1>2, <1>5, Returned DEF CallInv, PushInv
<1>6. [P!Next]_(P!cvars)
  BY <1>1, <1>2, Answered DEF CallInv, PushInv
<1> QED BY <1>3, <1>4, <1>5, <1>6 DEF PushInv

LEMMA ScriptEntries ==
  ASSUME ProviderTypeOK
  PROVE  Scripted \in {"nil", "transient", "provider-rejected-payload"}
<1>1. CASE pos < Len(Script)
  BY <1>1, ScriptAssumption DEF ProviderTypeOK, Scripted
<1>2. CASE ~(pos < Len(Script))
  BY <1>2 DEF Scripted
<1> QED BY <1>1, <1>2

LEMMA PushSandboxKeeps ==
  ASSUME ProviderTypeOK, PushInv, NEW c \in Calls, PushSandbox(c)
  PROVE  ProviderTypeOK' /\ PushInv' /\ [P!Next]_(P!cvars)
<1> DEFINE res == IF Scripted = "nil" THEN "success" ELSE Scripted
<1>1. /\ chosen = "sandbox" /\ stage[c] = "idle" /\ Return(c, res)
      /\ taken' \in {taken, taken \cup {c}}
      /\ res = "success" => c \in taken'
      /\ res # "success" => taken' = taken
      /\ UNCHANGED <<chosen, reply>>
  BY ScriptEntries DEF PushSandbox
<1>2. pos' \in 0 .. Len(Script)
  BY ScriptAssumption DEF PushSandbox, ProviderTypeOK
<1>3. /\ res \in Results
      /\ res \in PermanentReasons => res # "success"
  BY ScriptEntries DEF Results, PermanentReasons
<1>4. c \notin taken /\ result[c] = "none"
  BY <1>1 DEF PushInv, CallInv
<1> HIDE DEF res
<1>5. ProviderTypeOK'
  BY <1>1, <1>2, <1>3, Returned DEF ProviderTypeOK
<1>6. CallInv(c)'
  BY <1>1, <1>3, <1>4, Returned DEF CallInv
<1>7. ASSUME NEW d \in Calls \ {c} PROVE CallInv(d)'
  BY <1>1, <1>3, <1>7, Returned DEF CallInv, PushInv
<1>8. [P!Next]_(P!cvars)
  BY <1>1, <1>3, <1>4, Answered
<1> QED BY <1>5, <1>6, <1>7, <1>8 DEF PushInv

LEMMA PushKeeps ==
  ASSUME ProviderTypeOK, PushInv, NEW c \in Calls, NEW content,
         Begin(c, content) \/ Proceed(c)
  PROVE  /\ ProviderTypeOK' /\ PushInv' /\ [P!Next]_(P!cvars)
         /\ chosen' = chosen
<1>1. CASE RefuseForm(c, content)
  BY <1>1, RefuseFormKeeps DEF RefuseForm
<1>2. CASE SendForm(c, content)
  BY <1>2, SendFormKeeps DEF SendForm
<1>3. CASE PushSandbox(c)
  BY <1>3, PushSandboxKeeps DEF PushSandbox
<1>4. CASE Serve(c)
  BY <1>4, ServeKeeps DEF Serve
<1>5. CASE ReadResponse(c)
  BY <1>5, ReadResponseKeeps DEF ReadResponse
<1>6. CASE LoseResponse(c)
  BY <1>6, LoseResponseKeeps DEF LoseResponse
<1> QED BY <1>1, <1>2, <1>3, <1>4, <1>5, <1>6 DEF Begin, Proceed

-----------------------------------------------------------------------------
(* The invariant of the notification: what acceptance has established      *)
(* stays true of the stamped notification, wherever it goes.               *)

AcceptedInv ==
    Accepted =>
      /\ note.content /\ note.pushover
      /\ note.created \in 1 .. clock
      /\ Conforms([note EXCEPT !.created = Absent], note.created) \/ Lenient(note)
      /\ place = "dispatched" /\ Stillborn(note) => began < note.created

WayInv ==
    /\ AcceptedInv
    /\ place = "refused" => Validate(note) # {}
    /\ place = "rejected" => ~note.pushover
    /\ place # "dispatched" => \A c \in Calls : stage[c] = "idle"

\* A permanent failure is the service's answer, or nothing was sent.
AnswerInv ==
    chosen = "pushover" =>
      \A c \in Calls :
        result[c] \in PermanentReasons => reply[c] # NoResponse \/ ~note.content

Inv == TypeOK /\ PushInv /\ WayInv /\ AnswerInv

LEMMA Starts == Init => Inv
<1> SUFFICES ASSUME Init PROVE Inv
  OBVIOUS
<1>1. ProviderTypeOK /\ PushInv
  BY ProviderStarts DEF Init
<1>2. TypeOK
  <2>1. began \in 0 .. MaxTime
    BY TimeAssumption DEF Init
  <2> QED BY <1>1, <2>1, NotesAssumption DEF Init, TypeOK, Places
<1>3. WayInv
  BY DEF Init, ProviderInit, WayInv, AcceptedInv, Accepted
<1>4. AnswerInv
  BY DEF Init, ProviderInit, AnswerInv, PermanentReasons
<1> QED BY <1>1, <1>2, <1>3, <1>4 DEF Inv

LEMMA RefuseKeeps ==
  ASSUME Inv, Refuse
  PROVE  Inv'
<1>1. /\ place' = "refused" /\ Validate(note) # {} /\ errors' = Validate(note)
      /\ UNCHANGED <<origin, note, clock, dclock, began, pvars>> /\ place = "submitted"
  BY DEF Refuse
<1>2. TypeOK'
  BY <1>1, ErrorsHaveCodes DEF Inv, TypeOK, Places, ProviderTypeOK, pvars
<1>3. PushInv'
  BY <1>1 DEF Inv, PushInv, CallInv, pvars
<1>4. WayInv'
  BY <1>1 DEF Inv, WayInv, AcceptedInv, Accepted, pvars
<1>5. AnswerInv'
  BY <1>1 DEF Inv, AnswerInv, pvars
<1> QED BY <1>2, <1>3, <1>4, <1>5 DEF Inv

LEMMA AcceptKeeps ==
  ASSUME Inv, Accept
  PROVE  Inv'
<1>1. /\ place' = "published" /\ Validate(note) = {} /\ note' = Stamped(note, clock)
      /\ UNCHANGED <<origin, errors, clock, dclock, began, pvars>> /\ place = "submitted"
  BY DEF Accept
<1>2. note \in Notification /\ clock \in 1 .. MaxTime
  BY DEF Inv, TypeOK
<1>3. /\ note' \in Notification
      /\ note'.content = note.content /\ note'.pushover = note.pushover
      /\ note'.created = clock
  <2>1. clock \in Timestamps
    BY <1>2 DEF Timestamps
  <2> QED BY <1>1, <1>2, <2>1 DEF Stamped, Notification
<1>4. TypeOK'
  BY <1>1, <1>3 DEF Inv, TypeOK, Places, ProviderTypeOK, pvars
<1>5. PushInv'
  BY <1>1 DEF Inv, PushInv, CallInv, pvars
<1>6. note'.content /\ note'.pushover
  BY <1>1, <1>3, ValidParts, ValidContent, ValidTarget
<1>7. Conforms([note' EXCEPT !.created = Absent], clock') \/ Lenient(note')
  BY <1>1, <1>2, ValidConforms
<1>8. AcceptedInv'
  <2>1. note'.created \in 1 .. clock' /\ note'.created = clock'
    BY <1>1, <1>2, <1>3
  <2> QED BY <1>1, <1>6, <1>7, <2>1 DEF AcceptedInv
<1>9. WayInv'
  BY <1>1, <1>8 DEF Inv, WayInv, pvars
<1>10. AnswerInv'
  <2>1. \A c \in Calls : result[c] = "none"
    BY <1>1 DEF Inv, WayInv, PushInv, CallInv
  <2> QED BY <1>1, <2>1 DEF AnswerInv, pvars, PermanentReasons
<1> QED BY <1>4, <1>5, <1>9, <1>10 DEF Inv

\* The three ways on from the topic leave the notification as it is.
LEMMA ConsumeKeeps ==
  ASSUME Inv, DropExpired \/ RejectUntargeted \/ StartDispatch
  PROVE  Inv'
<1>1. /\ place = "published" /\ place' \in {"expired", "rejected", "dispatched"}
      /\ UNCHANGED <<origin, note, errors, clock, dclock, pvars>> /\ began' = dclock
      /\ place' = "rejected" => ~note.pushover
      /\ place' = "dispatched" => ~IsExpired(note, dclock)
  BY DEF DropExpired, RejectUntargeted, StartDispatch, Consume, Resolves
<1>2. TypeOK'
  BY <1>1 DEF Inv, TypeOK, Places, ProviderTypeOK, pvars
<1>3. PushInv'
  BY <1>1 DEF Inv, PushInv, CallInv, pvars
<1>4. Accepted' => Accepted
  BY <1>1 DEF Accepted
<1>5. Accepted /\ Stillborn(note) /\ ~IsExpired(note, dclock) => dclock < note.created
  <2>1. /\ note.expires \in Timestamps /\ note.created \in Timestamps
        /\ dclock \in 1 .. MaxTime
    BY DEF Inv, TypeOK, Notification
  <2>2. note.expires \in Int /\ note.created \in Int /\ dclock \in Int
    BY <2>1, TimeAssumption DEF Timestamps, Absent, YearOne, Epoch
  <2> QED BY <2>2 DEF Stillborn, IsExpired
<1>6. AcceptedInv'
  BY <1>1, <1>4, <1>5 DEF Inv, WayInv, AcceptedInv
<1>7. WayInv'
  BY <1>1, <1>6 DEF Inv, WayInv, pvars
<1>8. AnswerInv'
  BY <1>1 DEF Inv, AnswerInv, pvars
<1> QED BY <1>2, <1>3, <1>7, <1>8 DEF Inv

LEMMA TickKeeps ==
  ASSUME Inv, Tick
  PROVE  Inv'
<1>1. /\ clock' = clock + 1 /\ clock < MaxTime
      /\ UNCHANGED <<origin, note, place, errors, dclock, began, pvars>>
  BY DEF Tick
<1>2. TypeOK'
  BY <1>1, TimeAssumption DEF Inv, TypeOK, ProviderTypeOK, pvars
<1>3. PushInv'
  BY <1>1 DEF Inv, PushInv, CallInv, pvars
<1>4. AcceptedInv'
  <2>1. note.created \in 1 .. clock => note.created \in 1 .. clock'
    BY <1>1 DEF Inv, TypeOK
  <2> QED BY <1>1, <2>1 DEF Inv, WayInv, AcceptedInv, Accepted
<1>5. WayInv'
  BY <1>1, <1>4 DEF Inv, WayInv, pvars
<1>6. AnswerInv'
  BY <1>1 DEF Inv, AnswerInv, pvars
<1> QED BY <1>2, <1>3, <1>5, <1>6 DEF Inv

LEMMA DTickKeeps ==
  ASSUME Inv, DTick
  PROVE  Inv'
<1>1. /\ dclock' = dclock + 1 /\ dclock < MaxTime
      /\ UNCHANGED <<origin, note, place, errors, clock, began, pvars>>
  BY DEF DTick
<1>2. TypeOK'
  BY <1>1, TimeAssumption DEF Inv, TypeOK, ProviderTypeOK, pvars
<1>3. PushInv'
  BY <1>1 DEF Inv, PushInv, CallInv, pvars
<1>4. WayInv'
  BY <1>1 DEF Inv, WayInv, AcceptedInv, Accepted, pvars
<1>5. AnswerInv'
  BY <1>1 DEF Inv, AnswerInv, pvars
<1> QED BY <1>2, <1>3, <1>4, <1>5 DEF Inv

LEMMA CallKeeps ==
  ASSUME Inv, NEW c \in Calls, Attempt(c) \/ Exchange(c)
  PROVE  Inv' /\ [P!Next]_(P!cvars)
<1>1. UNCHANGED nvars
  BY DEF Attempt, Exchange
<1>2. Begin(c, note.content) \/ Proceed(c)
  BY DEF Attempt, Exchange
<1>3. ProviderTypeOK /\ PushInv
  BY DEF Inv, TypeOK
<1>4. /\ ProviderTypeOK' /\ PushInv' /\ [P!Next]_(P!cvars)
      /\ chosen' = chosen
  BY <1>2, <1>3, PushKeeps
<1>5. TypeOK'
  BY <1>1, <1>4 DEF Inv, TypeOK, nvars
<1>6. place = "dispatched"
  <2>1. CASE Attempt(c)
    BY <2>1 DEF Attempt
  <2>2. CASE Exchange(c)
    <3>1. stage[c] # "idle"
      BY <2>2 DEF Exchange, Proceed, Serve, ReadResponse, LoseResponse
    <3> QED BY <3>1 DEF Inv, WayInv
  <2> QED BY <2>1, <2>2
<1>7. WayInv'
  BY <1>1, <1>6 DEF Inv, WayInv, AcceptedInv, Accepted, nvars
<1>8. AnswerInv'
  <2> SUFFICES ASSUME chosen' = "pushover", NEW d \in Calls, result'[d] \in PermanentReasons
               PROVE  reply'[d] # NoResponse \/ ~note'.content
    BY DEF AnswerInv
  <2>1. chosen = "pushover"
    BY <1>4
  <2>2. CASE RefuseForm(c, note.content)
    <3>1. ~note.content /\ note' = note
      BY <1>1, <2>2 DEF RefuseForm, nvars
    <3> QED BY <3>1
  <2>3. CASE SendForm(c, note.content)
    BY <1>1, <2>1, <2>3 DEF SendForm, Inv, AnswerInv, nvars
  <2>4. CASE PushSandbox(c)
    BY <2>1, <2>4 DEF PushSandbox
  <2>5. CASE Serve(c)
    <3>1. result' = result
      BY <2>5 DEF Serve
    <3>2. d # c
      BY <2>5, <3>1 DEF Serve, PermanentReasons
    <3>3. reply'[d] = reply[d]
      BY <1>3, <2>5, <3>2 DEF Serve, ProviderTypeOK
    <3> QED BY <1>1, <2>1, <3>1, <3>3 DEF Inv, AnswerInv, nvars
  <2>6. CASE ReadResponse(c)
    <3>1. reply' = reply /\ reply[c] # NoResponse
      BY <2>6 DEF ReadResponse
    <3>2. CASE d = c
      BY <3>1, <3>2
    <3>3. CASE d # c
      <4>1. result'[d] = result[d]
        BY <1>3, <2>6, <3>3 DEF ReadResponse, Return, ProviderTypeOK
      <4> QED BY <1>1, <2>1, <3>1, <4>1 DEF Inv, AnswerInv, nvars
    <3> QED BY <3>2, <3>3
  <2>7. CASE LoseResponse(c)
    <3>1. reply' = reply
      BY <2>7 DEF LoseResponse
    <3>2. result'[d] = result[d]
      BY <1>3, <2>7 DEF LoseResponse, Return, ProviderTypeOK, PermanentReasons
    <3> QED BY <1>1, <2>1, <3>1, <3>2 DEF Inv, AnswerInv, nvars
  <2> QED BY <1>2, <2>2, <2>3, <2>4, <2>5, <2>6, <2>7 DEF Begin, Proceed
<1> QED BY <1>4, <1>5, <1>7, <1>8 DEF Inv

\* Only the calls change what the contract sees.
LEMMA StepKeeps == Inv /\ [Next]_vars => Inv' /\ [P!Next]_(P!cvars)
<1> SUFFICES ASSUME Inv, [Next]_vars PROVE Inv' /\ [P!Next]_(P!cvars)
  OBVIOUS
<1>1. UNCHANGED pvars => UNCHANGED P!cvars
  BY DEF pvars, P!cvars
<1>2. CASE Refuse
  BY <1>1, <1>2, RefuseKeeps DEF Refuse
<1>3. CASE Accept
  BY <1>1, <1>3, AcceptKeeps DEF Accept
<1>4. CASE DropExpired \/ RejectUntargeted \/ StartDispatch
  BY <1>1, <1>4, ConsumeKeeps DEF DropExpired, RejectUntargeted, StartDispatch, Consume
<1>5. CASE Tick \/ DTick
  BY <1>1, <1>5, TickKeeps, DTickKeeps DEF Tick, DTick
<1>6. ASSUME NEW c \in Calls, Attempt(c) \/ Exchange(c) PROVE Inv' /\ [P!Next]_(P!cvars)
  BY <1>6, CallKeeps
<1>7. CASE UNCHANGED vars
  <2>1. UNCHANGED nvars /\ UNCHANGED pvars
    BY <1>7 DEF vars
  <2>2. Inv'
    BY <2>1 DEF Inv, TypeOK, ProviderTypeOK, PushInv, CallInv, WayInv, AcceptedInv,
                Accepted, AnswerInv, nvars, pvars
  <2> QED BY <1>1, <2>1, <2>2
<1> QED BY <1>2, <1>3, <1>4, <1>5, <1>6, <1>7 DEF Next

-----------------------------------------------------------------------------
(* The theorems.                                                           *)

LEMMA Invariance == Spec => []Inv
<1>1. Init => Inv
  BY Starts
<1>2. Inv /\ [Next]_vars => Inv'
  BY StepKeeps
<1> QED BY <1>1, <1>2, PTL DEF Spec

\* The types, whatever notifications, script and budget there are.
THEOREM JourneyTypes == Spec => []TypeOK
<1>1. Inv => TypeOK
  BY DEF Inv
<1> QED BY <1>1, Invariance, PTL

\* What Ingester.Accept lets through has a provider, and content the
\* provider can send: resolve and renderForm refuse only what others put
\* on the topic.
THEOREM AcceptanceSuffices == Spec => []AcceptedCanBeSent
<1>1. Inv => AcceptedCanBeSent
  BY DEF Inv, WayInv, AcceptedInv, AnswerInv, AcceptedCanBeSent
<1> QED BY <1>1, Invariance, PTL

\* Whatever Accept lets through satisfies data-model.md or is one of the four
\* cases of Lenient, whatever it refuses violates it or is one of the four of
\* Stricter: beyond these eight Validate and the document agree.
THEOREM ValidateIsTheModel == Spec => []ValidatesTheModel
<1>1. Inv => ValidatesTheModel
  <2> SUFFICES ASSUME Inv PROVE ValidatesTheModel
    OBVIOUS
  <2>1. place = "refused" => ~Conforms(note, clock) \/ Stricter(note)
    BY RefusedStrictly DEF Inv, TypeOK, WayInv
  <2> QED BY <2>1 DEF Inv, WayInv, AcceptedInv, ValidatesTheModel
<1> QED BY <1>1, Invariance, PTL

\* For any two clocks, an accepted notification that had expired before it
\* was stamped is pushed only if the deliverer's clock, when Dispatch read
\* it, was behind the stamp.
THEOREM StillbornNeedLag == Spec => []StillbornPushedOnlyByLag
<1>1. Inv => StillbornPushedOnlyByLag
  BY DEF Inv, WayInv, AcceptedInv, StillbornPushedOnlyByLag
<1> QED BY <1>1, Invariance, PTL

\* Both providers implement what PushProvider promises.
THEOREM ProvidersKeepTheContract == Spec => ImplementsPush
<1>1. Init => P!Init
  BY ProviderStarts DEF Init
<1>2. Inv /\ [Next]_vars => [P!Next]_(P!cvars)
  BY StepKeeps
<1> QED BY <1>1, <1>2, Invariance, PTL DEF Spec, ImplementsPush, P!Spec

-----------------------------------------------------------------------------
(* The sandbox and its script.                                             *)

UsedUp == {i \in 1 .. pos : Script[i] # "nil"}

LEMMA FiniteSides ==
  ASSUME ProviderTypeOK
  PROVE  IsFiniteSet(Failed) /\ IsFiniteSet(UsedUp)
<1>1. IsFiniteSet(Calls)
  BY AttemptsAssumption, FS_Interval
<1>2. pos \in Int
  BY ScriptAssumption DEF ProviderTypeOK
<1>3. IsFiniteSet(1 .. pos)
  BY <1>2, FS_Interval
<1>4. Failed \in SUBSET Calls /\ UsedUp \in SUBSET (1 .. pos)
  BY DEF Failed, UsedUp
<1> QED BY <1>1, <1>3, <1>4, FS_Subset

\* A call uses up one entry, and fails if that entry is a failure.
LEMMA SandboxCall ==
  ASSUME ProviderTypeOK, PushInv, NEW c \in Calls, PushSandbox(c), SandboxKeepsScript
  PROVE  SandboxKeepsScript'
<1> DEFINE res == IF Scripted = "nil" THEN "success" ELSE Scripted
<1>1. /\ chosen = "sandbox" /\ result[c] = "none" /\ Return(c, res)
      /\ pos' = IF pos < Len(Script) THEN pos + 1 ELSE pos
  BY ScriptEntries DEF PushSandbox, PushInv, CallInv
<1>2. /\ res \in Results /\ (res = "success" <=> Scripted = "nil")
  BY ScriptEntries DEF Results, PermanentReasons
<1>3. /\ IsFiniteSet(Failed) /\ IsFiniteSet(UsedUp)
      /\ Cardinality(Failed) = Cardinality(UsedUp)
  BY <1>1, FiniteSides DEF SandboxKeepsScript, UsedUp
<1>4. pos \in Nat /\ Len(Script) \in Nat /\ pos <= Len(Script)
  BY ScriptAssumption DEF ProviderTypeOK
<1>5. c \notin Failed
  BY <1>1 DEF Failed
<1>6. \A d \in Calls \ {c} : result'[d] = result[d]
  BY <1>1, <1>2, Returned
<1>7. result'[c] = res
  BY <1>1, <1>2, Returned
<1> HIDE DEF res
<1>8. CASE Scripted = "nil"
  <2>1. Failed' = Failed
    BY <1>2, <1>5, <1>6, <1>7, <1>8 DEF Failed
  <2>2. UsedUp' = UsedUp
    <3>1. CASE pos < Len(Script)
      <4>1. pos' = pos + 1 /\ Script[pos + 1] = "nil"
        BY <1>1, <1>8, <3>1 DEF Scripted
      <4> QED BY <1>4, <4>1 DEF UsedUp
    <3>2. CASE ~(pos < Len(Script))
      BY <1>1, <3>2 DEF UsedUp
    <3> QED BY <3>1, <3>2
  <2> QED BY <1>3, <2>1, <2>2 DEF SandboxKeepsScript, UsedUp
<1>9. CASE Scripted # "nil"
  <2>1. Failed' = Failed \cup {c}
    <3>1. res \notin {"success", "none"}
      BY <1>2, <1>9 DEF Results, PermanentReasons
    <3> QED BY <1>6, <1>7, <3>1 DEF Failed
  <2>2. pos < Len(Script) /\ pos' = pos + 1 /\ Script[pos + 1] # "nil"
    BY <1>1, <1>9 DEF Scripted
  <2>3. UsedUp' = UsedUp \cup {pos + 1} /\ (pos + 1) \notin UsedUp
    BY <1>4, <2>2 DEF UsedUp
  <2>4. Cardinality(Failed') = Cardinality(Failed) + 1
    BY <1>3, <1>5, <2>1, FS_AddElement
  <2>5. Cardinality(UsedUp') = Cardinality(UsedUp) + 1
    BY <1>3, <2>3, FS_AddElement
  <2> QED BY <1>3, <2>4, <2>5 DEF SandboxKeepsScript, UsedUp
<1> QED BY <1>8, <1>9

LEMMA ScriptStep ==
  ASSUME Inv, SandboxKeepsScript, [Next]_vars
  PROVE  SandboxKeepsScript'
<1>1. CASE UNCHANGED pvars
  BY <1>1 DEF SandboxKeepsScript, Failed, pvars
<1>2. ASSUME NEW c \in Calls, Attempt(c) \/ Exchange(c) PROVE SandboxKeepsScript'
  <2>1. Begin(c, note.content) \/ Proceed(c)
    BY <1>2 DEF Attempt, Exchange
  <2>2. CASE PushSandbox(c)
    BY <2>2, SandboxCall DEF Inv, TypeOK
  <2>3. CASE ~PushSandbox(c)
    <3>1. chosen' = "pushover"
      BY <2>1, <2>3 DEF Begin, Proceed, RefuseForm, SendForm, Serve, ReadResponse,
                        LoseResponse
    <3> QED BY <3>1 DEF SandboxKeepsScript
  <2> QED BY <2>2, <2>3
<1> QED
  BY <1>1, <1>2 DEF Next, Refuse, Accept, DropExpired, RejectUntargeted, StartDispatch,
                    Consume, Tick, DTick, vars

\* The sandbox's scripted failures are met in their order, none twice and
\* none skipped, by however many calls.
THEOREM ScriptIsFollowed == Spec => []SandboxKeepsScript
<1>1. Init => SandboxKeepsScript
  <2> SUFFICES ASSUME Init PROVE SandboxKeepsScript
    OBVIOUS
  <2>1. Failed = {} /\ UsedUp = {}
    BY DEF Init, ProviderInit, Failed, UsedUp
  <2> QED BY <2>1 DEF SandboxKeepsScript, UsedUp
<1>2. Inv /\ SandboxKeepsScript /\ [Next]_vars => SandboxKeepsScript'
  BY ScriptStep
<1> QED BY <1>1, <1>2, Invariance, PTL DEF Spec

-----------------------------------------------------------------------------
(* The dispatcher's loop over the provider.                                *)

\* A step of the call c leaves the others, and what it has returned, alone.
LEMMA CallAlone ==
  ASSUME Inv, NEW c \in Calls, Attempt(c) \/ Exchange(c)
  PROVE  /\ \A d \in Calls \ {c} :
              stage'[d] = stage[d] /\ result'[d] = result[d] /\ reply'[d] = reply[d]
         /\ stage'[c] # "idle"
         /\ stage[c] = "returned" => stage'[c] = "returned" /\ result'[c] = result[c]
<1> USE DEF Inv, TypeOK, ProviderTypeOK, Return
<1>1. CASE RefuseForm(c, note.content) BY <1>1 DEF RefuseForm
<1>2. CASE SendForm(c, note.content) BY <1>2 DEF SendForm
<1>3. CASE PushSandbox(c) BY <1>3 DEF PushSandbox
<1>4. CASE Serve(c) BY <1>4 DEF Serve
<1>5. CASE ReadResponse(c) BY <1>5 DEF ReadResponse
<1>6. CASE LoseResponse(c) BY <1>6 DEF LoseResponse
<1> QED
  BY <1>1, <1>2, <1>3, <1>4, <1>5, <1>6 DEF Attempt, Exchange, Begin, Proceed

LEMMA FollowingStep ==
  ASSUME Inv, Following, [Next]_vars
  PROVE  Following'
<1>1. CASE UNCHANGED pvars
  BY <1>1 DEF Following, pvars
<1>2. ASSUME NEW k \in Calls, Attempt(k) \/ Exchange(k) PROVE Following'
  <2>1. /\ \A d \in Calls \ {k} : stage'[d] = stage[d] /\ result'[d] = result[d]
        /\ stage[k] = "returned" => stage'[k] = "returned" /\ result'[k] = result[k]
    BY <1>2, CallAlone
  <2>2. \A c \in Calls : c < k => stage[c] = "returned" /\ result[c] = "transient"
    <3>1. CASE stage[k] # "idle"
      BY <3>1 DEF Following
    <3>2. CASE stage[k] = "idle"
      <4>1. k = 1 \/ (k > 1 /\ result[k - 1] = "transient")
        BY <1>2, <3>2 DEF Attempt, Exchange, Proceed, Serve, ReadResponse, LoseResponse
      <4>2. \A c \in Calls : c \in Nat \ {0} /\ (c < k => c < k - 1 \/ c = k - 1)
        BY AttemptsAssumption
      <4>3. CASE k = 1
        BY <4>2, <4>3
      <4>4. CASE k > 1 /\ result[k - 1] = "transient"
        <5>1. k - 1 \in Calls
          BY <4>4, AttemptsAssumption
        <5>2. stage[k - 1] = "returned"
          <6>1. stage[k - 1] \in {"idle", "sent", "returned"}
            BY <5>1 DEF Inv, TypeOK, ProviderTypeOK
          <6> QED BY <4>4, <5>1, <6>1 DEF Inv, PushInv, CallInv
        <5>3. \A c \in Calls : c < k - 1 => stage[c] = "returned" /\ result[c] = "transient"
          BY <5>1, <5>2 DEF Following
        <5> QED BY <4>2, <4>4, <5>2, <5>3
      <4> QED BY <4>1, <4>3, <4>4
    <3> QED BY <3>1, <3>2
  <2>3. ASSUME NEW c \in Calls, NEW d \in Calls, c < d, stage'[d] # "idle"
        PROVE  stage'[c] = "returned" /\ result'[c] = "transient"
    <3>1. stage[c] = "returned" /\ result[c] = "transient"
      <4>1. CASE d = k BY <2>2, <2>3, <4>1
      <4>2. CASE d # k BY <2>1, <2>3, <4>2 DEF Following
      <4> QED BY <4>1, <4>2
    <3> QED BY <2>1, <3>1
  <2> QED BY <2>3 DEF Following
<1> QED
  BY <1>1, <1>2 DEF Next, Refuse, Accept, DropExpired, RejectUntargeted, StartDispatch,
                    Consume, Tick, DTick, vars

\* The retry loop, for any budget: the calls are made one after the other,
\* each after a transient failure of every call before it.  So a success or
\* a permanent failure is the last word, and a recipient who is notified
\* twice was so because an answer was lost.
THEOREM AttemptsInTurn == Spec => []InTurn
<1>1. Init => Following
  BY DEF Init, ProviderInit, Following
<1>2. Inv /\ Following /\ [Next]_vars => Following'
  BY FollowingStep
<1>3. Inv /\ Following => InTurn
  BY DEF Inv, TypeOK, ProviderTypeOK, PushInv, CallInv, Following, InTurn
<1> QED BY <1>1, <1>2, <1>3, Invariance, PTL DEF Spec

OnlyDispatched ==
    /\ \A c \in Calls : stage[c] # "idle" => place = "dispatched" /\ Resolves(note)
    /\ chosen = "pushover" /\ ~note.content =>
         /\ taken = {}
         /\ \A c \in Calls :
              reply[c] = NoResponse /\ result[c] \in {"none", "provider-rejected-payload"}

\* A call without content has sent nothing.
Contentless ==
    chosen = "pushover" /\ ~note.content =>
      \A c \in Calls :
        \/ stage[c] = "idle"
        \/ stage[c] = "returned" /\ result[c] = "provider-rejected-payload"

DispatchInv ==
    /\ place = "dispatched" => Resolves(note)
    /\ Contentless
    /\ chosen = "pushover" /\ ~note.content => \A c \in Calls : reply[c] = NoResponse

LEMMA DispatchStep ==
  ASSUME Inv, DispatchInv, [Next]_vars
  PROVE  DispatchInv'
<1> USE DEF DispatchInv, Contentless
<1>1. CASE Refuse \/ DropExpired \/ RejectUntargeted \/ StartDispatch \/ Tick \/ DTick
            \/ UNCHANGED vars
  <2>1. UNCHANGED <<note, chosen, stage, result, reply>>
        /\ (place' = "dispatched" => place = "dispatched" \/ Resolves(note))
    BY <1>1 DEF Refuse, DropExpired, RejectUntargeted, StartDispatch, Consume, Tick, DTick,
                  vars, nvars, pvars
  <2> QED BY <2>1 DEF Resolves
<1>2. CASE Accept
  <2>1. /\ place' = "published" /\ UNCHANGED <<chosen, stage, result, reply>>
        /\ place = "submitted" /\ note' = Stamped(note, clock)
    BY <1>2 DEF Accept, pvars
  <2>2. \A c \in Calls : stage[c] = "idle"
    BY <2>1 DEF Inv, WayInv
  <2>3. note'.content = note.content
    BY <2>1 DEF Inv, TypeOK, Stamped, Notification
  <2> QED BY <2>1, <2>2, <2>3
<1>3. ASSUME NEW k \in Calls, Attempt(k) \/ Exchange(k) PROVE DispatchInv'
  <2>1. UNCHANGED nvars /\ chosen' = chosen
    BY <1>3 DEF Attempt, Exchange, Begin, Proceed, RefuseForm, SendForm, PushSandbox,
                Serve, ReadResponse, LoseResponse
  <2>2. \A d \in Calls \ {k} :
          stage'[d] = stage[d] /\ result'[d] = result[d] /\ reply'[d] = reply[d]
    BY <1>3, CallAlone
  <2>3. ASSUME chosen = "pushover", ~note.content
        PROVE  /\ stage'[k] = "returned" /\ result'[k] = "provider-rejected-payload"
               /\ reply'[k] = reply[k]
    <3>1. RefuseForm(k, note.content)
      BY <1>3, <2>3 DEF Attempt, Exchange, Begin, Proceed, SendForm, PushSandbox,
                        Serve, ReadResponse, LoseResponse
    <3> QED BY <3>1 DEF RefuseForm, Return, Inv, TypeOK, ProviderTypeOK
  <2> QED BY <2>1, <2>2, <2>3 DEF nvars, Resolves
<1> QED BY <1>1, <1>2, <1>3 DEF Next

\* Push is called only for what the dispatcher has let through and found a
\* provider for; without content Pushover is sent nothing, and the failure
\* is permanent, so that it is not tried again.
THEOREM PushedWhenDispatched == Spec => []OnlyDispatched
<1>1. Init => DispatchInv
  BY DEF Init, ProviderInit, DispatchInv, Contentless
<1>2. Inv /\ DispatchInv /\ [Next]_vars => DispatchInv'
  BY DispatchStep
<1>3. Inv /\ DispatchInv => OnlyDispatched
  <2> SUFFICES ASSUME Inv, DispatchInv PROVE OnlyDispatched
    OBVIOUS
  <2>1. \A c \in Calls : stage[c] # "idle" => place = "dispatched" /\ Resolves(note)
    BY DEF Inv, WayInv, DispatchInv
  <2>2. ASSUME chosen = "pushover", ~note.content, NEW c \in Calls
        PROVE  /\ c \notin taken /\ reply[c] = NoResponse
               /\ result[c] \in {"none", "provider-rejected-payload"}
    BY <2>2 DEF Inv, PushInv, CallInv, DispatchInv, Contentless, PermanentReasons
  <2>3. taken \subseteq Calls
    BY DEF Inv, TypeOK, ProviderTypeOK
  <2> QED BY <2>1, <2>2, <2>3 DEF OnlyDispatched
<1> QED BY <1>1, <1>2, <1>3, Invariance, PTL DEF Spec

-----------------------------------------------------------------------------
(* Where a notification ends.                                              *)

EndsWhereDue ==
    /\ errors = IF place = "refused" THEN Validate(note) ELSE {}
    /\ place = "refused" => errors # {}
    /\ place = "expired" => IsExpired(note, began)
    /\ Accepted =>
         /\ place \in {"published", "dispatched", "expired"}
         /\ place = "dispatched" /\ Stillborn(note) => began < note.created
         /\ place = "expired" /\ ~Stillborn(note) => note.expires \in note.created .. began - 1

\* The first half of EndsWhereDue.
Reported ==
    /\ errors = IF place = "refused" THEN Validate(note) ELSE {}
    /\ place = "expired" => IsExpired(note, began)

LEMMA ReportedStep == Reported /\ [Next]_vars => Reported'
<1> SUFFICES ASSUME Reported, [Next]_vars PROVE Reported'
  OBVIOUS
<1>1. CASE Refuse \/ Accept
  BY <1>1 DEF Refuse, Accept, Reported
<1>2. CASE DropExpired \/ RejectUntargeted \/ StartDispatch
  BY <1>2 DEF DropExpired, RejectUntargeted, StartDispatch, Consume, Reported
<1>3. CASE Tick \/ DTick
  BY <1>3 DEF Tick, DTick, Reported
<1>4. CASE UNCHANGED nvars
  BY <1>4 DEF nvars, Reported
<1> QED BY <1>1, <1>2, <1>3, <1>4 DEF Next, Attempt, Exchange, vars

\* Every notification ends where its contents and the two clocks send it.
\* What is refused has all of Validate's errors and nothing else has any;
\* what is dropped had expired by the deliverer's clock.  What was accepted
\* is never refused later: it waits, is dispatched, or is dropped because it
\* had expired from the start (the case that AcceptedIsAlive misses) or
\* because the deliverer read a time after its expires_at.  What had expired
\* from the start is dispatched only by a clock behind the writer's stamp.
THEOREM EndsAreDue == Spec => []EndsWhereDue
<1>1. Init => Reported
  BY DEF Init, Reported
<1>2. Reported /\ [Next]_vars => Reported'
  BY ReportedStep
<1>3. Inv /\ Reported => EndsWhereDue
  <2> SUFFICES ASSUME Inv, Reported PROVE EndsWhereDue
    OBVIOUS
  <2>1. place = "refused" => errors # {}
    BY DEF Inv, WayInv, Reported
  <2>2. ASSUME Accepted
        PROVE  /\ place \in {"published", "dispatched", "expired"}
               /\ place = "dispatched" /\ Stillborn(note) => began < note.created
    BY <2>2 DEF Inv, TypeOK, Places, WayInv, AcceptedInv, Accepted
  <2>3. ASSUME Accepted, place = "expired", ~Stillborn(note)
        PROVE  note.expires \in note.created .. began - 1
    <3>1. /\ began \in Int /\ note.expires \in Int /\ note.created \in Int
      <4>1. /\ began \in 0 .. MaxTime
            /\ note.expires \in Timestamps /\ note.created \in Timestamps
        BY DEF Inv, TypeOK, Notification
      <4> QED BY <4>1, TimeAssumption DEF Timestamps, Absent, YearOne, Epoch
    <3>2. began > note.expires /\ ~(note.expires < note.created)
      BY <2>3 DEF Reported, IsExpired, Stillborn
    <3> QED BY <3>1, <3>2
  <2> QED BY <2>1, <2>2, <2>3 DEF Reported, EndsWhereDue
<1> QED BY <1>1, <1>2, <1>3, Invariance, PTL DEF Spec
=============================================================================
