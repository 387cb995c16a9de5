----------------------------- MODULE StartupProofs -----------------------------
(***************************************************************************)
(* run() of both binaries, for any set of configurations: what is open is  *)
(* what deferred functions will close, in the order in which it may be     *)
(* closed, and what Load has accepted no later step refuses.  Every step   *)
(* leads towards the end, and what run() returns is true.                  *)
(***************************************************************************)
EXTENDS Startup, SequenceTheorems, TLAPS

-----------------------------------------------------------------------------
(* The invariant.                                                          *)

\* Deferred functions are in the order in which their resources were opened.
Ordered ==
    /\ deferred \in Seq(Resources) /\ Len(deferred) \in 0 .. 4
    /\ Len(deferred) >= 1 => deferred[1] = "exporters"
    /\ Len(deferred) >= 2 => deferred[2] = "client"
    /\ Len(deferred) >= 3 => deferred[3] = "channel"
    /\ Len(deferred) >= 4 => deferred[4] = "signals"

\* What is open will be closed; the work closes itself.
Owned ==
    /\ open \subseteq Resources
    /\ "exporters" \in open <=> Len(deferred) >= 1
    /\ "client" \in open <=> Len(deferred) >= 2
    /\ "channel" \in open <=> Len(deferred) >= 3
    /\ "signals" \in open <=> Len(deferred) >= 4

\* The step that opens the channel to the broker.
Channel == IF app = "writer" THEN 6 ELSE 5

\* How much was opened by each step of the start.
Progressed ==
    /\ phase = "starting" =>
         Len(deferred) = IF pos <= 3 THEN 0 ELSE IF pos <= Channel THEN 1 ELSE 3
    /\ phase \in {"serving", "stopping", "draining"} => Len(deferred) = 4
    /\ phase = "returned" => Len(deferred) = 0

\* Work runs only while main waits for it, but for handlers it has abandoned.
Working ==
    /\ "workers" \in open => app = "deliverer" /\ phase \in {"serving", "stopping"}
    /\ "listener" \in open => app = "writer" /\ phase \in {"serving", "stopping"}
    /\ broken => app = "writer" /\ "listener" \notin open /\ phase # "starting"
    /\ "handlers" \in open =>
         /\ app = "writer" /\ phase # "starting"
         /\ phase \in {"serving", "stopping", "draining"} \/ Abandons

Scalars ==
    /\ app \in {"writer", "deliverer"} /\ setting \in Settings
    /\ phase \in Phases /\ pos \in 1 .. (Len(Plan) + 1)
    /\ result \in {"none", "ok", "error"}

Flag == broken \in BOOLEAN /\ expired \in BOOLEAN

\* Load has accepted the configuration.
Checked ==
    (phase = "starting" /\ pos > 1) \/ phase \in {"serving", "stopping"} =>
      IF app = "writer" THEN WriterLoad ELSE DelivererLoad

Inv == Scalars /\ Ordered /\ Owned /\ Progressed /\ Working /\ Checked

-----------------------------------------------------------------------------
(* Sequences and flags.                                                    *)

LEMMA Pushed ==
  ASSUME NEW s \in Seq(Resources), NEW x \in Resources
  PROVE  /\ Append(s, x) \in Seq(Resources) /\ Len(Append(s, x)) = Len(s) + 1
         /\ Append(s, x)[Len(s) + 1] = x
         /\ \A i \in 1 .. Len(s) : Append(s, x)[i] = s[i]
  BY AppendProperties

LEMMA PushedTwo ==
  ASSUME NEW s \in Seq(Resources), NEW x \in Resources, NEW y \in Resources, Len(s) = 1
  PROVE  /\ s \o <<x, y>> \in Seq(Resources) /\ Len(s \o <<x, y>>) = 3
         /\ (s \o <<x, y>>)[1] = s[1]
         /\ (s \o <<x, y>>)[2] = x
         /\ (s \o <<x, y>>)[3] = y
<1> DEFINE t == <<x, y>>
<1>1. t \in Seq(Resources) /\ Len(t) = 2 /\ t[1] = x /\ t[2] = y
  OBVIOUS
<1> HIDE DEF t
<1>2. /\ s \o t \in Seq(Resources) /\ Len(s \o t) = Len(s) + Len(t)
      /\ \A i \in 1 .. Len(s) + Len(t) :
           (s \o t)[i] = IF i <= Len(s) THEN s[i] ELSE t[i - Len(s)]
  BY <1>1, ConcatProperties
<1>3. Len(s \o t) = 3 /\ 1 \in 1 .. 3 /\ 2 \in 1 .. 3 /\ 3 \in 1 .. 3
  BY <1>1, <1>2
<1>4. (s \o t)[1] = s[1] /\ (s \o t)[2] = t[1] /\ (s \o t)[3] = t[2]
  BY <1>1, <1>2, <1>3
<1> QED BY <1>1, <1>2, <1>3, <1>4 DEF t

LEMMA Popped ==
  ASSUME NEW s \in Seq(Resources), Len(s) > 0
  PROVE  /\ SubSeq(s, 1, Len(s) - 1) \in Seq(Resources)
         /\ Len(SubSeq(s, 1, Len(s) - 1)) = Len(s) - 1
         /\ \A i \in 1 .. (Len(s) - 1) : SubSeq(s, 1, Len(s) - 1)[i] = s[i]
<1>1. Len(s) - 1 \in Int /\ 1 \in Int /\ \A i \in 1 .. (Len(s) - 1) : s[i] \in Resources
  OBVIOUS
<1> DEFINE n == Len(s) - 1
<1>2. /\ SubSeq(s, 1, n) \in Seq(Resources)
      /\ Len(SubSeq(s, 1, n)) = IF 1 <= n THEN n - 1 + 1 ELSE 0
      /\ \A i \in 1 .. n - 1 + 1 : SubSeq(s, 1, n)[i] = s[1 + i - 1]
  BY <1>1, SubSeqProperties
<1>3. n \in Nat /\ n - 1 + 1 = n OBVIOUS
<1> QED BY <1>2, <1>3

LEMMA FlagStep == Flag /\ [Next]_vars => Flag'
<1> SUFFICES ASSUME Flag, [Next]_vars PROVE Flag'
  OBVIOUS
<1>1. broken' \in {broken, TRUE} /\ expired' \in {expired, TRUE}
  BY DEF Next, Start, End, Construct, InitTelemetry, OpenPulsar, Serve, BeginShutdown,
     ShutdownDone, GraceExpires, WorkersEnd, Wait, Unwind, Return, ListenerFails, ReturnError,
     Signal, Kill, Handle, HandlersEnd, Pass, Leave, vars
<1> QED BY <1>1, Zenon DEF Flag

-----------------------------------------------------------------------------
(* The plans.                                                              *)

LEMMA WriterSteps ==
  /\ Len(WriterPlan) = 9
  /\ WriterPlan[1] = "config" /\ WriterPlan[2] = "logger" /\ WriterPlan[3] = "telemetry"
  /\ WriterPlan[4] = "keys" /\ WriterPlan[5] = "tokens" /\ WriterPlan[6] = "publisher"
  /\ WriterPlan[7] = "ingester" /\ WriterPlan[8] = "handlers" /\ WriterPlan[9] = "server"
  BY DEF WriterPlan

LEMMA DelivererSteps ==
  /\ Len(DelivererPlan) = 7
  /\ DelivererPlan[1] = "config" /\ DelivererPlan[2] = "logger"
  /\ DelivererPlan[3] = "telemetry" /\ DelivererPlan[4] = "provider"
  /\ DelivererPlan[5] = "reader" /\ DelivererPlan[6] = "dispatcher"
  /\ DelivererPlan[7] = "consumer"
  BY DEF DelivererPlan

\* Where the steps that open something are.
LEMMA Places ==
  ASSUME Scalars, NEW step, At(step)
  PROVE  /\ Len(Plan) \in {7, 9} /\ pos \in 1 .. Len(Plan) /\ Channel \in 5 .. 6
         /\ step = "config" <=> pos = 1
         /\ step = "telemetry" <=> pos = 3
         /\ step \in {"publisher", "reader"} <=> pos = Channel
<1>1. CASE app = "writer"
  <2>1. Plan = WriterPlan /\ Channel = 6 BY <1>1 DEF Plan, Channel
  <2>2. pos \in 1 .. 9 /\ step = WriterPlan[pos]
    BY <2>1, WriterSteps DEF Scalars, At
  <2> QED BY <2>1, <2>2, WriterSteps
<1>2. CASE app = "deliverer"
  <2>1. Plan = DelivererPlan /\ Channel = 5 BY <1>2 DEF Plan, Channel
  <2>2. pos \in 1 .. 7 /\ step = DelivererPlan[pos]
    BY <2>1, DelivererSteps DEF Scalars, At
  <2> QED BY <2>1, <2>2, DelivererSteps
<1> QED BY <1>1, <1>2 DEF Scalars

\* What the plan and the position of the channel depend on.
LEMMA PlanKept == app' = app => Plan' = Plan /\ Channel' = Channel
  BY DEF Plan, Channel

LEMMA PlanLength == Scalars => Len(Plan) \in {7, 9} /\ Channel \in 5 .. 6
  BY WriterSteps, DelivererSteps DEF Scalars, Plan, Channel

-----------------------------------------------------------------------------
(* The invariant holds.                                                    *)

LEMMA InvInit == Init => Inv
<1> SUFFICES ASSUME Init PROVE Inv
  OBVIOUS
<1>1. Len(Plan) \in {7, 9} BY WriterSteps, DelivererSteps DEF Init, Plan
<1>2. deferred = <<>> /\ Len(deferred) = 0 /\ deferred \in Seq(Resources)
  BY DEF Init
<1>3. Scalars BY <1>1 DEF Init, Scalars, Phases
<1>4. Ordered /\ Owned BY <1>2 DEF Init, Ordered, Owned
<1>5. Progressed /\ Working /\ Checked BY <1>2 DEF Init, Progressed, Working, Checked
<1> QED BY <1>3, <1>4, <1>5 DEF Inv

LEMMA ConstructKeeps ==
  ASSUME Inv, NEW step, Construct(step)
  PROVE  Inv'
<1>1. /\ At(step) /\ step \notin {"telemetry", "publisher", "reader"}
      /\ (Asks(step) /\ Pass) \/ Leave("error")
      /\ open' = open /\ deferred' = deferred
  BY DEF Construct
<1>2. /\ Len(Plan) \in {7, 9} /\ pos \in 1 .. Len(Plan) /\ Channel \in 5 .. 6
      /\ step = "config" <=> pos = 1
      /\ pos \notin {3, Channel}
  BY <1>1, Places DEF Inv
<1>3. app' = app /\ setting' = setting /\ Plan' = Plan /\ Channel' = Channel
  BY <1>1, PlanKept DEF Pass, Leave
<1> USE <1>1, <1>2, <1>3 DEF Inv
<1>4. Ordered' /\ Owned' BY DEF Ordered, Owned
<1>5. Scalars' /\ Working' /\ Progressed'
  BY DEF Pass, Leave, At, Phases, Scalars, Working, Progressed
<1>6. Checked'
  <2>1. WriterLoad' = WriterLoad /\ DelivererLoad' = DelivererLoad
    BY DEF WriterLoad, DelivererLoad
  <2>2. CASE Leave("error") BY <2>2 DEF Leave, Checked
  <2>3. CASE pos = 1 /\ Asks(step) /\ Pass BY <2>1, <2>3 DEF Asks, Checked
  <2>4. CASE pos > 1 /\ Pass BY <2>1, <2>4 DEF At, Checked
  <2> QED BY <2>2, <2>3, <2>4
<1> QED BY <1>4, <1>5, <1>6

LEMMA InitTelemetryKeeps == Inv /\ InitTelemetry => Inv'
<1> SUFFICES ASSUME Inv, InitTelemetry PROVE Inv'
  OBVIOUS
<1>1. At("telemetry") BY DEF InitTelemetry
<1>2. /\ Len(Plan) \in {7, 9} /\ pos = 3 /\ Channel \in 5 .. 6
  BY <1>1, Places DEF Inv
<1>3. app' = app /\ setting' = setting /\ Plan' = Plan /\ Channel' = Channel
  BY PlanKept DEF InitTelemetry, Pass, Leave
<1>4. WriterLoad' = WriterLoad /\ DelivererLoad' = DelivererLoad
  BY <1>3 DEF WriterLoad, DelivererLoad
<1> USE <1>1, <1>2, <1>3, <1>4 DEF Inv
<1>5. CASE /\ Pass /\ open' = open \cup {"exporters"}
           /\ deferred' = Append(deferred, "exporters")
  <2>1. phase = "starting" /\ Len(deferred) = 0 /\ deferred \in Seq(Resources)
    BY DEF At, Progressed, Ordered
  <2>2. /\ Len(deferred') = 1 /\ deferred'[1] = "exporters"
        /\ deferred' \in Seq(Resources)
    BY <1>5, <2>1 DEF Resources
  <2>3. Ordered' BY <2>2 DEF Ordered
  <2>4. Owned' BY <1>5, <2>1, <2>2 DEF Owned, Resources
  <2>5. Scalars' BY <1>5 DEF Pass, Scalars
  <2>6. Progressed' BY <1>5, <2>1, <2>2 DEF Pass, Progressed
  <2>7. Working' /\ Checked' BY <1>5, <2>1 DEF Pass, Working, Checked
  <2> QED BY <2>3, <2>4, <2>5, <2>6, <2>7
<1>6. CASE Leave("error") /\ UNCHANGED <<open, deferred>>
  BY <1>6 DEF Leave, At, Phases, Scalars, Ordered, Owned, Working, Progressed, Checked
<1> QED BY <1>5, <1>6 DEF InitTelemetry

LEMMA OpenPulsarKeeps ==
  ASSUME Inv, NEW step, OpenPulsar(step)
  PROVE  Inv'
<1>1. At(step) /\ step \in {"publisher", "reader"} BY DEF OpenPulsar
<1>2. /\ Len(Plan) \in {7, 9} /\ pos = Channel /\ Channel \in 5 .. 6
      /\ pos \in 1 .. Len(Plan)
  BY <1>1, Places DEF Inv
<1>3. app' = app /\ setting' = setting /\ Plan' = Plan /\ Channel' = Channel
  BY PlanKept DEF OpenPulsar, Pass, Leave
<1>4. WriterLoad' = WriterLoad /\ DelivererLoad' = DelivererLoad
  BY <1>3 DEF WriterLoad, DelivererLoad
<1> USE <1>1, <1>2, <1>3, <1>4 DEF Inv
<1>5. CASE /\ Pass /\ open' = open \cup {"client", "channel"}
           /\ deferred' = deferred \o <<"client", "channel">>
  <2>1. /\ phase = "starting" /\ Len(deferred) = 1 /\ deferred \in Seq(Resources)
        /\ deferred[1] = "exporters"
    BY DEF At, Progressed, Ordered
  <2>2. deferred' = deferred \o <<"client", "channel">> BY <1>5
  <2>3. "client" \in Resources /\ "channel" \in Resources BY DEF Resources
  <2>4. /\ deferred' \in Seq(Resources) /\ Len(deferred') = 3
        /\ deferred'[1] = "exporters" /\ deferred'[2] = "client" /\ deferred'[3] = "channel"
    BY <2>1, <2>2, <2>3, PushedTwo
  <2>5. Ordered' BY <2>4 DEF Ordered
  <2>6. Owned' BY <1>5, <2>1, <2>4 DEF Owned, Resources
  <2> QED
    BY <1>5, <2>1, <2>4, <2>5, <2>6 DEF Pass, Scalars, Working, Progressed, Checked
<1>6. CASE Leave("error") /\ UNCHANGED <<open, deferred>>
  BY <1>6 DEF Leave, At, Phases, Scalars, Ordered, Owned, Working, Progressed, Checked
<1> QED BY <1>5, <1>6 DEF OpenPulsar

LEMMA ServeKeeps == Inv /\ Serve => Inv'
<1> SUFFICES ASSUME Inv, Serve PROVE Inv'
  OBVIOUS
<1>1. app' = app /\ setting' = setting /\ Plan' = Plan /\ Channel' = Channel
  BY PlanKept DEF Serve
<1>2. WriterLoad' = WriterLoad /\ DelivererLoad' = DelivererLoad
  BY <1>1 DEF WriterLoad, DelivererLoad
<1>3. Len(Plan) \in {7, 9} /\ Channel \in 5 .. 6 BY PlanLength DEF Inv
<1>4. phase = "starting" /\ Len(deferred) = 3 /\ deferred \in Seq(Resources)
  <2>1. phase = "starting" /\ pos \in Nat /\ pos > 3 /\ pos > Channel
    <3>1. phase = "starting" /\ pos > Len(Plan) /\ pos \in 1 .. (Len(Plan) + 1)
      BY DEF Inv, Serve, Scalars
    <3> QED BY <1>3, <3>1
  <2> QED BY <2>1, <1>3 DEF Inv, Progressed, Ordered
<1>5. /\ Len(deferred') = 4 /\ deferred' \in Seq(Resources) /\ deferred'[4] = "signals"
      /\ deferred'[1] = deferred[1] /\ deferred'[2] = deferred[2] /\ deferred'[3] = deferred[3]
  <2>1. deferred' = Append(deferred, "signals") /\ "signals" \in Resources
    BY DEF Serve, Resources
  <2>2. /\ deferred' \in Seq(Resources) /\ Len(deferred') = Len(deferred) + 1
        /\ deferred'[Len(deferred) + 1] = "signals"
        /\ \A i \in 1 .. Len(deferred) : deferred'[i] = deferred[i]
    BY <1>4, <2>1, Pushed, Zenon
  <2>3. Len(deferred) + 1 = 4 /\ 1 \in 1 .. 3 /\ 2 \in 1 .. 3 /\ 3 \in 1 .. 3 BY <1>4
  <2> QED BY <1>4, <2>2, <2>3
<1>6. Ordered' BY <1>4, <1>5 DEF Inv, Ordered
<1>7. Owned' /\ Working'
  <2>1. Work \subseteq {"listener", "workers"} /\ open' = (open \cup {"signals"}) \cup Work
    BY DEF Work, Serve
  <2>2. Owned' BY <1>4, <1>5, <2>1 DEF Inv, Owned, Resources
  <2>3. /\ "workers" \in open' => app = "deliverer"
        /\ "listener" \in open' => app = "writer"
        /\ phase' = "serving" /\ ~broken' /\ "handlers" \notin open'
    BY <1>4, <2>1 DEF Inv, Work, Serve, Working, Scalars
  <2> QED BY <1>1, <2>2, <2>3 DEF Inv, Working
<1>8. Progressed' /\ Scalars' /\ Checked'
  BY <1>1, <1>2, <1>3, <1>4, <1>5 DEF Inv, Serve, Progressed, Scalars, Checked, Phases
<1> QED BY <1>6, <1>7, <1>8 DEF Inv

LEMMA UnwindKeeps == Inv /\ Unwind => Inv'
<1> SUFFICES ASSUME Inv, Unwind PROVE Inv'
  OBVIOUS
<1>1. app' = app /\ setting' = setting /\ Plan' = Plan /\ Channel' = Channel
  BY PlanKept DEF Unwind
<1>2. /\ phase = "unwinding" /\ deferred \in Seq(Resources) /\ Len(deferred) \in 1 .. 4
      /\ "workers" \notin open /\ "listener" \notin open
  BY DEF Inv, Unwind, Ordered, Working
<1>3. /\ Len(deferred') = Len(deferred) - 1 /\ deferred' \in Seq(Resources)
      /\ \A i \in 1 .. (Len(deferred) - 1) : deferred'[i] = deferred[i]
  <2>1. deferred' = SubSeq(deferred, 1, Len(deferred) - 1) BY DEF Unwind
  <2>2. Len(deferred) > 0 BY <1>2
  <2>3. /\ Len(deferred') = Len(deferred) - 1
        /\ deferred' \in Seq(Resources)
        /\ \A i \in 1 .. (Len(deferred) - 1) : deferred'[i] = deferred[i]
    BY <1>2, <2>1, <2>2, Popped, Zenon
  <2> QED BY <2>3
<1>4. Ordered' BY <1>2, <1>3 DEF Inv, Ordered
<1>5. Owned' BY <1>2, <1>3 DEF Inv, Unwind, Ordered, Owned
<1>6. Progressed' /\ Scalars' /\ Checked' /\ Working'
  BY <1>1, <1>2 DEF Inv, Unwind, Progressed, Scalars, Checked, Working, Abandons
<1> QED BY <1>4, <1>5, <1>6 DEF Inv

\* The steps that open nothing and call no deferred function.
Waiting ==
    \/ BeginShutdown \/ ShutdownDone \/ GraceExpires \/ WorkersEnd \/ Wait \/ Return
    \/ ListenerFails \/ ReturnError \/ Signal \/ Kill \/ Handle \/ HandlersEnd

LEMMA WaitingKeeps == Inv /\ Waiting => Inv'
<1> SUFFICES ASSUME Inv, Waiting PROVE Inv'
  OBVIOUS
<1>1. app' = app /\ setting' = setting /\ pos' = pos /\ deferred' = deferred
  BY DEF Waiting, BeginShutdown, ShutdownDone, GraceExpires, WorkersEnd, Wait, Return,
         ListenerFails, ReturnError, Signal, Kill, Handle, HandlersEnd, Leave
<1>2. Plan' = Plan /\ Channel' = Channel /\ Ordered'
  BY <1>1, PlanKept DEF Inv, Ordered
<1>3. WriterLoad' = WriterLoad /\ DelivererLoad' = DelivererLoad
  BY <1>1 DEF WriterLoad, DelivererLoad
<1>4. Owned'
  BY <1>1 DEF Inv, Owned, Resources, Waiting, BeginShutdown, ShutdownDone, GraceExpires,
              WorkersEnd, Wait, Return, ListenerFails, ReturnError, Signal, Kill, Handle,
              HandlersEnd, Leave
<1> USE <1>1, <1>2, <1>3, <1>4 DEF Inv, Scalars, Progressed, Working, Checked, Phases, Abandons
<1>5. CASE BeginShutdown BY <1>5 DEF BeginShutdown
<1>6. CASE ShutdownDone BY <1>6 DEF ShutdownDone, Leave
<1>7. CASE GraceExpires BY <1>7 DEF GraceExpires
<1>8. CASE WorkersEnd BY <1>8 DEF WorkersEnd
<1>9. CASE Wait BY <1>9 DEF Wait, Leave
<1>10. CASE Return BY <1>10 DEF Return, Ordered
<1>11. CASE ListenerFails BY <1>11 DEF ListenerFails
<1>12. CASE ReturnError BY <1>12 DEF ReturnError, Leave
<1>13. CASE Signal BY <1>13 DEF Signal
<1>14. CASE Kill BY <1>14 DEF Kill
<1>15. CASE Handle BY <1>15 DEF Handle
<1>16. CASE HandlersEnd BY <1>16 DEF HandlersEnd
<1> QED BY <1>5, <1>6, <1>7, <1>8, <1>9, <1>10, <1>11, <1>12, <1>13, <1>14, <1>15, <1>16
        DEF Waiting

LEMMA StutterKeeps == Inv /\ UNCHANGED vars => Inv'
  BY DEF vars, Inv, Scalars, Ordered, Owned, Progressed, Working, Checked, Plan, Channel,
         WriterLoad, DelivererLoad, Abandons

LEMMA InvStep == Inv /\ [Next]_vars => Inv'
  BY ConstructKeeps, InitTelemetryKeeps, OpenPulsarKeeps, ServeKeeps, UnwindKeeps, WaitingKeeps,
     StutterKeeps DEF Next, Start, End, Waiting

LEMMA InvHolds == Spec => []Inv
  BY InvInit, InvStep, PTL DEF Spec

-----------------------------------------------------------------------------
(* The theorems.                                                           *)

\* The variables of run() keep their types, and the plan is not left.
THEOREM TypeCorrect == Spec => []TypeOK
<1>1. Inv /\ Flag => TypeOK
  <2> SUFFICES ASSUME Inv, Flag PROVE TypeOK
    OBVIOUS
  <2>1. setting \in Setting BY SettingsAssumption DEF Inv, Scalars
  <2> QED BY <2>1, Zenon DEF Inv, Flag, Scalars, Ordered, Owned, TypeOK
<1>2. Spec => []Flag
  <2>1. Init => Flag BY Zenon DEF Init, Flag
  <2> QED BY <2>1, FlagStep, PTL DEF Spec
<1> QED BY <1>1, <1>2, InvHolds, PTL

\* A run that has returned has left nothing open, whatever failed, but for
\* handlers after the grace period ran out or the listener failed.
THEOREM LeaksNothing == Spec => []NothingLeaked
<1>1. Inv => NothingLeaked
  BY DEF Inv, Owned, Progressed, Working, NothingLeaked, Resources, Abandoned
<1> QED BY <1>1, InvHolds, PTL

(***************************************************************************)
(* What Load accepts no later step refuses, but for one thing: logging.New *)
(* refuses a log level that Load does not look at.                         *)
(***************************************************************************)
THEOREM UsableWhenLoaded == Spec => []LoadedIsUsable
<1>1. ASSUME Inv, phase = "starting", pos \in 2 .. Len(Plan), Plan[pos] # "logger"
      PROVE  Asks(Plan[pos])
  <2>1. CASE app = "writer"
    <3>1. Plan = WriterPlan /\ pos \in 2 .. 9 /\ WriterLoad
      <4>1. Plan = WriterPlan BY <2>1 DEF Plan
      <4>2. pos \in 2 .. 9 BY <1>1, <4>1, WriterSteps
      <4> QED BY <1>1, <2>1, <4>1, <4>2 DEF Inv, Checked
    <3>2. \A i \in 1 .. (pos - 1) : WriterPlan[i] \in Built
      BY <3>1 DEF Built
    <3>3. /\ pos = 4 => LoadKeySet
          /\ pos = 7 => NewIngester
          /\ pos = 8 => NewHandlers
          /\ pos = 9 => NewServer
      BY <3>1, <3>2, WriterSteps
         DEF WriterLoad, LoadKeySet, NewIngester, NewHandlers, NewServer
    <3>4. pos # 2
      BY <1>1, <3>1, WriterSteps
    <3> QED BY <3>1, <3>3, <3>4, WriterSteps DEF Asks
  <2>2. CASE app = "deliverer"
    <3>1. Plan = DelivererPlan /\ pos \in 2 .. 7 /\ DelivererLoad
      <4>1. Plan = DelivererPlan BY <2>2 DEF Plan
      <4>2. pos \in 2 .. 7 BY <1>1, <4>1, DelivererSteps
      <4> QED BY <1>1, <2>2, <4>1, <4>2 DEF Inv, Checked
    <3>2. \A i \in 1 .. (pos - 1) : DelivererPlan[i] \in Built
      BY <3>1 DEF Built
    <3>3. /\ pos = 4 => BuildProvider
          /\ pos = 6 => NewDispatcher
          /\ pos = 7 => NewConsumer
      BY <3>1, <3>2, DelivererSteps
         DEF DelivererLoad, BuildProvider, NewDispatcher, NewConsumer
    <3>4. pos # 2
      BY <1>1, <3>1, DelivererSteps
    <3> QED BY <3>1, <3>3, <3>4, DelivererSteps DEF Asks
  <2> QED BY <1>1, <2>1, <2>2 DEF Inv, Scalars
<1>2. ASSUME Inv, Plan[pos] = "logger", ~Asks(Plan[pos])
      PROVE  setting.level = "unknown"
  BY <1>2, SettingsAssumption DEF Inv, Scalars, Setting, Asks, LogLevel
<1>3. ASSUME Inv, phase = "serving", app = "deliverer"
      PROVE  setting.concurrency > 0 /\ setting.attempts > 0
  BY <1>3 DEF Inv, Checked, DelivererLoad
<1>4. Inv => LoadedIsUsable
  BY <1>1, <1>2, <1>3 DEF LoadedIsUsable
<1> QED BY <1>4, InvHolds, PTL

(***************************************************************************)
(* Nothing is closed under what still uses it, but for handlers: a         *)
(* publisher and exporters may be closed under those, and then the grace   *)
(* period has run out or the listener has failed.                          *)
(***************************************************************************)
THEOREM OrderlyClosed == Spec => ClosedInOrder
<1>1. ASSUME Inv, [Next]_vars, NEW x \in open \ open'
      PROVE  Users[x] \cap open' \subseteq Abandoned
  <2>1. x \in Resources BY <1>1 DEF Inv, Owned
  <2>2. CASE Unwind
    <3>1. /\ deferred \in Seq(Resources) /\ Len(deferred) \in 1 .. 4
          /\ x = deferred[Len(deferred)] /\ open' \subseteq open
          /\ "workers" \notin open /\ "listener" \notin open
      BY <1>1, <2>2 DEF Inv, Unwind, Ordered, Working
    <3>2. "handlers" \in open => Abandons
      BY <1>1, <2>2 DEF Inv, Unwind, Working
    <3>3. Users[x] \cap open' \subseteq {"handlers"}
      BY <1>1, <3>1 DEF Inv, Ordered, Owned, Users
    <3> QED BY <3>1, <3>2, <3>3 DEF Abandoned
  <2>3. CASE ~Unwind
    <3>1. x \in {"listener", "handlers", "workers"}
      BY <1>1, <2>3 DEF Next, Start, End, Construct, InitTelemetry, OpenPulsar, Serve,
         BeginShutdown, ShutdownDone, GraceExpires, WorkersEnd, Wait, Return, ListenerFails,
         ReturnError, Signal, Kill, Handle, HandlersEnd, Leave, vars
    <3> QED BY <3>1 DEF Users
  <2> QED BY <2>2, <2>3
<1>2. Inv /\ [Next]_vars => [\A x \in open \ open' : Users[x] \cap open' \subseteq Abandoned]_vars
  BY <1>1
<1> QED BY <1>2, InvHolds, PTL DEF Spec, ClosedInOrder

-----------------------------------------------------------------------------
(* Running forward.                                                        *)

\* The phases, in their order.
Rank == [starting |-> 0, serving |-> 1, stopping |-> 2, draining |-> 3, unwinding |-> 4,
         returned |-> 5, killed |-> 5]

\* Within a phase: the plan advances, the work ends, deferred functions are
\* called, and nothing of it comes back.
Onward ==
    \/ phase = "starting" /\ pos' > pos
    \/ phase \in {"serving", "stopping"} /\ open' \subseteq open /\ open' # open
    \/ phase = "unwinding" /\ Len(deferred') < Len(deferred)

\* A handler begins or ends; of run() itself nothing changes.
Visit ==
    /\ UNCHANGED <<app, setting, phase, pos, deferred, broken, expired, result>>
    /\ open' \ {"handlers"} = open \ {"handlers"}

Forward == [][Rank[phase'] > Rank[phase] \/ (phase' = phase /\ Onward) \/ Visit]_vars

(***************************************************************************)
(* Every step of run() is a step towards its end: to a later phase, or to  *)
(* less that is left of its own.  No run goes in circles, with whatever    *)
(* configuration and whichever step fails, and handlers that come and go   *)
(* take nothing of it back; what RunEnds adds is that the steps are taken. *)
(***************************************************************************)
THEOREM RunsForward == Spec => Forward
<1>1. ASSUME Inv, Next
      PROVE  Rank[phase'] > Rank[phase] \/ (phase' = phase /\ Onward) \/ Visit
  <2> USE DEF Rank, Onward
  <2>1. pos \in Nat /\ phase \in Phases
    BY <1>1, PlanLength DEF Inv, Scalars
  <2>2. ASSUME NEW step, Construct(step) \/ OpenPulsar(step) \/ InitTelemetry
        PROVE  \/ phase = "starting" /\ phase' = "unwinding"
               \/ phase' = phase /\ phase = "starting" /\ pos' > pos
    BY <2>1, <2>2 DEF Construct, OpenPulsar, InitTelemetry, At, Pass, Leave
  <2>3. CASE Unwind
    <3>1. phase = "unwinding" /\ phase' = phase BY <2>3 DEF Unwind
    <3>2. deferred \in Seq(Resources) /\ Len(deferred) \in 1 .. 4
      BY <1>1, <2>3 DEF Inv, Unwind, Ordered
    <3>3. Len(deferred) > 0 BY <3>2
    <3>4. deferred' = SubSeq(deferred, 1, Len(deferred) - 1) BY <2>3 DEF Unwind
    <3>5. Len(deferred') = Len(deferred) - 1 BY <3>2, <3>3, <3>4, Popped, Zenon
    <3>6. Len(deferred') < Len(deferred) BY <3>2, <3>5
    <3> QED BY <3>1, <3>6
  <2>4. CASE ListenerFails \/ WorkersEnd
    BY <2>4 DEF ListenerFails, WorkersEnd
  <2>5. CASE \/ Serve \/ ReturnError \/ Signal \/ BeginShutdown \/ ShutdownDone
             \/ GraceExpires \/ Wait \/ Return \/ Kill
    BY <2>5 DEF Serve, ReturnError, Signal, BeginShutdown, ShutdownDone, GraceExpires, Wait,
                Return, Kill, Leave
  <2>6. CASE Handle \/ HandlersEnd
    BY <2>6 DEF Handle, HandlersEnd, Visit
  <2> QED BY <1>1, <2>2, <2>3, <2>4, <2>5, <2>6 DEF Next, Start, End
<1>2. Inv /\ [Next]_vars =>
        [Rank[phase'] > Rank[phase] \/ (phase' = phase /\ Onward) \/ Visit]_vars
  BY <1>1
<1> QED BY <1>2, InvHolds, PTL DEF Spec, Forward

-----------------------------------------------------------------------------
(* What the result says.                                                   *)

ResultTold ==
    /\ phase \in {"starting", "serving", "stopping", "draining"} => result = "none"
    /\ phase \in {"unwinding", "returned"} => result # "none"
    /\ result = "ok" => pos > Len(Plan)
    /\ result = "error" => pos <= Len(Plan) \/ (app = "writer" /\ broken)

\* Past the start, the whole plan is done.
Done == phase \in {"serving", "stopping", "draining"} => pos > Len(Plan)

LEMMA ResultStep ==
  ASSUME Inv, ResultTold, Done, [Next]_vars
  PROVE  ResultTold' /\ Done'
<1>1. pos \in Nat /\ Len(Plan) \in Nat /\ phase \in Phases
  BY PlanLength DEF Inv, Scalars
<1>2. Plan' = Plan
  <2>1. app' = app
    BY DEF Next, Start, End, Construct, InitTelemetry, OpenPulsar, Serve, BeginShutdown,
           ShutdownDone, GraceExpires, WorkersEnd, Wait, Unwind, Return, ListenerFails,
           ReturnError, Signal, Kill, Handle, HandlersEnd, Leave, Pass, vars
  <2> QED BY <2>1, PlanKept
<1> USE <1>1, <1>2 DEF ResultTold, Done
<1>3. ASSUME NEW step, Construct(step) \/ OpenPulsar(step) \/ InitTelemetry
      PROVE  ResultTold' /\ Done'
  <2>1. At(step) \/ At("telemetry")
    BY <1>3 DEF Construct, OpenPulsar, InitTelemetry
  <2>2. /\ phase = "starting" /\ pos <= Len(Plan) /\ result = "none"
        /\ (phase' = phase /\ result' = result) \/ Leave("error")
    BY <1>3, <2>1 DEF At, Construct, OpenPulsar, InitTelemetry, Pass
  <2> QED BY <2>2 DEF Leave
<1>4. CASE Serve BY <1>4 DEF Serve
<1>5. CASE ReturnError BY <1>5 DEF ReturnError, Leave, Inv, Working
<1>6. CASE Signal \/ BeginShutdown \/ ShutdownDone \/ GraceExpires \/ Wait
  BY <1>6 DEF Signal, BeginShutdown, ShutdownDone, GraceExpires, Wait, Leave
<1>7. CASE ListenerFails BY <1>7 DEF ListenerFails
<1>8. CASE WorkersEnd \/ Unwind \/ Return \/ Kill \/ Handle \/ HandlersEnd
  BY <1>8 DEF WorkersEnd, Unwind, Return, Kill, Handle, HandlersEnd
<1>9. CASE UNCHANGED vars BY <1>9 DEF vars
<1> QED BY <1>3, <1>4, <1>5, <1>6, <1>7, <1>8, <1>9 DEF Next, Start, End

(***************************************************************************)
(* What run() returns is true: success only after a start that succeeded,  *)
(* an error only after a start that failed or a listener that did.  Of a   *)
(* deliverer nothing but its start is told: when its workers have all      *)
(* failed, run() returns success.                                          *)
(***************************************************************************)
THEOREM ResultTrue == Spec => []ResultTold
<1>1. Init => ResultTold /\ Done
  BY DEF Init, ResultTold, Done
<1>2. Inv /\ ResultTold /\ Done /\ [Next]_vars => ResultTold' /\ Done'
  BY ResultStep
<1> QED BY <1>1, <1>2, InvHolds, PTL DEF Spec

\* What runs, or waits for the signal, when the process is killed.
KilledIdle ==
    phase = "killed" =>
      /\ open \cap {"listener", "workers", "signals"} = {}
      /\ "handlers" \in open => Abandons

(***************************************************************************)
(* No signal kills a process that serves: one that comes too early or a    *)
(* second one that comes late finds no listener open and no worker at      *)
(* work, and no handler but one that was abandoned already.                *)
(***************************************************************************)
THEOREM KilledOnlyIdle == Spec => []KilledIdle
<1>1. Init => KilledIdle
  BY DEF Init, KilledIdle
<1>2. ASSUME Inv, Inv', KilledIdle, [Next]_vars PROVE KilledIdle'
  <2>1. CASE Kill
    <3>1. /\ open \cap {"listener", "workers", "signals"} = {} /\ open' = open
          /\ "handlers" \in open => Abandons
      BY <1>2, <2>1 DEF Kill, Inv, Working
    <3>2. Abandons => Abandons'
      BY <2>1 DEF Kill, Abandons
    <3> QED BY <3>1, <3>2 DEF KilledIdle
  <2>2. CASE ~Kill /\ phase' = "killed"
    <3>1. phase = "killed" /\ UNCHANGED <<open, broken, expired, result>>
      BY <1>2, <2>2 DEF Next, Start, End, Construct, InitTelemetry, OpenPulsar, At, Serve,
         BeginShutdown, ShutdownDone, GraceExpires, WorkersEnd, Wait, Unwind, Return,
         ListenerFails, ReturnError, Signal, Handle, HandlersEnd, Leave, Pass, vars
    <3> QED BY <1>2, <3>1 DEF KilledIdle, Abandons
  <2> QED BY <2>1, <2>2 DEF KilledIdle
<1>3. KilledIdle /\ Inv /\ Inv' /\ [Next]_vars => KilledIdle'
  BY <1>2
<1> QED BY <1>1, <1>3, InvHolds, PTL DEF Spec
=============================================================================
