--------------------------- MODULE DelivererProofs ---------------------------
(***************************************************************************)
(* Proofs about Deliverer, for every set of workers and messages and every *)
(* value of the bounds.  The inductive invariant is built in layers: types *)
(* (TypeOK), who holds which delivery (Custody), what is recorded for it   *)
(* (Recorded), what was pushed for it (Pushed), and what the provider made *)
(* of it (Agreed).  Each layer is inductive given the ones below it.       *)
(***************************************************************************)
EXTENDS Deliverer, TLAPS

\* A delivery is in the hands of one worker, and its number is one that the
\* broker has given out.
Custody ==
    /\ \A w \in Workers : pc[w] \in Holding =>
         msg[w] \in Messages /\ nth[w] \in 1 .. deliveries[msg[w]]
    /\ \A v, w \in Workers :
         pc[v] \in Holding /\ pc[w] \in Holding /\ msg[v] = msg[w] /\ nth[v] = nth[w]
           => v = w

\* An outcome is about a delivery that was given out; while its worker still
\* holds it there is exactly one from the moment the worker turns to Ack.
Recorded ==
    /\ \A o \in outcomes : o.nth \in 1 .. deliveries[o.msg]
    /\ \A o1, o2 \in outcomes : o1.msg = o2.msg /\ o1.nth = o2.nth => o1 = o2
    /\ \A w \in Workers : pc[w] \in Undecided => ~Decided(msg[w], nth[w])
    /\ \A w \in Workers : pc[w] = "ack" => Decided(msg[w], nth[w])
    /\ AckedOnlyAfterOutcome

\* How many calls worker w has made for the delivery it holds.
Made(w) == CASE pc[w] = "answered"         -> attempt[w]
             [] pc[w] \in {"push", "sleep"} -> attempt[w] - 1
             [] OTHER                       -> 0

\* The calls of a delivery are numbered from 1 up to what its worker has made
\* or its outcome says, and never beyond the budget.
Pushed ==
    /\ \A w \in Workers : pc[w] \in {"push", "answered"} => attempt[w] \in 1 .. MaxAttempts
    /\ \A w \in Workers : pc[w] = "sleep" => attempt[w] \in 2 .. MaxAttempts
    /\ \A m \in Messages, n, k \in Nat :
         <<m, n, k>> \in calls => n \in 1 .. deliveries[m] /\ k \in 1 .. MaxAttempts
    /\ \A w \in Workers : pc[w] \in Undecided =>
         \A k \in Nat : <<msg[w], nth[w], k>> \in calls <=> k \in 1 .. Made(w)
    /\ \A o \in outcomes, k \in Nat :
         <<o.msg, o.nth, k>> \in calls <=> k \in 1 .. o.attempts
    /\ \A m \in Messages, n, k \in Nat :
         <<m, n, k>> \in calls => \A j \in 1 .. k : <<m, n, j>> \in calls

\* What a worker heard from Push is what the provider did.
Agreed ==
    /\ \A w \in Workers : pc[w] = "answered" =>
         LET call == <<msg[w], nth[w], attempt[w]>>
         IN  /\ answer[w] \in Answers
             /\ answer[w] = "success" => call \in accepted
             /\ answer[w] \in PermanentReasons => call \notin accepted
    /\ VerdictMatchesProvider
-----------------------------------------------------------------------------
(* Types.                                                                  *)

USE WorkersAssumption, AttemptsAssumption, BoundsAssumption

LEMMA TypeInit == Init => TypeOK
BY DEF Init, TypeOK, Points

\* What Record writes is an outcome, whoever calls it.
LEMMA RecordType ==
    ASSUME TypeOK, NEW w \in Workers, msg[w] \in Messages,
           NEW status \in Statuses, NEW reason \in Reasons, NEW attempts \in Nat,
           Record(w, status, reason, attempts)
    PROVE  TypeOK'
<1>1. outcomes' \subseteq Outcome
  BY DEF TypeOK, Record, Outcome
<1>2. QED
  BY <1>1 DEF TypeOK, Record, broker, process, provider, Points

\* A worker that holds something holds a message, and one that backs off
\* has begun a further attempt.
HoldsMessage ==
    \A w \in Workers :
      /\ pc[w] \in Holding => msg[w] \in Messages
      /\ pc[w] = "sleep" => attempt[w] # 0

\* The actions that end in Record.
Recording(w) ==
    \/ RejectMalformed(w) \/ DropExpired(w) \/ RejectUntargeted(w)
    \/ RecordDelivered(w) \/ RecordPermanent(w)
    \/ RecordExhausted(w) \/ AbandonBackoff(w)

\* Each of them records a well-formed outcome for a message still undecided,
\* with the calls made for it as its attempts.
LEMMA RecordingRecords ==
    ASSUME TypeOK, HoldsMessage, NEW w \in Workers, Recording(w)
    PROVE  /\ pc[w] \in Undecided
           /\ msg[w] \in Messages
           /\ Made(w) \in Nat
           /\ \E status \in Statuses, reason \in Reasons : Record(w, status, reason, Made(w))
<1>1. pc[w] \in Undecided /\ msg[w] \in Messages
  BY DEF HoldsMessage, Holding, Undecided, Recording, RejectMalformed, DropExpired,
         RejectUntargeted, RecordDelivered, RecordPermanent, RecordExhausted, AbandonBackoff
<1>2. CASE RejectMalformed(w) \/ DropExpired(w) \/ RejectUntargeted(w)
  <2>1. /\ \/ Record(w, "permanently-failed", "provider-rejected-payload", 0)
           \/ Record(w, "expired", "expired", 0)
        /\ Made(w) = 0
    BY <1>2 DEF RejectMalformed, DropExpired, RejectUntargeted, Made
  <2>2. QED
    BY <1>1, <2>1 DEF Statuses, Reasons
<1>3. CASE RecordDelivered(w)
  <2>1. Record(w, "delivered", "none", Made(w)) /\ Made(w) \in Nat
    BY <1>3 DEF RecordDelivered, TypeOK, Made
  <2>2. QED
    BY <1>1, <2>1 DEF Statuses, Reasons
<1>4. CASE RecordPermanent(w)
  <2>1. /\ Record(w, "permanently-failed", answer[w], Made(w))
        /\ Made(w) \in Nat /\ answer[w] \in Reasons
    BY <1>4 DEF RecordPermanent, TypeOK, Reasons, Made
  <2>2. QED
    BY <1>1, <2>1 DEF Statuses
<1>5. CASE RecordExhausted(w)
  <2>1. /\ Record(w, "permanently-failed", "retry-budget-exhausted", Made(w))
        /\ Made(w) \in Nat
    BY <1>5 DEF RecordExhausted, TypeOK, Made
  <2>2. QED
    BY <1>1, <2>1 DEF Statuses, Reasons
<1>6. CASE AbandonBackoff(w)
  <2>1. /\ Record(w, "permanently-failed", "retry-budget-exhausted", Made(w))
        /\ Made(w) \in Nat
    BY <1>6 DEF AbandonBackoff, AbandonedAttempts, TypeOK, HoldsMessage, Made
  <2>2. QED
    BY <1>1, <2>1 DEF Statuses, Reasons
<1>7. QED
  BY <1>2, <1>3, <1>4, <1>5, <1>6 DEF Recording

LEMMA TypeStep ==
    ASSUME TypeOK, HoldsMessage, [Next]_vars
    PROVE  TypeOK' /\ HoldsMessage'
<1> USE DEF Holding, Undecided
<1>1. ASSUME NEW w \in Workers, Receive(w)
      PROVE  TypeOK' /\ HoldsMessage'
  BY <1>1 DEF Receive, HandOut, TypeOK, HoldsMessage, process, provider, records, Points
<1>2. ASSUME NEW w \in Workers, ReceiveViolation(w) \/ ReceiveUndecryptable(w)
      PROVE  TypeOK' /\ HoldsMessage'
  <2>1. PICK m \in Messages : HandOut(m)
    BY <1>2 DEF ReceiveViolation, ReceiveUndecryptable
  <2>2. /\ place' \in [Messages -> {"backlog", "unacked", "acked"}]
        /\ deliveries' \in [Messages -> Nat]
        /\ redelivered' = redelivered
    BY <2>1 DEF HandOut, TypeOK
  <2>3. pc' \in [Workers -> Points] /\ \A v \in Workers : pc'[v] \in {pc[v], "failed"}
    BY <1>2 DEF ReceiveViolation, ReceiveUndecryptable, TypeOK, Points
  <2>4. UNCHANGED <<kind, overdue, proc, starts, msg, nth, attempt, answer, calls, accepted,
                    outcomes, cut>>
    BY <1>2 DEF ReceiveViolation, ReceiveUndecryptable, process, local, provider, records
  <2>5. violations' \in Nat
    <3>1. violations' = violations \/ violations' = violations + 1
      BY <1>2 DEF ReceiveViolation, ReceiveUndecryptable, records
    <3>2. QED
      BY <3>1 DEF TypeOK
  <2>6. QED
    BY <2>2, <2>3, <2>4, <2>5 DEF TypeOK, HoldsMessage
<1>3. ASSUME NEW w \in Workers, ReceiveCancelled(w) \/ ReceiveError(w) \/ Wake(w)
      PROVE  TypeOK' /\ HoldsMessage'
  BY <1>3 DEF ReceiveCancelled, ReceiveError, Wake, TypeOK, HoldsMessage, broker, process,
              local, provider, records, Points
<1>4. ASSUME NEW w \in Workers, Recording(w)
      PROVE  TypeOK' /\ HoldsMessage'
  <2>1. PICK status \in Statuses, reason \in Reasons :
          Record(w, status, reason, Made(w))
    BY <1>4, RecordingRecords
  <2>2. msg[w] \in Messages /\ Made(w) \in Nat
    BY <1>4, RecordingRecords
  <2>3. TypeOK'
    BY <2>1, <2>2, RecordType
  <2>4. HoldsMessage'
    BY <2>1, <2>2 DEF Record, HoldsMessage, TypeOK
  <2>5. QED
    BY <2>3, <2>4
<1>5. ASSUME NEW w \in Workers, StartDispatch(w) \/ Retry(w)
      PROVE  TypeOK' /\ HoldsMessage'
  BY <1>5 DEF StartDispatch, Retry, Done, TypeOK, HoldsMessage, broker, process, provider,
              records, Points
<1>6. ASSUME NEW w \in Workers, Push(w)
      PROVE  TypeOK' /\ HoldsMessage'
  <2>1. <<msg[w], nth[w], attempt[w]>> \in Messages \X Nat \X Nat
    BY <1>6 DEF Push, TypeOK, HoldsMessage
  <2>2. calls' \subseteq Messages \X Nat \X Nat /\ accepted' \subseteq calls'
    BY <1>6, <2>1 DEF Push, TypeOK
  <2>3. QED
    BY <1>6, <2>2 DEF Push, TypeOK, HoldsMessage, broker, process, records, Points
<1>7. ASSUME NEW w \in Workers, Ack(w)
      PROVE  TypeOK' /\ HoldsMessage'
  BY <1>7 DEF Ack, TypeOK, HoldsMessage, process, provider, records, Points
<1>8. CASE Signal
  BY <1>8 DEF Signal, TypeOK, HoldsMessage, broker, local, provider, records
<1>9. CASE Exit \/ Crash
  <2>1. Disconnect
    BY <1>9 DEF Exit, Crash
  <2>2. cut' \subseteq Messages \X Nat
    BY <1>9 DEF Exit, Crash, TypeOK, HoldsMessage
  <2>3. QED
    BY <2>1, <2>2 DEF Disconnect, TypeOK, HoldsMessage, provider, records, Points
<1>10. CASE Start
  BY <1>10 DEF Start, TypeOK, HoldsMessage, broker, local, provider, records, Points
<1>11. ASSUME NEW m \in Messages, Deadline(m)
       PROVE  TypeOK' /\ HoldsMessage'
  BY <1>11 DEF Deadline, TypeOK, HoldsMessage, broker, process, local, provider, records
<1>12. ASSUME NEW m \in Messages, Redeliver(m)
       PROVE  TypeOK' /\ HoldsMessage'
  BY <1>12 DEF Redeliver, TypeOK, HoldsMessage, process, local, provider, records
<1>13. CASE UNCHANGED vars
  BY <1>13 DEF vars, TypeOK, HoldsMessage, broker, process, local, provider, records
<1>14. QED
  BY <1>1, <1>2, <1>3, <1>4, <1>5, <1>6, <1>7, <1>8, <1>9, <1>10, <1>11, <1>12,
     <1>13 DEF Next, Worker, Recording

(***************************************************************************)
(* Every variable keeps its type; the retry counter stays within the       *)
(* budget, and every accepted call is a call that was made.                *)
(***************************************************************************)
THEOREM TypeCorrect == Spec => []TypeOK
<1>1. Init => TypeOK /\ HoldsMessage
  BY TypeInit DEF Init, HoldsMessage, Holding, Undecided
<1>2. (TypeOK /\ HoldsMessage) /\ [Next]_vars => (TypeOK /\ HoldsMessage)'
  BY TypeStep
<1>3. QED
  BY <1>1, <1>2, PTL DEF Spec

-----------------------------------------------------------------------------
(* Who holds which delivery.                                               *)

\* A step that lets nobody take up a delivery, and changes no delivery that
\* is held after it.
Keeps ==
    /\ \A w \in Workers : pc'[w] \in Holding =>
         pc[w] \in Holding /\ msg'[w] = msg[w] /\ nth'[w] = nth[w]
    /\ \A m \in Messages : deliveries'[m] >= deliveries[m]

LEMMA KeepsCustody ==
    ASSUME TypeOK, TypeOK', Custody, Keeps
    PROVE  Custody'
<1>1. ASSUME NEW w \in Workers, pc'[w] \in Holding
      PROVE  msg'[w] \in Messages /\ nth'[w] \in 1 .. deliveries'[msg'[w]]
  <2>1. msg'[w] \in Messages /\ nth'[w] \in 1 .. deliveries[msg'[w]]
    BY <1>1 DEF Custody, Keeps
  <2>2. QED
    BY <2>1 DEF Keeps, TypeOK
<1>2. ASSUME NEW v \in Workers, NEW w \in Workers, pc'[v] \in Holding, pc'[w] \in Holding,
             msg'[v] = msg'[w], nth'[v] = nth'[w]
      PROVE  v = w
  BY <1>2 DEF Custody, Keeps
<1>3. QED
  BY <1>1, <1>2 DEF Custody

\* Every step but Receive is of that kind.
LEMMA OtherStepsKeep ==
    ASSUME TypeOK, HoldsMessage, [Next]_vars, \A w \in Workers : ~Receive(w)
    PROVE  Keeps
<1> USE DEF Holding, Undecided
<1>1. ASSUME NEW w \in Workers, ReceiveViolation(w) \/ ReceiveUndecryptable(w)
      PROVE  Keeps
  <2>1. PICK m \in Messages : HandOut(m)
    BY <1>1 DEF ReceiveViolation, ReceiveUndecryptable
  <2>2. \A x \in Messages : deliveries'[x] >= deliveries[x]
    BY <2>1 DEF HandOut, TypeOK
  <2>3. UNCHANGED <<msg, nth>> /\ \A v \in Workers : pc'[v] \in {pc[v], "failed"}
    BY <1>1 DEF ReceiveViolation, ReceiveUndecryptable, local, TypeOK
  <2>4. QED
    BY <2>2, <2>3 DEF Keeps
<1>2. ASSUME NEW w \in Workers, ReceiveCancelled(w) \/ ReceiveError(w) \/ Wake(w)
      PROVE  Keeps
  BY <1>2 DEF ReceiveCancelled, ReceiveError, Wake, broker, local, TypeOK, Keeps
<1>3. ASSUME NEW w \in Workers, Recording(w)
      PROVE  Keeps
  BY <1>3, RecordingRecords DEF Record, broker, TypeOK, Keeps
<1>4. ASSUME NEW w \in Workers, StartDispatch(w) \/ Retry(w) \/ Push(w)
      PROVE  Keeps
  BY <1>4 DEF StartDispatch, Retry, Push, broker, TypeOK, Keeps
<1>5. ASSUME NEW w \in Workers, Ack(w)
      PROVE  Keeps
  BY <1>5 DEF Ack, TypeOK, Keeps
<1>6. CASE Signal \/ Start
  BY <1>6 DEF Signal, Start, broker, local, TypeOK, Keeps
<1>7. CASE Exit \/ Crash
  BY <1>7 DEF Exit, Crash, Disconnect, TypeOK, Keeps
<1>8. ASSUME NEW m \in Messages, Deadline(m) \/ Redeliver(m)
      PROVE  Keeps
  BY <1>8 DEF Deadline, Redeliver, broker, local, TypeOK, Keeps
<1>9. CASE UNCHANGED vars
  BY <1>9 DEF vars, broker, local, TypeOK, Keeps
<1>10. QED
  BY <1>1, <1>2, <1>3, <1>4, <1>5, <1>6, <1>7, <1>8, <1>9 DEF Next, Worker, Recording

\* What Receive does to custody: w takes up a new delivery of m.
LEMMA ReceiveTakes ==
    ASSUME TypeOK, NEW w \in Workers, Receive(w)
    PROVE  \E m \in Messages :
             /\ kind[m] # "undecryptable"
             /\ HandOut(m)
             /\ msg'[w] = m /\ nth'[w] = deliveries[m] + 1
             /\ pc[w] = "receive" /\ pc'[w] = "handle"
             /\ deliveries'[m] = deliveries[m] + 1
             /\ \A x \in Messages \ {m} : deliveries'[x] = deliveries[x]
             /\ \A v \in Workers \ {w} :
                  pc'[v] = pc[v] /\ msg'[v] = msg[v] /\ nth'[v] = nth[v]
BY DEF Receive, HandOut, TypeOK

LEMMA CustodyStep ==
    ASSUME TypeOK, TypeOK', HoldsMessage, Custody, [Next]_vars
    PROVE  Custody'
<1>1. ASSUME NEW w \in Workers, Receive(w)
      PROVE  Custody'
  <2>1. PICK m \in Messages :
          /\ msg'[w] = m /\ nth'[w] = deliveries[m] + 1
          /\ pc[w] = "receive" /\ pc'[w] = "handle"
          /\ deliveries'[m] = deliveries[m] + 1
          /\ \A x \in Messages \ {m} : deliveries'[x] = deliveries[x]
          /\ \A v \in Workers \ {w} :
               pc'[v] = pc[v] /\ msg'[v] = msg[v] /\ nth'[v] = nth[v]
    BY <1>1, ReceiveTakes
  <2>2. \A x \in Messages :
          deliveries[x] \in Nat /\ deliveries'[x] \in Nat /\ deliveries'[x] >= deliveries[x]
    BY <2>1 DEF TypeOK
  <2>3. ASSUME NEW v \in Workers \ {w}, pc'[v] \in Holding
        PROVE  /\ msg'[v] \in Messages /\ nth'[v] \in 1 .. deliveries'[msg'[v]]
               /\ ~(msg'[v] = m /\ nth'[v] = deliveries[m] + 1)
    <3>1. msg'[v] \in Messages /\ nth'[v] \in 1 .. deliveries[msg'[v]]
      BY <2>1, <2>3 DEF Custody
    <3>2. QED
      BY <3>1, <2>2
  <2>4. \A u \in Workers : pc'[u] \in Holding =>
          msg'[u] \in Messages /\ nth'[u] \in 1 .. deliveries'[msg'[u]]
    BY <2>1, <2>2, <2>3
  <2>5. ASSUME NEW u \in Workers, NEW v \in Workers, pc'[u] \in Holding, pc'[v] \in Holding,
               msg'[u] = msg'[v], nth'[u] = nth'[v]
        PROVE  u = v
    <3>1. CASE u = w \/ v = w
      BY <3>1, <2>1, <2>3, <2>5
    <3>2. CASE u # w /\ v # w
      BY <3>2, <2>1, <2>5 DEF Custody
    <3>3. QED
      BY <3>1, <3>2
  <2>6. QED
    BY <2>4, <2>5 DEF Custody
<1>2. CASE \A w \in Workers : ~Receive(w)
  BY <1>2, OtherStepsKeep, KeepsCustody
<1>3. QED
  BY <1>1, <1>2

-----------------------------------------------------------------------------
(* One outcome for a delivery, and an outcome before the Ack.              *)

\* A step that records nothing and takes up nothing.
Silent ==
    /\ Keeps
    /\ outcomes' = outcomes
    /\ \A w \in Workers : pc'[w] \in Undecided => pc[w] \in Undecided
    /\ \A w \in Workers : pc'[w] = "ack" => pc[w] = "ack"

LEMMA OtherStepsSilent ==
    ASSUME TypeOK, HoldsMessage, [Next]_vars,
           \A w \in Workers : ~Receive(w) /\ ~Recording(w)
    PROVE  Silent
<1> USE DEF Undecided
<1>1. Keeps
  BY OtherStepsKeep
<1>2. outcomes' = outcomes
  BY DEF Next, Worker, Recording, ReceiveViolation, ReceiveUndecryptable, ReceiveCancelled,
         ReceiveError, Wake, StartDispatch, Retry, Push, Ack, Signal, Exit, Crash,
         Disconnect, Start, Deadline, Redeliver, vars, records
<1> DEFINE Late == \A w \in Workers :
                     /\ pc'[w] \in Undecided => pc[w] \in Undecided
                     /\ pc'[w] = "ack" => pc[w] = "ack"
<1>3. Late
  <2>1. ASSUME NEW w \in Workers,
               \/ ReceiveViolation(w) \/ ReceiveUndecryptable(w) \/ ReceiveCancelled(w)
               \/ ReceiveError(w) \/ Ack(w)
        PROVE  Late
    <3>1. \A v \in Workers : pc'[v] \in {pc[v], "failed", "stopped", "receive"}
      BY <2>1 DEF TypeOK, ReceiveViolation, ReceiveUndecryptable, ReceiveCancelled,
                  ReceiveError, Ack
    <3>2. QED
      BY <3>1
  <2>2. ASSUME NEW w \in Workers, StartDispatch(w) \/ Retry(w) \/ Push(w) \/ Wake(w)
        PROVE  Late
    <3>1. /\ \A v \in Workers \ {w} : pc'[v] = pc[v]
          /\ pc[w] \in Undecided /\ pc'[w] \in Undecided
      BY <2>2 DEF TypeOK, StartDispatch, Retry, Push, Wake
    <3>2. QED
      BY <3>1
  <2>3. CASE Signal \/ Start \/ Exit \/ Crash
    BY <2>3 DEF Signal, Start, Exit, Crash, Disconnect
  <2>4. ASSUME NEW m \in Messages, Deadline(m) \/ Redeliver(m)
        PROVE  Late
    BY <2>4 DEF Deadline, Redeliver
  <2>5. CASE UNCHANGED vars
    BY <2>5 DEF vars
  <2> HIDE DEF Late
  <2>6. QED
    BY <2>1, <2>2, <2>3, <2>4, <2>5 DEF Next, Worker, Recording
<1>4. QED
  BY <1>1, <1>2, <1>3 DEF Silent, Late

\* A message is acknowledged only by a worker that has come to Ack.
LEMMA AckedByWorker ==
    ASSUME TypeOK, [Next]_vars, NEW m \in Messages, place'[m] = "acked"
    PROVE  place[m] = "acked" \/ \E w \in Workers : pc[w] = "ack" /\ msg[w] = m
<1>1. ASSUME NEW w \in Workers, Ack(w)
      PROVE  place[m] = "acked" \/ (pc[w] = "ack" /\ msg[w] = m)
  BY <1>1 DEF Ack, TypeOK
<1>2. ASSUME NEW w \in Workers, Receive(w) \/ ReceiveViolation(w) \/ ReceiveUndecryptable(w)
      PROVE  place[m] = "acked"
  <2>1. PICK x \in Messages : HandOut(x)
    BY <1>2 DEF Receive, ReceiveViolation, ReceiveUndecryptable
  <2>2. QED
    BY <2>1 DEF HandOut, TypeOK
<1>3. ASSUME NEW w \in Workers, Recording(w)
      PROVE  place[m] = "acked"
  BY <1>3 DEF Recording, RejectMalformed, DropExpired, RejectUntargeted, RecordDelivered,
              RecordPermanent, RecordExhausted, AbandonBackoff, Record, broker
<1>4. ASSUME NEW w \in Workers,
             \/ ReceiveCancelled(w) \/ ReceiveError(w) \/ Wake(w)
             \/ StartDispatch(w) \/ Retry(w) \/ Push(w)
      PROVE  place[m] = "acked"
  BY <1>4 DEF ReceiveCancelled, ReceiveError, Wake, StartDispatch, Retry, Push, broker
<1>5. CASE Signal \/ Start \/ UNCHANGED vars
  BY <1>5 DEF Signal, Start, vars, broker
<1>6. CASE Exit \/ Crash
  BY <1>6 DEF Exit, Crash, Disconnect, TypeOK
<1>7. ASSUME NEW x \in Messages, Deadline(x) \/ Redeliver(x)
      PROVE  place[m] = "acked"
  BY <1>7 DEF Deadline, Redeliver, broker, TypeOK
<1>8. QED
  BY <1>1, <1>2, <1>3, <1>4, <1>5, <1>6, <1>7 DEF Next, Worker, Recording

LEMMA RecordedStep ==
    ASSUME TypeOK, TypeOK', HoldsMessage, Custody, Recorded, [Next]_vars
    PROVE  Recorded'
<1> USE DEF Holding, Undecided
<1>1. outcomes \subseteq outcomes' => AckedOnlyAfterOutcome'
  <2>1. SUFFICES ASSUME outcomes \subseteq outcomes', NEW m \in Messages, place'[m] = "acked"
                 PROVE  \E o \in outcomes : o.msg = m
    BY DEF AckedOnlyAfterOutcome
  <2>2. CASE place[m] = "acked"
    BY <2>2 DEF Recorded, AckedOnlyAfterOutcome
  <2>3. CASE \E w \in Workers : pc[w] = "ack" /\ msg[w] = m
    BY <2>3 DEF Recorded, Decided
  <2>4. QED
    BY <2>1, <2>2, <2>3, AckedByWorker
<1>2. ASSUME NEW w \in Workers, Receive(w)
      PROVE  Recorded'
  <2>1. PICK m \in Messages :
          /\ msg'[w] = m /\ nth'[w] = deliveries[m] + 1
          /\ pc[w] = "receive" /\ pc'[w] = "handle"
          /\ deliveries'[m] = deliveries[m] + 1
          /\ \A x \in Messages \ {m} : deliveries'[x] = deliveries[x]
          /\ \A v \in Workers \ {w} :
               pc'[v] = pc[v] /\ msg'[v] = msg[v] /\ nth'[v] = nth[v]
    BY <1>2, ReceiveTakes
  <2>2. outcomes' = outcomes
    BY <1>2 DEF Receive, records
  <2>3. \A o \in outcomes :
          /\ o.msg \in Messages /\ o.nth \in Nat /\ deliveries[o.msg] \in Nat
          /\ o.nth \in 1 .. deliveries[o.msg]
    BY DEF Recorded, TypeOK, Outcome
  <2>4. \A o \in outcomes' : o.nth \in 1 .. deliveries'[o.msg]
    <3>1. \A x \in Messages : deliveries'[x] \in Nat /\ deliveries'[x] >= deliveries[x]
      BY <2>1 DEF TypeOK
    <3>2. QED
      BY <2>2, <2>3, <3>1
  <2>5. \A o \in outcomes : ~(o.msg = m /\ o.nth = deliveries[m] + 1)
    BY <2>3
  <2>6. \A v \in Workers : pc'[v] \in Undecided => ~Decided(msg[v], nth[v])'
    BY <2>1, <2>2, <2>5 DEF Recorded, Decided
  <2>7. \A v \in Workers : pc'[v] = "ack" => Decided(msg[v], nth[v])'
    BY <2>1, <2>2 DEF Recorded, Decided
  <2>8. QED
    BY <1>1, <2>2, <2>4, <2>6, <2>7 DEF Recorded
<1>3. ASSUME NEW w \in Workers, Recording(w)
      PROVE  Recorded'
  <2>1. PICK status \in Statuses, reason \in Reasons :
          Record(w, status, reason, Made(w))
    BY <1>3, RecordingRecords
  <2> DEFINE new == [msg |-> msg[w], nth |-> nth[w], status |-> status, reason |-> reason,
                     attempts |-> Made(w)]
  <2>2. /\ outcomes' = outcomes \cup {new}
        /\ new.msg = msg[w] /\ new.nth = nth[w]
        /\ UNCHANGED <<msg, nth, deliveries>>
        /\ pc' = [pc EXCEPT ![w] = "ack"]
    BY <2>1 DEF Record, broker
  <2> HIDE DEF new
  <2>3. pc[w] \in Undecided /\ ~Decided(msg[w], nth[w])
    BY <1>3, RecordingRecords DEF Recorded
  <2>4. \A o \in outcomes' : o.nth \in 1 .. deliveries'[o.msg]
    BY <2>2, <2>3 DEF Recorded, Custody
  <2>5. \A o1, o2 \in outcomes' : o1.msg = o2.msg /\ o1.nth = o2.nth => o1 = o2
    BY <2>2, <2>3 DEF Recorded, Decided
  <2>6. \A v \in Workers : pc'[v] \in Undecided => ~Decided(msg[v], nth[v])'
    BY <2>2, <2>3 DEF Recorded, Decided, Custody, TypeOK
  <2>7. \A v \in Workers : pc'[v] = "ack" => Decided(msg[v], nth[v])'
    BY <2>2, <2>3 DEF Recorded, Decided, TypeOK
  <2>8. QED
    BY <1>1, <2>2, <2>4, <2>5, <2>6, <2>7 DEF Recorded
<1>4. CASE \A w \in Workers : ~Receive(w) /\ ~Recording(w)
  <2>1. Silent
    BY <1>4, OtherStepsSilent
  <2>2. \A o \in outcomes' : o.nth \in 1 .. deliveries'[o.msg]
    BY <2>1 DEF Silent, Keeps, Recorded, TypeOK, Outcome
  <2>3. \A v \in Workers : pc'[v] \in Undecided => ~Decided(msg[v], nth[v])'
    BY <2>1 DEF Silent, Keeps, Recorded, Decided
  <2>4. \A v \in Workers : pc'[v] = "ack" => Decided(msg[v], nth[v])'
    BY <2>1 DEF Silent, Keeps, Recorded, Decided
  <2>5. QED
    BY <1>1, <2>1, <2>2, <2>3, <2>4 DEF Silent, Recorded
<1>5. QED
  BY <1>2, <1>3, <1>4

CustodyInv == TypeOK /\ HoldsMessage /\ Custody /\ Recorded

LEMMA CustodyInvariant == Spec => []CustodyInv
<1>1. Init => CustodyInv
  BY TypeInit DEF Init, CustodyInv, HoldsMessage, Custody, Recorded, AckedOnlyAfterOutcome,
                  Holding, Undecided
<1>2. CustodyInv /\ [Next]_vars => CustodyInv'
  BY TypeStep, CustodyStep, RecordedStep DEF CustodyInv
<1>3. QED
  BY <1>1, <1>2, PTL DEF Spec

(***************************************************************************)
(* No message leaves the topic without an outcome, whatever crashes,       *)
(* redeliveries and lost acknowledgements happen.                          *)
(***************************************************************************)
THEOREM AckAfterOutcome == Spec => []AckedOnlyAfterOutcome
<1>1. CustodyInv => AckedOnlyAfterOutcome
  BY DEF CustodyInv, Recorded
<1>2. QED
  BY <1>1, CustodyInvariant, PTL

-----------------------------------------------------------------------------
(* The calls of a delivery and the attempts of its outcome.                *)

\* A step of no dispatch: nothing is pushed or recorded, and a delivery still
\* in hand is where it was.
Aside ==
    /\ Silent
    /\ UNCHANGED <<calls, accepted>>
    /\ overdue \subseteq overdue'
    /\ \A w \in Workers : pc'[w] \in Undecided =>
         pc'[w] = pc[w] /\ attempt'[w] = attempt[w] /\ answer'[w] = answer[w]

\* The retry loop moves on without a call.
Turning(w) == StartDispatch(w) \/ Retry(w) \/ Wake(w)

LEMMA OtherStepsAside ==
    ASSUME TypeOK, HoldsMessage, [Next]_vars,
           \A w \in Workers : ~Receive(w) /\ ~Recording(w) /\ ~Push(w) /\ ~Turning(w)
    PROVE  Aside
<1> USE DEF Undecided
<1>1. Silent
  BY OtherStepsSilent
<1> DEFINE Calm ==
      /\ UNCHANGED <<calls, accepted>>
      /\ overdue \subseteq overdue'
      /\ \A w \in Workers : pc'[w] \in Undecided =>
           pc'[w] = pc[w] /\ attempt'[w] = attempt[w] /\ answer'[w] = answer[w]
<1>2. Calm
  <2>1. ASSUME NEW w \in Workers,
               \/ ReceiveViolation(w) \/ ReceiveUndecryptable(w) \/ ReceiveCancelled(w)
               \/ ReceiveError(w) \/ Ack(w)
        PROVE  Calm
    <3>1. /\ \A v \in Workers : pc'[v] \in {pc[v], "failed", "stopped", "receive"}
          /\ UNCHANGED <<attempt, answer, calls, accepted, overdue>>
      BY <2>1 DEF TypeOK, ReceiveViolation, ReceiveUndecryptable, ReceiveCancelled,
                  ReceiveError, Ack, local, provider
    <3>2. QED
      BY <3>1
  <2>2. CASE Signal \/ UNCHANGED vars
    BY <2>2 DEF Signal, vars, local, provider
  <2>3. CASE Start \/ Exit \/ Crash
    BY <2>3 DEF Start, Exit, Crash, Disconnect, provider
  <2>4. ASSUME NEW m \in Messages, Deadline(m) \/ Redeliver(m)
        PROVE  Calm
    BY <2>4 DEF Deadline, Redeliver, local, provider
  <2> HIDE DEF Calm
  <2>5. QED
    BY <2>1, <2>2, <2>3, <2>4 DEF Next, Worker, Recording, Turning
<1>3. QED
  BY <1>1, <1>2 DEF Aside

\* No call was made for a delivery that the broker has not given out.
LEMMA NewDelivery ==
    ASSUME TypeOK, Pushed, NEW m \in Messages, NEW k \in Nat
    PROVE  <<m, deliveries[m] + 1, k>> \notin calls
<1>1. deliveries[m] \in Nat
  BY DEF TypeOK
<1>2. deliveries[m] + 1 \in Nat /\ ~(deliveries[m] + 1 \in 1 .. deliveries[m])
  BY <1>1
<1>3. QED
  BY <1>2 DEF Pushed

LEMMA PushedStep ==
    ASSUME CustodyInv, CustodyInv', Pushed, [Next]_vars
    PROVE  Pushed'
<1> USE DEF Holding, Undecided
<1>0. TypeOK /\ TypeOK' /\ HoldsMessage /\ Custody /\ Recorded
  BY DEF CustodyInv
<1>1. \A m \in Messages : /\ deliveries[m] \in Nat /\ deliveries'[m] \in Nat
                          /\ deliveries'[m] >= deliveries[m]
  <2>1. ASSUME NEW w \in Workers, Receive(w)
        PROVE  \A m \in Messages : deliveries'[m] >= deliveries[m]
    BY <2>1, <1>0 DEF Receive, HandOut, TypeOK
  <2>2. QED
    BY <2>1, <1>0, OtherStepsKeep DEF Keeps, TypeOK
<1>2. ASSUME NEW w \in Workers, Receive(w)
      PROVE  Pushed'
  <2>1. PICK m \in Messages :
          /\ msg'[w] = m /\ nth'[w] = deliveries[m] + 1
          /\ pc[w] = "receive" /\ pc'[w] = "handle"
          /\ \A v \in Workers \ {w} :
               pc'[v] = pc[v] /\ msg'[v] = msg[v] /\ nth'[v] = nth[v]
    BY <1>2, <1>0, ReceiveTakes
  <2>2. UNCHANGED <<calls, outcomes, attempt>>
    BY <1>2 DEF Receive, provider, records
  <2>3. \A k \in Nat : <<m, nth'[w], k>> \notin calls
    BY <1>0, <2>1, NewDelivery
  <2>4. Made(w)' = 0 /\ \A v \in Workers \ {w} : Made(v)' = Made(v)
    BY <2>1, <2>2 DEF Made
  <2>5. \A v \in Workers : pc'[v] \in Undecided =>
          \A k \in Nat : <<msg'[v], nth'[v], k>> \in calls <=> k \in 1 .. Made(v)'
    <3>1. \A k \in Nat : k \notin 1 .. 0
      OBVIOUS
    <3>2. QED
      BY <2>1, <2>3, <2>4, <3>1 DEF Pushed
  <2>6. \A m1 \in Messages, n, k \in Nat :
          <<m1, n, k>> \in calls => n \in 1 .. deliveries'[m1] /\ k \in 1 .. MaxAttempts
    BY <1>1 DEF Pushed
  <2>7. QED
    BY <2>1, <2>2, <2>5, <2>6 DEF Pushed
<1>3. ASSUME NEW w \in Workers, Recording(w)
      PROVE  Pushed'
  <2>1. PICK status \in Statuses, reason \in Reasons :
          Record(w, status, reason, Made(w))
    BY <1>3, <1>0, RecordingRecords
  <2> DEFINE new == [msg |-> msg[w], nth |-> nth[w], status |-> status, reason |-> reason,
                     attempts |-> Made(w)]
  <2>2. /\ outcomes' = outcomes \cup {new}
        /\ new.msg = msg[w] /\ new.nth = nth[w] /\ new.attempts = Made(w)
        /\ UNCHANGED <<msg, nth, deliveries, calls>>
        /\ pc' = [pc EXCEPT ![w] = "ack"]
        /\ attempt' = [attempt EXCEPT ![w] = 0]
    BY <2>1 DEF Record, broker, provider
  <2> HIDE DEF new
  <2>3. pc[w] \in Undecided
    BY <1>3, <1>0, RecordingRecords
  <2>4. \A v \in Workers : pc'[v] \in Undecided =>
          v # w /\ pc'[v] = pc[v] /\ attempt'[v] = attempt[v] /\ Made(v)' = Made(v)
    BY <1>0, <2>2 DEF TypeOK, Made
  <2>5. \A o \in outcomes', k \in Nat : <<o.msg, o.nth, k>> \in calls <=> k \in 1 .. o.attempts
    BY <2>2, <2>3 DEF Pushed
  <2>6. QED
    BY <2>2, <2>4, <2>5 DEF Pushed
<1>4. ASSUME NEW w \in Workers, Push(w)
      PROVE  Pushed'
  <2>1. /\ calls' = calls \cup {<<msg[w], nth[w], attempt[w]>>}
        /\ UNCHANGED <<msg, nth, deliveries, attempt, outcomes>>
        /\ pc[w] = "push" /\ pc' = [pc EXCEPT ![w] = "answered"]
    BY <1>4 DEF Push, broker, records
  <2>2. /\ attempt[w] \in 1 .. MaxAttempts
        /\ Made(w) = attempt[w] - 1 /\ Made(w)' = attempt[w]
        /\ \A v \in Workers \ {w} : pc'[v] = pc[v] /\ Made(v)' = Made(v)
    BY <1>0, <2>1 DEF Pushed, TypeOK, Made
  <2>3. msg[w] \in Messages /\ nth[w] \in 1 .. deliveries[msg[w]] /\ nth[w] \in Nat
    BY <1>0, <2>1 DEF Custody, TypeOK
  <2>4. \A k \in Nat : <<msg[w], nth[w], k>> \in calls' <=> k \in 1 .. attempt[w]
    BY <2>1, <2>2 DEF Pushed
  <2>5. \A m \in Messages, n, k \in Nat : ~(m = msg[w] /\ n = nth[w]) =>
          (<<m, n, k>> \in calls' <=> <<m, n, k>> \in calls)
    BY <2>1
  <2>6. \A v \in Workers \ {w} : pc[v] \in Undecided =>
          msg[v] \in Messages /\ nth[v] \in Nat /\ ~(msg[v] = msg[w] /\ nth[v] = nth[w])
    BY <1>0, <2>1 DEF Custody, TypeOK
  <2>7. \A o \in outcomes :
          o.msg \in Messages /\ o.nth \in Nat /\ ~(o.msg = msg[w] /\ o.nth = nth[w])
    BY <1>0, <2>1 DEF Recorded, Decided, TypeOK, Outcome
  <2>8. \A v \in Workers : pc'[v] \in {"push", "answered"} => attempt'[v] \in 1 .. MaxAttempts
    BY <2>1, <2>2 DEF Pushed
  <2>9. \A v \in Workers : pc'[v] = "sleep" => attempt'[v] \in 2 .. MaxAttempts
    BY <2>1, <2>2 DEF Pushed
  <2>10. \A m \in Messages, n, k \in Nat : <<m, n, k>> \in calls' =>
           n \in 1 .. deliveries'[m] /\ k \in 1 .. MaxAttempts
    BY <2>1, <2>2, <2>3 DEF Pushed
  <2>11. \A v \in Workers : pc'[v] \in Undecided =>
           \A k \in Nat : <<msg'[v], nth'[v], k>> \in calls' <=> k \in 1 .. Made(v)'
    BY <2>1, <2>2, <2>4, <2>5, <2>6 DEF Pushed
  <2>12. \A o \in outcomes', k \in Nat :
           <<o.msg, o.nth, k>> \in calls' <=> k \in 1 .. o.attempts
    BY <2>1, <2>5, <2>7 DEF Pushed
  <2>13. \A m \in Messages, n, k \in Nat :
           <<m, n, k>> \in calls' => \A j \in 1 .. k : <<m, n, j>> \in calls'
    <3>1. ASSUME NEW k \in Nat, NEW j \in 1 .. k, k \in 1 .. attempt[w]
          PROVE  j \in Nat /\ j \in 1 .. attempt[w]
      BY <3>1, <2>2
    <3>2. ASSUME NEW m \in Messages, NEW n \in Nat, NEW k \in Nat, <<m, n, k>> \in calls',
                 NEW j \in 1 .. k
          PROVE  <<m, n, j>> \in calls'
      <4>1. CASE m = msg[w] /\ n = nth[w]
        BY <4>1, <3>1, <3>2, <2>4
      <4>2. CASE ~(m = msg[w] /\ n = nth[w])
        BY <4>2, <3>2, <2>1, <2>5 DEF Pushed
      <4>3. QED
        BY <4>1, <4>2
    <3>3. QED
      BY <3>2
  <2>14. QED
    BY <2>8, <2>9, <2>10, <2>11, <2>12, <2>13 DEF Pushed
<1>5. ASSUME NEW w \in Workers, Turning(w)
      PROVE  Pushed'
  <2>1. UNCHANGED <<calls, outcomes, msg, nth, deliveries>>
    BY <1>5 DEF Turning, StartDispatch, Retry, Wake, broker, provider, records, local
  <2>2. \A v \in Workers \ {w} :
          pc'[v] = pc[v] /\ attempt'[v] = attempt[v] /\ Made(v)' = Made(v)
    BY <1>0, <1>5 DEF Turning, StartDispatch, Retry, Wake, local, TypeOK, Made
  <2>3. /\ pc[w] \in Undecided /\ Made(w)' = Made(w)
        /\ \/ pc'[w] = "push" /\ attempt'[w] \in 1 .. MaxAttempts
           \/ pc'[w] = "sleep" /\ attempt'[w] \in 2 .. MaxAttempts
    <3>1. CASE StartDispatch(w)
      BY <3>1, <1>0 DEF StartDispatch, TypeOK, Made
    <3>2. CASE Retry(w)
      <4>1. attempt[w] \in 1 .. MaxAttempts /\ attempt[w] < MaxAttempts
        BY <3>2, <1>0 DEF Retry, Done, TypeOK, Pushed
      <4>2. /\ pc[w] = "answered" /\ pc'[w] = "sleep"
            /\ attempt'[w] = attempt[w] + 1
        BY <3>2, <1>0 DEF Retry, TypeOK
      <4>3. attempt'[w] \in 2 .. MaxAttempts /\ attempt'[w] - 1 = attempt[w]
        BY <4>1, <4>2
      <4>4. QED
        BY <4>2, <4>3 DEF Made
    <3>3. CASE Wake(w)
      BY <3>3, <1>0 DEF Wake, local, TypeOK, Made, Pushed
    <3>4. QED
      BY <1>5, <3>1, <3>2, <3>3 DEF Turning
  <2>4. QED
    BY <2>1, <2>2, <2>3 DEF Pushed
<1>6. CASE Aside
  <2>1. UNCHANGED <<calls, outcomes>>
    BY <1>6 DEF Aside, Silent
  <2>2. \A v \in Workers : pc'[v] \in Undecided =>
          /\ pc'[v] = pc[v] /\ attempt'[v] = attempt[v] /\ Made(v)' = Made(v)
          /\ msg'[v] = msg[v] /\ nth'[v] = nth[v]
    BY <1>6 DEF Aside, Silent, Keeps, Made
  <2>3. QED
    BY <1>1, <2>1, <2>2 DEF Pushed
<1>7. QED
  BY <1>0, <1>2, <1>3, <1>4, <1>5, <1>6, OtherStepsAside

PushedInv == CustodyInv /\ Pushed

LEMMA PushedInvariant == Spec => []PushedInv
<1>1. Init => Pushed
  BY DEF Init, Pushed, Undecided
<1>2. PushedInv /\ CustodyInv' /\ [Next]_vars => PushedInv'
  BY PushedStep DEF PushedInv
<1>3. QED
  BY <1>1, <1>2, CustodyInvariant, PTL DEF Spec, PushedInv

(***************************************************************************)
(* The attempts an outcome reports are the pushes made for its delivery,   *)
(* none is made after it, and none beyond the budget.                      *)
(***************************************************************************)
THEOREM AttemptsAccounted == Spec => []AttemptsAccount
<1>1. ASSUME PushedInv
      PROVE  AttemptsAccount
  <2>1. \A c \in calls :
          c[1] \in Messages /\ c[2] \in Nat /\ c[3] \in Nat /\ c = <<c[1], c[2], c[3]>>
    BY <1>1 DEF PushedInv, CustodyInv, TypeOK
  <2>2. \A o \in outcomes : o.msg \in Messages /\ o.nth \in Nat /\ o.attempts \in Nat
    BY <1>1 DEF PushedInv, CustodyInv, TypeOK, Outcome
  <2>3. ASSUME NEW o \in outcomes
        PROVE  {c \in calls : c[1] = o.msg /\ c[2] = o.nth}
                 = {<<o.msg, o.nth, k>> : k \in 1 .. o.attempts}
    <3>1. \A k \in 1 .. o.attempts : k \in Nat
      BY <2>2
    <3>2. \A k \in Nat : <<o.msg, o.nth, k>> \in calls <=> k \in 1 .. o.attempts
      BY <1>1 DEF PushedInv, Pushed
    <3>3. ASSUME NEW c \in calls, c[1] = o.msg, c[2] = o.nth
          PROVE  c \in {<<o.msg, o.nth, k>> : k \in 1 .. o.attempts}
      BY <3>3, <3>2, <2>1
    <3>4. ASSUME NEW k \in 1 .. o.attempts
          PROVE  <<o.msg, o.nth, k>> \in {c \in calls : c[1] = o.msg /\ c[2] = o.nth}
      BY <3>1, <3>2
    <3>5. QED
      BY <3>3, <3>4
  <2>4. ASSUME NEW c \in calls
        PROVE  c[3] <= MaxAttempts /\ \A k \in 1 .. c[3] : <<c[1], c[2], k>> \in calls
    BY <1>1, <2>1 DEF PushedInv, Pushed
  <2>5. QED
    BY <2>3, <2>4 DEF AttemptsAccount
<1>2. QED
  BY <1>1, PushedInvariant, PTL

-----------------------------------------------------------------------------
(* What the provider did and what is recorded of it.                       *)

LEMMA AgreedStep ==
    ASSUME PushedInv, PushedInv', Agreed, [Next]_vars
    PROVE  Agreed'
<1> USE DEF Holding, Undecided
<1>0. TypeOK /\ TypeOK' /\ HoldsMessage /\ Custody /\ Recorded /\ Pushed
  BY DEF PushedInv, CustodyInv
<1>1. \A o \in outcomes :
        o.msg \in Messages /\ o.nth \in Nat /\ o.attempts \in Nat /\ o.status \in Statuses
  BY <1>0 DEF TypeOK, Outcome
<1>2. ASSUME NEW w \in Workers, Push(w)
      PROVE  Agreed'
  <2> DEFINE call == <<msg[w], nth[w], attempt[w]>>
  <2>1. PICK a \in Answers, took \in BOOLEAN :
          /\ a = "success" => took
          /\ a \in PermanentReasons => ~took
          /\ answer' = [answer EXCEPT ![w] = a]
          /\ accepted' = IF took THEN accepted \cup {call} ELSE accepted
    BY <1>2, ReasonsAssumption DEF Push, Took
  <2>2. /\ UNCHANGED <<msg, nth, attempt, outcomes, overdue>>
        /\ pc[w] = "push" /\ pc' = [pc EXCEPT ![w] = "answered"]
    BY <1>2 DEF Push, broker, records
  <2>3. call \notin accepted
    <3>1. attempt[w] \in Nat /\ attempt[w] \notin 1 .. Made(w)
      BY <1>0, <2>2 DEF Pushed, Made, TypeOK
    <3>2. call \notin calls
      BY <3>1, <1>0, <2>2 DEF Pushed
    <3>3. QED
      BY <3>2, <1>0 DEF TypeOK
  <2>4. \A v \in Workers \ {w} : pc[v] = "answered" =>
          ~(msg[v] = msg[w] /\ nth[v] = nth[w])
    BY <1>0, <2>2 DEF Custody
  <2>5. \A o \in outcomes : ~(o.msg = msg[w] /\ o.nth = nth[w])
    BY <1>0, <2>2 DEF Recorded, Decided
  <2>6. \A m, n, k : ~(m = msg[w] /\ n = nth[w]) =>
          (<<m, n, k>> \in accepted' <=> <<m, n, k>> \in accepted)
    BY <2>1
  <2>7. ASSUME NEW v \in Workers, pc'[v] = "answered"
        PROVE  /\ answer'[v] \in Answers
               /\ answer'[v] = "success" => <<msg'[v], nth'[v], attempt'[v]>> \in accepted'
               /\ answer'[v] \in PermanentReasons =>
                    <<msg'[v], nth'[v], attempt'[v]>> \notin accepted'
    <3>1. CASE v = w
      BY <3>1, <2>1, <2>2, <2>3, <1>0 DEF TypeOK
    <3>2. CASE v # w
      <4>1. pc[v] = "answered" /\ answer'[v] = answer[v]
        BY <3>2, <2>1, <2>2, <2>7, <1>0 DEF TypeOK
      <4>2. QED
        BY <4>1, <3>2, <2>2, <2>4, <2>6 DEF Agreed
    <3>3. QED
      BY <3>1, <3>2
  <2>8. VerdictMatchesProvider'
    BY <2>2, <2>5, <2>6 DEF Agreed, VerdictMatchesProvider
  <2>9. QED
    BY <2>7, <2>8 DEF Agreed
<1>3. ASSUME NEW w \in Workers, Recording(w)
      PROVE  Agreed'
  <2> DEFINE last == <<msg[w], nth[w], Made(w)>>
  <2>1. \A k \in Nat : <<msg[w], nth[w], k>> \in calls => k >= 1
    BY <1>0, <1>3, RecordingRecords DEF Pushed
  <2>2. PICK status \in Statuses, reason \in Reasons :
          /\ Record(w, status, reason, Made(w))
          /\ status = "delivered" => last \in accepted
          /\ (status # "delivered" /\ reason # "retry-budget-exhausted") => last \notin accepted
          /\ status = "expired" => msg[w] \in overdue
    <3>1. CASE RejectMalformed(w) \/ DropExpired(w) \/ RejectUntargeted(w)
      <4>1. Made(w) = 0 /\ last \notin accepted
        <5>1. Made(w) = 0
          BY <3>1 DEF RejectMalformed, DropExpired, RejectUntargeted, Made
        <5>2. <<msg[w], nth[w], 0>> \notin calls
          BY <2>1
        <5>3. QED
          BY <5>1, <5>2, <1>0 DEF TypeOK
      <4>2. \/ Record(w, "permanently-failed", "provider-rejected-payload", Made(w))
            \/ Record(w, "expired", "expired", Made(w)) /\ msg[w] \in overdue
        BY <3>1, <4>1 DEF RejectMalformed, DropExpired, RejectUntargeted, Expired
      <4>3. QED
        BY <4>1, <4>2 DEF Statuses, Reasons
    <3>2. CASE RecordDelivered(w)
      <4>1. /\ Record(w, "delivered", "none", Made(w))
            /\ last \in accepted
        BY <3>2, <1>0 DEF RecordDelivered, Succeeded, Made, Agreed
      <4>2. QED
        BY <4>1 DEF Statuses, Reasons
    <3>3. CASE RecordPermanent(w)
      <4>1. /\ Record(w, "permanently-failed", answer[w], Made(w))
            /\ answer[w] \in Reasons /\ last \notin accepted
        BY <3>3, <1>0 DEF RecordPermanent, Made, Agreed, Reasons
      <4>2. QED
        BY <4>1 DEF Statuses
    <3>4. CASE RecordExhausted(w) \/ AbandonBackoff(w)
      <4>1. Record(w, "permanently-failed", "retry-budget-exhausted", Made(w))
        BY <3>4 DEF RecordExhausted, AbandonBackoff, AbandonedAttempts, Made
      <4>2. QED
        BY <4>1 DEF Statuses, Reasons
    <3>5. QED
      BY <1>3, <3>1, <3>2, <3>3, <3>4 DEF Recording
  <2> DEFINE new == [msg |-> msg[w], nth |-> nth[w], status |-> status, reason |-> reason,
                     attempts |-> Made(w)]
  <2>3. /\ outcomes' = outcomes \cup {new}
        /\ new.msg = msg[w] /\ new.nth = nth[w] /\ new.attempts = Made(w)
        /\ new.status = status /\ new.reason = reason
        /\ UNCHANGED <<msg, nth, accepted, overdue>>
        /\ pc' = [pc EXCEPT ![w] = "ack"]
        /\ attempt' = [attempt EXCEPT ![w] = 0]
        /\ answer' = [answer EXCEPT ![w] = "none"]
    BY <2>2 DEF Record, provider
  <2> HIDE DEF new
  <2>4. \A o \in outcomes' :
          /\ o.status = "delivered" => <<o.msg, o.nth, o.attempts>> \in accepted
          /\ (o.status # "delivered" /\ o.reason # "retry-budget-exhausted")
               => <<o.msg, o.nth, o.attempts>> \notin accepted
          /\ o.status = "expired" => o.msg \in overdue
    BY <2>2, <2>3 DEF Agreed, VerdictMatchesProvider
  <2>5. VerdictMatchesProvider'
    BY <2>3, <2>4 DEF VerdictMatchesProvider
  <2>6. \A v \in Workers : pc'[v] = "answered" =>
          v # w /\ pc[v] = "answered" /\ attempt'[v] = attempt[v] /\ answer'[v] = answer[v]
    BY <2>3, <1>0 DEF TypeOK
  <2>7. QED
    BY <2>3, <2>5, <2>6 DEF Agreed
<1>4. ASSUME UNCHANGED <<accepted, outcomes>>, overdue \subseteq overdue',
             \A w \in Workers : pc'[w] = "answered" =>
               /\ pc[w] = "answered" /\ msg'[w] = msg[w] /\ nth'[w] = nth[w]
               /\ attempt'[w] = attempt[w] /\ answer'[w] = answer[w]
      PROVE  Agreed'
  BY <1>4 DEF Agreed, VerdictMatchesProvider
<1>5. ASSUME NEW w \in Workers, Receive(w) \/ Turning(w)
      PROVE  Agreed'
  <2>1. UNCHANGED <<accepted, outcomes, overdue>>
    BY <1>5 DEF Receive, Turning, StartDispatch, Retry, Wake, provider, records
  <2>2. /\ pc'[w] # "answered"
        /\ \A v \in Workers \ {w} :
             /\ pc'[v] = pc[v] /\ msg'[v] = msg[v] /\ nth'[v] = nth[v]
             /\ attempt'[v] = attempt[v] /\ answer'[v] = answer[v]
    <3>1. CASE Receive(w)
      BY <3>1, <1>0 DEF Receive, TypeOK
    <3>2. CASE Turning(w)
      BY <3>2, <1>0 DEF Turning, StartDispatch, Retry, Wake, local, TypeOK
    <3>3. QED
      BY <1>5, <3>1, <3>2
  <2>3. QED
    BY <2>1, <2>2, <1>4
<1>6. CASE Aside
  BY <1>6, <1>4 DEF Aside, Silent, Keeps
<1>7. QED
  BY <1>0, <1>2, <1>3, <1>5, <1>6, OtherStepsAside

AgreedInv == PushedInv /\ Agreed

LEMMA AgreedInvariant == Spec => []AgreedInv
<1>1. Init => Agreed
  BY DEF Init, Agreed, VerdictMatchesProvider
<1>2. AgreedInv /\ PushedInv' /\ [Next]_vars => AgreedInv'
  BY AgreedStep DEF AgreedInv
<1>3. QED
  BY <1>1, <1>2, PushedInvariant, PTL DEF Spec, AgreedInv

(***************************************************************************)
(* "delivered" is recorded only of an attempt the provider took, and a     *)
(* refusal only of one it did not take.                                    *)
(***************************************************************************)
THEOREM VerdictsTrue == Spec => []VerdictMatchesProvider
<1>1. AgreedInv => VerdictMatchesProvider
  BY DEF AgreedInv, Agreed
<1>2. QED
  BY <1>1, AgreedInvariant, PTL
=============================================================================
