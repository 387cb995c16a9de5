-------------------------- MODULE DelivererRefinement --------------------------
(***************************************************************************)
(* The deliverer implements Delivery, for every value of the constants: a  *)
(* Push that the provider took is a Take, a Record is a Decide, an Ack     *)
(* that reached the broker is a Retire, and every other step stutters.     *)
(***************************************************************************)
EXTENDS DelivererProofs

Owed == {m \in Messages : place[m] # "acked"}
TakenUp == {m \in Messages : \E c \in accepted : c[1] = m}
Verdicts == {<<o.msg, o.status>> : o \in outcomes}

LEMMA Mapping == /\ D!dvars = <<Owed, TakenUp, Verdicts>>
                 /\ D!dvars' = <<Owed', TakenUp', Verdicts'>>
BY DEF D!dvars, Owed, TakenUp, Verdicts

\* Steps that Delivery sees nothing of.
Unseen ==
    /\ UNCHANGED <<accepted, outcomes>>
    /\ \A m \in Messages : place'[m] = "acked" <=> place[m] = "acked"

LEMMA UnseenStutters == Unseen => D!dvars' = D!dvars
<1> SUFFICES ASSUME Unseen PROVE D!dvars' = D!dvars
  OBVIOUS
<1>1. Owed' = Owed
  BY DEF Unseen, Owed
<1>2. TakenUp' = TakenUp /\ Verdicts' = Verdicts
  BY DEF Unseen, TakenUp, Verdicts
<1>3. QED
  BY <1>1, <1>2, Mapping

LEMMA OtherStepsUnseen ==
    ASSUME TypeOK, [Next]_vars,
           \A w \in Workers : ~Recording(w) /\ ~Push(w) /\ ~Ack(w)
    PROVE  Unseen
<1>1. ASSUME NEW w \in Workers, Receive(w) \/ ReceiveViolation(w) \/ ReceiveUndecryptable(w)
      PROVE  Unseen
  <2>1. PICK x \in Messages : HandOut(x)
    BY <1>1 DEF Receive, ReceiveViolation, ReceiveUndecryptable
  <2>2. \A m \in Messages : place'[m] = "acked" <=> place[m] = "acked"
    BY <2>1 DEF HandOut, TypeOK
  <2>3. QED
    BY <1>1, <2>2 DEF Receive, ReceiveViolation, ReceiveUndecryptable, provider, records, Unseen
<1>2. ASSUME NEW w \in Workers, ReceiveCancelled(w) \/ ReceiveError(w) \/ Turning(w)
      PROVE  Unseen
  BY <1>2 DEF ReceiveCancelled, ReceiveError, Turning, StartDispatch, Retry, Wake,
              broker, provider, records, Unseen
<1>3. CASE Signal \/ Start \/ UNCHANGED vars
  BY <1>3 DEF Signal, Start, vars, broker, provider, records, Unseen
<1>4. CASE Exit \/ Crash
  BY <1>4 DEF Exit, Crash, Disconnect, provider, records, TypeOK, Unseen
<1>5. ASSUME NEW m \in Messages, Deadline(m) \/ Redeliver(m)
      PROVE  Unseen
  BY <1>5 DEF Deadline, Redeliver, broker, provider, records, TypeOK, Unseen
<1>6. QED
  BY <1>1, <1>2, <1>3, <1>4, <1>5 DEF Next, Worker, Recording, Turning

LEMMA PushTakes ==
    ASSUME AgreedInv, NEW w \in Workers, Push(w)
    PROVE  [D!Next]_(D!dvars)
<1> DEFINE call == <<msg[w], nth[w], attempt[w]>>
<1>1. msg[w] \in Messages
  BY DEF AgreedInv, PushedInv, CustodyInv, HoldsMessage, Holding, Undecided, Push
<1>2. /\ accepted' \in {accepted, accepted \cup {call}}
      /\ UNCHANGED <<place, outcomes>>
  BY DEF Push, broker, records
<1>3. Owed' = Owed /\ Verdicts' = Verdicts
  BY <1>2 DEF Owed, Verdicts
<1>4. TakenUp' \in {TakenUp, TakenUp \cup {msg[w]}}
  BY <1>1, <1>2 DEF TakenUp
<1>5. CASE TakenUp' = TakenUp
  BY <1>3, <1>5, Mapping
<1>6. CASE TakenUp' = TakenUp \cup {msg[w]}
  <2>1. PICK m \in Messages : m = msg[w]
    BY <1>1
  <2>2. D!Take(m)
    BY <1>3, <1>6, <2>1 DEF D!Take, Owed, TakenUp, Verdicts
  <2>3. QED
    BY <2>2 DEF D!Next
<1>7. QED
  BY <1>4, <1>5, <1>6

LEMMA RecordDecides ==
    ASSUME AgreedInv, AgreedInv', NEW w \in Workers, Recording(w)
    PROVE  [D!Next]_(D!dvars)
<1>1. /\ msg[w] \in Messages
      /\ Made(w) \in Nat
      /\ \E status \in Statuses, reason \in Reasons : Record(w, status, reason, Made(w))
  BY RecordingRecords DEF AgreedInv, PushedInv, CustodyInv
<1>2. PICK status \in Statuses, reason \in Reasons : Record(w, status, reason, Made(w))
  BY <1>1
<1> DEFINE new == [msg |-> msg[w], nth |-> nth[w], status |-> status, reason |-> reason,
                   attempts |-> Made(w)]
<1>3. /\ outcomes' = outcomes \cup {new}
      /\ UNCHANGED <<place, accepted>>
      /\ new.msg = msg[w] /\ new.status = status
  BY <1>2 DEF Record, broker, provider
<1> HIDE DEF new
<1>4. Owed' = Owed /\ TakenUp' = TakenUp
  BY <1>3 DEF Owed, TakenUp
<1>5. Verdicts' = Verdicts \cup {<<msg[w], status>>}
  BY <1>3 DEF Verdicts
<1>6. status = "delivered" => msg[w] \in TakenUp
  <2>1. status = "delivered" => <<new.msg, new.nth, new.attempts>> \in accepted
    BY <1>3 DEF AgreedInv, Agreed, VerdictMatchesProvider
  <2>2. QED
    BY <2>1, <1>1, <1>3 DEF TakenUp
<1>7. D!Decide(msg[w], status)
  BY <1>4, <1>5, <1>6 DEF D!Decide, Owed, TakenUp, Verdicts
<1>8. QED
  BY <1>1, <1>7 DEF D!Next

LEMMA AckRetires ==
    ASSUME AgreedInv, NEW w \in Workers, Ack(w)
    PROVE  [D!Next]_(D!dvars)
<1>1. /\ TypeOK
      /\ msg[w] \in Messages
      /\ Decided(msg[w], nth[w])
  BY DEF AgreedInv, PushedInv, CustodyInv, HoldsMessage, Holding, Recorded, Ack
<1>2. CASE UNCHANGED place
  <2>1. Unseen
    BY <1>2 DEF Ack, Unseen, provider, records
  <2>2. QED
    BY <2>1, UnseenStutters
<1>3. CASE place' = [place EXCEPT ![msg[w]] = "acked"]
  <2>1. UNCHANGED <<accepted, outcomes>>
    BY DEF Ack, provider, records
  <2>2. TakenUp' = TakenUp /\ Verdicts' = Verdicts
    BY <2>1 DEF TakenUp, Verdicts
  <2>3. Owed' = Owed \ {msg[w]}
    BY <1>1, <1>3 DEF Owed, TypeOK
  <2>4. \E s \in Statuses : <<msg[w], s>> \in Verdicts
    <3>1. PICK o \in outcomes : o.msg = msg[w]
      BY <1>1 DEF Decided
    <3>2. o.status \in Statuses
      BY <1>1 DEF TypeOK, Outcome
    <3>3. QED
      BY <3>1, <3>2 DEF Verdicts
  <2>5. PICK m \in Messages : m = msg[w]
    BY <1>1
  <2>6. D!Retire(m)
    BY <2>2, <2>3, <2>4, <2>5 DEF D!Retire, Owed, TakenUp, Verdicts
  <2>7. QED
    BY <2>6 DEF D!Next
<1>4. QED
  BY <1>2, <1>3 DEF Ack

(***************************************************************************)
(* The deliverer implements Delivery: at least once, a verdict before the  *)
(* message is retired, and "delivered" only of what the provider took.     *)
(***************************************************************************)
THEOREM Implements == Spec => ImplementsDelivery
<1>1. Init => D!Init
  <2> SUFFICES ASSUME Init PROVE D!Init
    OBVIOUS
  <2>1. Owed = Messages
    BY DEF Init, Owed
  <2>2. TakenUp = {} /\ Verdicts = {}
    BY DEF Init, TakenUp, Verdicts
  <2>3. QED
    BY <2>1, <2>2 DEF D!Init, Owed, TakenUp, Verdicts
<1>2. AgreedInv /\ AgreedInv' /\ [Next]_vars => [D!Next]_(D!dvars)
  <2> SUFFICES ASSUME AgreedInv, AgreedInv', [Next]_vars
               PROVE  [D!Next]_(D!dvars)
    OBVIOUS
  <2>1. TypeOK
    BY DEF AgreedInv, PushedInv, CustodyInv
  <2>2. QED
    BY <2>1, PushTakes, RecordDecides, AckRetires, OtherStepsUnseen, UnseenStutters
<1>3. QED
  BY <1>1, <1>2, AgreedInvariant, PTL DEF Spec, ImplementsDelivery, D!Spec
=============================================================================
