--------------------------- MODULE DelivererAccounts ---------------------------
(***************************************************************************)
(* Proofs that no delivery is forgotten: what the deliverer owes to every  *)
(* message it was handed, for every value of the constants.  The layers    *)
(* added to those of DelivererProofs are Accounted (every delivery is      *)
(* decided, in hand or cut by a crash) and Alone (a message that was not   *)
(* delivered twice to one process has one holder, and is not acknowledged  *)
(* under it).  Then what the process as a whole is told by: which messages *)
(* are pushed (Sorted), how often they are delivered (Limited), and what   *)
(* every step leaves standing or brings nearer to its end.                 *)
(***************************************************************************)
EXTENDS DelivererProofs, FiniteSetTheorems

\* Every delivery is accounted for.  Of a message that is out, the last
\* delivery was not cut, and a process that is down runs no worker.
Accounted ==
    /\ proc = "down" => \A w \in Workers : pc[w] = "stopped"
    /\ \A m \in Messages, n \in Nat : <<m, n>> \in cut =>
         /\ n \in 1 .. deliveries[m]
         /\ ~Decided(m, n)
         /\ \A w \in Workers : pc[w] \in Holding => ~(msg[w] = m /\ nth[w] = n)
    /\ \A m \in Messages : kind[m] # "undecryptable" =>
         \A n \in 1 .. deliveries[m] :
           Decided(m, n) \/ <<m, n>> \in cut \/ \E w \in Workers : InHand(w, m, n)
    /\ \A m \in Messages : place[m] = "unacked" =>
         deliveries[m] >= 1 /\ <<m, deliveries[m]>> \notin cut

\* A message with no second copy has at most one holder, and stays
\* unacknowledged while it is held.
Alone ==
    \A m \in Messages : redelivered[m] = 0 =>
      /\ \A v, w \in Workers :
           pc[v] \in Holding /\ pc[w] \in Holding /\ msg[v] = m /\ msg[w] = m => v = w
      /\ \A w \in Workers : pc[w] \in Holding /\ msg[w] = m => place[m] = "unacked"

-----------------------------------------------------------------------------
(* Steps that hand nothing out and finish nothing.                         *)

Steady ==
    /\ UNCHANGED <<kind, deliveries, outcomes, cut>>
    /\ \A w \in Workers : pc'[w] \in Undecided <=> pc[w] \in Undecided
    /\ \A w \in Workers : pc'[w] \in Holding => pc[w] \in Holding
    /\ \A w \in Workers : pc'[w] \in Holding => msg'[w] = msg[w] /\ nth'[w] = nth[w]
    /\ \A m \in Messages : place'[m] = "unacked" => place[m] = "unacked"
    /\ proc' = "down" => \A w \in Workers : pc'[w] = "stopped"

LEMMA SteadySteps ==
    ASSUME TypeOK, Accounted, [Next]_vars,
           \A w \in Workers : /\ ~Receive(w) /\ ~Recording(w)
                              /\ ~ReceiveViolation(w) /\ ~ReceiveUndecryptable(w),
           ~Crash
    PROVE  Steady
<1> USE DEF Holding, Undecided
<1>1. ASSUME NEW w \in Workers,
             \/ ReceiveCancelled(w) \/ ReceiveError(w) \/ Turning(w) \/ Push(w) \/ Ack(w)
      PROVE  Steady
  <2>1. UNCHANGED <<kind, deliveries, outcomes, cut, proc>> /\ pc[w] # "stopped"
    BY <1>1 DEF ReceiveCancelled, ReceiveError, Turning, StartDispatch, Retry, Wake, Push,
                Ack, broker, records, process
  <2>2. \A m \in Messages : place'[m] = "unacked" => place[m] = "unacked"
    BY <1>1 DEF TypeOK, ReceiveCancelled, ReceiveError, Turning, StartDispatch, Retry, Wake,
                Push, Ack, broker
  <2>3. /\ \A v \in Workers \ {w} : pc'[v] = pc[v] /\ msg'[v] = msg[v] /\ nth'[v] = nth[v]
        /\ pc'[w] \in Undecided <=> pc[w] \in Undecided
        /\ pc'[w] \in Holding => pc[w] \in Holding /\ msg'[w] = msg[w] /\ nth'[w] = nth[w]
    <3>1. CASE ReceiveCancelled(w) \/ ReceiveError(w)
      BY <3>1 DEF TypeOK, ReceiveCancelled, ReceiveError, local
    <3>2. CASE Turning(w) \/ Push(w)
      BY <3>2 DEF TypeOK, Turning, StartDispatch, Retry, Wake, Push, local
    <3>3. CASE Ack(w)
      BY <3>3 DEF TypeOK, Ack
    <3>4. QED
      BY <1>1, <3>1, <3>2, <3>3
  <2>4. proc # "down"
    BY <2>1 DEF Accounted
  <2>5. QED
    BY <2>1, <2>2, <2>3, <2>4 DEF Steady
<1>2. CASE Signal \/ UNCHANGED vars
  BY <1>2 DEF Signal, vars, broker, process, local, records, Accounted, Steady
<1>3. CASE Start
  <2>1. \A w \in Workers : pc[w] = "stopped" /\ pc'[w] = "receive"
    BY <1>3 DEF Start, Accounted
  <2>2. QED
    BY <1>3, <2>1 DEF Start, broker, local, records, Steady
<1>4. CASE Exit
  <2>1. \A w \in Workers : pc[w] \in {"stopped", "failed"} /\ pc'[w] = "stopped"
    BY <1>4 DEF Exit, Drained, Disconnect
  <2>2. QED
    BY <1>4, <2>1 DEF Exit, Disconnect, records, TypeOK, Steady
<1>5. ASSUME NEW m \in Messages, Deadline(m) \/ Redeliver(m)
      PROVE  Steady
  BY <1>5 DEF Deadline, Redeliver, broker, process, local, records, TypeOK, Accounted, Steady
<1>6. QED
  BY <1>1, <1>2, <1>3, <1>4, <1>5 DEF Next, Worker, Recording, Turning
-----------------------------------------------------------------------------
(* Every delivery is accounted for.                                        *)

LEMMA SteadyAccounts ==
    ASSUME TypeOK, Accounted, Steady
    PROVE  Accounted'
<1>1. \A m, n : Decided(m, n)' <=> Decided(m, n)
  BY DEF Decided, Steady
<1>2. \A w \in Workers : \A m, n : InHand(w, m, n) => InHand(w, m, n)'
  BY DEF InHand, Steady, Holding
<1>3. proc' = "down" => \A w \in Workers : pc'[w] = "stopped"
  BY DEF Steady
<1>4. ASSUME NEW m \in Messages, NEW n \in Nat, <<m, n>> \in cut'
      PROVE  /\ n \in 1 .. deliveries'[m]
             /\ ~Decided(m, n)'
             /\ \A w \in Workers : pc'[w] \in Holding => ~(msg'[w] = m /\ nth'[w] = n)
  BY <1>1, <1>4 DEF Accounted, Steady
<1>5. ASSUME NEW m \in Messages, kind'[m] # "undecryptable", NEW n \in 1 .. deliveries'[m]
      PROVE  Decided(m, n)' \/ <<m, n>> \in cut' \/ \E w \in Workers : InHand(w, m, n)'
  <2>1. Decided(m, n) \/ <<m, n>> \in cut \/ \E w \in Workers : InHand(w, m, n)
    BY <1>5 DEF Accounted, Steady
  <2>2. QED
    BY <2>1, <1>1, <1>2 DEF Steady
<1>6. ASSUME NEW m \in Messages, place'[m] = "unacked"
      PROVE  deliveries'[m] >= 1 /\ <<m, deliveries'[m]>> \notin cut'
  BY <1>6 DEF Accounted, Steady
<1>7. QED
  BY <1>3, <1>4, <1>5, <1>6 DEF Accounted

\* The message that is handed out has a new delivery, which is in the hands of
\* the receiver if it decrypts.
LEMMA HandOutAccounts ==
    ASSUME TypeOK, TypeOK', CustodyInv, CustodyInv', Accounted, NEW w \in Workers,
           Receive(w) \/ ReceiveViolation(w) \/ ReceiveUndecryptable(w)
    PROVE  Accounted'
<1>1. /\ UNCHANGED <<kind, outcomes, cut, proc>> /\ pc[w] = "receive"
      /\ \A v \in Workers \ {w} : pc'[v] = pc[v] /\ msg'[v] = msg[v] /\ nth'[v] = nth[v]
  BY DEF TypeOK, Receive, ReceiveViolation, ReceiveUndecryptable, process, records, local
<1>2. PICK x \in Messages :
        /\ HandOut(x)
        /\ \/ pc'[w] \notin Holding /\ kind[x] = "undecryptable"
           \/ pc'[w] = "handle" /\ msg'[w] = x /\ nth'[w] = deliveries[x] + 1
  BY DEF TypeOK, Receive, ReceiveViolation, ReceiveUndecryptable, Holding, Undecided
<1>3. /\ \A m \in Messages : deliveries[m] \in Nat
      /\ deliveries'[x] = deliveries[x] + 1
      /\ \A m \in Messages \ {x} : deliveries'[m] = deliveries[m] /\ place'[m] = place[m]
  BY <1>2 DEF HandOut, TypeOK
<1>4. \A m, n : Decided(m, n)' <=> Decided(m, n)
  BY <1>1 DEF Decided
<1>5. \A v \in Workers : \A m, n : InHand(v, m, n) => InHand(v, m, n)'
  BY <1>1 DEF InHand, Undecided
<1>6. proc' = "down" => \A v \in Workers : pc'[v] = "stopped"
  BY <1>1 DEF Accounted
<1>7. ASSUME NEW m \in Messages, NEW n \in Nat, <<m, n>> \in cut'
      PROVE  /\ n \in 1 .. deliveries'[m]
             /\ ~Decided(m, n)'
             /\ \A v \in Workers : pc'[v] \in Holding => ~(msg'[v] = m /\ nth'[v] = n)
  <2>1. /\ n \in 1 .. deliveries[m]
        /\ ~Decided(m, n)
        /\ \A v \in Workers : pc[v] \in Holding => ~(msg[v] = m /\ nth[v] = n)
    BY <1>1, <1>7 DEF Accounted
  <2>2. n \in 1 .. deliveries'[m]
    BY <2>1, <1>3
  <2>3. pc'[w] \in Holding => ~(msg'[w] = m /\ nth'[w] = n)
    <3>1. n # deliveries[m] + 1
      BY <2>1, <1>3
    <3>2. QED
      BY <3>1, <1>2
  <2>4. QED
    BY <2>1, <2>2, <2>3, <1>1, <1>4
<1>8. ASSUME NEW m \in Messages, kind'[m] # "undecryptable", NEW n \in 1 .. deliveries'[m]
      PROVE  Decided(m, n)' \/ <<m, n>> \in cut' \/ \E v \in Workers : InHand(v, m, n)'
  <2>1. CASE n \in 1 .. deliveries[m]
    BY <2>1, <1>1, <1>4, <1>5, <1>8 DEF Accounted
  <2>2. CASE n \notin 1 .. deliveries[m]
    <3>1. m = x /\ n = deliveries[x] + 1
      BY <2>2, <1>3, <1>8
    <3>2. InHand(w, m, n)'
      BY <3>1, <1>1, <1>2, <1>8 DEF InHand, Undecided
    <3>3. QED
      BY <3>2
  <2>3. QED
    BY <2>1, <2>2
<1>9. ASSUME NEW m \in Messages, place'[m] = "unacked"
      PROVE  deliveries'[m] >= 1 /\ <<m, deliveries'[m]>> \notin cut'
  <2>1. CASE m = x
    <3>1. deliveries[x] + 1 \in Nat /\ deliveries[x] + 1 \notin 1 .. deliveries[x]
      BY <1>3
    <3>2. <<x, deliveries[x] + 1>> \notin cut
      BY <3>1 DEF Accounted
    <3>3. QED
      BY <2>1, <3>2, <1>1, <1>3
  <2>2. CASE m # x
    BY <2>2, <1>1, <1>3, <1>9 DEF Accounted
  <2>3. QED
    BY <2>1, <2>2
<1>10. QED
  BY <1>6, <1>7, <1>8, <1>9 DEF Accounted

LEMMA RecordingAccounts ==
    ASSUME CustodyInv, Accounted, NEW w \in Workers, Recording(w)
    PROVE  Accounted'
<1>1. TypeOK /\ HoldsMessage
  BY DEF CustodyInv
<1>2. /\ pc[w] \in Undecided
      /\ \E status \in Statuses, reason \in Reasons : Record(w, status, reason, Made(w))
  BY <1>1, RecordingRecords
<1>3. PICK status \in Statuses, reason \in Reasons : Record(w, status, reason, Made(w))
  BY <1>2
<1> DEFINE new == [msg |-> msg[w], nth |-> nth[w], status |-> status, reason |-> reason,
                   attempts |-> Made(w)]
<1>4. outcomes' = outcomes \cup {new} /\ new.msg = msg[w] /\ new.nth = nth[w]
  BY <1>3 DEF Record
<1> HIDE DEF new
<1>5. /\ UNCHANGED <<kind, place, deliveries, cut, proc, msg, nth>>
      /\ pc' = [pc EXCEPT ![w] = "ack"]
  BY <1>2 DEF Record, broker, process
<1>6. \A m, n : Decided(m, n)' <=> Decided(m, n) \/ (m = msg[w] /\ n = nth[w])
  BY <1>4 DEF Decided
<1>7. \A v \in Workers : /\ v # w => pc'[v] = pc[v]
                         /\ pc'[v] \in Holding => pc[v] \in Holding
  BY <1>1, <1>2, <1>5 DEF TypeOK, Holding
<1>8. proc' # "down"
  BY <1>2, <1>5 DEF Accounted, Undecided
<1>9. ASSUME NEW m \in Messages, NEW n \in Nat, <<m, n>> \in cut'
      PROVE  /\ n \in 1 .. deliveries'[m]
             /\ ~Decided(m, n)'
             /\ \A v \in Workers : pc'[v] \in Holding => ~(msg'[v] = m /\ nth'[v] = n)
  BY <1>2, <1>5, <1>6, <1>7, <1>9 DEF Accounted, Holding
<1>10. ASSUME NEW m \in Messages, kind'[m] # "undecryptable", NEW n \in 1 .. deliveries'[m]
       PROVE  Decided(m, n)' \/ <<m, n>> \in cut' \/ \E v \in Workers : InHand(v, m, n)'
  <2>1. Decided(m, n) \/ <<m, n>> \in cut \/ \E v \in Workers : InHand(v, m, n)
    BY <1>5, <1>10 DEF Accounted
  <2>2. ASSUME NEW v \in Workers, InHand(v, m, n)
        PROVE  Decided(m, n)' \/ InHand(v, m, n)'
    BY <2>2, <1>5, <1>6, <1>7 DEF InHand
  <2>3. QED
    BY <2>1, <2>2, <1>5, <1>6
<1>11. ASSUME NEW m \in Messages, place'[m] = "unacked"
       PROVE  deliveries'[m] >= 1 /\ <<m, deliveries'[m]>> \notin cut'
  BY <1>5, <1>11 DEF Accounted
<1>12. QED
  BY <1>8, <1>9, <1>10, <1>11 DEF Accounted

\* A crash cuts exactly the deliveries in hand.
LEMMA CrashAccounts ==
    ASSUME CustodyInv, Accounted, Crash
    PROVE  Accounted'
<1>0. TypeOK /\ Custody /\ Recorded
  BY DEF CustodyInv
<1>1. /\ UNCHANGED <<kind, deliveries, outcomes>>
      /\ pc' = [w \in Workers |-> "stopped"]
      /\ place' = [m \in Messages |-> IF place[m] = "unacked" THEN "backlog" ELSE place[m]]
      /\ cut' = cut \cup {<<msg[w], nth[w]>> : w \in {v \in Workers : pc[v] \in Undecided}}
  BY DEF Crash, Disconnect, records
<1>2. \A m, n : Decided(m, n)' <=> Decided(m, n)
  BY <1>1 DEF Decided
<1>3. ASSUME NEW m \in Messages, NEW n \in Nat, <<m, n>> \in cut'
      PROVE  n \in 1 .. deliveries'[m] /\ ~Decided(m, n)'
  <2>1. CASE <<m, n>> \in cut
    BY <2>1, <1>1, <1>2 DEF Accounted
  <2>2. CASE \E w \in Workers : InHand(w, m, n)
    BY <2>2, <1>0, <1>1, <1>2 DEF InHand, Custody, Recorded, Holding
  <2>3. QED
    BY <2>1, <2>2, <1>1, <1>3 DEF InHand
<1>4. ASSUME NEW m \in Messages, kind'[m] # "undecryptable", NEW n \in 1 .. deliveries'[m]
      PROVE  Decided(m, n)' \/ <<m, n>> \in cut'
  <2>1. Decided(m, n) \/ <<m, n>> \in cut \/ \E w \in Workers : InHand(w, m, n)
    BY <1>1, <1>4 DEF Accounted
  <2>2. (\E w \in Workers : InHand(w, m, n)) => <<m, n>> \in cut'
    BY <1>1 DEF InHand
  <2>3. QED
    BY <2>1, <2>2, <1>1, <1>2
<1>5. /\ \A w \in Workers : pc'[w] = "stopped"
      /\ \A m \in Messages : place'[m] # "unacked"
  BY <1>1
<1>6. QED
  BY <1>3, <1>4, <1>5 DEF Accounted, Holding, Undecided

AccountedInv == CustodyInv /\ Accounted

LEMMA AccountedInvariant == Spec => []AccountedInv
<1>1. Init => Accounted
  BY DEF Init, Accounted
<1>2. CustodyInv /\ CustodyInv' /\ Accounted /\ [Next]_vars => Accounted'
  <2> SUFFICES ASSUME CustodyInv, CustodyInv', Accounted, [Next]_vars
               PROVE  Accounted'
    OBVIOUS
  <2>1. TypeOK /\ TypeOK'
    BY DEF CustodyInv
  <2>2. QED
    BY <2>1, SteadySteps, SteadyAccounts, HandOutAccounts, RecordingAccounts, CrashAccounts
<1>3. QED
  BY <1>1, <1>2, CustodyInvariant, PTL DEF Spec, AccountedInv

(***************************************************************************)
(* Every delivery Receive returned has one worker, or one outcome, or was  *)
(* cut by a crash, whatever is redelivered, retried or cancelled.          *)
(***************************************************************************)
THEOREM OneOutcome == Spec => []OneOutcomePerDelivery
<1>1. AccountedInv => OneOutcomePerDelivery
  <2> SUFFICES ASSUME AccountedInv PROVE OneOutcomePerDelivery
    OBVIOUS
  <2>0. TypeOK /\ Custody /\ Recorded /\ Accounted
    BY DEF AccountedInv, CustodyInv
  <2>1. \A o1, o2 \in outcomes : o1.msg = o2.msg /\ o1.nth = o2.nth => o1 = o2
    BY <2>0 DEF Recorded
  <2>2. ASSUME NEW m \in Messages, kind[m] # "undecryptable", NEW n \in 1 .. deliveries[m]
        PROVE  LET hands == {w \in Workers : InHand(w, m, n)}
               IN  IF Decided(m, n) \/ <<m, n>> \in cut
                   THEN hands = {} /\ ~(Decided(m, n) /\ <<m, n>> \in cut)
                   ELSE \E w \in Workers : hands = {w}
    <3>1. n \in Nat
      BY <2>0 DEF TypeOK
    <3>2. Decided(m, n) \/ <<m, n>> \in cut =>
            \A w \in Workers : ~InHand(w, m, n)
      BY <2>0, <3>1 DEF Recorded, Accounted, InHand, Holding
    <3>3. ~(Decided(m, n) /\ <<m, n>> \in cut)
      BY <2>0, <3>1 DEF Accounted
    <3>4. ASSUME ~(Decided(m, n) \/ <<m, n>> \in cut)
          PROVE  \E w \in Workers : {v \in Workers : InHand(v, m, n)} = {w}
      <4>1. PICK w \in Workers : InHand(w, m, n)
        BY <2>0, <2>2, <3>4 DEF Accounted
      <4>2. \A v \in Workers : InHand(v, m, n) => v = w
        BY <2>0, <4>1 DEF Custody, InHand, Holding
      <4>3. QED
        BY <4>1, <4>2
    <3>5. QED
      BY <3>2, <3>3, <3>4
  <2>3. QED
    BY <2>1, <2>2 DEF OneOutcomePerDelivery
<1>2. QED
  BY <1>1, AccountedInvariant, PTL

(***************************************************************************)
(* A message that is out is held by a worker or its last delivery has its  *)
(* outcome: none is forgotten by a process that lives.                     *)
(***************************************************************************)
THEOREM NoneStranded == Spec => []NothingStranded
<1>1. AccountedInv => NothingStranded
  <2> SUFFICES ASSUME AccountedInv, NEW m \in Messages, place[m] = "unacked",
                      kind[m] # "undecryptable"
               PROVE  \/ \E w \in Workers :
                           pc[w] \in Holding /\ msg[w] = m /\ nth[w] = deliveries[m]
                      \/ Decided(m, deliveries[m])
    BY DEF NothingStranded
  <2>1. deliveries[m] \in Nat /\ deliveries[m] >= 1 /\ <<m, deliveries[m]>> \notin cut
    BY DEF AccountedInv, CustodyInv, Accounted, TypeOK
  <2>2. deliveries[m] \in 1 .. deliveries[m]
    BY <2>1
  <2>3. Decided(m, deliveries[m]) \/ \E w \in Workers : InHand(w, m, deliveries[m])
    BY <2>1, <2>2 DEF AccountedInv, Accounted
  <2>4. QED
    BY <2>3 DEF InHand, Holding
<1>2. QED
  BY <1>1, AccountedInvariant, PTL
-----------------------------------------------------------------------------
(* One holder, unless there is a second copy.                              *)

LEMMA AloneStep ==
    ASSUME CustodyInv, CustodyInv', Accounted, Alone, [Next]_vars
    PROVE  Alone'
<1> USE DEF Holding, Undecided
<1>0. TypeOK /\ HoldsMessage
  BY DEF CustodyInv
<1>1. ASSUME NEW w \in Workers, Receive(w)
      PROVE  Alone'
  <2>1. PICK x \in Messages :
          HandOut(x) /\ msg' = [msg EXCEPT ![w] = x] /\ pc' = [pc EXCEPT ![w] = "handle"]
    BY <1>1 DEF Receive
  <2>2. /\ \A v \in Workers \ {w} : pc'[v] = pc[v] /\ msg'[v] = msg[v]
        /\ msg'[w] = x /\ place'[x] = "unacked" /\ UNCHANGED redelivered
        /\ \A m \in Messages \ {x} : place'[m] = place[m]
        /\ place[x] = "backlog"
    BY <2>1, <1>0 DEF HandOut, TypeOK
  <2>3. redelivered[x] = 0 => \A v \in Workers : ~(pc[v] \in Holding /\ msg[v] = x)
    BY <2>2 DEF Alone
  <2>4. ASSUME NEW m \in Messages, redelivered'[m] = 0
        PROVE  /\ \A u, v \in Workers :
                    pc'[u] \in Holding /\ pc'[v] \in Holding /\ msg'[u] = m /\ msg'[v] = m
                      => u = v
               /\ \A v \in Workers :
                    pc'[v] \in Holding /\ msg'[v] = m => place'[m] = "unacked"
    <3>1. CASE m = x
      BY <3>1, <2>2, <2>3, <2>4
    <3>2. CASE m # x
      BY <3>2, <2>2, <2>4 DEF Alone
    <3>3. QED
      BY <3>1, <3>2
  <2>5. QED
    BY <2>4 DEF Alone
<1>2. ASSUME NEW w \in Workers, Ack(w)
      PROVE  Alone'
  <2>1. /\ \A v \in Workers \ {w} : pc'[v] = pc[v] /\ msg'[v] = msg[v]
        /\ pc[w] = "ack" /\ pc'[w] = "receive" /\ UNCHANGED redelivered
        /\ \A m \in Messages : m # msg[w] => place'[m] = place[m]
    BY <1>2, <1>0 DEF Ack, TypeOK
  <2>2. ASSUME NEW m \in Messages, redelivered[m] = 0, NEW v \in Workers,
               pc'[v] \in Holding, msg'[v] = m
        PROVE  /\ pc[v] \in Holding /\ msg[v] = m /\ m # msg[w]
               /\ place'[m] = "unacked"
    BY <2>1, <2>2 DEF Alone
  <2>3. QED
    BY <2>1, <2>2 DEF Alone
<1>3. ASSUME \A w \in Workers : ~Receive(w) /\ ~Ack(w)
      PROVE  Alone'
  <2>1. Keeps
    BY <1>0, <1>3, OtherStepsKeep
  <2> DEFINE Stays == \A m \in Messages : redelivered'[m] = 0 =>
                        /\ redelivered[m] = 0
                        /\ \A w \in Workers : pc'[w] \in Holding /\ msg'[w] = m =>
                             (place[m] = "unacked" => place'[m] = "unacked")
  <2>2. Stays
    <3>1. ASSUME NEW w \in Workers, ReceiveViolation(w) \/ ReceiveUndecryptable(w)
          PROVE  Stays
      <4>1. PICK x \in Messages : HandOut(x)
        BY <3>1 DEF ReceiveViolation, ReceiveUndecryptable
      <4>2. QED
        BY <4>1, <1>0 DEF HandOut, TypeOK
    <3>2. ASSUME NEW w \in Workers,
                 ReceiveCancelled(w) \/ ReceiveError(w) \/ Turning(w) \/ Push(w)
          PROVE  Stays
      BY <3>2 DEF ReceiveCancelled, ReceiveError, Turning, StartDispatch, Retry, Wake, Push,
                  broker
    <3>3. ASSUME NEW w \in Workers, Recording(w)
          PROVE  Stays
      BY <3>3, <1>0, RecordingRecords DEF Record, broker
    <3>4. CASE Signal \/ Start \/ UNCHANGED vars
      BY <3>4 DEF Signal, Start, vars, broker
    <3>5. CASE Exit \/ Crash
      BY <3>5 DEF Exit, Crash, Disconnect
    <3>6. ASSUME NEW x \in Messages, Deadline(x) \/ Redeliver(x)
          PROVE  Stays
      <4>1. CASE Deadline(x)
        BY <4>1 DEF Deadline, broker
      <4>2. CASE Redeliver(x)
        <5>1. redelivered'[x] = redelivered[x] + 1 /\ redelivered[x] \in Nat
          BY <4>2, <1>0 DEF Redeliver, TypeOK
        <5>2. \A m \in Messages \ {x} : redelivered'[m] = redelivered[m] /\ place'[m] = place[m]
          BY <4>2, <1>0 DEF Redeliver, TypeOK
        <5>3. redelivered'[x] # 0
          BY <5>1
        <5>4. QED
          BY <5>2, <5>3
      <4>3. QED
        BY <3>6, <4>1, <4>2
    <3> HIDE DEF Stays
    <3>7. QED
      BY <1>3, <3>1, <3>2, <3>3, <3>4, <3>5, <3>6 DEF Next, Worker, Recording, Turning
  <2>3. QED
    BY <2>1, <2>2 DEF Keeps, Alone
<1>4. QED
  BY <1>1, <1>2, <1>3

(***************************************************************************)
(* What was acknowledged is not pushed again, unless the broker had given  *)
(* the process a second copy of it.                                        *)
(***************************************************************************)
THEOREM NoPushAfterAck == Spec => PushedAfterAck
<1> DEFINE AloneInv == AccountedInv /\ Alone
<1>1. Init => Alone
  BY DEF Init, Alone, Holding, Undecided
<1>2. AccountedInv /\ AccountedInv' /\ Alone /\ [Next]_vars => Alone'
  BY AloneStep DEF AccountedInv
<1>3. AloneInv /\ [Next]_vars =>
        [\A c \in calls' \ calls : place[c[1]] = "acked" => redelivered[c[1]] > 0]_vars
  <2> SUFFICES ASSUME AloneInv, Next, NEW c \in calls' \ calls, place[c[1]] = "acked"
               PROVE  redelivered[c[1]] > 0
    OBVIOUS
  <2>0. TypeOK /\ HoldsMessage
    BY DEF AccountedInv, CustodyInv
  <2>1. PICK w \in Workers : Push(w)
    <3>1. ASSUME NEW w \in Workers, Recording(w)
          PROVE  calls' = calls
      BY <2>0, <3>1, RecordingRecords DEF Record, provider
    <3>2. ASSUME NEW w \in Workers,
                 \/ Receive(w) \/ ReceiveViolation(w) \/ ReceiveUndecryptable(w)
                 \/ ReceiveCancelled(w) \/ ReceiveError(w) \/ Turning(w) \/ Ack(w)
          PROVE  calls' = calls
      BY <3>2 DEF Receive, ReceiveViolation, ReceiveUndecryptable, ReceiveCancelled,
                  ReceiveError, Turning, StartDispatch, Retry, Wake, Ack, provider
    <3>3. CASE Signal \/ Exit \/ Crash \/ Start
      BY <3>3 DEF Signal, Exit, Crash, Disconnect, Start, provider
    <3>4. ASSUME NEW m \in Messages, Deadline(m) \/ Redeliver(m)
          PROVE  calls' = calls
      BY <3>4 DEF Deadline, Redeliver, provider
    <3>5. QED
      BY <3>1, <3>2, <3>3, <3>4 DEF Next, Worker, Recording, Turning
  <2>2. c = <<msg[w], nth[w], attempt[w]>> /\ pc[w] = "push"
    BY <2>1 DEF Push
  <2>3. msg[w] \in Messages /\ c[1] = msg[w]
    BY <2>0, <2>2 DEF HoldsMessage, Holding, Undecided
  <2>4. redelivered[msg[w]] # 0
    BY <2>2, <2>3 DEF Alone, Holding, Undecided
  <2>5. redelivered[msg[w]] \in Nat
    BY <2>0, <2>3 DEF TypeOK
  <2>6. QED
    BY <2>3, <2>4, <2>5
<1>4. QED
  BY <1>1, <1>2, <1>3, AccountedInvariant, PTL DEF Spec, PushedAfterAck

-----------------------------------------------------------------------------
(***************************************************************************)
(* A budget reported as exhausted too early betrays a shutdown.            *)
(***************************************************************************)
THEOREM EarlyExhaustion == Spec => []EarlyExhaustionOnlyOnShutdown
<1>1. Init => EarlyExhaustionOnlyOnShutdown
  BY DEF Init, EarlyExhaustionOnlyOnShutdown
<1>2. TypeOK /\ TypeOK' /\ EarlyExhaustionOnlyOnShutdown /\ [Next]_vars
        => EarlyExhaustionOnlyOnShutdown'
  <2> SUFFICES ASSUME TypeOK, TypeOK', EarlyExhaustionOnlyOnShutdown, [Next]_vars
               PROVE  EarlyExhaustionOnlyOnShutdown'
    OBVIOUS
  <2>1. ASSUME NEW w \in Workers, Recording(w), ~AbandonBackoff(w)
        PROVE  EarlyExhaustionOnlyOnShutdown'
    <3>1. /\ UNCHANGED <<proc, starts>>
          /\ \A o \in outcomes' \ outcomes :
               o.reason = "retry-budget-exhausted" => o.attempts = MaxAttempts
      <4>1. CASE RecordExhausted(w)
        <5>1. attempt[w] \in 0 .. MaxAttempts /\ attempt[w] >= MaxAttempts
          BY <4>1 DEF RecordExhausted, Done, TypeOK
        <5>2. attempt[w] = MaxAttempts
          BY <5>1, AttemptsAssumption
        <5>3. QED
          BY <4>1, <5>2 DEF RecordExhausted, Record, process
      <4>2. CASE RecordDelivered(w) \/ RejectMalformed(w) \/ DropExpired(w) \/ RejectUntargeted(w)
        BY <4>2 DEF RecordDelivered, RejectMalformed, DropExpired, RejectUntargeted, Record,
                    process
      <4>3. CASE RecordPermanent(w)
        <5>1. answer[w] # "retry-budget-exhausted"
          BY <4>3, ReasonsAssumption DEF RecordPermanent
        <5>2. QED
          BY <4>3, <5>1 DEF RecordPermanent, Record, process
      <4>4. QED
        BY <2>1, <4>1, <4>2, <4>3 DEF Recording
    <3>2. QED
      BY <3>1 DEF EarlyExhaustionOnlyOnShutdown
  <2>2. ASSUME NEW w \in Workers, AbandonBackoff(w)
        PROVE  EarlyExhaustionOnlyOnShutdown'
    BY <2>2 DEF AbandonBackoff, Cancelled, Record, process, EarlyExhaustionOnlyOnShutdown
  <2>3. ASSUME NEW w \in Workers,
               \/ Receive(w) \/ ReceiveViolation(w) \/ ReceiveUndecryptable(w)
               \/ ReceiveCancelled(w) \/ ReceiveError(w) \/ Turning(w) \/ Push(w) \/ Ack(w)
        PROVE  EarlyExhaustionOnlyOnShutdown'
    BY <2>3 DEF Receive, ReceiveViolation, ReceiveUndecryptable, ReceiveCancelled,
                ReceiveError, Turning, StartDispatch, Retry, Wake, Push, Ack,
                process, records, EarlyExhaustionOnlyOnShutdown
  <2>4. CASE Signal \/ Exit \/ Crash \/ UNCHANGED vars
    BY <2>4 DEF Signal, Exit, Crash, Disconnect, vars, process, records,
                EarlyExhaustionOnlyOnShutdown
  <2>5. CASE Start
    BY <2>5 DEF Start, records, TypeOK, EarlyExhaustionOnlyOnShutdown
  <2>6. ASSUME NEW m \in Messages, Deadline(m) \/ Redeliver(m)
        PROVE  EarlyExhaustionOnlyOnShutdown'
    BY <2>6 DEF Deadline, Redeliver, process, records, EarlyExhaustionOnlyOnShutdown
  <2>7. QED
    BY <2>1, <2>2, <2>3, <2>4, <2>5, <2>6 DEF Next, Worker, Recording, Turning
<1>3. QED
  BY <1>1, <1>2, TypeCorrect, PTL DEF Spec

-----------------------------------------------------------------------------
(* What kind of message comes how far.                                     *)

\* A worker holds what decrypts; past the checks of handle and resolve it
\* holds what has a target.
Sorted ==
    /\ \A w \in Workers : pc[w] \in Holding => kind[msg[w]] # "undecryptable"
    /\ \A w \in Workers : pc[w] \in {"push", "answered", "sleep"} => Targeted(msg[w])
    /\ \A c \in calls : Targeted(c[1])
    /\ \A o \in outcomes : kind[o.msg] # "undecryptable"

LEMMA KindFixed == [Next]_vars => kind' = kind
  BY DEF Next, Worker, Receive, ReceiveViolation, ReceiveUndecryptable, ReceiveCancelled,
         ReceiveError, RejectMalformed, DropExpired, RejectUntargeted, StartDispatch, Push,
         RecordDelivered, RecordPermanent, Retry, RecordExhausted, Wake, AbandonBackoff, Record,
         Ack, Signal, Exit, Crash, Disconnect, Start, Deadline, Redeliver, vars

LEMMA SortedStep ==
    ASSUME TypeOK, HoldsMessage, Sorted, [Next]_vars
    PROVE  Sorted'
<1> USE DEF Targeted
<1>1. kind' = kind
  BY KindFixed
<1>2. ASSUME NEW w \in Workers, Receive(w)
      PROVE  Sorted'
  <2>1. PICK m \in Messages :
          /\ kind[m] # "undecryptable" /\ msg'[w] = m /\ pc'[w] = "handle"
          /\ \A v \in Workers \ {w} :
               pc'[v] = pc[v] /\ msg'[v] = msg[v] /\ nth'[v] = nth[v]
    BY <1>2, ReceiveTakes
  <2>2. UNCHANGED <<calls, outcomes>>
    BY <1>2 DEF Receive, provider, records
  <2>3. QED
    BY <1>1, <2>1, <2>2 DEF Sorted
<1>3. ASSUME NEW w \in Workers, Recording(w)
      PROVE  Sorted'
  <2>1. PICK status \in Statuses, reason \in Reasons : Record(w, status, reason, Made(w))
    BY <1>3, RecordingRecords
  <2>2. pc[w] \in Holding
    BY <1>3, RecordingRecords DEF Holding
  <2>3. /\ \A o \in outcomes' : o \in outcomes \/ o.msg = msg[w]
        /\ UNCHANGED <<msg, calls>> /\ pc' = [pc EXCEPT ![w] = "ack"]
    BY <2>1 DEF Record, provider
  <2>4. \A v \in Workers \ {w} : pc'[v] = pc[v]
    BY <2>3 DEF TypeOK
  <2>5. pc'[w] = "ack"
    BY <2>3 DEF TypeOK
  <2>6. QED
    BY <1>1, <2>2, <2>3, <2>4, <2>5 DEF Sorted
<1>4. ASSUME NEW w \in Workers, Push(w) \/ Turning(w)
      PROVE  Sorted'
  <2>1. /\ UNCHANGED <<msg, outcomes>>
        /\ \A v \in Workers \ {w} : pc'[v] = pc[v]
        /\ pc[w] \in Holding
    BY <1>4 DEF Push, Turning, StartDispatch, Retry, Wake, records, local, TypeOK,
                Holding, Undecided
  <2>2. Targeted(msg[w])
    BY <1>4 DEF Sorted, Push, Turning, StartDispatch, Retry, Wake
  <2>3. \A c \in calls' : c \in calls \/ c[1] = msg[w]
    BY <1>4 DEF Push, Turning, StartDispatch, Retry, Wake, provider
  <2>4. QED
    BY <1>1, <2>1, <2>2, <2>3 DEF Sorted
<1>5. CASE Aside
  <2>1. UNCHANGED <<calls, outcomes>>
    BY <1>5 DEF Aside, Silent
  <2>2. \A w \in Workers : pc'[w] \in Holding => pc[w] \in Holding /\ msg'[w] = msg[w]
    BY <1>5 DEF Aside, Silent, Keeps
  <2>3. \A w \in Workers : pc'[w] \in {"push", "answered", "sleep"} =>
          pc[w] = pc'[w] /\ msg'[w] = msg[w]
    BY <1>5, <2>2 DEF Aside, Holding, Undecided
  <2>4. QED
    BY <1>1, <2>1, <2>2, <2>3 DEF Sorted
<1>6. QED
  BY <1>2, <1>3, <1>4, <1>5, OtherStepsAside

OnlyTargetedPushed ==
    /\ \A c \in calls : Targeted(c[1])
    /\ \A o \in outcomes :
         /\ kind[o.msg] # "undecryptable"
         /\ ~Targeted(o.msg) => o.status # "delivered" /\ o.attempts = 0
    /\ \A m \in Messages : kind[m] = "undecryptable" => place[m] # "acked"

(***************************************************************************)
(* Only what decodes to a notification with a known target is pushed; of   *)
(* anything else the outcome is a failure, or that it expired, after no    *)
(* attempt.  What cannot be decrypted gets no outcome and is never         *)
(* acknowledged, so that it can be read once its key is there.             *)
(***************************************************************************)
THEOREM TargetedOnly == Spec => []OnlyTargetedPushed
<1>1. Init => Sorted
  BY DEF Init, Sorted, Holding, Undecided
<1>2. AgreedInv => TypeOK /\ HoldsMessage /\ Recorded /\ Pushed /\ Agreed
  BY DEF AgreedInv, PushedInv, CustodyInv
<1>3. TypeOK /\ HoldsMessage /\ Sorted /\ [Next]_vars => Sorted'
  BY SortedStep
<1>4. ASSUME TypeOK, Recorded, Pushed, Agreed, Sorted
      PROVE  OnlyTargetedPushed
  <2>1. ASSUME NEW o \in outcomes, ~Targeted(o.msg)
        PROVE  o.status # "delivered" /\ o.attempts = 0
    <3>1. o.msg \in Messages /\ o.nth \in Nat /\ o.attempts \in Nat
      BY <1>4 DEF TypeOK, Outcome
    <3>2. \A k \in Nat : <<o.msg, o.nth, k>> \notin calls
      BY <1>4, <2>1 DEF Sorted
    <3>3. 1 \notin 1 .. o.attempts
      BY <1>4, <3>2 DEF Pushed
    <3>4. o.attempts = 0
      BY <3>1, <3>3
    <3>5. <<o.msg, o.nth, o.attempts>> \notin accepted
      BY <1>4, <3>1, <3>2 DEF TypeOK
    <3>6. QED
      BY <1>4, <3>4, <3>5 DEF Agreed, VerdictMatchesProvider
  <2>2. ASSUME NEW m \in Messages, kind[m] = "undecryptable"
        PROVE  place[m] # "acked"
    BY <1>4, <2>2 DEF Recorded, AckedOnlyAfterOutcome, Sorted
  <2>3. QED
    BY <1>4, <2>1, <2>2 DEF Sorted, OnlyTargetedPushed
<1>5. QED
  BY <1>1, <1>2, <1>3, <1>4, AgreedInvariant, PTL DEF Spec

-----------------------------------------------------------------------------
(* The steps as the broker sees them.                                      *)

HandsOut(m) ==
    /\ Running /\ HandOut(m) /\ UNCHANGED <<proc, starts>>
    /\ IF kind[m] = "undecryptable" /\ DecryptFailure = "policy violation"
       THEN violations' = violations + 1 ELSE UNCHANGED violations

LEMMA BrokerSteps ==
    ASSUME TypeOK, HoldsMessage, Next
    PROVE  \/ \E m \in Messages : HandsOut(m)
           \/ UNCHANGED violations /\ \E m \in Messages : Redeliver(m)
           \/ UNCHANGED violations /\ \E w \in Workers : Ack(w)
           \/ UNCHANGED violations /\ Disconnect /\ Running
           \/ UNCHANGED violations /\ Start
           \/ UNCHANGED <<broker, starts, violations>> /\ (proc' = proc \/ Signal)
<1>1. ASSUME NEW w \in Workers,
             Receive(w) \/ ReceiveViolation(w) \/ ReceiveUndecryptable(w)
      PROVE  \E m \in Messages : HandsOut(m)
  BY <1>1 DEF Receive, ReceiveViolation, ReceiveUndecryptable, HandsOut, process, records
<1>2. ASSUME NEW w \in Workers, ReceiveCancelled(w) \/ ReceiveError(w) \/ Turning(w) \/ Push(w)
      PROVE  UNCHANGED <<broker, proc, starts, violations>>
  BY <1>2 DEF ReceiveCancelled, ReceiveError, Turning, StartDispatch, Retry, Wake, Push,
              process, records
<1>3. ASSUME NEW w \in Workers, Recording(w)
      PROVE  UNCHANGED <<broker, proc, starts, violations>>
  BY <1>3, RecordingRecords DEF Record, process
<1>4. ASSUME NEW w \in Workers, Ack(w) PROVE UNCHANGED violations
  BY <1>4 DEF Ack, records
<1>5. CASE Signal
  BY <1>5 DEF Signal, records
<1>6. CASE Exit \/ Crash
  BY <1>6 DEF Exit, Crash, Disconnect, Cancelled, Running, records
<1>7. CASE Start
  BY <1>7 DEF Start, records
<1>8. ASSUME NEW m \in Messages, Deadline(m)
      PROVE  UNCHANGED <<broker, proc, starts, violations>>
  BY <1>8 DEF Deadline, process, records
<1>9. ASSUME NEW m \in Messages, Redeliver(m) PROVE UNCHANGED violations
  BY <1>9 DEF Redeliver, records
<1>10. QED
  BY <1>1, <1>2, <1>3, <1>4, <1>5, <1>6, <1>7, <1>8, <1>9 DEF Next, Worker, Recording, Turning

LEMMA HandedOut ==
    ASSUME TypeOK, NEW m \in Messages, HandOut(m)
    PROVE  /\ deliveries[m] \in Nat /\ deliveries'[m] = deliveries[m] + 1
           /\ place[m] = "backlog" /\ place'[m] = "unacked" /\ redelivered' = redelivered
           /\ \A x \in Messages \ {m} : deliveries'[x] = deliveries[x] /\ place'[x] = place[x]
BY DEF HandOut, TypeOK

ViolationsAccount ==
    violations > 0 <=> /\ DecryptFailure = "policy violation"
                       /\ \E m \in Messages : kind[m] = "undecryptable" /\ deliveries[m] > 0

(***************************************************************************)
(* What remains of the first half of EncryptionPolicyEnforced: a violation *)
(* is recorded if and only if a message that cannot be decrypted was       *)
(* delivered to a consumer whose decrypt failure is the policy's sentinel. *)
(* With the plain error pulsarlib returns there is never a record.         *)
(***************************************************************************)
THEOREM ViolationsRecorded == Spec => []ViolationsAccount
<1>1. Init => ViolationsAccount
  BY DEF Init, ViolationsAccount
<1>2. ASSUME TypeOK, HoldsMessage, ViolationsAccount, [Next]_vars
      PROVE  ViolationsAccount'
  <2>0. kind' = kind /\ violations \in Nat
    BY <1>2, KindFixed DEF TypeOK
  <2>1. ASSUME NEW m \in Messages, HandsOut(m)
        PROVE  ViolationsAccount'
    <3>1. /\ deliveries[m] \in Nat /\ deliveries'[m] = deliveries[m] + 1
          /\ \A x \in Messages \ {m} : deliveries'[x] = deliveries[x]
      BY <1>2, <2>1, HandedOut DEF HandsOut
    <3>2. deliveries'[m] > 0
      BY <3>1
    <3>3. CASE kind[m] = "undecryptable" /\ DecryptFailure = "policy violation"
      <4>1. violations' = violations + 1
        BY <2>1, <3>3, Zenon DEF HandsOut
      <4>2. violations' > 0
        BY <2>0, <4>1
      <4>3. QED
        BY <2>0, <3>2, <3>3, <4>2 DEF ViolationsAccount
    <3>4. CASE ~(kind[m] = "undecryptable" /\ DecryptFailure = "policy violation")
      <4>1. violations' = violations
        BY <2>1, <3>4 DEF HandsOut
      <4>2. QED
        BY <1>2, <2>0, <3>1, <3>4, <4>1 DEF ViolationsAccount
    <3>5. QED
      BY <3>3, <3>4
  <2>2. CASE UNCHANGED <<deliveries, violations>>
    BY <1>2, <2>0, <2>2 DEF ViolationsAccount
  <2>3. CASE Next
    <3>1. (\E m \in Messages : HandsOut(m)) \/ UNCHANGED <<deliveries, violations>>
      BY <1>2, <2>3, BrokerSteps DEF Redeliver, Ack, Disconnect, Start, broker
    <3>2. QED
      BY <2>1, <2>2, <3>1
  <2>4. QED
    BY <1>2, <2>2, <2>3 DEF vars, broker, records
<1>3. CustodyInv => TypeOK /\ HoldsMessage
  BY DEF CustodyInv
<1>4. QED
  BY <1>1, <1>2, <1>3, CustodyInvariant, PTL DEF Spec

-----------------------------------------------------------------------------
(* How often a message is delivered and pushed.                            *)

\* What waits for a process that runs has one delivery left.
Limited ==
    \A m \in Messages :
      deliveries[m] <= IF place[m] = "backlog" /\ proc # "down"
                       THEN starts + redelivered[m] - 1 ELSE starts + redelivered[m]

LEMMA LimitedStep ==
    ASSUME TypeOK, HoldsMessage, Limited, [Next]_vars
    PROVE  Limited'
<1>0. /\ starts \in Nat
      /\ \A m \in Messages : deliveries[m] \in Nat /\ redelivered[m] \in Nat
  BY DEF TypeOK
<1>1. ASSUME NEW m \in Messages, HandsOut(m) PROVE Limited'
  <2>1. /\ deliveries'[m] = deliveries[m] + 1
        /\ place[m] = "backlog" /\ place'[m] = "unacked" /\ redelivered' = redelivered
        /\ \A x \in Messages \ {m} : deliveries'[x] = deliveries[x] /\ place'[x] = place[x]
        /\ UNCHANGED <<proc, starts>> /\ proc # "down"
    BY <1>1, HandedOut DEF HandsOut, Running
  <2>2. deliveries[m] <= starts + redelivered[m] - 1
    BY <2>1 DEF Limited
  <2>3. deliveries'[m] <= starts + redelivered[m]
    BY <1>0, <2>1, <2>2
  <2>4. QED
    BY <2>1, <2>3 DEF Limited
<1>2. ASSUME NEW m \in Messages, Redeliver(m) PROVE Limited'
  <2>1. /\ place[m] = "unacked" /\ redelivered'[m] = redelivered[m] + 1
        /\ \A x \in Messages \ {m} : redelivered'[x] = redelivered[x] /\ place'[x] = place[x]
        /\ UNCHANGED <<deliveries, proc, starts>>
    BY <1>2 DEF Redeliver, process, TypeOK
  <2>2. deliveries[m] <= starts + redelivered[m]
    BY <2>1 DEF Limited
  <2>3. /\ deliveries'[m] <= starts' + redelivered'[m] - 1
        /\ deliveries'[m] <= starts' + redelivered'[m]
    BY <1>0, <2>1, <2>2
  <2>4. QED
    BY <2>1, <2>3 DEF Limited
<1>3. ASSUME NEW w \in Workers, Ack(w) PROVE Limited'
  <2>1. UNCHANGED <<deliveries, redelivered, proc, starts>>
    BY <1>3 DEF Ack, process
  <2>2. \A m \in Messages : place'[m] = place[m] \/ place'[m] = "acked"
    BY <1>3 DEF Ack, TypeOK
  <2>3. \A m \in Messages : deliveries[m] <= starts + redelivered[m]
    BY <1>0 DEF Limited
  <2>4. QED
    BY <2>1, <2>2, <2>3 DEF Limited
<1>4. CASE Disconnect
  <2>1. UNCHANGED <<deliveries, redelivered, starts>> /\ proc' = "down"
    BY <1>4 DEF Disconnect
  <2>2. \A m \in Messages : deliveries[m] <= starts + redelivered[m]
    BY <1>0 DEF Limited
  <2>3. QED
    BY <2>1, <2>2 DEF Limited
<1>5. CASE Start
  <2>1. UNCHANGED <<place, deliveries, redelivered>> /\ proc = "down" /\ starts' = starts + 1
    BY <1>5 DEF Start, broker
  <2>2. \A m \in Messages : deliveries[m] <= starts + redelivered[m]
    BY <1>0 DEF Limited
  <2>3. \A m \in Messages : /\ deliveries'[m] <= starts' + redelivered'[m] - 1
                            /\ deliveries'[m] <= starts' + redelivered'[m]
    BY <1>0, <2>1, <2>2
  <2>4. QED
    BY <2>3 DEF Limited
<1>6. CASE UNCHANGED <<broker, starts>> /\ (proc' = proc \/ Signal)
  BY <1>6 DEF Limited, Signal, broker
<1>7. CASE UNCHANGED vars
  BY <1>7 DEF Limited, vars, broker, process
<1>8. QED
  BY <1>1, <1>2, <1>3, <1>4, <1>5, <1>6, <1>7, BrokerSteps

DeliveriesBounded ==
    /\ \A m \in Messages : deliveries[m] <= starts + redelivered[m]
    /\ \A c \in calls : c[2] \in 1 .. (starts + redelivered[c[1]]) /\ c[3] \in 1 .. MaxAttempts

(***************************************************************************)
(* Pulsar's at-least-once is bounded by what went wrong: a message is      *)
(* delivered at most once for each start of the process and each           *)
(* redelivery to a live one, and so reaches the provider at most           *)
(* MaxAttempts times that often.                                           *)
(***************************************************************************)
THEOREM DuplicatesBounded == Spec => []DeliveriesBounded
<1>1. Init => Limited
  BY DEF Init, Limited
<1>2. PushedInv => TypeOK /\ HoldsMessage /\ Pushed
  BY DEF PushedInv, CustodyInv
<1>3. TypeOK /\ HoldsMessage /\ Limited /\ [Next]_vars => Limited'
  BY LimitedStep
<1>4. ASSUME TypeOK, Pushed, Limited
      PROVE  DeliveriesBounded
  <2>0. /\ starts \in Nat
        /\ \A m \in Messages : deliveries[m] \in Nat /\ redelivered[m] \in Nat
    BY <1>4 DEF TypeOK
  <2>1. \A m \in Messages : deliveries[m] <= starts + redelivered[m]
    BY <1>4, <2>0 DEF Limited
  <2>2. ASSUME NEW c \in calls
        PROVE  c[2] \in 1 .. (starts + redelivered[c[1]]) /\ c[3] \in 1 .. MaxAttempts
    <3>1. c[1] \in Messages /\ c[2] \in Nat /\ c[3] \in Nat /\ c = <<c[1], c[2], c[3]>>
      BY <1>4 DEF TypeOK
    <3>2. c[2] \in 1 .. deliveries[c[1]] /\ c[3] \in 1 .. MaxAttempts
      BY <1>4, <3>1 DEF Pushed
    <3>3. QED
      BY <2>0, <2>1, <3>1, <3>2
  <2>3. QED
    BY <2>1, <2>2 DEF DeliveriesBounded
<1>5. QED
  BY <1>1, <1>2, <1>3, <1>4, PushedInvariant, PTL DEF Spec

-----------------------------------------------------------------------------
(* A handling comes to an end.                                             *)

\* How many steps worker w has at most to go with the delivery it holds.
Left(w) ==
    IF pc[w] = "handle" THEN 3 * MaxAttempts + 1
    ELSE IF pc[w] = "sleep" THEN 3 * (MaxAttempts - attempt[w]) + 4
    ELSE IF pc[w] = "push" THEN 3 * (MaxAttempts - attempt[w]) + 3
    ELSE IF pc[w] = "answered" THEN 3 * (MaxAttempts - attempt[w]) + 2
    ELSE IF pc[w] = "ack" THEN 1 ELSE 0

Paused(w) == /\ pc'[w] = pc[w] /\ msg'[w] = msg[w] /\ nth'[w] = nth[w]
             /\ attempt'[w] = attempt[w] /\ answer'[w] = answer[w]

\* Where the worker's own next step takes it, or the end of the process.
Advanced(w) ==
    \/ pc[w] = "handle" /\ pc'[w] = "push" /\ attempt'[w] = 1
    \/ pc[w] = "push" /\ pc'[w] = "answered" /\ attempt'[w] = attempt[w]
    \/ /\ pc[w] = "answered" /\ pc'[w] = "sleep"
       /\ attempt[w] < MaxAttempts /\ attempt'[w] = attempt[w] + 1
    \/ pc[w] = "sleep" /\ pc'[w] = "push" /\ attempt'[w] = attempt[w]
    \/ pc[w] \in Undecided /\ pc'[w] = "ack"
    \/ pc'[w] \in {"receive", "stopped"}

LEMMA HandlingStep ==
    ASSUME TypeOK, HoldsMessage, Accounted, [Next]_vars, NEW w \in Workers, pc[w] \in Holding
    PROVE  Paused(w) \/ Advanced(w)
<1> USE DEF Holding, Undecided
<1>1. ASSUME NEW v \in Workers, Worker(v) \/ ReceiveError(v), v # w
      PROVE  Paused(w)
  <2>1. CASE Recording(v)
    BY <1>1, <2>1, RecordingRecords DEF Record, TypeOK, Paused
  <2>2. CASE ~Recording(v)
    BY <1>1, <2>2 DEF TypeOK, Paused, local, Worker, Recording, Receive, ReceiveViolation,
       ReceiveUndecryptable, ReceiveCancelled, ReceiveError, StartDispatch, Push, Retry, Wake,
       Ack
  <2>3. QED
    BY <2>1, <2>2
<1>2. ASSUME Worker(w) \/ ReceiveError(w)
      PROVE  Advanced(w)
  <2>1. CASE Recording(w)
    BY <2>1, RecordingRecords DEF Record, TypeOK, Advanced
  <2>2. CASE StartDispatch(w) \/ Push(w) \/ Wake(w) \/ Ack(w)
    BY <2>2 DEF TypeOK, Advanced, local, StartDispatch, Push, Wake, Ack
  <2>3. CASE Retry(w)
    <3>1. attempt[w] \in Nat /\ attempt[w] < MaxAttempts
      BY <2>3, AttemptsAssumption DEF Retry, Done, TypeOK
    <3>2. QED
      BY <2>3, <3>1 DEF Retry, TypeOK, Advanced
  <2>4. /\ ~Receive(w) /\ ~ReceiveViolation(w) /\ ~ReceiveUndecryptable(w)
        /\ ~ReceiveCancelled(w) /\ ~ReceiveError(w)
    BY DEF Receive, ReceiveViolation, ReceiveUndecryptable, ReceiveCancelled, ReceiveError
  <2>5. QED
    BY <1>2, <2>1, <2>2, <2>3, <2>4 DEF Worker, Recording
<1>3. CASE Signal \/ UNCHANGED vars
  BY <1>3 DEF Signal, vars, local, Paused
<1>4. CASE Exit \/ Crash
  BY <1>4 DEF Exit, Crash, Disconnect, Advanced
<1>5. CASE Start
  BY <1>5 DEF Start, Accounted
<1>6. ASSUME NEW m \in Messages, Deadline(m) \/ Redeliver(m)
      PROVE  Paused(w)
  BY <1>6 DEF Deadline, Redeliver, local, Paused
<1>7. QED
  BY <1>1, <1>2, <1>3, <1>4, <1>5, <1>6 DEF Next

LEMMA Descends ==
    ASSUME TypeOK, TypeOK', Pushed, NEW w \in Workers, pc[w] \in Holding, Advanced(w)
    PROVE  Left(w)' \in Nat /\ Left(w)' < Left(w)
<1> USE DEF Holding, Undecided
<1>0. /\ MaxAttempts \in Nat /\ MaxAttempts >= 1
      /\ attempt[w] \in 0 .. MaxAttempts /\ attempt'[w] \in 0 .. MaxAttempts
  BY AttemptsAssumption DEF TypeOK
<1>1. Left(w) \in Nat /\ Left(w) >= 1 /\ (pc[w] \in Undecided => Left(w) >= 2)
  <2>1. MaxAttempts - attempt[w] \in Nat
    BY <1>0
  <2>2. QED
    BY <1>0, <2>1 DEF Left
<1>2. CASE pc[w] = "handle" /\ pc'[w] = "push" /\ attempt'[w] = 1
  BY <1>0, <1>2 DEF Left
<1>3. CASE pc[w] = "push" /\ pc'[w] = "answered" /\ attempt'[w] = attempt[w]
  BY <1>0, <1>3 DEF Left
<1>4. CASE /\ pc[w] = "answered" /\ pc'[w] = "sleep"
           /\ attempt[w] < MaxAttempts /\ attempt'[w] = attempt[w] + 1
  BY <1>0, <1>4 DEF Left
<1>5. CASE pc[w] = "sleep" /\ pc'[w] = "push" /\ attempt'[w] = attempt[w]
  BY <1>0, <1>5 DEF Left
<1>6. CASE pc[w] \in Undecided /\ pc'[w] = "ack"
  <2>1. Left(w)' = 1
    BY <1>6 DEF Left
  <2>2. QED
    BY <1>1, <1>6, <2>1
<1>7. CASE pc'[w] \in {"receive", "stopped"}
  <2>1. Left(w)' = 0
    BY <1>7 DEF Left
  <2>2. QED
    BY <1>1, <2>1
<1>8. QED
  BY <1>2, <1>3, <1>4, <1>5, <1>6, <1>7 DEF Advanced

HandlingEnds ==
    [][\A w \in Workers : pc[w] \in Holding =>
         \/ UNCHANGED <<pc[w], msg[w], nth[w], attempt[w], answer[w]>>
         \/ Left(w)' \in Nat /\ Left(w)' < Left(w)]_vars

(***************************************************************************)
(* Between Receive and the return of Ack no step of anybody takes a worker *)
(* back: each leaves it where it is or brings it nearer the end, after at  *)
(* most 3 * MaxAttempts + 1 steps of its own.  Neither a redelivery, nor a *)
(* deadline, nor what another worker does ever makes it start over.        *)
(***************************************************************************)
THEOREM HandlingsEnd == Spec => HandlingEnds
<1>1. ASSUME PushedInv, TypeOK', Accounted, [Next]_vars,
             NEW w \in Workers, pc[w] \in Holding
      PROVE  \/ UNCHANGED <<pc[w], msg[w], nth[w], attempt[w], answer[w]>>
             \/ Left(w)' \in Nat /\ Left(w)' < Left(w)
  <2>1. TypeOK /\ HoldsMessage /\ Pushed
    BY <1>1 DEF PushedInv, CustodyInv
  <2>2. Paused(w) \/ Advanced(w)
    BY <1>1, <2>1, HandlingStep
  <2>3. QED
    BY <1>1, <2>1, <2>2, Descends DEF Paused
<1>2. PushedInv /\ TypeOK' /\ AccountedInv /\ [Next]_vars
        => [\A w \in Workers : pc[w] \in Holding =>
              \/ UNCHANGED <<pc[w], msg[w], nth[w], attempt[w], answer[w]>>
              \/ Left(w)' \in Nat /\ Left(w)' < Left(w)]_vars
  BY <1>1 DEF AccountedInv
<1>3. QED
  BY <1>2, PushedInvariant, AccountedInvariant, TypeCorrect, PTL DEF Spec, HandlingEnds

-----------------------------------------------------------------------------
(* A worker that failed, and a record that was made.                       *)

AllFailed == Running /\ \A w \in Workers : pc[w] = "failed"

FailedForGood ==
    [][/\ \A w \in Workers : pc[w] = "failed" => pc'[w] = "failed" \/ proc' = "down"
       /\ AllFailed => /\ AllFailed' \/ proc' = "down"
                       /\ UNCHANGED <<deliveries, provider, records>>]_vars

LEMMA FailedStep ==
    ASSUME TypeOK, HoldsMessage, Accounted, [Next]_vars, NEW w \in Workers, pc[w] = "failed"
    PROVE  pc'[w] = "failed" \/ proc' = "down"
<1>1. ASSUME NEW v \in Workers, Recording(v)
      PROVE  pc'[w] = "failed"
  BY <1>1, RecordingRecords DEF Record, TypeOK, Undecided
<1>2. ASSUME NEW v \in Workers, Worker(v) \/ ReceiveError(v), ~Recording(v)
      PROVE  pc'[w] = "failed"
  BY <1>2 DEF TypeOK, Worker, Recording, Receive, ReceiveViolation, ReceiveUndecryptable,
     ReceiveCancelled, ReceiveError, StartDispatch, Push, Retry, Wake, Ack
<1>3. CASE Start
  BY <1>3 DEF Start, Accounted
<1>4. CASE Exit \/ Crash
  BY <1>4 DEF Exit, Crash, Disconnect
<1>5. CASE Signal \/ (\E m \in Messages : Deadline(m) \/ Redeliver(m)) \/ UNCHANGED vars
  BY <1>5 DEF Signal, Deadline, Redeliver, vars
<1>6. QED
  BY <1>1, <1>2, <1>3, <1>4, <1>5 DEF Next

LEMMA AllFailedStep ==
    ASSUME TypeOK, HoldsMessage, Accounted, [Next]_vars, AllFailed
    PROVE  /\ AllFailed' \/ proc' = "down"
           /\ UNCHANGED <<deliveries, provider, records>>
<1>1. ~\E w \in Workers : Worker(w) \/ ReceiveError(w)
  <2> SUFFICES ASSUME NEW w \in Workers, Worker(w) \/ ReceiveError(w), pc[w] = "failed"
               PROVE  FALSE
    BY DEF AllFailed
  <2>1. ~Recording(w)
    BY RecordingRecords DEF Undecided
  <2>2. QED
    BY <2>1 DEF Worker, Recording, Receive, ReceiveViolation, ReceiveUndecryptable,
       ReceiveCancelled, ReceiveError, StartDispatch, Push, Retry, Wake, Ack
<1>2. ~Start
  BY DEF AllFailed, Running, Start
<1>3. /\ proc' \in {proc, "stopping", "down"}
      /\ UNCHANGED <<deliveries, provider, records>>
  BY <1>1, <1>2 DEF Next, Signal, Exit, Crash, Disconnect, Deadline, Redeliver, vars, broker,
     process
<1>4. \A w \in Workers : pc'[w] = "failed" \/ proc' = "down"
  BY FailedStep DEF AllFailed
<1>5. QED
  BY <1>3, <1>4 DEF AllFailed, Running

(***************************************************************************)
(* Why DecidedWhileUp fails, whatever the constants: a worker whose Run    *)
(* returned an error is not started again while the process lives, and     *)
(* once every worker is gone the process stays as it is, delivering,       *)
(* pushing and recording nothing, until it goes down.                      *)
(***************************************************************************)
THEOREM NoneReplaced == Spec => FailedForGood
<1>1. CustodyInv => TypeOK /\ HoldsMessage
  BY DEF CustodyInv
<1>2. AccountedInv /\ [Next]_vars
        => [/\ \A w \in Workers : pc[w] = "failed" => pc'[w] = "failed" \/ proc' = "down"
            /\ AllFailed => /\ AllFailed' \/ proc' = "down"
                            /\ UNCHANGED <<deliveries, provider, records>>]_vars
  BY <1>1, FailedStep, AllFailedStep DEF AccountedInv
<1>3. QED
  BY <1>2, AccountedInvariant, PTL DEF Spec, FailedForGood

NothingForgotten ==
    [][/\ calls \subseteq calls' /\ accepted \subseteq accepted'
       /\ outcomes \subseteq outcomes' /\ cut \subseteq cut' /\ violations' >= violations
       /\ \A m \in Messages :
            /\ deliveries'[m] >= deliveries[m]
            /\ place[m] = "acked" => place'[m] = "acked" /\ deliveries'[m] = deliveries[m]]_vars

LEMMA RecordsGrow ==
    ASSUME TypeOK, HoldsMessage, [Next]_vars
    PROVE  /\ calls \subseteq calls' /\ accepted \subseteq accepted'
           /\ outcomes \subseteq outcomes' /\ cut \subseteq cut'
<1>1. ASSUME NEW w \in Workers, Recording(w)
      PROVE  UNCHANGED <<provider, cut>> /\ outcomes \subseteq outcomes'
  BY <1>1, RecordingRecords DEF Record
<1>2. ASSUME NEW w \in Workers, Push(w)
      PROVE  /\ calls \subseteq calls' /\ accepted \subseteq accepted'
             /\ UNCHANGED <<records, cut>>
  BY <1>2 DEF Push
<1>3. ASSUME NEW w \in Workers, Worker(w) \/ ReceiveError(w), ~Recording(w), ~Push(w)
      PROVE  UNCHANGED <<provider, outcomes, cut>>
  BY <1>3 DEF Worker, Recording, Receive, ReceiveViolation, ReceiveUndecryptable,
     ReceiveCancelled, ReceiveError, StartDispatch, Retry, Wake, Ack, records
<1>4. CASE Signal \/ Exit \/ Start \/ (\E m \in Messages : Deadline(m) \/ Redeliver(m))
             \/ UNCHANGED vars
  BY <1>4 DEF Signal, Exit, Start, Disconnect, Deadline, Redeliver, vars, provider, records
<1>5. CASE Crash
  BY <1>5 DEF Crash, Disconnect, provider, records
<1>6. QED
  BY <1>1, <1>2, <1>3, <1>4, <1>5 DEF Next, provider, records

LEMMA BrokerKeeps ==
    ASSUME TypeOK, HoldsMessage, [Next]_vars
    PROVE  /\ violations' >= violations
           /\ \A m \in Messages :
                /\ deliveries'[m] >= deliveries[m]
                /\ place[m] = "acked" => place'[m] = "acked" /\ deliveries'[m] = deliveries[m]
<1>0. violations \in Nat /\ \A m \in Messages : deliveries[m] \in Nat
  BY DEF TypeOK
<1>1. ASSUME NEW x \in Messages, HandsOut(x)
      PROVE  /\ violations' >= violations
             /\ \A m \in Messages :
                  /\ deliveries'[m] >= deliveries[m]
                  /\ place[m] = "acked"
                       => place'[m] = "acked" /\ deliveries'[m] = deliveries[m]
  <2>1. violations' = violations \/ violations' = violations + 1
    BY <1>1, Zenon DEF HandsOut
  <2>2. /\ deliveries'[x] = deliveries[x] + 1 /\ place[x] = "backlog"
        /\ \A m \in Messages \ {x} : deliveries'[m] = deliveries[m] /\ place'[m] = place[m]
    BY <1>1, HandedOut DEF HandsOut
  <2>3. violations' >= violations /\ deliveries'[x] >= deliveries[x]
    BY <1>0, <2>1, <2>2
  <2>4. \A m \in Messages \ {x} : deliveries'[m] >= deliveries[m]
    BY <1>0, <2>2
  <2>5. QED
    BY <2>2, <2>3, <2>4
<1>2. ASSUME UNCHANGED <<deliveries, violations>>,
             \A m \in Messages : place[m] = "acked" => place'[m] = "acked"
      PROVE  /\ violations' >= violations
             /\ \A m \in Messages :
                  /\ deliveries'[m] >= deliveries[m]
                  /\ place[m] = "acked"
                       => place'[m] = "acked" /\ deliveries'[m] = deliveries[m]
  BY <1>0, <1>2
<1>3. ASSUME NEW m \in Messages, Redeliver(m)
      PROVE  /\ UNCHANGED deliveries
             /\ \A x \in Messages : place[x] = "acked" => place'[x] = "acked"
  BY <1>3 DEF Redeliver, TypeOK
<1>4. ASSUME NEW w \in Workers, Ack(w)
      PROVE  /\ UNCHANGED deliveries
             /\ \A x \in Messages : place[x] = "acked" => place'[x] = "acked"
  BY <1>4 DEF Ack, TypeOK
<1>5. ASSUME Disconnect \/ Start
      PROVE  /\ UNCHANGED deliveries
             /\ \A x \in Messages : place[x] = "acked" => place'[x] = "acked"
  BY <1>5 DEF Disconnect, Start, broker
<1>6. CASE Next
  BY <1>1, <1>2, <1>3, <1>4, <1>5, <1>6, BrokerSteps DEF broker
<1>7. CASE UNCHANGED vars
  BY <1>2, <1>7 DEF vars, broker, records
<1>8. QED
  BY <1>6, <1>7

(***************************************************************************)
(* Nothing that happened is taken back: a call, what the provider took, an *)
(* outcome, a violation and the count of deliveries survive every step,    *)
(* crashes and restarts included, and a message that left the subscription *)
(* never comes back to it.                                                 *)
(***************************************************************************)
THEOREM RecordsStand == Spec => NothingForgotten
<1>1. CustodyInv => TypeOK /\ HoldsMessage
  BY DEF CustodyInv
<1>2. CustodyInv /\ [Next]_vars
        => [/\ calls \subseteq calls' /\ accepted \subseteq accepted'
            /\ outcomes \subseteq outcomes' /\ cut \subseteq cut' /\ violations' >= violations
            /\ \A m \in Messages :
                 /\ deliveries'[m] >= deliveries[m]
                 /\ place[m] = "acked"
                      => place'[m] = "acked" /\ deliveries'[m] = deliveries[m]]_vars
  BY <1>1, RecordsGrow, BrokerKeeps
<1>3. QED
  BY <1>2, CustodyInvariant, PTL DEF Spec, NothingForgotten

-----------------------------------------------------------------------------
(* How many workers are at work on one message.                            *)

HoldersOf(m) == {w \in Workers : pc[w] \in Holding /\ msg[w] = m}

Waiting(m) == IF place[m] = "backlog" THEN 1 ELSE 0

HoldersBounded ==
    \A m \in Messages : /\ IsFiniteSet(HoldersOf(m))
                        /\ Cardinality(HoldersOf(m)) <= 1 + redelivered[m]

\* What waits may still be given to one more worker.
Copies(m) ==
    /\ IsFiniteSet(HoldersOf(m))
    /\ Cardinality(HoldersOf(m)) + Waiting(m) <= 1 + redelivered[m]

LEMMA ReceiveCopies ==
    ASSUME TypeOK, \A m \in Messages : Copies(m), NEW w \in Workers, Receive(w)
    PROVE  \A m \in Messages : Copies(m)'
<1>1. PICK m \in Messages :
        /\ HandOut(m) /\ msg'[w] = m /\ pc[w] = "receive" /\ pc'[w] = "handle"
        /\ \A v \in Workers \ {w} :
             pc'[v] = pc[v] /\ msg'[v] = msg[v] /\ nth'[v] = nth[v]
  BY ReceiveTakes
<1>2. /\ place[m] = "backlog" /\ place'[m] = "unacked" /\ redelivered' = redelivered
      /\ \A x \in Messages \ {m} : place'[x] = place[x]
  BY <1>1, HandedOut
<1>3. /\ w \notin HoldersOf(m)
      /\ HoldersOf(m)' = HoldersOf(m) \cup {w}
      /\ \A x \in Messages \ {m} : HoldersOf(x)' = HoldersOf(x)
  BY <1>1 DEF HoldersOf, Holding, Undecided
<1>4. \A x \in Messages \ {m} : Copies(x)'
  BY <1>2, <1>3 DEF Copies, Waiting
<1>5. Copies(m)'
  <2>1. IsFiniteSet(HoldersOf(m)) /\ Cardinality(HoldersOf(m)) + 1 <= 1 + redelivered[m]
    BY <1>2 DEF Copies, Waiting
  <2>2. /\ IsFiniteSet(HoldersOf(m)')
        /\ Cardinality(HoldersOf(m)') = Cardinality(HoldersOf(m)) + 1
    BY <1>3, <2>1, FS_AddElement
  <2>3. Waiting(m)' = 0
    BY <1>2 DEF Waiting
  <2>4. Cardinality(HoldersOf(m)') \in Nat
    BY <2>2, FS_CardinalityType
  <2>5. Cardinality(HoldersOf(m)') + 0 <= 1 + redelivered'[m]
    BY <1>2, <2>1, <2>2, <2>4
  <2>6. QED
    BY <2>2, <2>3, <2>5 DEF Copies
<1>6. QED
  BY <1>4, <1>5

\* Every other step only lets go of messages, and what it puts back it counts.
LEMMA OtherCopies ==
    ASSUME TypeOK, TypeOK', HoldsMessage, [Next]_vars, \A w \in Workers : ~Receive(w),
           NEW m \in Messages, Copies(m)
    PROVE  Copies(m)'
<1>1. HoldersOf(m)' \subseteq HoldersOf(m)
  BY OtherStepsKeep DEF Keeps, HoldersOf
<1>2. /\ IsFiniteSet(HoldersOf(m)') /\ Cardinality(HoldersOf(m)') \in Nat
      /\ Cardinality(HoldersOf(m)) \in Nat
      /\ Cardinality(HoldersOf(m)') <= Cardinality(HoldersOf(m))
  BY <1>1, FS_Subset, FS_CardinalityType DEF Copies
<1>3. redelivered[m] \in Nat /\ redelivered'[m] \in Nat
  BY DEF TypeOK
<1>4. ASSUME Waiting(m)' <= Waiting(m) + redelivered'[m] - redelivered[m]
      PROVE  Copies(m)'
  <2>1. Waiting(m) \in Nat /\ Waiting(m)' \in Nat
    BY DEF Waiting
  <2>2. QED
    BY <1>2, <1>3, <1>4, <2>1 DEF Copies
<1>5. ASSUME NEW x \in Messages, HandsOut(x) PROVE Copies(m)'
  <2>1. redelivered' = redelivered /\ (place'[m] = place[m] \/ place'[m] = "unacked")
    BY <1>5, HandedOut DEF HandsOut
  <2>2. QED
    BY <1>3, <1>4, <2>1 DEF Waiting
<1>6. ASSUME NEW x \in Messages, Redeliver(x) PROVE Copies(m)'
  <2>1. CASE x = m
    <3>1. place[m] = "unacked" /\ place'[m] = "backlog" /\ redelivered'[m] = redelivered[m] + 1
      BY <1>6, <2>1 DEF Redeliver, TypeOK
    <3>2. QED
      BY <1>3, <1>4, <3>1 DEF Waiting
  <2>2. CASE x # m
    <3>1. place'[m] = place[m] /\ redelivered'[m] = redelivered[m]
      BY <1>6, <2>2 DEF Redeliver, TypeOK
    <3>2. QED
      BY <1>3, <1>4, <3>1 DEF Waiting
  <2>3. QED
    BY <2>1, <2>2
<1>7. ASSUME NEW w \in Workers, Ack(w) PROVE Copies(m)'
  <2>1. redelivered' = redelivered /\ (place'[m] = place[m] \/ place'[m] = "acked")
    BY <1>7 DEF Ack, TypeOK
  <2>2. QED
    BY <1>3, <1>4, <2>1 DEF Waiting
<1>8. CASE Disconnect
  <2>1. HoldersOf(m)' = {} /\ redelivered' = redelivered
    BY <1>8 DEF Disconnect, HoldersOf, Holding, Undecided
  <2>2. Cardinality(HoldersOf(m)') = 0 /\ Waiting(m)' \in {0, 1}
    BY <2>1, FS_EmptySet DEF Waiting
  <2>3. QED
    BY <1>2, <1>3, <2>1, <2>2 DEF Copies
<1>9. CASE UNCHANGED broker
  BY <1>3, <1>4, <1>9 DEF Waiting, broker
<1>10. QED
  BY <1>5, <1>6, <1>7, <1>8, <1>9, BrokerSteps DEF Start, vars

AllCopies == \A m \in Messages : Copies(m)

(***************************************************************************)
(* Several workers push one message at the same time only where the broker *)
(* handed copies of it to the live process: one worker more for each such  *)
(* redelivery, however many workers and restarts there are.                *)
(***************************************************************************)
THEOREM HoldersCounted == Spec => []HoldersBounded
<1>1. Init => AllCopies
  <2> SUFFICES ASSUME Init, NEW m \in Messages PROVE Copies(m)
    BY DEF AllCopies
  <2>1. HoldersOf(m) = {} /\ Waiting(m) = 1 /\ redelivered[m] = 0
    BY DEF Init, HoldersOf, Holding, Undecided, Waiting
  <2>2. QED
    BY <2>1, FS_EmptySet DEF Copies
<1>2. CustodyInv /\ CustodyInv' /\ AllCopies /\ [Next]_vars => AllCopies'
  <2> SUFFICES ASSUME CustodyInv, CustodyInv', AllCopies, [Next]_vars
               PROVE  \A m \in Messages : Copies(m)'
    BY DEF AllCopies
  <2>1. TypeOK /\ TypeOK' /\ HoldsMessage
    BY DEF CustodyInv
  <2>2. CASE \E w \in Workers : Receive(w)
    BY <2>1, <2>2, ReceiveCopies DEF AllCopies
  <2>3. CASE \A w \in Workers : ~Receive(w)
    BY <2>1, <2>3, OtherCopies DEF AllCopies
  <2>4. QED
    BY <2>2, <2>3
<1>3. TypeOK /\ AllCopies => HoldersBounded
  <2> SUFFICES ASSUME TypeOK, NEW m \in Messages, Copies(m)
               PROVE  /\ IsFiniteSet(HoldersOf(m))
                      /\ Cardinality(HoldersOf(m)) <= 1 + redelivered[m]
    BY DEF AllCopies, HoldersBounded
  <2>1. Cardinality(HoldersOf(m)) \in Nat /\ Waiting(m) \in Nat /\ redelivered[m] \in Nat
    BY FS_CardinalityType DEF Copies, Waiting, TypeOK
  <2>2. QED
    BY <2>1 DEF Copies
<1>4. CustodyInv => TypeOK
  BY DEF CustodyInv
<1>5. QED
  BY <1>1, <1>2, <1>3, <1>4, CustodyInvariant, PTL DEF Spec
=============================================================================
