---------------------------- MODULE BackoffProofs ----------------------------
(***************************************************************************)
(* Proofs about Backoff, for every width of a Duration, every setting and  *)
(* every budget: schedule, cap and bound on sleep, with overflow.  A call  *)
(* computes its backoff from the beginning; the invariant (Computing) says *)
(* that on its way it passes through what the earlier calls have given.    *)
(* A variant shows that each call ends.                                    *)
(***************************************************************************)
EXTENDS Backoff, TLAPS

\* What the a-th call must give.
Due(a) == IF a = 1 THEN Lesser(initial, max) ELSE Lesser(2 * given[a - 1], max)

\* Between two calls as many backoffs were given as attempts were begun.
Counted ==
    /\ phase = "idle" => Len(given) = attempt
    /\ phase # "idle" => Len(given) = attempt - 1 /\ n \in 1 .. attempt
    /\ phase = "capped" => n < attempt

\* The backoffs given so far are in (0, max], and never shrink.
Growing ==
    /\ \A a \in 1 .. Len(given) : given[a] = Due(a) /\ given[a] > 0 /\ given[a] <= max
    /\ \A a, b \in 1 .. Len(given) : a <= b => given[a] <= given[b]

\* The loop's backoff is the one the n-th call gave or has to give.
Computing ==
    /\ phase = "doubling" => /\ base > 0 /\ 2 * base < Limit
                             /\ Lesser(base, max) = Due(n)
    /\ phase = "capped" => base = max /\ 2 * given[attempt - 1] >= max

ScheduleInv == TypeOK /\ Counted /\ (Sound => Growing /\ Computing)

USE LimitAssumption, SettingsAssumption, BudgetAssumption

LEMMA Wrapped == ASSUME NEW d \in Durations PROVE Wrap(2 * d) \in Durations
BY DEF Durations, Wrap

(***************************************************************************)
(* Types: no computation leaves the range of a Duration, and the counter   *)
(* of attempts never passes the budget.                                    *)
(***************************************************************************)
LEMMA TypeStep == TypeOK /\ [Next]_vars => TypeOK'
<1> SUFFICES ASSUME TypeOK, [Next]_vars PROVE TypeOK'
  OBVIOUS
<1>0. /\ initial \in Durations /\ max \in Durations /\ 0 \in Durations
      /\ attempt \in Nat /\ n \in Nat
  BY DEF TypeOK, Durations
<1>1. CASE Call
  BY <1>0, <1>1 DEF TypeOK, Call, policy
<1>2. CASE Double
  BY <1>0, <1>2, Wrapped DEF TypeOK, Double, policy
<1>3. CASE Cap
  BY <1>0, <1>3 DEF TypeOK, Cap, policy
<1>4. CASE Return
  <2>1. Lesser(base, max) \in Durations
    BY <1>0 DEF TypeOK, Lesser
  <2>2. PICK wait \in Jitter(Lesser(base, max)) :
          slept' = IF attempt > 1 THEN slept + Positive(wait) ELSE slept
    BY <1>4 DEF Return
  <2>3. Positive(wait) \in Nat
    BY <2>1, <2>2 DEF Jitter, Durations, Positive
  <2>4. slept' \in Nat
    BY <2>2, <2>3 DEF TypeOK
  <2>5. given' \in Seq(Durations)
    BY <1>4, <2>1 DEF Return, TypeOK
  <2>6. QED
    BY <1>0, <1>4, <2>4, <2>5 DEF TypeOK, Return, policy
<1>5. CASE UNCHANGED vars
  BY <1>5 DEF TypeOK, vars, policy
<1>6. QED
  BY <1>1, <1>2, <1>3, <1>4, <1>5 DEF Next

LEMMA BackoffType == Spec => []TypeOK
<1>1. Init => TypeOK
  BY DEF Init, TypeOK, Durations
<1>2. QED
  BY <1>1, TypeStep, PTL DEF Spec

LEMMA CountedStep ==
    ASSUME TypeOK, TypeOK', Counted, [Next]_vars
    PROVE  Counted'
<1>1. CASE Call
  <2>1. Len(given) = attempt /\ attempt \in Nat
    BY <1>1 DEF TypeOK, Counted, Call
  <2>2. attempt = (attempt + 1) - 1 /\ 1 \in 1 .. attempt + 1
    BY <2>1
  <2>3. QED
    BY <1>1, <2>1, <2>2 DEF Counted, Call
<1>2. CASE Double \/ Cap
  <2>1. /\ UNCHANGED <<attempt, given>> /\ attempt \in Nat /\ n \in Nat /\ n < attempt
        /\ Len(given) = attempt - 1 /\ n \in 1 .. attempt
        /\ \/ phase' = "doubling" /\ n' = n + 1
           \/ phase' = "capped" /\ n' = n
    BY <1>2 DEF TypeOK, Counted, Double, Cap
  <2>2. QED
    BY <2>1 DEF Counted
<1>3. CASE Return
  <2>1. Len(given') = Len(given) + 1
    BY <1>3 DEF Return, TypeOK
  <2>2. QED
    BY <1>3, <2>1 DEF TypeOK, Counted, Return, policy
<1>4. CASE UNCHANGED vars
  BY <1>4 DEF Counted, vars, policy
<1>5. QED
  BY <1>1, <1>2, <1>3, <1>4 DEF Next

LEMMA ScheduleStep ==
    ASSUME TypeOK, TypeOK', Counted, Counted', Sound, Growing, Computing, [Next]_vars
    PROVE  Growing' /\ Computing'
<1>0. /\ initial \in Int /\ max \in Int /\ base \in Int /\ attempt \in Nat /\ n \in Nat
      /\ initial > 0 /\ max > 0 /\ 2 * initial < Limit /\ 2 * max <= Limit
      /\ Len(given) \in Nat /\ \A a \in 1 .. Len(given) : given[a] \in Int
  BY DEF TypeOK, Sound, Durations
<1>1. CASE Call
  <2>1. UNCHANGED <<initial, max, given>> /\ base' = initial /\ n' = 1 /\ phase' = "doubling"
    BY <1>1 DEF Call, policy
  <2>2. Growing'
    BY <2>1 DEF Growing, Due
  <2>3. Computing'
    BY <1>0, <2>1 DEF Computing, Due
  <2>4. QED
    BY <2>2, <2>3
<1>2. CASE Double
  <2>1. /\ UNCHANGED <<initial, max, given, attempt>> /\ phase = "doubling"
        /\ phase' = "doubling" /\ base' = Wrap(2 * base) /\ n' = n + 1 /\ Wrap(2 * base) < max
        /\ n < attempt /\ n \in 1 .. Len(given)
    BY <1>0, <1>2 DEF Double, policy, Counted
  <2>2. base' = 2 * base /\ 2 * base < max
    BY <1>0, <2>1 DEF Computing, Wrap
  <2>3. given[n] = base
    BY <1>0, <2>1, <2>2 DEF Growing, Computing, Lesser
  <2>4. n' > 1 /\ given'[n' - 1] = base
    BY <1>0, <2>1, <2>3
  <2>5. Lesser(base, max)' = Due(n)'
    BY <1>0, <2>1, <2>2, <2>4 DEF Due, Lesser
  <2>6. base' > 0 /\ 2 * base' < Limit
    BY <1>0, <2>1, <2>2 DEF Computing
  <2>7. Computing'
    BY <2>1, <2>5, <2>6 DEF Computing
  <2>8. Growing'
    BY <2>1 DEF Growing, Due
  <2>9. QED
    BY <2>7, <2>8
<1>3. CASE Cap
  <2>1. /\ UNCHANGED <<initial, max, given, attempt>> /\ phase = "doubling"
        /\ phase' = "capped" /\ base' = max /\ Wrap(2 * base) >= max
        /\ n < attempt /\ n \in 1 .. Len(given) /\ attempt - 1 = Len(given)
    BY <1>0, <1>3 DEF Cap, policy, Counted
  <2>2. 2 * base >= max
    BY <1>0, <2>1 DEF Computing, Wrap
  <2>3. 2 * given[n] >= max
    BY <1>0, <2>1, <2>2 DEF Growing, Computing, Lesser
  <2>4. given[n] <= given[attempt - 1]
    BY <1>0, <2>1 DEF Growing
  <2>5. 2 * given[attempt - 1] >= max
    BY <1>0, <2>1, <2>3, <2>4
  <2>6. Growing' /\ Computing'
    BY <2>1, <2>5 DEF Growing, Computing, Due
  <2>7. QED
    BY <2>6
<1>4. CASE Return
  <2> DEFINE new == Lesser(base, max)
  <2>1. /\ UNCHANGED <<initial, max, attempt>> /\ phase' = "idle"
        /\ given' = Append(given, new) /\ Len(given) = attempt - 1 /\ attempt >= 1
        /\ phase = "capped" \/ (phase = "doubling" /\ n = attempt)
    BY <1>0, <1>4 DEF Return, policy, Counted
  <2>2. /\ Len(given') = attempt
        /\ given'[attempt] = new
        /\ \A a \in 1 .. attempt - 1 : given'[a] = given[a]
    BY <1>0, <2>1 DEF TypeOK
  <2>3. new = Due(attempt) /\ new > 0 /\ new <= max
    <3>1. CASE phase = "capped"
      <4>1. base = max /\ 2 * given[attempt - 1] >= max /\ attempt > 1
        BY <1>0, <3>1, <2>1 DEF Computing, Counted
      <4>2. QED
        BY <1>0, <2>1, <4>1 DEF Due, Lesser
    <3>2. CASE phase = "doubling" /\ n = attempt
      BY <1>0, <3>2 DEF Computing, Lesser
    <3>3. QED
      BY <2>1, <3>1, <3>2
  <2>4. \A a \in 1 .. attempt - 1 : given[a] <= new
    <3>1. CASE attempt = 1
      BY <3>1
    <3>2. CASE attempt > 1
      <4>1. attempt - 1 \in 1 .. Len(given)
        BY <1>0, <2>1, <3>2
      <4>2. given[attempt - 1] <= new
        BY <1>0, <2>3, <3>2, <4>1 DEF Growing, Due, Lesser
      <4>3. \A a \in 1 .. attempt - 1 : given[a] <= given[attempt - 1]
        BY <1>0, <2>1, <4>1 DEF Growing
      <4>4. new \in Int
        BY <1>0 DEF Lesser
      <4>5. QED
        BY <1>0, <2>1, <4>1, <4>2, <4>3, <4>4
    <3>3. QED
      BY <1>0, <2>1, <3>1, <3>2
  <2> HIDE DEF new
  <2>5. \A a \in 1 .. attempt : Due(a)' = Due(a)
    BY <1>0, <2>1, <2>2 DEF Due
  <2>6. \A a \in 1 .. Len(given') :
          given'[a] = Due(a)' /\ given'[a] > 0 /\ given'[a] <= max'
    BY <1>0, <2>1, <2>2, <2>3, <2>5 DEF Growing
  <2>7. ASSUME NEW a \in 1 .. Len(given'), NEW b \in 1 .. Len(given'), a <= b
        PROVE  given'[a] <= given'[b]
    <3>1. CASE b = attempt
      <4>1. a = attempt \/ a \in 1 .. attempt - 1
        BY <1>0, <2>2
      <4>2. QED
        BY <1>0, <2>2, <2>3, <2>4, <3>1, <4>1 DEF new, Lesser
    <3>2. CASE b # attempt
      <4>1. a \in 1 .. attempt - 1 /\ b \in 1 .. attempt - 1
        BY <1>0, <2>2, <2>7, <3>2
      <4>2. QED
        BY <2>1, <2>2, <2>7, <4>1 DEF Growing
    <3>3. QED
      BY <3>1, <3>2
  <2>8. Growing'
    BY <2>6, <2>7 DEF Growing
  <2>9. QED
    BY <2>1, <2>8 DEF Computing
<1>5. CASE UNCHANGED vars
  BY <1>5 DEF Growing, Computing, Due, vars, policy
<1>6. QED
  BY <1>1, <1>2, <1>3, <1>4, <1>5 DEF Next

LEMMA ScheduleInvariant == Spec => []ScheduleInv
<1>1. Init => ScheduleInv
  BY DEF Init, TypeOK, Durations, ScheduleInv, Counted, Growing, Computing
<1>2. ScheduleInv /\ [Next]_vars => ScheduleInv'
  <2> SUFFICES ASSUME ScheduleInv, [Next]_vars PROVE ScheduleInv'
    OBVIOUS
  <2>1. TypeOK' /\ Counted'
    BY TypeStep, CountedStep DEF ScheduleInv
  <2>2. Sound' => Sound
    BY DEF Next, Call, Double, Cap, Return, vars, policy, Sound
  <2>3. QED
    BY <2>1, <2>2, ScheduleStep DEF ScheduleInv
<1>3. QED
  BY <1>1, <1>2, PTL DEF Spec

(***************************************************************************)
(* For every sound policy each backoff is the double of the last one or    *)
(* the cap, for any number of attempts.                                    *)
(***************************************************************************)
THEOREM BackoffSchedule == Spec => []Schedule
<1>1. ScheduleInv => Schedule
  BY DEF ScheduleInv, Growing, Due, Schedule
<1>2. QED
  BY <1>1, ScheduleInvariant, PTL

-----------------------------------------------------------------------------
(* The cap.                                                                *)

Capped ==
    /\ \A a \in 1 .. Len(given) : given[a] <= max
    /\ Sound => \A a, b \in 1 .. Len(given) : a <= b => 0 < given[a] /\ given[a] <= given[b]

\* The half of Capped that no policy can break.
UnderCap == \A a \in 1 .. Len(given) : given[a] <= max

LEMMA UnderCapStep ==
    ASSUME TypeOK, UnderCap, [Next]_vars
    PROVE  UnderCap'
<1>1. CASE Return
  <2> DEFINE new == Lesser(base, max)
  <2>1. /\ max' = max /\ given' = Append(given, new)
        /\ new \in Int /\ new <= max /\ given \in Seq(Durations)
    BY <1>1 DEF Return, policy, TypeOK, Durations, Lesser
  <2> HIDE DEF new
  <2>2. /\ Len(given') = Len(given) + 1 /\ Len(given) \in Nat
        /\ given'[Len(given) + 1] = new
        /\ \A a \in 1 .. Len(given) : given'[a] = given[a]
    BY <2>1
  <2>3. QED
    BY <2>1, <2>2 DEF UnderCap
<1>2. CASE Call \/ Double \/ Cap \/ UNCHANGED vars
  <2>1. UNCHANGED <<max, given>>
    BY <1>2 DEF Call, Double, Cap, vars, policy
  <2>2. QED
    BY <2>1 DEF UnderCap
<1>3. QED
  BY <1>1, <1>2 DEF Next

(***************************************************************************)
(* No backoff is above MaxBackoff, whatever the policy: where doubling     *)
(* overflows the result is small or negative, never too long.  Under a     *)
(* sound one the backoffs are positive and never shrink from one attempt   *)
(* to the next.                                                            *)
(***************************************************************************)
THEOREM BackoffCapped == Spec => []Capped
<1>1. Init => UnderCap
  BY DEF Init, UnderCap
<1>2. TypeOK /\ UnderCap /\ [Next]_vars => UnderCap'
  BY UnderCapStep
<1>3. ScheduleInv /\ UnderCap => Capped
  BY DEF ScheduleInv, Growing, UnderCap, Capped
<1>4. QED
  BY <1>1, <1>2, <1>3, BackoffType, ScheduleInvariant, PTL DEF Spec

-----------------------------------------------------------------------------
(* A call of Next returns.                                                 *)

\* The steps the iterator's loop has left, in the call that is in progress.
Turns == IF phase = "idle" THEN 0 ELSE IF phase = "capped" THEN 1 ELSE attempt - n + 2

CallsEnd ==
    [][ \/ phase = "idle" /\ attempt' = attempt + 1
        \/ attempt' = attempt /\ Turns' \in Nat /\ Turns' < Turns ]_vars

(***************************************************************************)
(* Every step of the loop brings the end of its call nearer, with any      *)
(* policy, and only the beginning of a call raises the count of attempts,  *)
(* which BackoffType bounds: the dispatcher never hangs in Next.           *)
(***************************************************************************)
THEOREM BackoffEnds == Spec => CallsEnd
<1> DEFINE Nearer == \/ phase = "idle" /\ attempt' = attempt + 1
                     \/ attempt' = attempt /\ Turns' \in Nat /\ Turns' < Turns
<1>1. TypeOK /\ Counted /\ [Next]_vars => [Nearer]_vars
  <2> SUFFICES ASSUME TypeOK, Counted, Next PROVE Nearer
    OBVIOUS
  <2>0. attempt \in Nat /\ n \in 0 .. attempt
    BY DEF TypeOK
  <2>1. CASE Call
    BY <2>1 DEF Call
  <2>2. CASE Double
    <3>1. /\ phase = "doubling" /\ phase' = "doubling"
          /\ n < attempt /\ n' = n + 1 /\ attempt' = attempt
      BY <2>2 DEF Double
    <3>2. QED
      BY <2>0, <3>1 DEF Turns
  <2>3. CASE Cap
    <3>1. /\ phase = "doubling" /\ phase' = "capped"
          /\ n < attempt /\ attempt' = attempt
      BY <2>3 DEF Cap
    <3>2. QED
      BY <2>0, <3>1 DEF Turns
  <2>4. CASE Return
    <3>1. /\ phase = "capped" \/ (phase = "doubling" /\ n = attempt)
          /\ phase' = "idle" /\ attempt' = attempt
      BY <2>4 DEF Return, policy
    <3>2. QED
      BY <2>0, <3>1 DEF Turns
  <2>5. QED
    BY <2>1, <2>2, <2>3, <2>4 DEF Next
<1>2. ScheduleInv => TypeOK /\ Counted
  BY DEF ScheduleInv
<1> HIDE DEF Nearer
<1>3. Spec => [][Nearer]_vars
  BY <1>1, <1>2, ScheduleInvariant, PTL DEF Spec
<1>4. QED
  BY <1>3 DEF Nearer, CallsEnd

-----------------------------------------------------------------------------
(* The bound on the sleep.  A call in progress has counted its attempt and *)
(* not slept for it yet.                                                   *)

Waits(k) == IF k > 1 THEN k - 1 ELSE 0

Rested == slept <= Waits(IF phase = "idle" THEN attempt ELSE attempt - 1) * Positive(max)

\* No wait is longer than the cap, jittered or not, negative or not.
LEMMA WaitCapped ==
  ASSUME NEW b \in Int, NEW m \in Int, NEW wait \in Jitter(Lesser(b, m))
  PROVE  Positive(wait) \in Nat /\ Positive(wait) <= Positive(m)
BY DEF Jitter, Lesser, Positive

LEMMA OneMore == \A k, p \in Nat : k * p + p = (k + 1) * p
OBVIOUS

LEMMA RestedStep ==
    ASSUME TypeOK, Counted, Rested, [Next]_vars
    PROVE  Rested'
<1>0. /\ base \in Int /\ max \in Int /\ attempt \in Nat /\ slept \in Nat
      /\ Positive(max) \in Nat
  BY DEF TypeOK, Durations, Positive
<1>1. CASE Call
  <2>1. /\ phase = "idle" /\ phase' = "doubling" /\ attempt' = attempt + 1
        /\ UNCHANGED <<max, slept>>
    BY <1>1 DEF Call, policy
  <2>2. attempt' - 1 = attempt
    BY <1>0, <2>1
  <2>3. QED
    BY <2>1, <2>2 DEF Rested
<1>2. CASE Double \/ Cap
  <2>1. /\ phase # "idle" /\ phase' # "idle" /\ UNCHANGED <<max, attempt, slept>>
    BY <1>2 DEF Double, Cap, policy
  <2>2. QED
    BY <2>1 DEF Rested
<1>3. CASE Return
  <2>1. /\ phase # "idle" /\ phase' = "idle" /\ UNCHANGED <<max, attempt>>
    BY <1>3 DEF Return, policy
  <2>2. PICK wait \in Jitter(Lesser(base, max)) :
          slept' = IF attempt > 1 THEN slept + Positive(wait) ELSE slept
    BY <1>3 DEF Return
  <2>3. Positive(wait) \in Nat /\ Positive(wait) <= Positive(max)
    BY <1>0, <2>2, WaitCapped
  <2>4. slept <= Waits(attempt - 1) * Positive(max)
    BY <2>1 DEF Rested
  <2>5. CASE attempt > 1
    <3>1. /\ Waits(attempt - 1) \in Nat
          /\ Waits(attempt) = Waits(attempt - 1) + 1
      BY <1>0, <2>5 DEF Waits
    <3>2. Waits(attempt - 1) * Positive(max) + Positive(max) = Waits(attempt) * Positive(max)
      BY <1>0, <3>1, OneMore
    <3>3. Waits(attempt - 1) * Positive(max) \in Nat
      BY <1>0, <3>1
    <3>4. slept' = slept + Positive(wait)
      BY <2>2, <2>5
    <3>5. slept' <= Waits(attempt - 1) * Positive(max) + Positive(max)
      BY <1>0, <2>3, <2>4, <3>3, <3>4
    <3>6. QED
      BY <2>1, <3>2, <3>5 DEF Rested
  <2>6. CASE ~(attempt > 1)
    <3>1. Waits(attempt) = Waits(attempt - 1) /\ slept' = slept
      BY <1>0, <2>2, <2>6 DEF Waits
    <3>2. QED
      BY <2>1, <2>4, <3>1 DEF Rested
  <2>7. QED
    BY <2>5, <2>6
<1>4. CASE UNCHANGED vars
  BY <1>4 DEF Rested, vars, policy
<1>5. QED
  BY <1>1, <1>2, <1>3, <1>4 DEF Next

(***************************************************************************)
(* What the dispatcher sleeps for one message is at most the cap for each  *)
(* attempt after the first, for every policy, sound or not.                *)
(***************************************************************************)
THEOREM BackoffBounded == Spec => []SleepBounded
<1>1. Init => TypeOK /\ Counted /\ Rested
  <2> SUFFICES ASSUME Init PROVE TypeOK /\ Counted /\ Rested
    OBVIOUS
  <2>1. Positive(max) \in Nat
    BY DEF Init, Durations, Positive
  <2>2. Waits(0) * Positive(max) = 0
    BY <2>1 DEF Waits
  <2>3. QED
    BY <2>2 DEF Init, TypeOK, Durations, Counted, Rested
<1>2. TypeOK /\ Counted /\ Rested /\ [Next]_vars => TypeOK' /\ Counted' /\ Rested'
  BY TypeStep, CountedStep, RestedStep
<1>3. TypeOK /\ Counted /\ Rested => SleepBounded
  <2> SUFFICES ASSUME TypeOK, Counted, Rested PROVE SleepBounded
    OBVIOUS
  <2>1. /\ attempt \in Nat /\ Positive(max) \in Nat /\ slept \in Nat
        /\ Waits(attempt) \in Nat /\ Waits(attempt - 1) \in Nat
    BY DEF TypeOK, Durations, Positive, Waits
  <2>2. Waits(attempt) = IF attempt > 0 THEN attempt - 1 ELSE 0
    BY <2>1 DEF Waits
  <2>3. CASE phase = "idle"
    BY <2>2, <2>3 DEF Rested, SleepBounded
  <2>4. CASE phase # "idle" /\ Waits(attempt) = Waits(attempt - 1)
    BY <2>2, <2>4 DEF Rested, SleepBounded
  <2>5. CASE phase # "idle" /\ Waits(attempt) # Waits(attempt - 1)
    <3>1. Waits(attempt) = Waits(attempt - 1) + 1
      BY <2>1, <2>5 DEF Waits
    <3>2. Waits(attempt - 1) * Positive(max) + Positive(max) = Waits(attempt) * Positive(max)
      BY <2>1, <3>1, OneMore
    <3>3. slept <= Waits(attempt - 1) * Positive(max)
      BY <2>5 DEF Rested
    <3>4. Waits(attempt - 1) * Positive(max) \in Nat
      BY <2>1
    <3>5. slept <= Waits(attempt) * Positive(max)
      BY <2>1, <3>2, <3>3, <3>4
    <3>6. QED
      BY <2>2, <3>5 DEF SleepBounded
  <2>6. QED
    BY <2>3, <2>4, <2>5
<1>4. QED
  BY <1>1, <1>2, <1>3, PTL DEF Spec
=============================================================================
