------------------------------- MODULE Backoff -------------------------------
(***************************************************************************)
(* The backoff schedule of one Dispatch: retry.Iterator, which computes    *)
(* every backoff from the beginning by doubling, and the dispatcher's      *)
(* loop, which sleeps them.  A time.Duration is a two's complement integer *)
(* (int64 nanoseconds), so that doubling may overflow; Limit stands for    *)
(* 2^63.  config.Load validates neither of the two durations.              *)
(***************************************************************************)
EXTENDS Integers, Sequences

CONSTANTS
    Limit,      \* durations are -Limit .. Limit - 1
    Settings,   \* the durations an operator may configure
    MaxAttempts \* DELIVERER_RETRY_MAX_ATTEMPTS

Durations == -Limit .. Limit - 1

ASSUME LimitAssumption == Limit \in Nat \ {0}
ASSUME SettingsAssumption == Settings \subseteq Durations
ASSUME BudgetAssumption == MaxAttempts \in Nat \ {0}

VARIABLES
    initial,  \* Policy.InitialBackoff
    max,      \* Policy.MaxBackoff
    attempt,  \* Iterator.attempt
    phase,    \* "idle" between two calls of Next, "doubling" in its loop, "capped" after break
    n,        \* the loop's counter
    base,     \* the loop's backoff
    given,    \* given[a]: the backoff the a-th call computed, before jitter
    slept     \* what the dispatcher has slept, in all

policy == <<initial, max>>
vars == <<policy, attempt, phase, n, base, given, slept>>

Lesser(a, b) == IF a <= b THEN a ELSE b
Positive(d) == IF d > 0 THEN d ELSE 0

\* What is left in a Duration of d, the double of one.
Wrap(d) ==
    IF d >= Limit THEN d - 2 * Limit
    ELSE IF d < -Limit THEN d + 2 * Limit
    ELSE d

\* Mutant of Jitter: as much again on top.
JitterOnTop(b) == b .. 2 * b

\* Full jitter: rng() * base, truncated towards zero.
Jitter(b) == IF b >= 0 THEN 0 .. b ELSE b .. 0

Init ==
    /\ initial \in Settings
    /\ max \in Settings
    /\ attempt = 0
    /\ phase = "idle"
    /\ n = 0
    /\ base = 0
    /\ given = <<>>
    /\ slept = 0

\* Mutant of Call: one doubling too many.
CallFromZero ==
    /\ phase = "idle"
    /\ attempt < MaxAttempts
    /\ attempt' = attempt + 1
    /\ base' = initial
    /\ n' = 0
    /\ phase' = "doubling"
    /\ UNCHANGED <<policy, given, slept>>

\* The dispatcher's loop, ~Done: Next begins.
Call ==
    /\ phase = "idle"
    /\ attempt < MaxAttempts
    /\ attempt' = attempt + 1
    /\ base' = initial
    /\ n' = 1
    /\ phase' = "doubling"
    /\ UNCHANGED <<policy, given, slept>>

\* One turn of the loop that does not reach the cap.
Double ==
    /\ phase = "doubling" /\ n < attempt
    /\ Wrap(2 * base) < max
    /\ base' = Wrap(2 * base)
    /\ n' = n + 1
    /\ UNCHANGED <<policy, attempt, phase, given, slept>>

\* One that does: break.
Cap ==
    /\ phase = "doubling" /\ n < attempt
    /\ Wrap(2 * base) >= max
    /\ base' = max
    /\ phase' = "capped"
    /\ UNCHANGED <<policy, attempt, n, given, slept>>

\* Next returns; the dispatcher sleeps a positive backoff, from the second
\* attempt on, and then pushes.
Return ==
    /\ phase = "capped" \/ (phase = "doubling" /\ n = attempt)
    /\ given' = Append(given, Lesser(base, max))
    /\ \E wait \in Jitter(Lesser(base, max)) :
         slept' = IF attempt > 1 THEN slept + Positive(wait) ELSE slept
    /\ phase' = "idle"
    /\ n' = 0
    /\ base' = 0
    /\ UNCHANGED <<policy, attempt>>

Next == Call \/ Double \/ Cap \/ Return

Spec == Init /\ [][Next]_vars

-----------------------------------------------------------------------------

\* The types: the proofs rest on them.
TypeOK ==
    /\ initial \in Settings /\ max \in Settings
    /\ attempt \in 0 .. MaxAttempts
    /\ phase \in {"idle", "doubling", "capped"}
    /\ n \in 0 .. attempt
    /\ base \in Durations
    /\ given \in Seq(Durations)
    /\ slept \in Nat

\* A policy that means something, and whose doubling cannot overflow.
Sound == initial > 0 /\ max > 0 /\ 2 * initial < Limit /\ 2 * max <= Limit

(***************************************************************************)
(* "Exponential backoff from InitialBackoff doubling each step, capped at  *)
(* MaxBackoff": each backoff is the double of the one before it, or the    *)
(* cap, though every call computes it anew.                                *)
(***************************************************************************)
Schedule ==
    Sound => \A a \in 1 .. Len(given) :
               given[a] = IF a = 1 THEN Lesser(initial, max)
                                   ELSE Lesser(2 * given[a - 1], max)

(***************************************************************************)
(* Backing off holds a message, and its worker, for (MaxAttempts - 1) *    *)
(* MaxBackoff at most, whatever the policy, overflow included; nothing is  *)
(* slept before the first attempt.                                         *)
(***************************************************************************)
SleepBounded ==
    slept <= (IF attempt > 0 THEN attempt - 1 ELSE 0) * Positive(max)
=============================================================================
