------------------------------- MODULE Pipeline -------------------------------
(***************************************************************************)
(* The whole way: callers of the client, the writers, the topic, the       *)
(* deliverer, and the keys that are rotated meanwhile.  The writers and    *)
(* the deliverer are what they promise, Acceptance and Delivery, which     *)
(* Writer and Deliverer implement; what is added is the answers as the     *)
(* client sees them and the encryption.                                    *)
(***************************************************************************)
EXTENDS Client, Keys

CONSTANTS
    Refusals,   \* the answers in play that refuse a submission
    Statuses    \* the outcomes in play

ASSUME RefusalsAssumption ==
    Refusals \subseteq Answers \ {"envelope", "substrate-unavailable"}
ASSUME StatusesAssumption ==
    Statuses \subseteq {"delivered", "permanently-failed", "expired"}

VARIABLES
    handed, held,                \* of Acceptance, of requests
    answer,                      \* answer[r]: the writer's answer to r
    under,                       \* under[r]: the keys r is encrypted under
    lost,                        \* handed over and never to be stored
    pending, taken, verdicts,    \* of Delivery, of requests
    alive                        \* Alive of Deliverer: it is up with a live worker

wvars == <<handed, held, answer, under, lost>>
dvars == <<pending, taken, verdicts, alive>>
vars == <<clvars, kvars, wvars, dvars>>

\* Word of Writer, of the answers as the client tells them apart.
Word(a) ==
    CASE a = "none" -> "nothing"
      [] a = "envelope" -> "accepted"
      [] a = "substrate-unavailable" -> "retry"
      [] OTHER -> "refused"

\* Every request is published under a notification_id of its own: nothing
\* recognises a second one by its idempotency key.
W == INSTANCE Acceptance
        WITH Submissions <- Requests, told <- [r \in Requests |-> Word(answer[r])]

D == INSTANCE Delivery WITH Messages <- Requests

Init ==
    /\ ClientInit /\ KeysInit /\ D!Init
    /\ handed = {} /\ held = {} /\ lost = {}
    /\ answer = [r \in Requests |-> "none"]
    /\ under = [r \in Requests |-> {}]
    /\ alive = TRUE

-----------------------------------------------------------------------------
(* The client.                                                             *)

Submit(s) ==
    /\ \/ FailLocally(s) \/ Send(s) \/ Resend(s) \/ GiveUp(s)
       \/ /\ Latest(s) \in Requests /\ answer[Latest(s)] # "none"
          /\ ReadAnswer(s, answer[Latest(s)])
    /\ UNCHANGED <<kvars, wvars, dvars>>

-----------------------------------------------------------------------------
(* The writers, as Acceptance describes them.                              *)

\* A writer that runs has r.
Arrived(r) == r \in posted /\ \E w \in Writers : names[w] # {}

\* The producer encrypts under every active name.
Hand(r) ==
    /\ Arrived(r) /\ r \notin handed
    /\ \E w \in Writers :
         /\ names[w] # {}
         /\ under' = [under EXCEPT ![r] = names[w]]
    /\ UNCHANGED <<answer, lost, clvars, kvars, dvars>>
    /\ W!Hand(r)

Hold(r) ==
    /\ r \notin lost
    /\ UNCHANGED <<answer, under, lost, clvars, kvars, dvars>>
    /\ W!Hold(r)

\* The connection to the broker breaks, or the writer dies.
Lose(r) ==
    /\ r \in handed \ held
    /\ lost' = lost \cup {r}
    /\ UNCHANGED <<handed, held, answer, under, clvars, kvars, dvars>>

Replies == Refusals \cup {"envelope", "substrate-unavailable"}

\* Perhaps on a connection nobody reads any more.
Tell(r, a) ==
    /\ Arrived(r)
    /\ answer' = [answer EXCEPT ![r] = a]
    /\ W!Tell(r, Word(a))
    /\ UNCHANGED <<under, lost, clvars, kvars, dvars>>

-----------------------------------------------------------------------------
(* The deliverer, as Delivery describes it.                                *)

\* Mutant of Readable: the deliverer is configured with one key, the latest.
ReadableLatest(r) == (IF New \in priv THEN New ELSE Old) \in under[r]

\* Any of the keys of a message will do, if its file is there when asked for.
Readable(r) == under[r] \cap priv # {}

\* A worker has r.  When it is retired, a second copy may still be in hand.
Received(r) == r \in held /\ (r \in pending => Readable(r))

Push(r) == Received(r) /\ D!Take(r) /\ UNCHANGED <<alive, clvars, kvars, wvars>>

Decide(r) ==
    /\ Received(r)
    /\ \E status \in Statuses : D!Decide(r, status)
    /\ UNCHANGED <<alive, clvars, kvars, wvars>>

\* The acknowledgement reaches the broker; nobody sees it when it does not.
Retire(r) == r \in pending /\ D!Retire(r) /\ UNCHANGED <<alive, clvars, kvars, wvars>>

\* The last worker fails or the process goes down, and is started again.
ComeAndGo ==
    /\ alive' = ~alive
    /\ UNCHANGED <<pending, taken, verdicts, clvars, kvars, wvars>>

-----------------------------------------------------------------------------
(* The operator.  What the producers have sent and the broker has yet to   *)
(* store counts: the safety margin of step 5 is for it.                    *)

Unfinished == (handed \ lost) \cap pending

Operate ==
    /\ \/ DistributePrivate \/ DistributePublic
       \/ OpenOverlap \/ RollBack
       \/ RetireOld(\A r \in Unfinished : under[r] # {Old})
       \/ RemovePublic(\A r \in Unfinished : Old \notin under[r])
       \/ RemovePrivate(\A r \in Unfinished : Old \notin under[r])
       \/ \E w \in Writers : StartWriter(w) \/ StopWriter(w)
    /\ UNCHANGED <<clvars, wvars, dvars>>

-----------------------------------------------------------------------------

Next ==
    \/ Operate
    \/ ComeAndGo
    \/ \E s \in Submissions : Submit(s)
    \/ \E r \in Requests :
         \/ Hand(r) \/ Hold(r) \/ Lose(r) \/ \E a \in Replies : Tell(r, a)
         \/ Push(r) \/ Decide(r) \/ Retire(r)

Spec == Init /\ [][Next]_vars

Decided(r) == \E v \in Statuses : <<r, v>> \in verdicts

(***************************************************************************)
(* While it has a live worker, the deliverer comes to a first verdict on a *)
(* message it can read: EveryMessageDecided of Deliverer, with its premise *)
(* and no more.  That an acknowledgement ever arrives is not assumed, for  *)
(* its error is dropped, and nothing of the callers, the writers, the      *)
(* broker or the operator.                                                 *)
(***************************************************************************)
Fairness == \A r \in Requests : WF_vars(alive /\ ~Decided(r) /\ Decide(r))

FairSpec == Spec /\ Fairness

-----------------------------------------------------------------------------
(* What must hold.                                                         *)

TypeOK ==
    /\ ClientTypeOK /\ KeysTypeOK
    /\ handed \subseteq posted /\ held \subseteq handed
    /\ lost \subseteq handed \ held
    /\ answer \in [Requests -> Answers \cup {"none"}]
    /\ under \in [Requests -> SUBSET {Old, New}]
    /\ pending \subseteq Requests /\ taken \subseteq held
    /\ verdicts \subseteq held \X Statuses
    /\ alive \in BOOLEAN

\* What Submit returns of a submission that may or may not be on the topic.
Ambiguous == {"substrate-unavailable", "transport error", "unreadable body"}

(***************************************************************************)
(* "errors.Is against the exported sentinels identifies the category", and *)
(* by the category a caller knows the fate: after the response the topic   *)
(* holds its notification; after any other error than an ambiguous one it  *)
(* was never handed over, and no writer, broker or deliverer that is late  *)
(* can push it any more.  Only a caller who gave an idempotency key has to *)
(* doubt that: the error is the answer to the last request, and one before *)
(* it, which the transport gave up, may be on the topic.                   *)
(***************************************************************************)
ResultTellsFate ==
    \A s \in Submissions :
      /\ result[s] = "response" => Latest(s) \in held
      /\ result[s] \notin Ambiguous \cup {"response", "none"} =>
           \A r \in handed \cup taken : r[1] = s => s \in keyed /\ r # Latest(s)

(***************************************************************************)
(* FR-017 and the runbook, "in-flight messages already encrypted under the *)
(* outgoing key are still decryptable": at every moment of a rotation the  *)
(* deliverer can read every message it may still receive, whichever writer *)
(* sent it under whichever configuration.                                  *)
(***************************************************************************)
UnfinishedReadable == \A r \in Unfinished : Readable(r)

(***************************************************************************)
(* SC-003: as long as the deliverer comes back to stay, with a live        *)
(* worker, what Submit has reported accepted is decided, in spite of       *)
(* crashes of writers and through a rotation at any pace.                  *)
(***************************************************************************)
AcceptedDecided ==
    <>[]alive =>
      \A s \in Submissions : result[s] = "response" ~> result[s] = "response" /\ Decided(Latest(s))
=============================================================================
