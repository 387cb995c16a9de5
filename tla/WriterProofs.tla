----------------------------- MODULE WriterProofs -----------------------------
(***************************************************************************)
(* Proofs about Writer, for every set of requests of any kinds and any     *)
(* number of starts.  Every way to answer a request is first brought into  *)
(* one form (Answering): what the answer is, where the handler came from   *)
(* and what it counts.  The invariants then relate that to the topic and   *)
(* to what the request is.                                                 *)
(***************************************************************************)
EXTENDS Writer, TLAPS

USE StartsAssumption

\* Request r is answered a, Accept's error is f and the counter's label is c.
Reply(r, a, f, c) ==
    /\ Running
    /\ pc[r] \in {"connected", "reading", "sending"}
    /\ pc' = [pc EXCEPT ![r] = "answered"]
    /\ answer' = [answer EXCEPT ![r] = a]
    /\ failure' = [failure EXCEPT ![r] = f]
    /\ counted' = [counted EXCEPT ![r] = c]
    /\ UNCHANGED <<req, gone, topic, process>>

\* The reply is one the writer may give from where it stands.
Fitting(r, a, f, c) ==
    /\ a \in Answers /\ c \in CountedAs(a)
    /\ a = Accepted => r \in stored
    /\ a \notin {Accepted, SubstrateUnavailable} => pc[r] # "sending"
    /\ f = "closed" => f = failure[r] \/ proc = "closed"

Replies(r) ==
    \/ AnswerHealth(r) \/ RefuseCaller(r) \/ MissRoute(r) \/ PanicOnKeys(r)
    \/ RejectBody(r) \/ RejectInvalid(r) \/ FailIdentifier(r) \/ FailMarshal(r)
    \/ PublishClosed(r) \/ SendOk(r) \/ SendError(r)

\* What is not yet answered has no reply, and no label.
Unanswered ==
    \A r \in Requests :
      pc[r] # "answered" => answer[r] = NoAnswer /\ counted[r] = "none" /\ failure[r] = "none"

-----------------------------------------------------------------------------
(* Types.                                                                  *)

LEMMA TypeInit == Init => TypeOK
BY DEF Init, TypeOK, Points

\* The answers are told apart by status and kind.
LEMMA StatusAndKind ==
    /\ ValidationFailed.status = 400
    /\ AuthenticationRequired.status = 401 /\ AuthenticationFailed.status = 401
    /\ UnsupportedContentType.status = 415
    /\ SubstrateUnavailable.status = 503
    /\ Internal.status = 500 /\ Internal.kind = "internal"
    /\ Accepted.status = 202 /\ Healthy.status = 204 /\ NoRoute.status = 404
    /\ Panicked.status = 500 /\ Panicked.kind = "plain"
    /\ NoAnswer.status = 0
BY DEF ValidationFailed, AuthenticationRequired, AuthenticationFailed, UnsupportedContentType,
       SubstrateUnavailable, Internal, Accepted, Healthy, NoRoute, Panicked, NoAnswer, Problem

LEMMA AnswersDiffer ==
    /\ Accepted \notin {NoAnswer, ValidationFailed, UnsupportedContentType,
                        SubstrateUnavailable, Internal}
    /\ SubstrateUnavailable \notin {NoAnswer, ValidationFailed, UnsupportedContentType, Internal}
    /\ Internal \notin {NoAnswer, ValidationFailed, UnsupportedContentType}
    /\ NoAnswer \notin Answers
    /\ {Healthy, AuthenticationRequired, AuthenticationFailed, NoRoute, Panicked, NoAnswer}
         \cap {Accepted, ValidationFailed, UnsupportedContentType, SubstrateUnavailable, Internal}
         = {}
BY StatusAndKind DEF Answers, ProblemDocuments

\* The answers and labels of Accept's errors.
LEMMA ErrorsTyped ==
    ASSUME NEW f \in Failures
    PROVE  /\ IngestAnswer(f) \in {ValidationFailed, SubstrateUnavailable, Internal}
           /\ IngestOutcome(f) \in CountedAs(IngestAnswer(f))
           /\ f \in PublishErrors <=> IngestAnswer(f) = SubstrateUnavailable
<1>1. CASE f = "validation"
  <2>1. IngestAnswer(f) = ValidationFailed /\ IngestOutcome(f) = "validation_failed"
    BY <1>1 DEF IngestAnswer, IngestOutcome, PublishErrors
  <2>2. CountedAs(ValidationFailed) = {"validation_failed"}
    BY AnswersDiffer DEF CountedAs
  <2>3. QED
    BY <1>1, <2>1, <2>2, AnswersDiffer DEF PublishErrors
<1>2. CASE f \in PublishErrors
  <2>1. IngestAnswer(f) = SubstrateUnavailable /\ IngestOutcome(f) = "substrate_unavailable"
    BY <1>2 DEF IngestAnswer, IngestOutcome, PublishErrors
  <2>2. CountedAs(SubstrateUnavailable) = {"substrate_unavailable"}
    BY AnswersDiffer DEF CountedAs
  <2>3. QED
    BY <1>2, <2>1, <2>2
<1>3. CASE f \in {"identifier", "marshal"}
  <2>1. IngestAnswer(f) = Internal /\ IngestOutcome(f) = "internal"
    BY <1>3 DEF IngestAnswer, IngestOutcome, PublishErrors
  <2>2. CountedAs(Internal) = {"internal"}
    BY AnswersDiffer DEF CountedAs
  <2>3. QED
    BY <1>3, <2>1, <2>2, AnswersDiffer DEF PublishErrors
<1>4. QED
  BY <1>1, <1>2, <1>3 DEF Failures

LEMMA LabelsTyped == ASSUME NEW a PROVE CountedAs(a) \subseteq Outcomes \cup {"none"}
BY DEF CountedAs, Outcomes

\* When Accept fails from the body or from Send, the reply fits.
LEMMA FailReplies ==
    ASSUME TypeOK, NEW r \in Requests, NEW f \in Failures, Fail(r, f), Running,
           pc[r] \in {"reading", "sending"},
           pc[r] = "sending" => f \in PublishErrors,
           f = "closed" => proc = "closed"
    PROVE  \E a, c : Reply(r, a, f, c) /\ Fitting(r, a, f, c)
<1>1. Reply(r, IngestAnswer(f), f, IngestOutcome(f))
  BY DEF Fail, Finish, Write, Reply
<1>2. IngestAnswer(f) \in Answers /\ IngestAnswer(f) # Accepted
  BY ErrorsTyped, AnswersDiffer DEF Answers, ProblemDocuments
<1>3. Fitting(r, IngestAnswer(f), f, IngestOutcome(f))
  BY <1>2, ErrorsTyped DEF Fitting
<1>4. QED
  BY <1>1, <1>3

\* An answer from the middleware, the router or the recovery fits.
LEMMA ChainReplies ==
    ASSUME TypeOK, Unanswered, NEW r \in Requests, Arrived(r),
           NEW a \in {Healthy, AuthenticationRequired, AuthenticationFailed, NoRoute, Panicked},
           Write(r, a),
           UNCHANGED <<req, gone, topic, failure, counted, process>>
    PROVE  Reply(r, a, failure[r], counted[r]) /\ Fitting(r, a, failure[r], counted[r])
<1>1. pc[r] = "connected" /\ Running /\ counted[r] = "none"
  BY DEF Arrived, Unanswered
<1>2. Reply(r, a, failure[r], counted[r])
  BY <1>1 DEF Reply, Write, TypeOK
<1>3. /\ a \in Answers /\ a # Accepted /\ a # SubstrateUnavailable
      /\ CountedAs(a) = {"none"}
  BY AnswersDiffer DEF Answers, ProblemDocuments, CountedAs
<1>4. QED
  BY <1>1, <1>2, <1>3 DEF Fitting

\* Every answering step is a reply that fits.
LEMMA Answering ==
    ASSUME TypeOK, Unanswered, NEW r \in Requests, Replies(r)
    PROVE  \E a, c : \E f \in Failures \cup {"none"} :
              Reply(r, a, f, c) /\ Fitting(r, a, f, c)
<1>0. failure[r] \in Failures \cup {"none"}
  BY DEF TypeOK
<1>1. CASE AnswerHealth(r)
  BY <1>0, <1>1, ChainReplies DEF AnswerHealth, Turn
<1>2. CASE RefuseCaller(r)
  <2>1. CASE Turn(r, AuthenticationRequired)
    BY <1>0, <1>2, <2>1, ChainReplies DEF RefuseCaller, Turn
  <2>2. CASE Turn(r, AuthenticationFailed)
    BY <1>0, <1>2, <2>2, ChainReplies DEF RefuseCaller, Turn
  <2>3. QED
    BY <1>2, <2>1, <2>2 DEF RefuseCaller
<1>3. CASE MissRoute(r)
  BY <1>0, <1>3, ChainReplies DEF MissRoute, Admitted, Turn
<1>4. CASE PanicOnKeys(r)
  BY <1>0, <1>4, ChainReplies DEF PanicOnKeys, Admitted, Turn
<1>5. CASE RejectBody(r)
  <2>1. PICK body \in {"unreadable", "unsupported", "undecodable"} :
          /\ Read(r, body)
          /\ Finish(r, DecodeProblem(body), "validation_failed")
          /\ UNCHANGED failure
    BY <1>5 DEF RejectBody
  <2>2. DecodeProblem(body) \in {ValidationFailed, UnsupportedContentType}
    BY DEF DecodeProblem
  <2>3. Reply(r, DecodeProblem(body), failure[r], "validation_failed")
    BY <2>1 DEF Read, Finish, Write, Reply, TypeOK
  <2>4. /\ DecodeProblem(body) \in Answers
        /\ DecodeProblem(body) # Accepted
        /\ "validation_failed" \in CountedAs(DecodeProblem(body))
    BY <2>2, AnswersDiffer DEF Answers, ProblemDocuments, CountedAs
  <2>5. Fitting(r, DecodeProblem(body), failure[r], "validation_failed")
    BY <2>1, <2>4 DEF Fitting, Read
  <2>6. QED
    BY <1>0, <2>3, <2>5
<1>6. CASE RejectInvalid(r)
  BY <1>6, FailReplies DEF RejectInvalid, Read, Failures, PublishErrors
<1>7. CASE FailIdentifier(r)
  BY <1>7, FailReplies DEF FailIdentifier, Read, Failures, PublishErrors
<1>8. CASE FailMarshal(r)
  BY <1>8, FailReplies DEF FailMarshal, Read, Failures, PublishErrors
<1>9. CASE PublishClosed(r)
  BY <1>9, FailReplies DEF PublishClosed, Publishable, Read, Failures, PublishErrors
<1>10. CASE SendOk(r)
  <2>1. Reply(r, Accepted, failure[r], "accepted")
    BY <1>10 DEF SendOk, Finish, Write, Reply, TypeOK
  <2>2. Fitting(r, Accepted, failure[r], "accepted")
    <3>1. Accepted \in Answers /\ CountedAs(Accepted) = {"accepted"}
      BY AnswersDiffer DEF Answers, CountedAs
    <3>2. QED
      BY <1>10, <3>1 DEF SendOk, Fitting
  <2>3. QED
    BY <1>0, <2>1, <2>2
<1>11. CASE SendError(r)
  BY <1>11, FailReplies DEF SendError, Failures, PublishErrors
<1>12. QED
  BY <1>1, <1>2, <1>3, <1>4, <1>5, <1>6, <1>7, <1>8, <1>9, <1>10, <1>11 DEF Replies

LEMMA TypeStep == TypeOK /\ Unanswered /\ [Next]_vars => TypeOK' /\ Unanswered'
<1> SUFFICES ASSUME TypeOK, Unanswered, [Next]_vars
             PROVE  TypeOK' /\ Unanswered'
  OBVIOUS
<1> USE DEF topic, replies, process
<1>1. ASSUME NEW r \in Requests, Replies(r) PROVE TypeOK' /\ Unanswered'
  <2>1. PICK a, c : \E f \in Failures \cup {"none"} :
          Reply(r, a, f, c) /\ Fitting(r, a, f, c)
    BY <1>1, Answering
  <2>2. PICK f \in Failures \cup {"none"} : Reply(r, a, f, c) /\ Fitting(r, a, f, c)
    BY <2>1
  <2>3. c \in Outcomes \cup {"none"}
    BY <2>2, LabelsTyped DEF Fitting
  <2>4. QED
    BY <2>2, <2>3 DEF Reply, Fitting, TypeOK, Points, Unanswered
<1>2. ASSUME NEW r \in Requests,
             Connect(r) \/ CloseIdle(r) \/ StartHandler(r) \/ Publish(r) \/ Leave(r) \/ Store(r)
      PROVE  TypeOK' /\ Unanswered'
  BY <1>2 DEF Connect, CloseIdle, StartHandler, Admitted, Arrived, Publish, Publishable, Read,
     Leave, Store, TypeOK, Points, Unanswered
<1>3. CASE Signal \/ ShutdownDone \/ GraceExpires \/ ListenerFails \/ Start
  <2>1. CASE Signal
    BY <2>1 DEF Signal, TypeOK, Unanswered
  <2>2. CASE ShutdownDone \/ GraceExpires \/ ListenerFails
    BY <2>2 DEF ShutdownDone, GraceExpires, ListenerFails, ClosePublisher, TypeOK, Unanswered
  <2>3. CASE Start
    <3>1. starts \in 1 .. MaxStarts
      BY DEF TypeOK
    <3>2. starts' \in 1 .. MaxStarts
      BY <2>3, <3>1 DEF Start
    <3>3. QED
      BY <2>3, <3>2 DEF Start, TypeOK, Unanswered
  <2>4. QED
    BY <1>3, <2>1, <2>2, <2>3
<1>4. CASE Exit \/ Crash
  BY <1>4 DEF Exit, Crash, Stop, TypeOK, Points, Handling, Unanswered
<1>5. CASE UNCHANGED vars
  BY <1>5 DEF vars, TypeOK, Unanswered
<1>6. QED
  BY <1>1, <1>2, <1>3, <1>4, <1>5 DEF Next, Chain, HandleBody, Send, Replies

(***************************************************************************)
(* Every variable of the writer keeps its type: every label is one of the  *)
(* counter's outcomes, and every answer one the writer knows.              *)
(***************************************************************************)
THEOREM TypeCorrect == Spec => []TypeOK
<1>1. Init => TypeOK /\ Unanswered
  BY TypeInit DEF Init, Unanswered
<1>2. QED
  BY <1>1, TypeStep, PTL DEF Spec

-----------------------------------------------------------------------------
(* What the answers say of the topic.                                      *)

\* Only a request that passed every check has been handed to the producer,
\* and its handler then waits in Send until it answers or dies.
Checked ==
    /\ \A r \in Requests : pc[r] = "reading" => req[r].creds = "listed"
    /\ \A r \in Requests : pc[r] \in {"unsent", "connected", "reading"} => r \notin queued
    /\ OnlyCheckedPublished

TopicInv ==
    /\ TypeOK /\ Unanswered
    /\ Checked /\ AcceptedMeansStored /\ RefusedMeansUnpublished /\ CountedAsAnswered

LEMMA NotAnsweredUncounted == CountedAs(NoAnswer) = {"none"}
BY AnswersDiffer DEF CountedAs

LEMMA TopicInit == Init => TopicInv
<1> SUFFICES ASSUME Init PROVE TopicInv
  OBVIOUS
<1>1. TypeOK
  BY TypeInit
<1>2. QED
  BY <1>1, NotAnsweredUncounted, AnswersDiffer DEF Init, TopicInv, Unanswered, Checked,
     OnlyCheckedPublished, AcceptedMeansStored, RefusedMeansUnpublished, CountedAsAnswered

\* A fitting reply keeps what the answers say true.
LEMMA ReplyKeeps ==
    ASSUME TopicInv, NEW r \in Requests, NEW a, NEW c, NEW f,
           Reply(r, a, f, c), Fitting(r, a, f, c)
    PROVE  /\ Checked' /\ AcceptedMeansStored' /\ RefusedMeansUnpublished'
           /\ CountedAsAnswered'
<1> USE DEF topic
<1>1. /\ TypeOK /\ Unanswered /\ Checked /\ AcceptedMeansStored
      /\ RefusedMeansUnpublished /\ CountedAsAnswered
  BY DEF TopicInv
<1>2. Checked'
  BY <1>1 DEF Reply, Checked, OnlyCheckedPublished, TypeOK
<1>3. AcceptedMeansStored'
  BY <1>1 DEF Reply, Fitting, AcceptedMeansStored, TypeOK
<1>4. RefusedMeansUnpublished'
  BY <1>1 DEF Reply, Fitting, RefusedMeansUnpublished, TypeOK, Checked
<1>5. CountedAsAnswered'
  BY <1>1 DEF Reply, Fitting, CountedAsAnswered, TypeOK
<1>6. QED
  BY <1>2, <1>3, <1>4, <1>5

LEMMA TopicStep == TopicInv /\ [Next]_vars => TopicInv'
<1> SUFFICES ASSUME TopicInv, [Next]_vars
             PROVE  TopicInv'
  OBVIOUS
<1> USE DEF topic, replies, process
<1>0. TypeOK /\ Unanswered /\ Checked /\ TypeOK' /\ Unanswered'
  BY TypeStep DEF TopicInv
<1> DEFINE Said == AcceptedMeansStored /\ RefusedMeansUnpublished /\ CountedAsAnswered
<1>1. ASSUME NEW r \in Requests, Replies(r) PROVE Checked' /\ Said'
  <2>1. PICK a, c : \E f \in Failures \cup {"none"} :
          Reply(r, a, f, c) /\ Fitting(r, a, f, c)
    BY <1>0, <1>1, Answering
  <2>2. QED
    BY <2>1, ReplyKeeps
<1>2. ASSUME NEW r \in Requests, Connect(r) \/ CloseIdle(r) \/ StartHandler(r) \/ Leave(r)
      PROVE  Checked' /\ Said'
  <2>1. Checked'
    BY <1>0, <1>2 DEF Connect, CloseIdle, StartHandler, Admitted, Arrived, Leave, Checked,
       OnlyCheckedPublished, TypeOK
  <2>2. UNCHANGED <<answer, counted, queued, stored>>
    BY <1>2 DEF Connect, CloseIdle, StartHandler, Leave
  <2>3. QED
    BY <2>1, <2>2 DEF TopicInv, AcceptedMeansStored, RefusedMeansUnpublished, CountedAsAnswered
<1>3. ASSUME NEW r \in Requests, Publish(r) PROVE Checked' /\ Said'
  <2>1. /\ pc[r] = "reading" /\ req[r].body = "valid" /\ answer[r] = NoAnswer
        /\ queued' = queued \cup {r} /\ pc' = [pc EXCEPT ![r] = "sending"]
        /\ UNCHANGED <<req, stored, answer, counted>>
    BY <1>0, <1>3 DEF Publish, Publishable, Read, Unanswered
  <2>2. Checked'
    BY <1>0, <2>1 DEF Checked, OnlyCheckedPublished, TypeOK
  <2>3. QED
    BY <2>1, <2>2 DEF TopicInv, AcceptedMeansStored, RefusedMeansUnpublished, CountedAsAnswered
<1>4. ASSUME NEW r \in Requests, Store(r) PROVE Checked' /\ Said'
  BY <1>4 DEF Store, TopicInv, Checked, OnlyCheckedPublished, AcceptedMeansStored,
     RefusedMeansUnpublished, CountedAsAnswered
<1>5. ASSUME Signal \/ ShutdownDone \/ GraceExpires \/ ListenerFails \/ Start \/ UNCHANGED vars
      PROVE  Checked' /\ Said'
  <2>1. UNCHANGED <<req, pc, answer, counted, queued, stored>>
    BY <1>5 DEF Signal, ShutdownDone, GraceExpires, ListenerFails, ClosePublisher, Start, vars
  <2>2. Checked'
    BY <1>0, <2>1 DEF Checked, OnlyCheckedPublished
  <2>3. Said'
    BY <2>1 DEF TopicInv, AcceptedMeansStored, RefusedMeansUnpublished, CountedAsAnswered
  <2>4. QED
    BY <2>2, <2>3
<1>6. ASSUME Exit \/ Crash PROVE Checked' /\ Said'
  <2>1. \A r \in Requests : pc'[r] \in {"unsent", "connected", "reading"} => pc'[r] = pc[r]
    BY <1>6 DEF Exit, Crash, Stop
  <2>2. UNCHANGED <<req, answer, counted, queued, stored>>
    BY <1>6 DEF Exit, Crash, Stop
  <2>3. Checked'
    BY <1>0, <2>1, <2>2 DEF Checked, OnlyCheckedPublished
  <2>4. Said'
    BY <2>2 DEF TopicInv, AcceptedMeansStored, RefusedMeansUnpublished, CountedAsAnswered
  <2>5. QED
    BY <2>3, <2>4
<1>7. Checked' /\ Said'
  BY <1>1, <1>2, <1>3, <1>4, <1>5, <1>6 DEF Next, Chain, HandleBody, Send, Replies
<1>8. QED
  BY <1>0, <1>7 DEF TopicInv

LEMMA TopicInvariant == Spec => []TopicInv
BY TopicInit, TopicStep, PTL DEF Spec

(***************************************************************************)
(* A caller reads 202 only when the broker has stored its notification.    *)
(***************************************************************************)
THEOREM AcceptedStored == Spec => []AcceptedMeansStored
<1>1. TopicInv => AcceptedMeansStored
  BY DEF TopicInv
<1>2. QED
  BY <1>1, TopicInvariant, PTL

(***************************************************************************)
(* An answer other than 202 and 503 is given only to a request whose       *)
(* notification was never handed to the producer, and never will be.       *)
(***************************************************************************)
THEOREM RefusedUnpublished == Spec => []RefusedMeansUnpublished
<1>1. TopicInv => RefusedMeansUnpublished
  BY DEF TopicInv
<1>2. QED
  BY <1>1, TopicInvariant, PTL

(***************************************************************************)
(* Nothing on the topic comes from an unlisted caller or an invalid body.  *)
(***************************************************************************)
THEOREM OnlyChecked == Spec => []OnlyCheckedPublished
<1>1. TopicInv => OnlyCheckedPublished
  BY DEF TopicInv, Checked
<1>2. QED
  BY <1>1, TopicInvariant, PTL

(***************************************************************************)
(* What the submissions counter says agrees with the answer.               *)
(***************************************************************************)
THEOREM CountsAgree == Spec => []CountedAsAnswered
<1>1. TopicInv => CountedAsAnswered
  BY DEF TopicInv
<1>2. QED
  BY <1>1, TopicInvariant, PTL

-----------------------------------------------------------------------------
(* How main ends.                                                          *)

\* Once the publisher is closed there is a reason; an orderly one means that
\* no handler is left, and none comes.
Ended ==
    /\ proc = "closed" => ending \in {"orderly", "grace expired", "listener failed"}
    /\ ending = "orderly" => proc = "closed" /\ Idle

EndInv == TypeOK /\ Unanswered /\ Ended

LEMMA EndStep == EndInv /\ [Next]_vars => EndInv'
<1> SUFFICES ASSUME EndInv, [Next]_vars
             PROVE  EndInv'
  OBVIOUS
<1> USE DEF topic, replies, process
<1>0. TypeOK /\ Unanswered /\ Ended /\ TypeOK' /\ Unanswered'
  BY TypeStep DEF EndInv
<1>1. ASSUME NEW r \in Requests, Replies(r) PROVE Ended'
  <2>1. PICK a, c : \E f \in Failures \cup {"none"} :
          Reply(r, a, f, c) /\ Fitting(r, a, f, c)
    BY <1>0, <1>1, Answering
  <2>2. QED
    BY <1>0, <2>1 DEF Reply, Ended, Idle, Handling, TypeOK
<1>2. ASSUME NEW r \in Requests,
             Connect(r) \/ CloseIdle(r) \/ StartHandler(r) \/ Publish(r) \/ Leave(r) \/ Store(r)
      PROVE  Ended'
  BY <1>0, <1>2 DEF Connect, CloseIdle, StartHandler, Admitted, Arrived, Publish, Publishable,
     Read, Leave, Store, Ended, Idle, Handling, TypeOK
<1>3. ASSUME Signal \/ ShutdownDone \/ GraceExpires \/ ListenerFails \/ Start \/ Exit \/ Crash
      PROVE  Ended'
  BY <1>0, <1>3 DEF Signal, ShutdownDone, GraceExpires, ListenerFails, ClosePublisher, Start,
     Exit, Crash, Stop, Ended, Idle
<1>4. ASSUME UNCHANGED vars PROVE Ended'
  BY <1>0, <1>4 DEF vars, Ended, Idle
<1>5. Ended'
  BY <1>1, <1>2, <1>3, <1>4 DEF Next, Chain, HandleBody, Send, Replies
<1>6. QED
  BY <1>0, <1>5 DEF EndInv

(***************************************************************************)
(* A handler is killed, or finds the publisher closed, only after a grace  *)
(* period that ran out or a failed listener.                               *)
(***************************************************************************)
THEOREM OrderlyEnd == Spec => OrderlyEndDisturbsNone
<1> DEFINE Disturbed(r) ==
      (pc[r] # pc'[r] /\ pc'[r] = "cut") \/ (failure[r] # failure'[r] /\ failure'[r] = "closed")
<1>1. Init => EndInv
  BY TypeInit DEF Init, EndInv, Unanswered, Ended
<1>2. EndInv /\ [Next]_vars =>
        [\A r \in Requests : Disturbed(r) => ending \in {"grace expired", "listener failed"}]_vars
  <2> SUFFICES ASSUME EndInv, [Next]_vars, NEW r \in Requests, Disturbed(r)
               PROVE  ending \in {"grace expired", "listener failed"}
    OBVIOUS
  <2> USE DEF topic, replies, process
  <2>0. TypeOK /\ Unanswered /\ Ended
    BY DEF EndInv
  <2>1. ASSUME NEW q \in Requests, Replies(q)
        PROVE  ending \in {"grace expired", "listener failed"}
    <3>1. PICK a, c : \E f \in Failures \cup {"none"} :
            Reply(q, a, f, c) /\ Fitting(q, a, f, c)
      BY <2>0, <2>1, Answering
    <3>2. q = r /\ proc = "closed"
      BY <2>0, <3>1 DEF Reply, Fitting, TypeOK
    <3>3. pc[r] \in {"connected", "reading", "sending"}
      BY <3>1, <3>2 DEF Reply
    <3>4. QED
      BY <2>0, <3>2, <3>3 DEF Ended, Idle, Handling
  <2>2. CASE Exit
    <3>1. proc = "closed" /\ pc[r] \in Handling
      BY <2>0, <2>2 DEF Exit, Stop, TypeOK
    <3>2. QED
      BY <2>0, <3>1 DEF Ended, Idle
  <2>3. CASE Crash
    BY <2>0, <2>3 DEF Crash, Stop, TypeOK
  <2>4. ASSUME NEW q \in Requests,
               Connect(q) \/ CloseIdle(q) \/ StartHandler(q) \/ Publish(q) \/ Leave(q) \/ Store(q)
        PROVE  FALSE
    BY <2>0, <2>4 DEF Connect, CloseIdle, StartHandler, Publish, Leave, Store, TypeOK
  <2>5. CASE Signal \/ ShutdownDone \/ GraceExpires \/ ListenerFails \/ Start \/ UNCHANGED vars
    BY <2>5 DEF Signal, ShutdownDone, GraceExpires, ListenerFails, ClosePublisher, Start, vars
  <2>6. QED
    BY <2>1, <2>2, <2>3, <2>4, <2>5 DEF Next, Chain, HandleBody, Send, Replies
<1>3. QED
  BY <1>1, <1>2, EndStep, PTL DEF Spec, OrderlyEndDisturbsNone

-----------------------------------------------------------------------------
(* The refinement of Acceptance.                                           *)

\* What the callers were told, as Acceptance sees it.
Told == [r \in Requests |-> Word(answer[r])]

LEMMA WordsFit ==
    /\ Word(NoAnswer) = "nothing"
    /\ \A a \in Answers :
         /\ Word(a) \in A!Words
         /\ Word(a) = "accepted" => a = Accepted
         /\ Word(a) = "refused" => a \notin {Accepted, SubstrateUnavailable}
BY AnswersDiffer DEF Word, A!Words

\* A reply tells the caller once, and what Acceptance lets it be told.
LEMMA ReplyTells ==
    ASSUME TopicInv, NEW r \in Requests, NEW a, NEW c, NEW f,
           Reply(r, a, f, c), Fitting(r, a, f, c)
    PROVE  \E word \in A!Words : A!Tell(r, word)
<1>1. /\ a \in Answers /\ TypeOK /\ Unanswered /\ Checked
  BY DEF Fitting, TopicInv
<1>2. Word(a) \in A!Words
  BY <1>1, WordsFit
<1>3. Told[r] = "nothing"
  BY <1>1, WordsFit DEF Told, Unanswered, Reply
<1>4. Word(a) = "accepted" => r \in stored
  BY <1>1, WordsFit DEF Fitting
<1>5. Word(a) = "refused" => r \notin queued
  BY <1>1, WordsFit DEF Fitting, Checked, Reply
<1>6. Told' = [Told EXCEPT ![r] = Word(a)]
  BY <1>1 DEF Told, Reply, TypeOK
<1>7. UNCHANGED <<queued, stored>>
  BY DEF Reply, topic
<1>8. A!Tell(r, Word(a))
  BY <1>3, <1>4, <1>5, <1>6, <1>7 DEF A!Tell, Told
<1>9. QED
  BY <1>2, <1>8

(***************************************************************************)
(* The writer implements Acceptance: accepted only when stored, refused    *)
(* only when never handed to the producer, told once.                      *)
(***************************************************************************)
THEOREM Implements == Spec => ImplementsAcceptance
<1>1. Init => A!Init
  <2>1. Init => Told = [r \in Requests |-> "nothing"]
    BY WordsFit DEF Init, Told
  <2>2. QED
    BY <2>1 DEF Init, A!Init, Told
<1>2. TopicInv /\ [Next]_vars => [A!Next]_(A!avars)
  <2> SUFFICES ASSUME TopicInv, [Next]_vars
               PROVE  [A!Next]_(A!avars)
    OBVIOUS
  <2> USE DEF topic, replies, process
  <2>0. TypeOK /\ Unanswered
    BY DEF TopicInv
  <2>1. ASSUME NEW r \in Requests, Replies(r) PROVE A!Next
    <3>1. PICK a, c : \E f \in Failures \cup {"none"} :
            Reply(r, a, f, c) /\ Fitting(r, a, f, c)
      BY <2>0, <2>1, Answering
    <3>2. QED
      BY <3>1, ReplyTells DEF A!Next
  <2>2. ASSUME NEW r \in Requests, Publish(r) PROVE A!Next
    <3>1. Told[r] = "nothing"
      BY <2>0, <2>2, WordsFit DEF Publish, Publishable, Read, Unanswered, Told
    <3>2. A!Hand(r)
      BY <2>2, <3>1 DEF Publish, A!Hand, Told
    <3>3. QED
      BY <3>2 DEF A!Next
  <2>3. ASSUME NEW r \in Requests, Store(r) PROVE A!Next
    <3>1. A!Hold(r)
      BY <2>3 DEF Store, A!Hold
    <3>2. QED
      BY <3>1 DEF A!Next
  <2>4. ASSUME NEW r \in Requests, Connect(r) \/ CloseIdle(r) \/ StartHandler(r) \/ Leave(r)
        PROVE  UNCHANGED A!avars
    <3>1. UNCHANGED <<queued, stored, answer>>
      BY <2>4 DEF Connect, CloseIdle, StartHandler, Leave
    <3>2. QED
      BY <3>1 DEF A!avars
  <2>5. ASSUME \/ Signal \/ ShutdownDone \/ GraceExpires \/ ListenerFails \/ Exit
               \/ Crash \/ Start \/ UNCHANGED vars
        PROVE  UNCHANGED A!avars
    <3>1. UNCHANGED <<queued, stored, answer>>
      BY <2>5 DEF Signal, ShutdownDone, GraceExpires, ListenerFails, ClosePublisher, Exit, Crash,
         Stop, Start, vars
    <3>2. QED
      BY <3>1 DEF A!avars
  <2>6. QED
    BY <2>1, <2>2, <2>3, <2>4, <2>5 DEF Next, Chain, HandleBody, Send, Replies
<1>3. QED
  BY <1>1, <1>2, TopicInvariant, PTL DEF Spec, ImplementsAcceptance, A!Spec

-----------------------------------------------------------------------------
(* Running forward.                                                        *)

\* The places of a request, and the states of a process, in their order.
Stage == [unsent |-> 0, connected |-> 1, reading |-> 2, sending |-> 3,
          answered |-> 4, closed |-> 4, cut |-> 4, crashed |-> 4]
Wane == [up |-> 0, draining |-> 1, closed |-> 2, down |-> 3]

Further(r) == pc'[r] = pc[r] \/ Stage[pc'[r]] > Stage[pc[r]]
Final(r) == answer[r] # NoAnswer => answer'[r] = answer[r] /\ counted'[r] = counted[r]
Aged == starts' > starts \/ (starts' = starts /\ Wane[proc'] > Wane[proc])
Grown == gone \subseteq gone' /\ queued \subseteq queued' /\ stored \subseteq stored'
Moved == pc' # pc \/ gone' # gone \/ stored' # stored \/ proc' # proc

NothingTakenBack ==
    [][ /\ \A r \in Requests : Further(r) /\ Final(r)
        /\ Grown /\ Moved
        /\ UNCHANGED process \/ Aged ]_vars

(***************************************************************************)
(* Every step of the writer takes a request or the process further, or     *)
(* adds to what clients and broker have done, and none takes anything      *)
(* back: a request is served once, in one process, and what its client was *)
(* told and what was counted for it stand, through shutdowns, crashes and  *)
(* restarts.  As all of it is bounded, no writer goes in circles: what     *)
(* ShutdownCompletes adds is that its steps are taken.                     *)
(***************************************************************************)
THEOREM OnlyForward == Spec => NothingTakenBack
<1> DEFINE Kept == /\ \A r \in Requests : Further(r) /\ Final(r)
                   /\ Grown /\ Moved
                   /\ UNCHANGED process \/ Aged
<1> USE DEF topic, process
<1>1. ASSUME TypeOK, Unanswered, Next, ~UNCHANGED vars
      PROVE  Kept
  <2>1. starts \in Nat
    <3>1. starts \in 1 .. MaxStarts BY <1>1 DEF TypeOK
    <3> QED BY <3>1
  <2>2. ASSUME NEW q \in Requests, NEW p \in Points,
               pc' = [pc EXCEPT ![q] = p], Stage[p] > Stage[pc[q]]
        PROVE  Moved /\ \A r \in Requests : Further(r)
    <3>1. pc \in [Requests -> Points] /\ pc'[q] = p
      BY <1>1, <2>2 DEF TypeOK
    <3>2. pc'[q] # pc[q] BY <2>2, <3>1 DEF Points, Stage
    <3>3. Moved BY <3>2 DEF Moved
    <3> QED BY <2>2, <3>1, <3>3 DEF Further
  <2>3. ASSUME NEW q \in Requests, Replies(q) PROVE Kept
    <3>1. PICK a, c : \E f \in Failures \cup {"none"} : Reply(q, a, f, c)
      BY <1>1, <2>3, Answering
    <3>2. /\ pc[q] \in {"connected", "reading", "sending"}
          /\ pc' = [pc EXCEPT ![q] = "answered"]
          /\ answer' = [answer EXCEPT ![q] = a] /\ counted' = [counted EXCEPT ![q] = c]
          /\ UNCHANGED <<gone, queued, stored, proc, ending, starts>>
      BY <3>1 DEF Reply
    <3>3. "answered" \in Points /\ Stage["answered"] > Stage[pc[q]]
      BY <3>2 DEF Stage, Points
    <3>4. Moved /\ \A r \in Requests : Further(r) BY <2>2, <3>2, <3>3
    <3>5. answer[q] = NoAnswer BY <1>1, <3>2 DEF Unanswered
    <3>6. \A r \in Requests : Final(r) BY <1>1, <3>2, <3>5 DEF Final, TypeOK
    <3> QED BY <3>2, <3>4, <3>6 DEF Grown
  <2>4. ASSUME NEW q \in Requests,
               Connect(q) \/ CloseIdle(q) \/ StartHandler(q) \/ Publish(q)
        PROVE  Kept
    <3>1. PICK p \in Points : pc' = [pc EXCEPT ![q] = p] /\ Stage[p] > Stage[pc[q]]
      BY <2>4 DEF Connect, CloseIdle, StartHandler, Admitted, Arrived, Publish, Publishable,
         Read, Points, Stage
    <3>2. Moved /\ \A r \in Requests : Further(r) BY <2>2, <3>1
    <3>3. /\ UNCHANGED <<gone, stored, answer, counted, proc, ending, starts>>
          /\ queued \subseteq queued'
      BY <2>4 DEF Connect, CloseIdle, StartHandler, Publish, replies
    <3> QED BY <3>2, <3>3 DEF Grown, Final
  <2>5. ASSUME NEW q \in Requests, Leave(q) \/ Store(q) PROVE Kept
    <3>1. /\ UNCHANGED <<pc, queued, answer, counted, proc, ending, starts>>
          /\ gone \subseteq gone' /\ stored \subseteq stored'
      BY <2>5 DEF Leave, Store, replies
    <3>2. gone' # gone \/ stored' # stored
      BY <1>1, <2>5 DEF Leave, Store, vars, replies
    <3> QED BY <3>1, <3>2 DEF Grown, Final, Further, Moved
  <2>6. CASE Signal \/ ShutdownDone \/ GraceExpires \/ ListenerFails \/ Start
    <3>1. UNCHANGED <<pc, gone, queued, stored, answer, counted>>
      BY <2>6 DEF Signal, ShutdownDone, GraceExpires, ListenerFails, ClosePublisher, Start,
         replies
    <3>2. Aged /\ proc' # proc
      <4>1. CASE Start BY <2>1, <4>1 DEF Start, Aged
      <4>2. CASE Signal \/ ShutdownDone \/ GraceExpires \/ ListenerFails
        <5>1. /\ starts' = starts
              /\ \/ proc = "up" /\ proc' \in {"draining", "closed"}
                 \/ proc = "draining" /\ proc' = "closed"
          BY <4>2 DEF Signal, ShutdownDone, GraceExpires, ListenerFails, ClosePublisher
        <5> QED BY <5>1 DEF Aged, Wane
      <4> QED BY <2>6, <4>1, <4>2
    <3> QED BY <3>1, <3>2 DEF Grown, Final, Further, Moved
  <2>7. CASE Exit \/ Crash
    <3>1. UNCHANGED <<gone, queued, stored, answer, counted>>
      BY <2>7 DEF Exit, Crash, Stop, replies
    <3>2. Aged /\ proc' # proc
      <4>1. proc \in {"up", "draining", "closed"} /\ proc' = "down" /\ starts' = starts
        BY <2>7 DEF Exit, Crash, Stop, Running
      <4> QED BY <4>1 DEF Aged, Wane
    <3>3. ASSUME NEW r \in Requests PROVE Further(r)
      <4>1. pc[r] \in Points BY <1>1 DEF TypeOK
      <4>2. pc'[r] = pc[r] \/ (pc[r] \in {"connected", "reading", "sending"}
                                /\ pc'[r] \in {"cut", "crashed", "closed"})
        BY <2>7 DEF Exit, Crash, Stop, Handling
      <4> QED BY <4>1, <4>2 DEF Stage, Further
    <3> QED BY <3>1, <3>2, <3>3 DEF Grown, Final, Moved
  <2> QED
    BY <1>1, <2>3, <2>4, <2>5, <2>6, <2>7 DEF Next, Chain, HandleBody, Send, Replies
<1>2. TopicInv /\ [Next]_vars => [Kept]_vars
  BY <1>1 DEF TopicInv
<1> QED BY <1>2, TopicInvariant, PTL DEF Spec, NothingTakenBack

-----------------------------------------------------------------------------
(* Which answer a request gets, and why.                                   *)

Admits(q) == q.route # "healthz" /\ q.creds = "listed"
Handles(q) == Admits(q) /\ q.route = "notifications" /\ q.key # "many"

DueOfBody(q, a) ==
    \/ q.body \in {"unreadable", "undecodable", "invalid"} /\ a = ValidationFailed
    \/ q.body = "unsupported" /\ a = UnsupportedContentType
    \/ q.body = "valid" /\ a = Internal
    \/ q.body = "valid" /\ q.key = "plain" /\ a \in {Accepted, SubstrateUnavailable}

\* The answers request q may get if its client stays.
Due(q, a) ==
    \/ q.route = "healthz" /\ a = Healthy
    \/ q.route # "healthz" /\ q.creds = "none" /\ a = AuthenticationRequired
    \/ q.route # "healthz" /\ q.creds = "unlisted" /\ a = AuthenticationFailed
    \/ Admits(q) /\ q.route = "elsewhere" /\ a = NoRoute
    \/ Admits(q) /\ q.route = "notifications" /\ q.key = "many" /\ a = Panicked
    \/ Handles(q) /\ DueOfBody(q, a)

\* Of a client that leaves, the body may be cut.
Deserves(r, a) ==
    Due(req[r], a) \/ (r \in gone /\ Handles(req[r]) /\ a = ValidationFailed)

AnswersDeserved == \A r \in Requests : answer[r] # NoAnswer => Deserves(r, answer[r])

\* How far request r comes.
WayOf(r) ==
    /\ pc[r] = "reading" => Handles(req[r])
    /\ pc[r] = "sending" => Handles(req[r]) /\ req[r].key = "plain" /\ req[r].body = "valid"
    /\ pc[r] = "answered" => answer[r] # NoAnswer
    /\ r \in queued => pc[r] \in {"sending", "answered", "cut", "crashed"}

Way == \A r \in Requests : WayOf(r)

\* A step changes the way of the one request it is about.
LEMMA WayPointwise ==
    ASSUME TypeOK, Way, NEW q \in Requests, NEW p,
           pc' = [pc EXCEPT ![q] = p], UNCHANGED req,
           \A r \in Requests \ {q} : answer'[r] = answer[r] /\ (r \in queued' => r \in queued),
           p = "reading" => Handles(req[q]),
           p = "sending" => Handles(req[q]) /\ req[q].key = "plain" /\ req[q].body = "valid",
           p = "answered" => answer'[q] # NoAnswer,
           q \in queued' => p \in {"sending", "answered", "cut", "crashed"}
    PROVE  Way'
<1>1. pc'[q] = p /\ \A r \in Requests \ {q} : pc'[r] = pc[r]
  BY DEF TypeOK
<1>2. WayOf(q)'
  BY <1>1 DEF WayOf
<1>3. ASSUME NEW r \in Requests \ {q} PROVE WayOf(r)'
  BY <1>1 DEF Way, WayOf
<1> QED BY <1>2, <1>3 DEF Way

LEMMA RepliesDeserved ==
    ASSUME TypeOK, Way, NEW r \in Requests, Replies(r)
    PROVE  \E a : answer' = [answer EXCEPT ![r] = a] /\ Deserves(r, a)
<1> USE DEF Write, Deserves, Due
<1>1. ASSUME NEW body, Read(r, body)
      PROVE  Handles(req[r]) /\ (body = req[r].body \/ (r \in gone /\ body = "unreadable"))
  BY <1>1 DEF Way, WayOf, Read
<1>2. ASSUME NEW f, Fail(r, f)
      PROVE  answer' = [answer EXCEPT ![r] = IngestAnswer(f)]
  BY <1>2 DEF Fail, Finish
<1>3. /\ IngestAnswer("validation") = ValidationFailed
      /\ IngestAnswer("identifier") = Internal /\ IngestAnswer("marshal") = Internal
      /\ \A f \in PublishErrors : IngestAnswer(f) = SubstrateUnavailable
  BY ErrorsTyped DEF IngestAnswer, PublishErrors, Failures
<1>4. CASE AnswerHealth(r) BY <1>4 DEF AnswerHealth, Turn
<1>5. CASE RefuseCaller(r) BY <1>5 DEF RefuseCaller, Turn
<1>6. CASE MissRoute(r) BY <1>6 DEF MissRoute, Admitted, Turn, Admits
<1>7. CASE PanicOnKeys(r) BY <1>7 DEF PanicOnKeys, Admitted, Turn, Admits
<1>8. CASE RejectBody(r)
  <2>1. PICK body \in {"unreadable", "unsupported", "undecodable"} :
          Read(r, body) /\ answer' = [answer EXCEPT ![r] = DecodeProblem(body)]
    BY <1>8 DEF RejectBody, Finish
  <2>2. /\ Handles(req[r]) /\ (body = req[r].body \/ (r \in gone /\ body = "unreadable"))
        /\ DecodeProblem(body) = IF body = "unsupported" THEN UnsupportedContentType
                                 ELSE ValidationFailed
    BY <1>1, <2>1 DEF DecodeProblem
  <2> QED BY <2>1, <2>2 DEF DueOfBody
<1>9. CASE RejectInvalid(r)
  <2>1. Handles(req[r]) /\ req[r].body = "invalid" BY <1>1, <1>9 DEF RejectInvalid
  <2> QED BY <1>2, <1>3, <1>9, <2>1 DEF RejectInvalid, DueOfBody
<1>10. CASE FailIdentifier(r)
  <2>0. Read(r, "valid") BY <1>10 DEF FailIdentifier
  <2>1. Handles(req[r]) /\ req[r].body = "valid" BY <1>1, <2>0
  <2> QED BY <1>2, <1>3, <1>10, <2>1 DEF FailIdentifier, DueOfBody
<1>11. CASE FailMarshal(r)
  <2>0. Read(r, "valid") BY <1>11 DEF FailMarshal
  <2>1. Handles(req[r]) /\ req[r].body = "valid" BY <1>1, <2>0
  <2> QED BY <1>2, <1>3, <1>11, <2>1 DEF FailMarshal, DueOfBody
<1>12. CASE PublishClosed(r)
  <2>1. Handles(req[r]) /\ req[r].body = "valid" /\ req[r].key = "plain"
    BY <1>1, <1>12 DEF PublishClosed, Publishable
  <2>2. answer' = [answer EXCEPT ![r] = SubstrateUnavailable]
    BY <1>2, <1>3, <1>12 DEF PublishClosed, PublishErrors
  <2> QED BY <2>1, <2>2 DEF DueOfBody
<1>13. CASE SendOk(r)
  <2>1. answer' = [answer EXCEPT ![r] = Accepted] /\ pc[r] = "sending"
    BY <1>13 DEF SendOk, Finish
  <2> QED BY <2>1 DEF Way, WayOf, DueOfBody
<1>14. CASE SendError(r)
  <2>1. answer' = [answer EXCEPT ![r] = SubstrateUnavailable] /\ pc[r] = "sending"
    BY <1>2, <1>3, <1>14 DEF SendError, PublishErrors
  <2> QED BY <2>1 DEF Way, WayOf, DueOfBody
<1> QED
  BY <1>4, <1>5, <1>6, <1>7, <1>8, <1>9, <1>10, <1>11, <1>12, <1>13, <1>14 DEF Replies

WayInv == TypeOK /\ Unanswered /\ Way /\ AnswersDeserved

LEMMA WayStep == WayInv /\ [Next]_vars => WayInv'
<1> SUFFICES ASSUME WayInv, [Next]_vars PROVE WayInv'
  OBVIOUS
<1>0. TypeOK /\ Unanswered /\ Way /\ AnswersDeserved /\ TypeOK' /\ Unanswered'
  BY TypeStep DEF WayInv
<1> DEFINE Good == Way /\ AnswersDeserved
<1> USE DEF topic, replies, process
<1>1. ASSUME NEW q \in Requests, Replies(q) PROVE Good'
  <2>1. PICK a : answer' = [answer EXCEPT ![q] = a] /\ Deserves(q, a)
    BY <1>0, <1>1, RepliesDeserved
  <2>2. /\ pc' = [pc EXCEPT ![q] = "answered"] /\ answer'[q] # NoAnswer
        /\ UNCHANGED <<req, gone, queued>>
    <3>1. PICK b, c : \E f \in Failures \cup {"none"} : Reply(q, b, f, c) /\ Fitting(q, b, f, c)
      BY <1>0, <1>1, Answering
    <3> QED BY <1>0, <3>1, AnswersDiffer DEF Reply, Fitting, TypeOK
  <2>3. Way'
    <3>1. \A r \in Requests \ {q} : answer'[r] = answer[r] /\ (r \in queued' => r \in queued)
      BY <1>0, <2>1, <2>2 DEF TypeOK
    <3>2. PICK p : p = "answered" /\ pc' = [pc EXCEPT ![q] = p]
      BY <2>2
    <3>3. /\ p # "reading" /\ p # "sending"
          /\ p \in {"sending", "answered", "cut", "crashed"}
      BY <3>2
    <3> QED BY <1>0, <2>2, <3>1, <3>2, <3>3, WayPointwise
  <2>4. AnswersDeserved'
    BY <1>0, <2>1, <2>2 DEF AnswersDeserved, Deserves, TypeOK
  <2> QED BY <2>3, <2>4
<1>2. ASSUME UNCHANGED <<req, answer>>, gone \subseteq gone'
      PROVE  AnswersDeserved'
  BY <1>0, <1>2 DEF AnswersDeserved, Deserves
<1>3. ASSUME NEW q \in Requests,
             Connect(q) \/ CloseIdle(q) \/ StartHandler(q) \/ Leave(q) \/ Store(q)
      PROVE  Good'
  <2>1. UNCHANGED <<req, answer, queued>> /\ gone \subseteq gone'
    BY <1>3 DEF Connect, CloseIdle, StartHandler, Leave, Store
  <2>2. CASE Leave(q) \/ Store(q)
    <3>1. UNCHANGED pc BY <2>2 DEF Leave, Store
    <3> QED BY <1>0, <1>2, <2>1, <3>1 DEF Way, WayOf
  <2>3. CASE Connect(q) \/ CloseIdle(q) \/ StartHandler(q)
    <3>1. pc[q] \in {"unsent", "connected"}
      BY <2>3 DEF Connect, CloseIdle, StartHandler, Admitted, Arrived
    <3>2. PICK p \in {"connected", "closed", "reading"} :
            /\ pc' = [pc EXCEPT ![q] = p]
            /\ p = "reading" => Handles(req[q])
      BY <2>3 DEF Connect, CloseIdle, StartHandler, Admitted, Handles, Admits
    <3>3. q \notin queued' BY <1>0, <2>1, <3>1 DEF Way, WayOf
    <3>4. Way' BY <1>0, <2>1, <3>2, <3>3, WayPointwise
    <3> QED BY <1>2, <2>1, <3>4
  <2> QED BY <1>3, <2>2, <2>3
<1>4. ASSUME NEW q \in Requests, Publish(q) PROVE Good'
  <2>1. /\ pc[q] = "reading" /\ pc' = [pc EXCEPT ![q] = "sending"]
        /\ req[q].key = "plain" /\ req[q].body = "valid"
        /\ queued' = queued \cup {q} /\ UNCHANGED <<req, answer, gone>>
    BY <1>4 DEF Publish, Publishable, Read
  <2>2. Handles(req[q]) BY <1>0, <2>1 DEF Way, WayOf
  <2>3. Way' BY <1>0, <2>1, <2>2, WayPointwise
  <2> QED BY <1>2, <2>1, <2>3
<1>5. ASSUME Signal \/ ShutdownDone \/ GraceExpires \/ ListenerFails \/ Start \/ UNCHANGED vars
      PROVE  Good'
  <2>1. UNCHANGED <<req, pc, gone, queued, answer>>
    BY <1>5 DEF Signal, ShutdownDone, GraceExpires, ListenerFails, ClosePublisher, Start, vars
  <2>2. Way' BY <1>0, <2>1 DEF Way, WayOf
  <2>3. AnswersDeserved'
    <3>1. UNCHANGED <<req, answer>> /\ gone \subseteq gone' BY <2>1
    <3> QED BY <1>2, <3>1
  <2> QED BY <2>2, <2>3
<1>6. ASSUME Exit \/ Crash PROVE Good'
  <2>1. UNCHANGED <<req, gone, queued, answer>>
    BY <1>6 DEF Exit, Crash, Stop
  <2>2. \A r \in Requests :
          \/ pc'[r] = pc[r]
          \/ pc'[r] \in {"cut", "crashed"}
          \/ pc[r] = "connected" /\ pc'[r] = "closed"
    BY <1>6 DEF Exit, Crash, Stop
  <2>3. Way' BY <1>0, <2>1, <2>2 DEF Way, WayOf
  <2>4. AnswersDeserved'
    <3>1. UNCHANGED <<req, answer>> /\ gone \subseteq gone' BY <2>1
    <3> QED BY <1>2, <3>1
  <2> QED BY <2>3, <2>4
<1>7. Good'
  <2>1. \/ \E q \in Requests :
            \/ Replies(q) \/ Connect(q) \/ CloseIdle(q) \/ StartHandler(q) \/ Leave(q)
            \/ Store(q) \/ Publish(q)
        \/ Signal \/ ShutdownDone \/ GraceExpires \/ ListenerFails \/ Start \/ UNCHANGED vars
        \/ Exit \/ Crash
    BY DEF Next, Chain, HandleBody, Send, Replies
  <2> HIDE DEF Good
  <2> QED BY <2>1, <1>1, <1>3, <1>4, <1>5, <1>6
<1> QED BY <1>0, <1>7 DEF WayInv

LEMMA WayInvariant == Spec => []WayInv
<1>1. Init => WayInv
  BY TypeInit DEF Init, WayInv, Unanswered, Way, WayOf, AnswersDeserved
<1> QED BY <1>1, WayStep, PTL DEF Spec

(***************************************************************************)
(* A request is answered according to what it is, whatever happens around  *)
(* it: a caller who is not listed learns nothing but that, whichever path  *)
(* it asks for, and past the authentication the checks come in one order.  *)
(* Only a client that has left may be answered otherwise, and nobody reads *)
(* that answer.                                                            *)
(***************************************************************************)
THEOREM AnswersFollowRequests == Spec => []AnswersDeserved
<1>1. WayInv => AnswersDeserved BY DEF WayInv
<1> QED BY <1>1, WayInvariant, PTL

PlainErrors ==
    \A r \in Requests : answer[r].status >= 300 /\ answer[r] \notin ProblemDocuments =>
      /\ req[r].creds = "listed" /\ r \notin queued /\ counted[r] = "none"
      /\ \/ req[r].route = "elsewhere"
         \/ req[r].route = "notifications" /\ req[r].key = "many"

(***************************************************************************)
(* What ErrorsAreProblems misses, exactly: an error that is no problem     *)
(* document goes to a listed caller, who asked for a path that does not    *)
(* exist or gave more than one idempotency key; nothing was published or   *)
(* counted.                                                                *)
(***************************************************************************)
THEOREM PlainOnlyByChance == Spec => []PlainErrors
<1>1. ASSUME WayInv, TopicInv, NEW r \in Requests,
             answer[r].status >= 300, answer[r] \notin ProblemDocuments
      PROVE  /\ req[r].creds = "listed" /\ r \notin queued /\ counted[r] = "none"
             /\ \/ req[r].route = "elsewhere"
                \/ req[r].route = "notifications" /\ req[r].key = "many"
  <2>1. answer[r] \in {NoRoute, Panicked}
    <3>1. answer[r] \in ProblemDocuments \cup {Accepted, Healthy, NoRoute, Panicked, NoAnswer}
      BY <1>1 DEF WayInv, TypeOK, Answers
    <3> QED BY <1>1, <3>1, StatusAndKind
  <2>2. answer[r] \notin {NoAnswer, Accepted, SubstrateUnavailable, Healthy} \cup ProblemDocuments
    BY <1>1, <2>1, StatusAndKind, AnswersDiffer
  <2>3. Deserves(r, answer[r])
    BY <1>1, <2>2 DEF WayInv, AnswersDeserved
  <2>4. /\ Admits(req[r])
        /\ \/ req[r].route = "elsewhere"
           \/ req[r].route = "notifications" /\ req[r].key = "many"
    BY <2>2, <2>3 DEF Deserves, Due, DueOfBody, ProblemDocuments
  <2>5. r \notin queued
    BY <1>1, <2>2 DEF TopicInv, RefusedMeansUnpublished
  <2>6. counted[r] = "none"
    <3>1. counted[r] \in CountedAs(answer[r])
      BY <1>1 DEF TopicInv, CountedAsAnswered
    <3>2. CountedAs(answer[r]) = {"none"}
      BY <2>2 DEF CountedAs, ProblemDocuments
    <3> QED BY <3>1, <3>2
  <2> QED BY <2>4, <2>5, <2>6 DEF Admits
<1>2. WayInv /\ TopicInv => PlainErrors
  BY <1>1 DEF PlainErrors
<1> QED BY <1>2, WayInvariant, TopicInvariant, PTL

StoredUntold ==
    \A r \in stored :
      \/ answer[r] \in {Accepted, SubstrateUnavailable}
      \/ answer[r] = NoAnswer /\ pc[r] \in {"sending", "cut", "crashed"}

(***************************************************************************)
(* Where a caller may not know that the topic holds its notification, and  *)
(* will submit it again: it waits, it was told 503, or the writer ended    *)
(* under its handler.  There are no other duplicates of the writer's.      *)
(***************************************************************************)
THEOREM DoubtsAreFew == Spec => []StoredUntold
<1>1. ASSUME WayInv, TopicInv, NEW r \in stored
      PROVE  \/ answer[r] \in {Accepted, SubstrateUnavailable}
             \/ answer[r] = NoAnswer /\ pc[r] \in {"sending", "cut", "crashed"}
  <2>1. r \in queued /\ r \in Requests
    BY <1>1 DEF WayInv, TypeOK
  <2>2. pc[r] \in {"sending", "answered", "cut", "crashed"}
    BY <1>1, <2>1 DEF WayInv, Way, WayOf
  <2>3. pc[r] # "answered" => answer[r] = NoAnswer
    BY <1>1, <2>1 DEF WayInv, Unanswered
  <2>4. pc[r] = "answered" => answer[r] # NoAnswer
    BY <1>1, <2>1 DEF WayInv, Way, WayOf
  <2> QED BY <1>1, <2>1, <2>2, <2>3, <2>4 DEF TopicInv, RefusedMeansUnpublished
<1>2. WayInv /\ TopicInv => StoredUntold
  BY <1>1 DEF StoredUntold
<1> QED BY <1>2, WayInvariant, TopicInvariant, PTL
=============================================================================
