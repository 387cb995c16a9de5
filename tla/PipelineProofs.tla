---------------------------- MODULE PipelineProofs ----------------------------
(***************************************************************************)
(* The pipeline, for any number of submissions and writers: what a result  *)
(* tells and that it stands, that a rotation leaves nothing unreadable and *)
(* nothing of the outgoing key, and that the parts keep the promises of    *)
(* Acceptance and Delivery when they are put together, from which follows  *)
(* what holds from end to end.                                             *)
(***************************************************************************)
EXTENDS Pipeline, TLAPS

ClientSteps(s) ==
    \/ FailLocally(s) \/ Send(s) \/ Resend(s) \/ GiveUp(s)
    \/ /\ Latest(s) \in Requests /\ answer[Latest(s)] # "none"
       /\ ReadAnswer(s, answer[Latest(s)])

\* One of the operator'r steps.
KeySteps ==
    \/ DistributePrivate \/ DistributePublic
    \/ OpenOverlap \/ RollBack
    \/ RetireOld(\A r \in Unfinished : under[r] # {Old})
    \/ RemovePublic(\A r \in Unfinished : Old \notin under[r])
    \/ RemovePrivate(\A r \in Unfinished : Old \notin under[r])
    \/ \E w \in Writers : StartWriter(w) \/ StopWriter(w)

-----------------------------------------------------------------------------
(* The keys.                                                               *)

LEMMA KeysInitially == KeysInit => KeysTypeOK /\ env \subseteq priv
                                   /\ (\A w \in Writers : names[w] \subseteq priv) /\ UpCanEncrypt
  BY DEF KeysInit, KeysTypeOK, UpCanEncrypt

\* What a rotation keeps: the deliverer has every key in use, and so has a
\* writer that runs.
Provisioned == env \subseteq priv /\ \A w \in Writers : names[w] \subseteq priv

LEMMA KeysKept ==
  ASSUME KeysTypeOK, Provisioned, UpCanEncrypt, KeySteps
  PROVE  KeysTypeOK' /\ Provisioned' /\ UpCanEncrypt'
<1> USE NamesAssumption DEF KeysTypeOK, Provisioned, UpCanEncrypt
<1>1. CASE DistributePrivate BY <1>1 DEF DistributePrivate
<1>2. CASE DistributePublic BY <1>2 DEF DistributePublic
<1>3. CASE OpenOverlap BY <1>3 DEF OpenOverlap
<1>4. CASE RollBack BY <1>4 DEF RollBack
<1>5. CASE RetireOld(\A r \in Unfinished : under[r] # {Old}) BY <1>5 DEF RetireOld
<1>6. CASE RemovePublic(\A r \in Unfinished : Old \notin under[r])
  <2>1. \A w \in Writers : names[w] \subseteq {New} BY <1>6 DEF RemovePublic, Rolled
  <2> QED BY <1>6, <2>1 DEF RemovePublic
<1>7. CASE RemovePrivate(\A r \in Unfinished : Old \notin under[r])
  <2>1. \A w \in Writers : names[w] \subseteq {New} BY <1>7 DEF RemovePrivate, Rolled
  <2> QED BY <1>7, <2>1 DEF RemovePrivate
<1>8. ASSUME NEW w \in Writers, StartWriter(w)
      PROVE  KeysTypeOK' /\ Provisioned' /\ UpCanEncrypt'
  <2>1. env \in SUBSET {Old, New} OBVIOUS
  <2>2. \A v \in Writers : names'[v] = names[v] \/ names'[v] = env
    BY <1>8 DEF StartWriter
  <2> QED BY <1>8, <2>1, <2>2 DEF StartWriter, LoadKeySet
<1>9. ASSUME NEW w \in Writers, StopWriter(w)
      PROVE  KeysTypeOK' /\ Provisioned' /\ UpCanEncrypt'
  <2>1. \A v \in Writers : names'[v] = names[v] \/ names'[v] = {}
    BY <1>9 DEF StopWriter
  <2> QED BY <1>9, <2>1 DEF StopWriter
<1> QED BY <1>1, <1>2, <1>3, <1>4, <1>5, <1>6, <1>7, <1>8, <1>9 DEF KeySteps

-----------------------------------------------------------------------------
(* The actions, each as what it does to the parts.                         *)

LEMMA OperateSteps == Operate => KeySteps /\ UNCHANGED <<clvars, wvars, dvars>>
  BY DEF Operate, KeySteps

LEMMA SubmitSteps ==
  ASSUME NEW s \in Submissions, Submit(s)
  PROVE  ClientSteps(s) /\ UNCHANGED <<kvars, wvars, dvars>>
  BY DEF Submit, ClientSteps

LEMMA HandSteps ==
  ASSUME NEW r \in Requests, Hand(r)
  PROVE  /\ r \in posted /\ r \notin handed /\ Word(answer[r]) = "nothing"
         /\ handed' = handed \cup {r}
         /\ \E w \in Writers : names[w] # {} /\ under' = [under EXCEPT ![r] = names[w]]
         /\ UNCHANGED <<held, answer, lost, clvars, kvars, dvars>>
  BY DEF Hand, Arrived, W!Hand

LEMMA HoldSteps ==
  ASSUME NEW r \in Requests, Hold(r)
  PROVE  /\ r \in handed \ lost
         /\ held' = held \cup {r}
         /\ UNCHANGED <<handed, answer, under, lost, clvars, kvars, dvars>>
  BY DEF Hold, W!Hold

LEMMA TellSteps ==
  ASSUME NEW r \in Requests, NEW a \in Replies, Tell(r, a)
  PROVE  /\ Word(answer[r]) = "nothing"
         /\ Word(a) = "accepted" => r \in held
         /\ Word(a) = "refused" => r \notin handed
         /\ answer' = [answer EXCEPT ![r] = a]
         /\ UNCHANGED <<handed, held, under, lost, clvars, kvars, dvars>>
  BY DEF Tell, W!Tell

LEMMA WordsDiffer == \A a \in Answers \cup {"none"} :
                        /\ Word(a) = "nothing" <=> a = "none"
                        /\ Word(a) = "accepted" <=> a = "envelope"
                        /\ Word(a) = "refused" <=> a \notin {"none", "envelope", "substrate-unavailable"}
  BY DEF Word

LEMMA FourWords == \A a : Word(a) \in {"nothing", "accepted", "retry", "refused"}
  BY DEF Word

LEMMA RepliesAreAnswers == Replies \subseteq Answers
  BY RefusalsAssumption DEF Replies, Answers, Problems

-----------------------------------------------------------------------------
(* Types.                                                                  *)

LEMMA TypeInit == Init => TypeOK
<1> SUFFICES ASSUME Init PROVE TypeOK
  OBVIOUS
<1>1. KeysTypeOK
  BY KeysInitially DEF Init
<1>2. ClientTypeOK
  BY SendsAssumption DEF Init, ClientInit, ClientTypeOK
<1>3. QED
  BY <1>1, <1>2 DEF Init, D!Init, TypeOK

LEMMA ClientUnchanged ==
  ASSUME ClientTypeOK, UNCHANGED clvars
  PROVE  ClientTypeOK' /\ posted' = posted
  BY DEF clvars, ClientTypeOK, posted

LEMMA KeysUnchanged == ASSUME KeysTypeOK, UNCHANGED kvars PROVE KeysTypeOK'
  BY DEF kvars, KeysTypeOK

\* No call takes a request back.
LEMMA SentGrows ==
  ASSUME \A s \in Submissions : sent[s] \in Nat /\ sent'[s] \in Nat /\ sent[s] <= sent'[s]
  PROVE  posted \subseteq posted'
<1> SUFFICES ASSUME NEW r \in Requests, r[2] <= sent[r[1]]
             PROVE  r[2] <= sent'[r[1]]
  BY DEF posted
<1>1. r[1] \in Submissions /\ r[2] \in Nat
  BY SendsAssumption DEF Requests
<1> QED BY <1>1

\* What a client's step does, whichever it is.
LEMMA ClientEffect ==
  ASSUME NEW s \in Submissions, ClientTypeOK, ClientSteps(s)
  PROVE  /\ call[s] # "returned" /\ keyed' = keyed
         /\ \/ /\ call[s] = "idle" /\ call' = [call EXCEPT ![s] = "waiting"]
               /\ sent' = [sent EXCEPT ![s] = 1] /\ result' = result
            \/ /\ call[s] = "waiting" /\ s \in keyed /\ sent[s] < MaxSends
               /\ sent' = [sent EXCEPT ![s] = @ + 1] /\ UNCHANGED <<call, result>>
            \/ \E o \in Sentinels \cup Others :
                 /\ call[s] = "waiting" \/ (call[s] = "idle" /\ o = "local error")
                 /\ call' = [call EXCEPT ![s] = "returned"]
                 /\ result' = [result EXCEPT ![s] = o] /\ sent' = sent
<1>1. CASE FailLocally(s) BY <1>1 DEF FailLocally, Return, Others
<1>2. CASE Send(s) BY <1>2 DEF Send
<1>3. CASE Resend(s) BY <1>3 DEF Resend
<1>4. CASE GiveUp(s) BY <1>4 DEF GiveUp, Return, Others
<1>5. CASE ReadAnswer(s, answer[Latest(s)])
  <2>1. Sentinel(answer[Latest(s)]) \in Sentinels
    BY DEF Sentinel, Sentinels
  <2>2. PICK o \in Sentinels \cup Others : Return(s, o)
    BY <1>5, <2>1 DEF ReadAnswer, Others
  <2> QED BY <1>5, <2>2 DEF ReadAnswer, Return
<1> QED BY <1>1, <1>2, <1>3, <1>4, <1>5 DEF ClientSteps

LEMMA NoneIsNoResult == "none" \notin Sentinels \cup Others
  BY DEF Sentinels, Others, KnownTypes, Problems

LEMMA ClientTypes ==
  ASSUME NEW s \in Submissions, TypeOK, ClientSteps(s)
  PROVE  ClientTypeOK' /\ posted \subseteq posted'
<1>1. ClientTypeOK /\ MaxSends \in Nat \ {0}
  BY SendsAssumption DEF TypeOK
<1> USE <1>1 DEF ClientTypeOK
<1>2. CASE /\ call[s] = "idle" /\ call' = [call EXCEPT ![s] = "waiting"]
           /\ sent' = [sent EXCEPT ![s] = 1] /\ result' = result /\ keyed' = keyed
  <2>1. ClientTypeOK'
    BY <1>2
  <2> QED BY <1>2, <2>1, SentGrows
<1>3. CASE /\ call[s] = "waiting" /\ s \in keyed /\ sent[s] < MaxSends /\ keyed' = keyed
           /\ sent' = [sent EXCEPT ![s] = @ + 1] /\ UNCHANGED <<call, result>>
  <2>1. ClientTypeOK'
    BY <1>3
  <2> QED BY <1>3, <2>1, SentGrows
<1>4. ASSUME NEW o \in Sentinels \cup Others,
             call[s] = "waiting" \/ (call[s] = "idle" /\ o = "local error"),
             call' = [call EXCEPT ![s] = "returned"],
             result' = [result EXCEPT ![s] = o], sent' = sent, keyed' = keyed
      PROVE  ClientTypeOK' /\ posted \subseteq posted'
  <2>1. ClientTypeOK'
    BY <1>4, NoneIsNoResult
  <2>2. posted' = posted
    BY <1>4 DEF posted
  <2> QED BY <2>1, <2>2
<1> QED BY <1>2, <1>3, <1>4, ClientEffect

LEMMA TypeStep == TypeOK /\ Provisioned /\ UpCanEncrypt /\ [Next]_vars => TypeOK'
<1> SUFFICES ASSUME TypeOK, Provisioned, UpCanEncrypt, [Next]_vars
             PROVE  TypeOK'
  OBVIOUS
<1> USE DEF wvars, dvars
<1>1. CASE Operate
  <2>1. KeySteps /\ UNCHANGED <<clvars, wvars, dvars>>
    BY <1>1, OperateSteps
  <2>2. KeysTypeOK'
    BY <2>1, KeysKept DEF TypeOK
  <2> QED BY <2>1, <2>2, ClientUnchanged DEF TypeOK
<1>2. ASSUME NEW s \in Submissions, Submit(s) PROVE TypeOK'
  <2>1. ClientSteps(s) /\ UNCHANGED <<kvars, wvars, dvars>>
    BY <1>2, SubmitSteps
  <2>2. ClientTypeOK' /\ posted \subseteq posted'
    BY <2>1, ClientTypes
  <2> QED BY <2>1, <2>2, KeysUnchanged DEF TypeOK
<1>3. ASSUME NEW r \in Requests, Hand(r) PROVE TypeOK'
  <2>1. /\ r \in posted /\ r \notin handed
        /\ handed' = handed \cup {r}
        /\ \E w \in Writers : under' = [under EXCEPT ![r] = names[w]]
        /\ UNCHANGED <<held, answer, lost, clvars, kvars, dvars>>
    BY <1>3, HandSteps
  <2>2. under' \in [Requests -> SUBSET {Old, New}]
    BY <2>1 DEF TypeOK, KeysTypeOK
  <2> QED BY <2>1, <2>2, ClientUnchanged, KeysUnchanged DEF TypeOK
<1>4. ASSUME NEW r \in Requests, Hold(r) PROVE TypeOK'
  <2>1. /\ r \in handed \ lost
        /\ held' = held \cup {r}
        /\ UNCHANGED <<handed, answer, under, lost, clvars, kvars, dvars>>
    BY <1>4, HoldSteps
  <2> QED BY <2>1, ClientUnchanged, KeysUnchanged DEF TypeOK
<1>5. ASSUME NEW r \in Requests, Lose(r) PROVE TypeOK'
  BY <1>5, ClientUnchanged, KeysUnchanged DEF Lose, TypeOK
<1>6. ASSUME NEW r \in Requests, NEW a \in Replies, Tell(r, a) PROVE TypeOK'
  <2>1. /\ answer' = [answer EXCEPT ![r] = a]
        /\ UNCHANGED <<handed, held, under, lost, clvars, kvars, dvars>>
    BY <1>6, TellSteps
  <2>2. a \in Answers
    BY RepliesAreAnswers
  <2> QED BY <2>1, <2>2, ClientUnchanged, KeysUnchanged DEF TypeOK
<1>7. ASSUME NEW r \in Requests, Push(r) \/ Decide(r) \/ Retire(r) PROVE TypeOK'
  <2>1. UNCHANGED <<clvars, kvars, wvars, alive>>
    BY <1>7 DEF Push, Decide, Retire
  <2>2. /\ pending' \subseteq pending
        /\ taken' \subseteq held
        /\ verdicts' \subseteq held \X Statuses
    BY <1>7 DEF Push, Decide, Retire, Received, D!Take, D!Decide, D!Retire, TypeOK
  <2> QED BY <2>1, <2>2, ClientUnchanged, KeysUnchanged DEF TypeOK
<1>8. CASE ComeAndGo
  BY <1>8, ClientUnchanged, KeysUnchanged DEF ComeAndGo, TypeOK
<1>9. CASE UNCHANGED vars
  BY <1>9, ClientUnchanged, KeysUnchanged DEF vars, TypeOK
<1> QED BY <1>1, <1>2, <1>3, <1>4, <1>5, <1>6, <1>7, <1>8, <1>9 DEF Next

KeysInv == TypeOK /\ Provisioned /\ UpCanEncrypt

LEMMA KeysInvariant == Spec => []KeysInv
<1>1. Init => KeysInv
  BY TypeInit, KeysInitially DEF Init, KeysInv, Provisioned
<1>2. KeysInv /\ [Next]_vars => KeysInv'
  <2> SUFFICES ASSUME KeysInv, [Next]_vars PROVE KeysInv'
    OBVIOUS
  <2>1. TypeOK'
    BY TypeStep DEF KeysInv
  <2>2. CASE Operate
    <3>1. KeySteps
      BY <2>2, OperateSteps
    <3> QED BY <2>1, <3>1, KeysKept DEF KeysInv, TypeOK
  <2>3. CASE UNCHANGED kvars
    BY <2>1, <2>3 DEF KeysInv, kvars, Provisioned, UpCanEncrypt
  <2>4. Operate \/ UNCHANGED kvars
    BY DEF Next, vars, ComeAndGo, Submit, Hand, Hold, Lose, Tell, Push, Decide, Retire
  <2> QED BY <2>2, <2>3, <2>4
<1> QED BY <1>1, <1>2, PTL DEF Spec

(***************************************************************************)
(* The variables keep their types; what is pushed or decided is on the     *)
(* topic, and what is on the topic was posted by a client.                 *)
(***************************************************************************)
THEOREM TypeCorrect == Spec => []TypeOK
  BY KeysInvariant, PTL DEF KeysInv

(***************************************************************************)
(* A writer that runs has the public keys it encrypts under, at every      *)
(* moment of a rotation, for any number of writers.                        *)
(***************************************************************************)
THEOREM CanEncrypt == Spec => []UpCanEncrypt
  BY KeysInvariant, PTL DEF KeysInv

-----------------------------------------------------------------------------
(* Nothing is left unreadable.                                             *)

LEMMA ReadableStep ==
  ASSUME KeysInv, UnfinishedReadable, [Next]_vars
  PROVE  UnfinishedReadable'
<1> USE DEF UnfinishedReadable, Unfinished, Readable, wvars, dvars
<1>1. CASE UNCHANGED <<handed, under>> /\ priv \subseteq priv'
           /\ lost \subseteq lost' /\ pending' \subseteq pending
  BY <1>1
<1>2. CASE Operate
  <2>1. KeySteps /\ UNCHANGED <<clvars, wvars, dvars>>
    BY <1>2, OperateSteps
  <2>2. CASE RemovePrivate(\A r \in Unfinished : Old \notin under[r])
    BY <2>1, <2>2 DEF RemovePrivate
  <2>3. CASE ~RemovePrivate(\A r \in Unfinished : Old \notin under[r])
    <3>1. priv \subseteq priv'
      BY <2>1, <2>3 DEF KeySteps, DistributePrivate, DistributePublic, OpenOverlap, RollBack,
         RetireOld, RemovePublic, StartWriter, StopWriter
    <3> QED BY <1>1, <2>1, <3>1
  <2> QED BY <2>2, <2>3
<1>3. ASSUME NEW r \in Requests, Hand(r) PROVE UnfinishedReadable'
  <2>1. /\ r \notin handed /\ handed' = handed \cup {r}
        /\ \E w \in Writers : names[w] # {} /\ under' = [under EXCEPT ![r] = names[w]]
        /\ UNCHANGED <<held, answer, lost, clvars, kvars, dvars>>
    BY <1>3, HandSteps
  <2>2. PICK w \in Writers : names[w] # {} /\ under' = [under EXCEPT ![r] = names[w]]
    BY <2>1
  <2>3. under'[r] = names[w] /\ names[w] \subseteq priv /\ priv' = priv
    BY <2>1, <2>2 DEF KeysInv, TypeOK, Provisioned, kvars
  <2>4. \A t \in handed : under'[t] = under[t]
    BY <2>1, <2>2 DEF KeysInv, TypeOK
  <2> QED BY <2>1, <2>2, <2>3, <2>4
<1>4. ASSUME NEW r \in Requests, Hold(r) \/ Lose(r) \/ \E a \in Replies : Tell(r, a)
      PROVE  UnfinishedReadable'
  <2>1. UNCHANGED <<handed, under, kvars, dvars>> /\ lost \subseteq lost'
    BY <1>4, HoldSteps, TellSteps DEF Lose
  <2> QED BY <1>1, <2>1 DEF kvars
<1>5. ASSUME NEW r \in Requests, Push(r) \/ Decide(r) \/ Retire(r)
      PROVE  UnfinishedReadable'
  <2>1. UNCHANGED <<wvars, kvars>> /\ pending' \subseteq pending
    BY <1>5 DEF Push, Decide, Retire, D!Take, D!Decide, D!Retire
  <2> QED BY <1>1, <2>1 DEF kvars
<1>6. CASE ComeAndGo \/ UNCHANGED vars \/ \E s \in Submissions : Submit(s)
  BY <1>1, <1>6 DEF ComeAndGo, Submit, vars, kvars
<1> QED BY <1>2, <1>3, <1>4, <1>5, <1>6 DEF Next

(***************************************************************************)
(* FR-017: while the runbook is followed, the deliverer can read every     *)
(* message it may still receive.                                           *)
(***************************************************************************)
THEOREM AlwaysReadable == Spec => []UnfinishedReadable
<1>1. Init => UnfinishedReadable
  BY DEF Init, UnfinishedReadable, Unfinished
<1>2. KeysInv /\ UnfinishedReadable /\ [Next]_vars => UnfinishedReadable'
  BY ReadableStep
<1> QED BY <1>1, <1>2, KeysInvariant, PTL DEF Spec

OldRetired ==
    Old \notin pub \cap priv =>
      /\ env = {New} /\ \A w \in Writers : names[w] \subseteq {New}
      /\ \A r \in Unfinished : under[r] = {New}

Encrypted == \A r \in handed : under[r] # {}

LEMMA OldRetiredStep ==
  ASSUME KeysInv, OldRetired, Encrypted, [Next]_vars
  PROVE  OldRetired' /\ Encrypted'
<1> USE DEF Unfinished, wvars, dvars
<1>1. CASE UNCHANGED <<handed, under, kvars>> /\ lost \subseteq lost' /\ pending' \subseteq pending
  BY <1>1 DEF OldRetired, Encrypted, kvars
<1>2. CASE Operate
  <2>1. KeySteps /\ UNCHANGED <<handed, lost, under, pending>>
    BY <1>2, OperateSteps
  <2>2. KeysTypeOK /\ Old # New
    BY NamesAssumption DEF KeysInv, TypeOK
  <2>3. /\ handed \subseteq Requests
        /\ \A r \in Requests : under[r] \in SUBSET {Old, New}
    BY DEF KeysInv, TypeOK, posted
  <2>4. Encrypted'
    BY <2>1 DEF Encrypted
  <2> USE DEF OldRetired, KeysTypeOK
  <2>5. CASE DistributePrivate
    BY <2>1, <2>2, <2>4, <2>5 DEF DistributePrivate
  <2>6. CASE DistributePublic
    BY <2>1, <2>2, <2>4, <2>6 DEF DistributePublic
  <2>7. CASE OpenOverlap \/ RollBack \/ RetireOld(\A r \in Unfinished : under[r] # {Old})
    <3>1. env # {New} /\ UNCHANGED <<pub, priv>>
      BY <2>2, <2>7 DEF OpenOverlap, RollBack, RetireOld
    <3> QED BY <2>4, <3>1
  <2>8. CASE \/ RemovePublic(\A r \in Unfinished : Old \notin under[r])
             \/ RemovePrivate(\A r \in Unfinished : Old \notin under[r])
    <3>1. /\ env = {New} /\ UNCHANGED <<env, names>>
          /\ \A w \in Writers : names[w] \subseteq {New}
          /\ \A r \in Unfinished : Old \notin under[r]
      BY <2>8 DEF RemovePublic, RemovePrivate, Rolled
    <3>2. \A r \in Unfinished : under[r] = {New}
      BY <2>3, <3>1 DEF Encrypted
    <3> QED BY <2>1, <2>4, <3>1, <3>2
  <2>9. ASSUME NEW w \in Writers, StartWriter(w) \/ StopWriter(w) PROVE OldRetired'
    <3>1. UNCHANGED <<env, pub, priv>> /\ \A v \in Writers : names'[v] \in {names[v], env, {}}
      BY <2>2, <2>9 DEF StartWriter, StopWriter
    <3> QED BY <2>1, <3>1
  <2> QED BY <2>1, <2>4, <2>5, <2>6, <2>7, <2>8, <2>9 DEF KeySteps
<1>3. ASSUME NEW r \in Requests, Hand(r) PROVE OldRetired' /\ Encrypted'
  <2>1. /\ r \notin handed /\ handed' = handed \cup {r}
        /\ \E w \in Writers : names[w] # {} /\ under' = [under EXCEPT ![r] = names[w]]
        /\ UNCHANGED <<held, answer, lost, clvars, kvars, dvars>>
    BY <1>3, HandSteps
  <2>2. PICK w \in Writers : names[w] # {} /\ under' = [under EXCEPT ![r] = names[w]]
    BY <2>1
  <2>3. under'[r] = names[w] /\ \A t \in handed : under'[t] = under[t]
    BY <2>1, <2>2 DEF KeysInv, TypeOK
  <2>4. Encrypted'
    BY <2>1, <2>2, <2>3 DEF Encrypted
  <2>5. OldRetired'
    BY <2>1, <2>2, <2>3 DEF OldRetired, kvars
  <2> QED BY <2>4, <2>5
<1>4. ASSUME NEW r \in Requests, Hold(r) \/ Lose(r) \/ \E a \in Replies : Tell(r, a)
      PROVE  OldRetired' /\ Encrypted'
  <2>1. UNCHANGED <<handed, under, kvars, pending>> /\ lost \subseteq lost'
    BY <1>4, HoldSteps, TellSteps DEF Lose
  <2> QED BY <1>1, <2>1
<1>5. ASSUME NEW r \in Requests, Push(r) \/ Decide(r) \/ Retire(r)
      PROVE  OldRetired' /\ Encrypted'
  <2>1. UNCHANGED <<wvars, kvars>> /\ pending' \subseteq pending
    BY <1>5 DEF Push, Decide, Retire, D!Take, D!Decide, D!Retire
  <2> QED BY <1>1, <2>1
<1>6. CASE ComeAndGo \/ UNCHANGED vars \/ \E s \in Submissions : Submit(s)
  <2>1. UNCHANGED <<handed, under, kvars, lost, pending>>
    BY <1>6 DEF ComeAndGo, Submit, vars
  <2> QED BY <1>1, <2>1
<1> QED BY <1>2, <1>3, <1>4, <1>5, <1>6 DEF Next

(***************************************************************************)
(* The goal of the rotation: from the moment a file of the outgoing key is *)
(* removed on either side nothing refers to it, not the configuration, not *)
(* a writer that runs, however late it was restarted, and not a message    *)
(* that may still be delivered, and nothing ever will again.               *)
(***************************************************************************)
THEOREM OldIsRetired == Spec => []OldRetired
<1>1. Init => OldRetired /\ Encrypted
  BY DEF Init, KeysInit, OldRetired, Encrypted
<1>2. KeysInv /\ OldRetired /\ Encrypted /\ [Next]_vars => OldRetired' /\ Encrypted'
  BY OldRetiredStep
<1> QED BY <1>1, <1>2, KeysInvariant, PTL DEF Spec

-----------------------------------------------------------------------------
(* What a result tells.                                                    *)

\* The answers are true of the topic.
Told ==
    \A r \in Requests :
      /\ Word(answer[r]) = "accepted" => r \in held
      /\ Word(answer[r]) = "refused" => r \notin handed

\* The results are true of the answers to the latest requests.
Heard ==
    \A s \in Submissions :
      /\ call[s] # "returned" => result[s] = "none"
      /\ result[s] = "local error" => sent[s] = 0
      /\ result[s] = "response" =>
           Latest(s) \in Requests /\ Word(answer[Latest(s)]) = "accepted"
      /\ result[s] \in Sentinels \ {"substrate-unavailable"} =>
           Latest(s) \in Requests /\ Word(answer[Latest(s)]) = "refused"

LEMMA ToldStep ==
  ASSUME TypeOK, Told, [Next]_vars
  PROVE  Told' /\ \A r \in Requests : answer'[r] = answer[r] \/ Word(answer[r]) = "nothing"
<1> USE DEF Told, wvars
<1>1. ASSUME NEW r \in Requests, Hand(r)
      PROVE  Told' /\ UNCHANGED answer
  BY <1>1, HandSteps
<1>2. ASSUME NEW r \in Requests, Hold(r)
      PROVE  Told' /\ UNCHANGED answer
  BY <1>2, HoldSteps
<1>3. ASSUME NEW r \in Requests, NEW a \in Replies, Tell(r, a)
      PROVE  /\ Told'
             /\ \A t \in Requests : answer'[t] = answer[t] \/ Word(answer[t]) = "nothing"
  <2>1. /\ Word(answer[r]) = "nothing"
        /\ Word(a) = "accepted" => r \in held
        /\ Word(a) = "refused" => r \notin handed
        /\ answer' = [answer EXCEPT ![r] = a]
        /\ UNCHANGED <<handed, held>>
    BY <1>3, TellSteps
  <2>2. answer'[r] = a /\ \A t \in Requests \ {r} : answer'[t] = answer[t]
    BY <2>1 DEF TypeOK
  <2> QED BY <2>1, <2>2
<1>4. ASSUME \/ Operate \/ ComeAndGo \/ UNCHANGED vars \/ \E s \in Submissions : Submit(s)
             \/ \E r \in Requests : Lose(r) \/ Push(r) \/ Decide(r) \/ Retire(r)
      PROVE  Told' /\ UNCHANGED answer
  <2>1. UNCHANGED <<handed, held, answer>>
    BY <1>4 DEF Operate, ComeAndGo, Submit, Lose, Push, Decide, Retire, vars
  <2> QED BY <2>1
<1> QED BY <1>1, <1>2, <1>3, <1>4 DEF Next

\* What is made of an answer.
LEMMA HeardAnswer ==
  ASSUME NEW a \in Answers \ {"none"}, NEW o,
         \/ o = "unreadable body"
         \/ o = IF a = "envelope" THEN "response" ELSE Sentinel(a)
  PROVE  /\ o # "local error"
         /\ o = "response" => Word(a) = "accepted"
         /\ o \in Sentinels \ {"substrate-unavailable"} => Word(a) = "refused"
<1>1. CASE o = "unreadable body"
  BY <1>1 DEF Sentinels, KnownTypes, Problems
<1>2. CASE a = "envelope" /\ o = "response"
  BY <1>2, WordsDiffer DEF Sentinels, KnownTypes, Problems
<1>3. CASE a # "envelope" /\ o = Sentinel(a)
  BY <1>3, WordsDiffer DEF Sentinel, Sentinels, KnownTypes, Problems
<1> QED BY <1>1, <1>2, <1>3

LEMMA HeardSubmit ==
  ASSUME TypeOK, Heard, NEW s \in Submissions, Submit(s)
  PROVE  Heard'
<1> DEFINE Hears(t) ==
             /\ call[t] # "returned" => result[t] = "none"
             /\ result[t] = "local error" => sent[t] = 0
             /\ result[t] = "response" =>
                  Latest(t) \in Requests /\ Word(answer[Latest(t)]) = "accepted"
             /\ result[t] \in Sentinels \ {"substrate-unavailable"} =>
                  Latest(t) \in Requests /\ Word(answer[Latest(t)]) = "refused"
<1>1. ClientSteps(s) /\ UNCHANGED answer /\ ClientTypeOK
  BY SubmitSteps DEF wvars, TypeOK
<1>2. ASSUME NEW t \in Submissions \ {s} PROVE Hears(t)'
  <2>1. UNCHANGED <<call[t], result[t], sent[t]>>
    BY <1>1, <1>2, ClientEffect DEF ClientTypeOK
  <2>2. UNCHANGED <<Latest(t), answer>>
    BY <1>1, <2>1 DEF Latest
  <2> QED BY <1>2, <2>1, <2>2 DEF Heard
<1>3. Hears(s)'
  <2>1. CASE FailLocally(s)
    BY <1>1, <2>1 DEF FailLocally, Return, ClientTypeOK, Sentinels, KnownTypes, Problems
  <2>2. CASE Send(s) \/ Resend(s)
    <3>1. result'[s] = "none"
      BY <1>1, <2>2 DEF Send, Resend, ClientTypeOK, Heard
    <3> QED BY <3>1, NoneIsNoResult
  <2>3. CASE GiveUp(s)
    BY <1>1, <2>3 DEF GiveUp, Return, ClientTypeOK, Sentinels, KnownTypes, Problems
  <2>4. CASE /\ Latest(s) \in Requests /\ answer[Latest(s)] # "none"
             /\ ReadAnswer(s, answer[Latest(s)])
    <3>1. PICK o : /\ Return(s, o)
                   /\ \/ o = "unreadable body"
                      \/ o = IF answer[Latest(s)] = "envelope" THEN "response"
                                                   ELSE Sentinel(answer[Latest(s)])
      BY <2>4 DEF ReadAnswer
    <3>2. call'[s] = "returned" /\ result'[s] = o /\ sent'[s] = sent[s]
      BY <1>1, <3>1 DEF Return, ClientTypeOK
    <3>3. UNCHANGED <<Latest(s), answer>>
      BY <1>1, <3>2 DEF Latest
    <3>4. answer[Latest(s)] \in Answers \ {"none"}
      BY <2>4 DEF TypeOK
    <3>5. /\ o # "local error"
          /\ o = "response" => Word(answer[Latest(s)]) = "accepted"
          /\ o \in Sentinels \ {"substrate-unavailable"} => Word(answer[Latest(s)]) = "refused"
      BY <3>1, <3>4, HeardAnswer
    <3> QED BY <2>4, <3>2, <3>3, <3>5
  <2> QED BY <1>1, <2>1, <2>2, <2>3, <2>4 DEF ClientSteps
<1> QED BY <1>2, <1>3 DEF Heard

LEMMA HeardStep ==
  ASSUME TypeOK, Told, Heard, [Next]_vars
  PROVE  Heard'
<1>1. CASE \E s \in Submissions : Submit(s)
  BY <1>1, HeardSubmit
<1>2. CASE UNCHANGED clvars
  <2>1. \A r \in Requests : answer'[r] = answer[r] \/ Word(answer[r]) = "nothing"
    BY ToldStep
  <2> QED BY <1>2, <2>1 DEF Heard, clvars, Latest
<1>3. UNCHANGED clvars \/ \E s \in Submissions : Submit(s)
  BY DEF Next, vars, ComeAndGo, Operate, Hand, Hold, Lose, Tell, Push, Decide, Retire
<1> QED BY <1>1, <1>2, <1>3

FateInv == TypeOK /\ Told /\ Heard

LEMMA FateInvariant == Spec => []FateInv
<1>1. Init => Told /\ Heard
  BY WordsDiffer DEF Init, Told, Heard, ClientInit, Sentinels, KnownTypes, Problems
<1>2. TypeOK /\ Told /\ Heard /\ [Next]_vars => Told' /\ Heard'
  BY ToldStep, HeardStep
<1>3. TypeOK /\ Told /\ Heard => FateInv
  BY DEF FateInv
<1> QED BY <1>1, <1>2, <1>3, TypeCorrect, PTL DEF Spec

\* Whose request was handed over is known by its submission and its number.
LEMMA Numbered ==
  ASSUME TypeOK, NEW r \in handed
  PROVE  /\ r \in Requests /\ r[1] \in Submissions /\ r[2] \in 1..sent[r[1]]
         /\ r = <<r[1], r[2]>>
<1>1. r \in Requests /\ r[2] <= sent[r[1]]
  BY DEF TypeOK, posted
<1>2. PICK s \in Submissions, k \in 1..MaxSends : r = <<s, k>>
  BY <1>1 DEF Requests
<1> QED BY <1>1, <1>2, SendsAssumption

(***************************************************************************)
(* From what Submit returns a caller knows the fate of its notification,   *)
(* unless it was told that it cannot know, or gave an idempotency key and  *)
(* had its request sent again: then it knows that of the last request.     *)
(***************************************************************************)
THEOREM FateTold == Spec => []ResultTellsFate
<1>1. TypeOK /\ Told /\ Heard => ResultTellsFate
  <2> SUFFICES ASSUME TypeOK, Told, Heard, NEW s \in Submissions
               PROVE  /\ result[s] = "response" => Latest(s) \in held
                      /\ result[s] \notin Ambiguous \cup {"response", "none"} =>
                           \A r \in handed \cup taken : r[1] = s => s \in keyed /\ r # Latest(s)
    BY DEF ResultTellsFate
  <2>1. result[s] = "response" => Latest(s) \in held
    BY DEF Told, Heard
  <2>2. ASSUME result[s] \notin Ambiguous \cup {"response", "none"},
               NEW r \in handed \cup taken, r[1] = s
        PROVE  s \in keyed /\ r # Latest(s)
    <3>1. r \in handed
      BY <2>2 DEF TypeOK
    <3>2. r[2] \in 1..sent[s] /\ r \in Requests
      BY <2>2, <3>1, Numbered
    <3>3. sent[s] \in Nat /\ (sent[s] > 1 => s \in keyed)
      BY DEF TypeOK, ClientTypeOK
    <3>4. result[s] \in (Sentinels \ {"substrate-unavailable"}) \cup {"local error"}
      BY <2>2 DEF TypeOK, ClientTypeOK, Others, Ambiguous
    <3>5. sent[s] # 0
      BY <3>2, <3>3
    <3>6. result[s] # "local error"
      BY <3>5 DEF Heard
    <3>7. Latest(s) \notin handed
      BY <3>4, <3>6 DEF Told, Heard
    <3>8. r # Latest(s)
      BY <3>1, <3>7
    <3>9. r[2] # sent[s]
      BY <2>2, <3>1, <3>8, Numbered DEF Latest
    <3>10. s \in keyed
      BY <3>2, <3>3, <3>9
    <3> QED BY <3>8, <3>10
  <2> QED BY <2>1, <2>2
<1>2. FateInv => TypeOK /\ Told /\ Heard
  BY DEF FateInv
<1> QED BY <1>1, <1>2, FateInvariant, PTL

ResultsStand ==
    [][/\ \A s \in Submissions : /\ result[s] # "none" => result'[s] = result[s]
                                 /\ call[s] = "returned" => sent'[s] = sent[s]
       /\ \A r \in Requests : /\ answer[r] # "none" => answer'[r] = answer[r]
                              /\ r \in handed => under'[r] = under[r]]_vars

(***************************************************************************)
(* What Submit has returned, what a writer has answered and the keys a     *)
(* message is encrypted under are settled, and a call that has returned    *)
(* sends nothing more: no answer that comes late, no restart and no        *)
(* rotation change them.                                                   *)
(***************************************************************************)
THEOREM ResultsAreFinal == Spec => ResultsStand
<1> DEFINE Stands(s) == /\ result[s] # "none" => result'[s] = result[s]
                        /\ call[s] = "returned" => sent'[s] = sent[s]
           Keeps(r) == /\ answer[r] # "none" => answer'[r] = answer[r]
                       /\ r \in handed => under'[r] = under[r]
<1>2. ASSUME TypeOK, Heard, [Next]_vars, NEW t \in Submissions
      PROVE  Stands(t)
  <2>1. ASSUME NEW s \in Submissions, Submit(s) PROVE Stands(t)
    <3>1. ClientSteps(s) /\ ClientTypeOK
      BY <1>2, <2>1, SubmitSteps DEF TypeOK
    <3>2. call[s] # "returned" /\ result[s] = "none"
      BY <1>2, <3>1, ClientEffect DEF Heard
    <3>3. t # s => result'[t] = result[t] /\ sent'[t] = sent[t]
      BY <3>1, ClientEffect DEF ClientTypeOK
    <3> QED BY <3>2, <3>3
  <2>2. CASE UNCHANGED clvars
    BY <2>2 DEF clvars
  <2>3. UNCHANGED clvars \/ \E s \in Submissions : Submit(s)
    BY <1>2 DEF Next, vars, ComeAndGo, Operate, Hand, Hold, Lose, Tell, Push, Decide, Retire
  <2> QED BY <2>1, <2>2, <2>3
<1>3. ASSUME TypeOK, Told, [Next]_vars, NEW t \in Requests, answer[t] # "none"
      PROVE  answer'[t] = answer[t]
  <2>1. answer[t] \in Answers
    BY <1>3 DEF TypeOK
  <2> QED BY <1>3, <2>1, ToldStep, WordsDiffer
<1>4. ASSUME TypeOK, [Next]_vars, NEW t \in handed
      PROVE  under'[t] = under[t]
  <2>1. CASE \E r \in Requests : Hand(r)
    <3>1. PICK r \in Requests : r \notin handed
                                  /\ \E w \in Writers : under' = [under EXCEPT ![r] = names[w]]
      BY <2>1, HandSteps
    <3> QED BY <1>4, <3>1 DEF TypeOK, posted
  <2>2. CASE UNCHANGED under
    BY <2>2
  <2>3. UNCHANGED under \/ \E r \in Requests : Hand(r)
    BY <1>4 DEF Next, vars, wvars, ComeAndGo, Operate, Submit, Hold, Lose, Tell, Push, Decide, Retire
  <2> QED BY <2>1, <2>2, <2>3
<1> DEFINE Stand == /\ \A s \in Submissions : Stands(s)
                    /\ \A r \in Requests : Keeps(r)
<1>5. FateInv /\ [Next]_vars => Stand
  BY <1>2, <1>3, <1>4 DEF FateInv
<1>6. FateInv /\ [Next]_vars => [Stand]_vars
  BY <1>5
<1> HIDE DEF Stand
<1>7. Spec => [][Stand]_vars
  BY <1>6, FateInvariant, PTL DEF Spec
<1> QED BY <1>7 DEF Stand, ResultsStand

-----------------------------------------------------------------------------
(* The composition.                                                        *)

(***************************************************************************)
(* Put together, with the client's calls and the rotation between them,    *)
(* the writers keep the promise of Acceptance and the deliverer that of    *)
(* Delivery.                                                               *)
(***************************************************************************)
THEOREM KeepsPromises == Spec => W!Spec /\ D!Spec
<1>1. Init => W!Init /\ D!Init
  <2>1. Word("none") = "nothing"
    BY WordsDiffer
  <2> QED BY <2>1 DEF Init, W!Init
<1>2. [Next]_vars => [W!Next]_(W!avars) /\ [D!Next]_(D!dvars)
  <2> SUFFICES ASSUME [Next]_vars PROVE [W!Next]_(W!avars) /\ [D!Next]_(D!dvars)
    OBVIOUS
  <2> USE DEF W!avars, D!dvars, wvars, dvars
  <2>1. ASSUME NEW r \in Requests, Hand(r) PROVE W!Next /\ UNCHANGED D!dvars
    BY <2>1 DEF Hand, W!Next
  <2>2. ASSUME NEW r \in Requests, Hold(r) PROVE W!Next /\ UNCHANGED D!dvars
    BY <2>2 DEF Hold, W!Next
  <2>3. ASSUME NEW r \in Requests, NEW a \in Replies, Tell(r, a)
        PROVE  W!Next /\ UNCHANGED D!dvars
    <3>1. Word(a) \in W!Words
      <4>1. a \in Answers /\ a # "none"
        BY RepliesAreAnswers DEF Answers, Problems
      <4> QED BY <4>1, FourWords, WordsDiffer DEF W!Words
    <3> QED BY <2>3, <3>1 DEF Tell, W!Next
  <2>4. ASSUME NEW r \in Requests, Push(r) \/ Decide(r) \/ Retire(r)
        PROVE  D!Next /\ UNCHANGED W!avars
    BY <2>4 DEF Push, Decide, Retire, D!Next
  <2>5. CASE \/ Operate \/ ComeAndGo \/ UNCHANGED vars
             \/ \E s \in Submissions : Submit(s)
             \/ \E r \in Requests : Lose(r)
    <3>1. UNCHANGED <<handed, held, answer, pending, taken, verdicts>>
      BY <2>5 DEF Operate, ComeAndGo, Submit, Lose, vars
    <3> QED BY <3>1
  <2> QED BY <2>1, <2>2, <2>3, <2>4, <2>5 DEF Next
<1> QED BY <1>1, <1>2, PTL DEF Spec, W!Spec, D!Spec

-----------------------------------------------------------------------------
(* What the two promises give together.                                    *)

\* What Delivery promises, with nothing else in sight.
Promised ==
    /\ \A r \in Requests \ pending : \E v \in Statuses : <<r, v>> \in verdicts
    /\ \A r \in Requests : <<r, "delivered">> \in verdicts => r \in taken

LEMMA DeliveryPromises == D!Spec => []Promised
<1>1. D!Init => Promised
  BY DEF D!Init, Promised
<1>2. Promised /\ [D!Next]_(D!dvars) => Promised'
  <2> SUFFICES ASSUME Promised, [D!Next]_(D!dvars) PROVE Promised'
    OBVIOUS
  <2> USE DEF Promised
  <2>1. ASSUME NEW r \in Requests, D!Take(r) PROVE Promised'
    BY <2>1 DEF D!Take
  <2>2. ASSUME NEW r \in Requests, D!Retire(r) PROVE Promised'
    BY <2>2 DEF D!Retire
  <2>3. ASSUME NEW r \in Requests, NEW v \in Statuses, D!Decide(r, v) PROVE Promised'
    BY <2>3 DEF D!Decide
  <2>4. CASE UNCHANGED D!dvars
    BY <2>4 DEF D!dvars
  <2> QED BY <2>1, <2>2, <2>3, <2>4 DEF D!Next
<1> QED BY <1>1, <1>2, PTL DEF D!Spec

Retired ==
    /\ \A r \in Requests :
         /\ r \notin pending => r \in held \cap posted /\ Decided(r)
         /\ <<r, "delivered">> \in verdicts => r \in taken
    /\ \A s \in Submissions :
         result[s] \notin Ambiguous \cup {"response", "none"} =>
           \A r \in Requests : Decided(r) /\ r[1] = s => s \in keyed /\ r # Latest(s)

(***************************************************************************)
(* From end to end: a notification is retired only when a client posted    *)
(* it, a writer held it and the deliverer decided it; "delivered" is said  *)
(* only of one the provider took; and an outcome is recorded for a         *)
(* submission that Submit has refused only if it had an idempotency key    *)
(* and was sent more than once, and then for an earlier request than the   *)
(* one that was refused.                                                   *)
(***************************************************************************)
THEOREM RetiredIsDecided == Spec => []Retired
<1>1. TypeOK /\ Promised /\ ResultTellsFate => Retired
  <2> SUFFICES ASSUME TypeOK, Promised, ResultTellsFate PROVE Retired
    OBVIOUS
  <2>1. \A r \in Requests : Decided(r) => r \in held
    BY DEF TypeOK, Decided
  <2>2. \A r \in Requests : r \in held => r \in handed /\ r \in posted
    BY DEF TypeOK
  <2>3. \A r \in Requests : r \notin pending => Decided(r)
    BY DEF Promised, Decided
  <2> QED BY <2>1, <2>2, <2>3 DEF Promised, ResultTellsFate, Retired
<1> QED BY <1>1, TypeCorrect, FateTold, KeepsPromises, DeliveryPromises, PTL
=============================================================================
