------------------------------- MODULE Journey -------------------------------
(***************************************************************************)
(* The way of one notification's contents through the system: validated    *)
(* and stamped by the writer, or put on the topic by someone else who has  *)
(* the public keys, then checked by the dispatcher and pushed, again after *)
(* a transient failure.  Writer and Deliverer have the processes; here are *)
(* the contents they abstract from.  Writer and deliverer run on different *)
(* machines: each has its own clock, and neither knows the other's.        *)
(***************************************************************************)
EXTENDS Ingest, Provider

CONSTANTS
    Submitted,    \* the notifications callers may submit
    Foreign,      \* the notifications others may put on the topic
    MaxAttempts   \* DELIVERER_RETRY_MAX_ATTEMPTS

ASSUME NotesAssumption == Submitted \cup Foreign \subseteq Notification
ASSUME AttemptsAssumption == MaxAttempts \in Nat \ {0} /\ Calls = 1 .. MaxAttempts

VARIABLES
    origin,   \* "caller" or "foreign"
    note,     \* the notification as it stands
    place,    \* where it is
    errors,   \* what Validate reported
    clock,    \* the writer's clock, which stamps
    dclock,   \* the deliverer's clock, which says what has expired
    began     \* what Dispatch has read from it, once; 0 before

nvars == <<origin, note, place, errors, clock, dclock, began>>
vars == <<nvars, pvars>>

Places == {"submitted", "refused", "published", "expired", "rejected", "dispatched"}

Init ==
    /\ \/ origin = "caller" /\ place = "submitted" /\ note \in Submitted
       \/ origin = "foreign" /\ place = "published" /\ note \in Foreign
    /\ errors = {}
    /\ clock \in 1 .. MaxTime /\ dclock \in 1 .. MaxTime /\ began = 0
    /\ ProviderInit

Refuse ==
    /\ place = "submitted" /\ Validate(note) # {}
    /\ errors' = Validate(note)
    /\ place' = "refused"
    /\ UNCHANGED <<origin, note, clock, dclock, began, pvars>>

\* Validated as it came, stamped afterwards and published.
Accept ==
    /\ place = "submitted" /\ Validate(note) = {}
    /\ note' = Stamped(note, clock)
    /\ place' = "published"
    /\ UNCHANGED <<origin, errors, clock, dclock, began, pvars>>

\* Dispatch reads its clock when it begins and goes by that: a notification
\* that expires while it is tried again is tried again.
Consume(to) ==
    /\ place = "published"
    /\ place' = to
    /\ began' = dclock
    /\ UNCHANGED <<origin, note, errors, clock, dclock, pvars>>

DropExpired == IsExpired(note, dclock) /\ Consume("expired")

RejectUntargeted ==
    ~IsExpired(note, dclock) /\ ~Resolves(note) /\ Consume("rejected")

StartDispatch ==
    ~IsExpired(note, dclock) /\ Resolves(note) /\ Consume("dispatched")

\* Mutant of Attempt: a permanent failure does not end the loop.
AttemptAgain(c) ==
    /\ place = "dispatched"
    /\ c = 1 \/ (c > 1 /\ result[c - 1] \notin {"none", "success"})
    /\ Begin(c, note.content)
    /\ UNCHANGED nvars

\* The retry loop: the next attempt follows a transient failure.
Attempt(c) ==
    /\ place = "dispatched"
    /\ c = 1 \/ (c > 1 /\ result[c - 1] = "transient")
    /\ Begin(c, note.content)
    /\ UNCHANGED nvars

Exchange(c) == Proceed(c) /\ UNCHANGED nvars

Tick ==
    /\ clock < MaxTime
    /\ clock' = clock + 1
    /\ UNCHANGED <<origin, note, place, errors, dclock, began, pvars>>

DTick ==
    /\ dclock < MaxTime
    /\ dclock' = dclock + 1
    /\ UNCHANGED <<origin, note, place, errors, clock, began, pvars>>

Next ==
    \/ Refuse \/ Accept \/ DropExpired \/ RejectUntargeted \/ StartDispatch
    \/ Tick \/ DTick
    \/ \E c \in Calls : Attempt(c) \/ Exchange(c)

Spec == Init /\ [][Next]_vars

-----------------------------------------------------------------------------
(* What must hold.                                                         *)

TypeOK ==
    /\ origin \in {"caller", "foreign"}
    /\ note \in Notification
    /\ place \in Places
    /\ errors \subseteq Codes
    /\ clock \in 1 .. MaxTime /\ dclock \in 1 .. MaxTime /\ began \in 0 .. MaxTime
    /\ ProviderTypeOK

Accepted == origin = "caller" /\ place \notin {"submitted", "refused"}

(***************************************************************************)
(* FR-003, what Validate is for: a notification the writer has accepted is *)
(* one the dispatcher finds a provider for and the provider can send.      *)
(* Nothing is refused on this side of the service but what others put on   *)
(* the topic.                                                              *)
(***************************************************************************)
AcceptedCanBeSent ==
    Accepted =>
      /\ place # "rejected"
      /\ chosen = "pushover" =>
           \A c \in Calls : result[c] \in PermanentReasons => reply[c] # NoResponse

\* It had expired before it was stamped.
Stillborn(n) == n.expires \notin {Absent, YearOne} /\ n.expires < n.created

\* Where the writer is more lenient than data-model.md: spaces at either end
\* of the title, the length of the sound, a URL that net/url reads and RFC
\* 3986 does not know, an expires_at that has passed.
Lenient(n) ==
    \/ n.title = "padded" \/ n.sound = "long" \/ n.url = "loose"
    \/ n.expires # Absent /\ n.expires < n.created

\* Where it is stricter: it counts these in bytes, and refuses a URL of RFC
\* 3986 that net/url does not read.
Stricter(n) ==
    "wide value" \in n.data \/ n.url_title = "wide" \/ n.key = "wide" \/ n.url = "strange"

(***************************************************************************)
(* Validate refuses what data-model.md forbids, and only that, but for the *)
(* deviations that Lenient and Stricter name.  (What callers put into the  *)
(* fields the writer assigns is overwritten, not refused.)                 *)
(***************************************************************************)
ValidatesTheModel ==
    /\ Accepted => Conforms([note EXCEPT !.created = Absent], note.created) \/ Lenient(note)
    /\ place = "refused" => ~Conforms(note, clock) \/ Stricter(note)

(***************************************************************************)
(* The writer lets through what has expired, and relies on the dispatcher  *)
(* to drop it, whose clock is another one: such a notification is pushed   *)
(* only if the deliverer's clock was behind the writer's stamp.            *)
(***************************************************************************)
StillbornPushedOnlyByLag ==
    Accepted /\ Stillborn(note) /\ (\E c \in Calls : stage[c] # "idle") =>
      began < note.created

\* A call is begun when all before it have failed for the moment.
Following ==
    \A c, d \in Calls :
      c < d /\ stage[d] # "idle" => stage[c] = "returned" /\ result[c] = "transient"

(***************************************************************************)
(* The calls are made one after the other, each after a transient failure  *)
(* of every call before it: a success or a permanent failure is the last   *)
(* word.  So of two copies the service took, at most the last was known to *)
(* be: a recipient is notified twice only when an answer was lost.         *)
(***************************************************************************)
InTurn ==
    /\ Following
    /\ \A c, d \in taken : c < d => result[c] = "transient"

-----------------------------------------------------------------------------
(* What the repository's documents say and the code does not do.           *)

(***************************************************************************)
(* data-model.md: expires_at "MUST be >= created_at if set", and zero is   *)
(* never: a notification is not accepted only to be dropped.               *)
(***************************************************************************)
AcceptedIsAlive == Accepted => ~Stillborn(note)
=============================================================================
