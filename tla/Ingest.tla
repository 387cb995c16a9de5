-------------------------------- MODULE Ingest --------------------------------
(***************************************************************************)
(* What the writer looks at in a notification before it publishes it, and  *)
(* what it sets: Validate and the assignments of Ingester.Accept.          *)
(*                                                                         *)
(* A field is the class of its value.  "long" is over the limit however    *)
(* one counts; "wide" is within it in characters and over it in bytes.     *)
(* Content and target are flat: without content the title, body, priority  *)
(* and data say nothing, and so on.  A URL is "loose" that net/url reads   *)
(* and RFC 3986 does not allow (a space or a letter that is not ASCII in   *)
(* the path), and "strange" the other way round (%41 in the host).         *)
(***************************************************************************)
EXTENDS Integers

CONSTANT MaxTime   \* bound: the last moment

ASSUME TimeAssumption == MaxTime \in Nat \ {0}

(***************************************************************************)
(* A timestamp is absent, the year 1 (the zero of Go), 1970 (the zero of   *)
(* protobuf) or a moment of the present.                                   *)
(***************************************************************************)
Absent == -2
YearOne == -1
Epoch == 0
Timestamps == {Absent, YearOne, Epoch} \cup 1 .. MaxTime

DataEntries == {"plain", "odd key", "long value", "wide value"}

Notification ==
    [ content   : BOOLEAN,
      title     : {"empty", "blank", "padded", "plain", "long"},
      body      : {"empty", "plain", "long"},
      priority  : -3 .. 3,
      data      : SUBSET DataEntries,
      crowded   : BOOLEAN,          \* more than 32 entries
      pushover  : BOOLEAN,          \* the target is set
      user      : {"empty", "plain", "odd"},
      device    : {"empty", "plain", "odd", "long", "long and odd"},
      sound     : {"empty", "plain", "long"},
      url       : {"empty", "plain", "relative", "loose", "strange", "long"},
      url_title : {"empty", "plain", "wide", "long"},
      key       : {"empty", "plain", "wide", "long"},
      created   : Timestamps,
      expires   : Timestamps ]

-----------------------------------------------------------------------------
(* Validate: the errors it reports, each a field and a code.               *)

When(condition, error) == IF condition THEN {error} ELSE {}

\* Mutant of DataErrors: the code of another field.
DataErrorsMixed(n) ==
    When(n.data \cap {"long value", "wide value"} # {}, <<"content.data", "too-long">>)

DataErrors(n) ==
    When(n.crowded, <<"content.data", "too-many-entries">>)
      \cup When("odd key" \in n.data, <<"content.data", "key-invalid">>)
      \cup When(n.data \cap {"long value", "wide value"} # {},
                <<"content.data", "value-too-long">>)

\* Mutant of ContentErrors: absent content is nothing to complain of.
ContentErrorsOfPresent(n) ==
    When(n.content /\ n.title = "empty", <<"content.title", "required">>)
      \cup When(n.content /\ n.body = "empty", <<"content.body", "required">>)

ContentErrors(n) ==
    IF ~n.content
    THEN {<<"content.title", "required">>, <<"content.body", "required">>}
    ELSE When(n.title = "empty", <<"content.title", "required">>)
           \cup When(n.title = "blank", <<"content.title", "whitespace-only">>)
           \cup When(n.title = "long", <<"content.title", "too-long">>)
           \cup When(n.body = "empty", <<"content.body", "required">>)
           \cup When(n.body = "long", <<"content.body", "too-long">>)
           \cup When(n.priority \notin -2 .. 2, <<"content.priority", "out-of-range">>)
           \cup DataErrors(n)

\* Mutant of UrlErrors: a title is checked by itself.
UrlErrorsApart(n) ==
    When(n.url = "long", <<"target.pushover.url", "too-long">>)
      \cup When(n.url \in {"relative", "strange"}, <<"target.pushover.url", "malformed">>)
      \cup When(n.url_title \in {"wide", "long"}, <<"target.pushover.url_title", "too-long">>)

UrlErrors(n) ==
    When(n.url = "long", <<"target.pushover.url", "too-long">>)
      \cup When(n.url \in {"relative", "strange"}, <<"target.pushover.url", "malformed">>)
      \cup When(n.url_title \in {"wide", "long"}, <<"target.pushover.url_title", "too-long">>)
      \cup When(n.url_title # "empty" /\ n.url = "empty",
                <<"target.pushover.url_title", "requires-url">>)

\* The sound is not looked at, and the only arm of the target is Pushover.
TargetErrors(n) ==
    IF ~n.pushover
    THEN {<<"target", "missing">>}
    ELSE When(n.user = "empty", <<"target.pushover.user_or_group_key", "required">>)
           \cup When(n.user = "odd", <<"target.pushover.user_or_group_key", "malformed">>)
           \cup When(n.device \in {"long", "long and odd"},
                     <<"target.pushover.device_name", "too-long">>)
           \cup When(n.device \in {"odd", "long and odd"},
                     <<"target.pushover.device_name", "malformed">>)
           \cup UrlErrors(n)

\* The created_at compared is the caller's: Accept has not replaced it yet.
TimestampErrors(n) ==
    When(Absent \notin {n.expires, n.created} /\ n.expires < n.created,
         <<"expires_at", "before-created-at">>)

KeyErrors(n) == When(n.key \in {"wide", "long"}, <<"idempotency_key", "too-long">>)

Validate(n) == ContentErrors(n) \cup TargetErrors(n) \cup TimestampErrors(n) \cup KeyErrors(n)

\* Accept's assignments, at the moment now.
Stamped(n, now) == [n EXCEPT !.created = now]

-----------------------------------------------------------------------------
(* The dispatcher's side of the timestamps and the target.                 *)

\* Mutant of IsExpired: the arguments of After are swapped.
IsExpiredEarly(n, now) == n.expires \notin {Absent, YearOne} /\ now < n.expires

\* IsZero asks for the year 1.
IsExpired(n, now) == n.expires \notin {Absent, YearOne} /\ now > n.expires

Resolves(n) == n.pushover

-----------------------------------------------------------------------------
(* data-model.md: what a notification must be when it is accepted at the   *)
(* moment now, and what it may be refused with.                            *)

Conforms(n, now) ==
    /\ n.content /\ n.title = "plain" /\ n.body = "plain"
    /\ n.priority \in -2 .. 2
    /\ ~n.crowded /\ n.data \subseteq {"plain", "wide value"}
    /\ n.pushover /\ n.user = "plain"
    /\ n.device \in {"empty", "plain"} /\ n.sound \in {"empty", "plain"}
    /\ n.url \in {"empty", "plain", "strange"}
    /\ n.url_title \in {"empty", "plain", "wide"}
    /\ n.url_title # "empty" => n.url # "empty"
    /\ n.key \in {"empty", "plain", "wide"}
    /\ n.created = Absent
    /\ n.expires \in {Absent, Epoch} \/ n.expires >= now

Codes ==
    {"content.title"} \X {"required", "too-long", "whitespace-only"}
      \cup {"content.body"} \X {"required", "too-long"}
      \cup {"content.priority"} \X {"out-of-range"}
      \cup {"content.data"} \X {"too-many-entries", "key-invalid", "value-too-long"}
      \cup {"target"} \X {"missing", "unknown-arm"}
      \cup {"target.pushover.user_or_group_key"} \X {"required", "malformed"}
      \cup {"target.pushover.device_name"} \X {"malformed", "too-long"}
      \cup {"target.pushover.url"} \X {"malformed", "too-long"}
      \cup {"target.pushover.url_title"} \X {"requires-url", "too-long"}
      \cup {"expires_at"} \X {"before-created-at"}
      \cup {"idempotency_key"} \X {"too-long"}
=============================================================================
