------------------------------ MODULE MCJourney ------------------------------
(* Small instances of Journey for TLC.                                     *)
EXTENDS Journey

\* A notification with nothing wrong and nothing optional.
Plain ==
    [ content |-> TRUE, title |-> "plain", body |-> "plain", priority |-> 0, data |-> {},
      crowded |-> FALSE, pushover |-> TRUE, user |-> "plain", device |-> "empty",
      sound |-> "empty", url |-> "empty", url_title |-> "empty", key |-> "empty",
      created |-> Absent, expires |-> Absent ]

\* What each field may be instead.
Others ==
    [ content |-> {FALSE}, title |-> {"empty", "blank", "padded", "long"},
      body |-> {"empty", "long"}, priority |-> {-3, -2, 2, 3},
      data |-> SUBSET {"odd key", "long value"} \cup {{"plain", "wide value"}, {"plain"}},
      crowded |-> {TRUE}, pushover |-> {FALSE}, user |-> {"empty", "odd"},
      device |-> {"plain", "odd", "long", "long and odd"}, sound |-> {"plain", "long"},
      url |-> {"plain", "relative", "loose", "strange", "long"},
      url_title |-> {"plain", "wide", "long"}, key |-> {"plain", "wide", "long"},
      created |-> Timestamps, expires |-> Timestamps ]

With(n, f) == {[n EXCEPT ![f] = v] : v \in Others[f]}

\* Both fields at once, for fields that one rule or one branch connects.
Both(f, g) == UNION {With(n, g) : n \in With(Plain, f)}

OneOther == {Plain} \cup UNION {With(Plain, f) : f \in DOMAIN Plain}

Submissions ==
    OneOther \cup Both("created", "expires") \cup Both("url", "url_title")
      \cup Both("content", "title") \cup Both("pushover", "user") \cup Both("data", "crowded")

\* Submitted at the moment 2 or later, it has expired.
Late == {[Plain EXCEPT !.expires = 1]}

\* What others may put on the topic.
Strangers ==
    {Plain} \cup With(Plain, "content") \cup With(Plain, "pushover") \cup With(Plain, "expires")

\* The first attempt fails by the script and the second succeeds.
Scripts == <<"transient", "nil">>
=============================================================================
