---------------------------- MODULE MCReceiptServer ---------------------------
(***************************************************************************)
(* Instances of SdkClient for TLC: two published decisions, two ids.       *)
(***************************************************************************)
EXTENDS SdkClient

TwoQueries == {"q1", "q2"}
TwoIds     == {"id1", "id2"}
TwoIdOf    == [q \in TwoQueries |-> IF q = "q1" THEN "id1" ELSE "id2"]

Post1(path, share, json, body) ==
    [method |-> "POST", path |-> path, share |-> share, json |-> json, body |-> body]
Get1(route, name, query) ==
    [method |-> "GET", route |-> route, name |-> name, query |-> query]

Call1(surface, method, about, share, view) ==
    [surface |-> surface, method |-> method, about |-> about, share |-> share, view |-> view]

\* Shared decisions on each surface, the lookup of a receipt, and one call for each other way
\* through the client.
SomeCalls ==
    {Call1("sdk", "decide", "q1", TRUE, "none"), Call1("cli", "decide", "q2", TRUE, "none"),
     Call1("mcp", "decide", "q1", FALSE, "none"),
     Call1("cli", "decide", "unpublished", TRUE, "none"),
     Call1("mcp", "decide", "unsupported_via", TRUE, "none"),
     Call1("sdk", "decide", "invalid", TRUE, "none"),
     Call1("sdk", "decision_receipt", "id1", FALSE, "none"),
     Call1("mcp", "decision_receipt", "malformed", FALSE, "none"),
     Call1("sdk", "leaderboard", "unknown", FALSE, "none"),
     Call1("sdk", "entity", "known", FALSE, "other"),
     Call1("sdk", "compare", "known", FALSE, "view")}

Sent == {RequestOf(k) : k \in {h \in SomeCalls : ~Raises(h)}}

\* Of other clients, one request for each other way through do_POST and do_GET, and a
\* decision that is shared without the SDK.
OtherPosts == {Post1("decisions", "true", TRUE, "q1"), Post1("decisions", "true", FALSE, "q1"),
               Post1("other", "true", TRUE, "q1"), Post1("decisions", "other", TRUE, "q2"),
               Post1("decisions", "true", TRUE, "unreadable")}

OtherGets == {Get1("receipt", "id1", "other"), Get1("bad-receipt", "known", "none")}

SomeOthers == OtherPosts \cup OtherGets \cup {OtherMethod}
SomePosts  == OtherPosts \cup {r \in Sent : r.method = "POST"}
SomeGets   == OtherGets \cup {r \in Sent : r.method = "GET"}
===============================================================================
