------------------------------- MODULE SdkClient ------------------------------
(***************************************************************************)
(* Callers of the reference server: the Python SDK, and the command line   *)
(* and the MCP server that are built on it, beside clients of any other    *)
(* kind.  A call is checked and sent as a request, and what its caller is  *)
(* told is a document, a problem, or an exception: among the last, that    *)
(* no response came, whatever the server has done.                         *)
(*                                                                         *)
(* A call is [surface, method, about, share, view]: about is the query to  *)
(* decide, the receipt, cell, entity or comparison that is asked for,      *)
(* "malformed" where the SDK's own tests fail; view is the explorer view   *)
(* asked for.  Not every method is offered on every surface.               *)
(***************************************************************************)
EXTENDS ReceiptServer

CONSTANTS Calls,         \* the calls that are made
          OtherRequests  \* the requests that other clients send

VARIABLES call,  \* the call each connection serves, or the shared decision it served last
          told,  \* what its caller was told, or NotTold
          kept   \* a receipt was added to the table for the connection's last request

clientVars == <<call, told, kept>>

NoCall  == [surface |-> "none"]
NotTold == [told |-> "nothing"]

CallsOf(surfaces, method, abouts, shares, views) ==
    [surface : surfaces, method : {method}, about : abouts, share : shares, view : views]

Surfaces == {"sdk", "cli", "mcp"}

AllCalls ==
    CallsOf(Surfaces, "decide",
            Queries \cup {"invalid", "unsupported_via", "unpublished"}, BOOLEAN, {"none"})
    \cup CallsOf(Surfaces, "decision_receipt", Ids \cup {"malformed"}, {FALSE}, {"none"})
    \cup CallsOf(Surfaces, "use_cases", {"known"}, {FALSE}, {"none"})
    \cup CallsOf(Surfaces, "benchmark_health", {"known"}, {FALSE}, {"none"})
    \cup CallsOf({"sdk"}, "leaderboard", {"known", "unknown", "malformed"}, {FALSE}, {"none"})
    \cup UNION {CallsOf({"sdk"}, method, {"known", "unknown", "malformed"}, {FALSE},
                        {"none", "view", "other", "malformed"}) : method \in {"entity", "compare"}}

ASSUME SdkClientAssumption == Calls \subseteq AllCalls
ASSUME OthersAssumption == OtherRequests \subseteq Posts \cup Gets \cup {OtherMethod}

ClientInit == Init /\ call = [c \in Connections |-> NoCall]
                   /\ told = [c \in Connections |-> NotTold]
                   /\ kept = [c \in Connections |-> FALSE]

-------------------------------------------------------------------------------
(* The SDK *)

\* decide reads the query with the class the server reads it with.
Raises(k) == k.about \in {"malformed", "invalid"} \/ k.view = "malformed"

Routes == [use_cases |-> "use-cases", benchmark_health |-> "benchmark-health",
           decision_receipt |-> "receipt", leaderboard |-> "leaderboard",
           entity |-> "entity", compare |-> "compare"]

\* Mutant: share is sent whenever it is a boolean.
ShareAlways(k) == "true"

ShareParameter(k) == IF k.share THEN "true" ELSE "none"

RequestOf(k) ==
    IF k.method = "decide"
    THEN [method |-> "POST", path |-> "decisions", share |-> ShareParameter(k),
          json |-> TRUE, body |-> k.about]
    ELSE [method |-> "GET", route |-> Routes[k.method], name |-> k.about, query |-> k.view]

\* from_dict and verify_..._semantics: whether the document is one of the method's kind, and
\* of the explorer view that was asked for, if one was; the server has a single view.
Reads(k, document) ==
    IF k.method \in {"decide", "decision_receipt"} THEN document \in Queries
    ELSE document = Routes[k.method] /\ k.view \in {"none", "view"}

PROBLEM_CODES == {"rate_limited", "upstream_timeout", "validation", "not_found",
                  "methodology_stale", "internal", "unauthorized", "forbidden",
                  "via_not_supported"}

\* ProblemDetails.from_dict; the status it carries is the response's.
ReadsProblem(r) == r.status \in 400 .. 599 /\ r.body \in PROBLEM_CODES

\* No response: urlopen or read raises an OSError, and nothing in the SDK catches it.
Unanswered == [told |-> "exception", what |-> "OSError"]

\* _request_json and the method that called it.
Outcome(k, r) ==
    CASE r = Nothing                         -> Unanswered
      [] r.status = 200 /\ Reads(k, r.body)  -> [told |-> "document", what |-> r.body]
      [] r.status # 200 /\ ReadsProblem(r)   -> [told |-> "problem", what |-> r.body]
      [] OTHER                               -> [told |-> "exception", what |-> "ValueError"]

\* What the command line exits with, and what the MCP server marks its result with.  The
\* command line catches ValueErrors only, and Python exits with 1 for the others; the MCP
\* server lets exceptions through.
ExitCode(outcome) ==
    CASE outcome.told = "document" -> 0
      [] outcome.told = "problem" \/ outcome = Unanswered -> 1
      [] OTHER -> 2

IsError(outcome) == outcome.told = "problem"

\* What a caller of each surface goes by.
Success(k, outcome) ==
    CASE k.surface = "sdk" -> outcome.told = "document"
      [] k.surface = "cli" -> ExitCode(outcome) = 0
      [] k.surface = "mcp" -> outcome.told # "exception" /\ ~IsError(outcome)

-------------------------------------------------------------------------------
(* Actions *)

\* A call that raises is never sent.
Call(c, k) ==
    /\ ~Raises(k)
    /\ Send(c) /\ request'[c] = RequestOf(k)
    /\ call' = [call EXCEPT ![c] = k]

OtherClient(c) ==
    /\ Send(c) /\ request'[c] \in OtherRequests
    /\ call' = [call EXCEPT ![c] = NoCall]

Begin(c) ==
    /\ (\E k \in Calls : Call(c, k)) \/ OtherClient(c)
    /\ told' = [told EXCEPT ![c] = NotTold]
    /\ kept' = [kept EXCEPT ![c] = FALSE]

\* A step of the connection's thread or its client, after which the caller has been told what.
\* Of the calls that are over, those that asked to share are remembered.
Follow(c, what) ==
    LET over == pc'[c] = "idle" /\ (call[c] = NoCall \/ ~call[c].share)
    IN  /\ call' = [call EXCEPT ![c] = IF over THEN NoCall ELSE @]
        /\ told' = [told EXCEPT ![c] = IF over THEN NotTold ELSE what]
        /\ kept' = [kept EXCEPT ![c] = ~over /\ (@ \/ shared' # shared)]

\* The call, if there is one, returns or raises.
Ends(c, r) == Follow(c, IF call[c] = NoCall THEN NotTold ELSE Outcome(call[c], r))

\* The calls that are open end; what was told before is about a table that is gone.
Restarted ==
    /\ Restart
    /\ call' = [c \in Connections |-> IF told[c] = NotTold THEN call[c] ELSE NoCall]
    /\ told' = [c \in Connections |->
                   IF call'[c] = NoCall THEN NotTold ELSE Outcome(call[c], Nothing)]
    /\ kept' = [c \in Connections |-> FALSE]

ClientNext ==
    \/ \E c \in Connections :
          \/ Begin(c)
          \/ (Arrive(c) \/ Handle(c) \/ Lose(c)) /\ Follow(c, told[c])
          \/ Deliver(c) /\ Ends(c, response[c])
          \/ Leave(c) /\ Ends(c, Nothing)
    \/ Restarted

ClientSpec == ClientInit /\ [][ClientNext]_<<vars, clientVars>> /\ Fairness
-------------------------------------------------------------------------------
Served(c) == pc[c] = "answering" /\ call[c] # NoCall

\* What a call asks for: the decision of its query, the receipt of its id, its route.
Asked(k) ==
    CASE k.method = "decide"           -> {k.about}
      [] k.method = "decision_receipt" -> {q \in Queries : IdOf[q] = k.about}
      [] OTHER                         -> {Routes[k.method]}

\* The SDK does not compare what it gets with what it asked for (__init__.py:118, :126),
\* yet with this server a call is told the document it asked for, whatever other callers
\* do; or a problem that is about what it asked, never about how the SDK asked it.
AnsweredAsAsked ==
    \A c \in Connections : Served(c) =>
        LET k       == call[c]
            outcome == Outcome(k, response[c])
        IN CASE outcome.told = "document" -> outcome.what \in Asked(k)
             [] outcome.told = "problem" /\ outcome.what = "not_found" ->
                   \/ k.about = "unknown"
                   \/ k.method = "decision_receipt"
             [] outcome.told = "problem" /\ outcome.what = "validation" ->
                   k.about = "unpublished" \/ k.view = "other"
             [] outcome.told = "problem" /\ outcome.what = "via_not_supported" ->
                   k.about = "unsupported_via"
             [] OTHER -> FALSE

\* Nothing is kept for a call that did not ask to share, nor for one that is told a problem
\* or the SDK's ValueError.  Only a caller that got no response cannot know: its receipt may
\* be kept, even after it was told so, and the command line then exits as for a problem.  A
\* shared decision that returns, at once or when it is made again after that, has its
\* receipt in the table.
PublishedAsTold ==
    \A c \in Connections :
        /\ kept[c] /\ call[c] # NoCall => call[c].share
        /\ kept[c] /\ told[c] # NotTold =>
              Success(call[c], told[c]) \/ told[c] = Unanswered
        /\ told[c] # NotTold /\ call[c].share /\ Success(call[c], told[c]) =>
              shared[IdOf[call[c].about]] = call[c].about
===============================================================================
