----------------------------- MODULE ReceiptServer ----------------------------
(***************************************************************************)
(* The reference server: one thread per connection, decisions answered     *)
(* from the published golden receipts, and a receipt kept for later        *)
(* lookups when the caller asks to share it.  The table of shared receipts *)
(* lives in memory behind a lock, so a restart forgets it.                 *)
(*                                                                         *)
(* A decision request is reduced to what do_POST tests, a GET request to   *)
(* its route and to whether what it names exists.  A client may stop in    *)
(* the middle of its request, may give up waiting whatever the handler is  *)
(* doing for it, and may send anything again.                              *)
(***************************************************************************)
EXTENDS Integers, FiniteSets

CONSTANTS Connections,   \* connections open at the same time
          Queries,       \* the queries of the published golden receipts
          Ids,           \* receipt ids
          IdOf,          \* the id of each golden receipt
          Posts,         \* the POST requests clients send
          Gets,          \* the GET requests clients send
          MaxRestarts    \* bound: restarts of the server

(***************************************************************************)
(* share is the query string: none, share=true, share=false, anything      *)
(* else.  body is what reading and decoding it gives: "unreadable" (no     *)
(* Content-Length, too long, cut short, not UTF-8, not JSON), "invalid" as *)
(* a DecisionQueryV2, a query whose resolved via has no probed vocabulary, *)
(* a valid query that is not published, or a published one.                *)
(***************************************************************************)
AllPosts ==
    [method : {"POST"}, path : {"decisions", "other"},
     share : {"none", "true", "false", "other"}, json : BOOLEAN,
     body : {"unreadable", "invalid", "unsupported_via", "unpublished"} \cup Queries]

(***************************************************************************)
(* name is the receipt asked for, or whether the cell, entity or           *)
(* comparison named is the published one ("known", "unknown").  query is   *)
(* the query string: none, the selectors of the reference view, or other.  *)
(***************************************************************************)
AllGets ==
    [method : {"GET"},
     route : {"compare", "use-cases", "benchmark-health", "leaderboard", "entity",
              "receipt", "bad-receipt", "other"},
     name : Ids \cup {"known", "unknown"},
     query : {"none", "view", "other"}]

ASSUME ReceiptServerAssumption ==
    /\ IdOf \in [Queries -> Ids]
    /\ \A p, q \in Queries : IdOf[p] = IdOf[q] => p = q    \* content addresses
    /\ Queries \cap {"unreadable", "invalid", "unsupported_via", "unpublished"} = {}
    /\ Posts \subseteq AllPosts
    /\ Gets \subseteq AllGets
    /\ \A g \in Gets : g.route = "receipt" => g.name \in Ids
    /\ MaxRestarts \in Nat

Free == "free"
ASSUME ConnectionAssumption == Free \notin Connections

NoReceipt == "none"
ASSUME QueriesAssumption == NoReceipt \notin Queries

VARIABLES shared,    \* shared_receipts: the golden receipt kept under each id, if any
          lock,      \* the connection that holds shared_receipts_lock, or Free
          pc,        \* where the handler of each connection is
          gone,      \* the client no longer waits for the response
          request,   \* its request
          response,  \* its response, once chosen
          promised,  \* ids a client has got a 200 for that says they are shared
          owed,      \* the connection's request names an id promised before it was sent
          restarts   \* restarts so far

vars == <<shared, lock, pc, gone, request, response, promised, owed, restarts>>

Nothing    == [status |-> 0, body |-> "nothing"]
NoRequest  == [method |-> "none"]
OtherMethod == [method |-> "other"]
Ok(b)      == [status |-> 200, body |-> b]

\* A problem's document repeats its status; the rest that matters is its code.
Problem(s, code) == [status |-> s, body |-> code]
Invalid(s)       == Problem(s, "validation")
NotFound         == Problem(404, "not_found")


Init ==
    /\ shared = [id \in Ids |-> NoReceipt]
    /\ lock = Free
    /\ pc = [c \in Connections |-> "idle"]
    /\ gone = [c \in Connections |-> FALSE]
    /\ request = [c \in Connections |-> NoRequest]
    /\ response = [c \in Connections |-> Nothing]
    /\ promised = {}
    /\ owed = [c \in Connections |-> FALSE]
    /\ restarts = 0
-------------------------------------------------------------------------------
(***************************************************************************)
(* What the handlers answer without looking at the table, in the order of  *)
(* their tests.  Nothing means that the table is needed.                   *)
(***************************************************************************)
Malformed(r) ==
    CASE r.path # "decisions"                      -> NotFound
      [] r.path = "decisions" /\ r.share = "other" -> Invalid(400)
      [] OTHER -> Nothing

Undecided(r) ==
    CASE r.body = "unreadable"      -> Invalid(400)
      [] r.body = "unsupported_via" -> Problem(422, "via_not_supported")
      [] r.body \in {"invalid", "unpublished"} -> Invalid(422)
      [] OTHER -> Nothing

\* Mutants: share is parsed and forgotten; the content type is not tested.
PostAnswerUnshared(r) ==
    IF Malformed(r) # Nothing THEN Malformed(r)
    ELSE IF ~r.json THEN Invalid(415)
    ELSE IF Undecided(r) # Nothing THEN Undecided(r) ELSE Ok(r.body)

PostAnswerAnyType(r) ==
    IF Malformed(r) # Nothing THEN Malformed(r)
    ELSE IF Undecided(r) # Nothing THEN Undecided(r)
    ELSE IF r.share = "true" THEN Nothing ELSE Ok(r.body)

PostAnswer(r) ==
    IF Malformed(r) # Nothing THEN Malformed(r)
    ELSE IF ~r.json THEN Invalid(415)
    ELSE IF Undecided(r) # Nothing THEN Undecided(r)
    ELSE IF r.share = "true" THEN Nothing ELSE Ok(r.body)

GetAnswer(r) ==
    CASE r.route \in {"use-cases", "benchmark-health"} -> Ok(r.route)
      [] r.route = "leaderboard" -> IF r.name = "known" THEN Ok(r.route) ELSE NotFound
      [] r.route \in {"entity", "compare"} ->
           IF r.query = "other" THEN Invalid(400)
           ELSE IF r.name = "known" THEN Ok(r.route) ELSE NotFound
      [] OTHER ->
           IF r.query # "none" THEN Invalid(400)
           ELSE IF r.route = "receipt" THEN Nothing
           ELSE IF r.route = "bad-receipt" THEN Invalid(400) ELSE NotFound
-------------------------------------------------------------------------------
Goto(c, l) == pc' = [pc EXCEPT ![c] = l]

\* The connection is closed and its thread ends.
Close(c) ==
    /\ Goto(c, "idle")
    /\ gone' = [gone EXCEPT ![c] = FALSE]
    /\ request' = [request EXCEPT ![c] = NoRequest]
    /\ response' = [response EXCEPT ![c] = Nothing]
    /\ owed' = [owed EXCEPT ![c] = FALSE]

Asks(r, id) == r.method = "GET" /\ r.route = "receipt" /\ r.query = "none" /\ r.name = id
Shares(r)   == r.method = "POST" /\ r.share = "true" /\ r.body \in Queries

\* A client connects and begins to send a request.
Send(c) ==
    /\ pc[c] = "idle"
    /\ \E r \in Posts \cup Gets \cup {OtherMethod} :
          /\ request' = [request EXCEPT ![c] = r]
          /\ owed' = [owed EXCEPT ![c] = \E id \in promised : Asks(r, id)]
    /\ Goto(c, "sending")
    /\ UNCHANGED <<shared, lock, gone, response, promised, restarts>>

\* The handler has read it: the request line, the headers, and what its method reads of
\* the body (_read_request_body, _discard_request_body).
Arrive(c) ==
    /\ pc[c] = "sending"
    /\ Goto(c, "received")
    /\ UNCHANGED <<shared, lock, gone, request, response, promised, owed, restarts>>

\* The client goes before that.  The handler reads a request that is cut short, and has
\* nobody to answer.
BreakOff(c) ==
    /\ pc[c] = "sending"
    /\ Close(c)
    /\ UNCHANGED <<shared, lock, promised, restarts>>

\* The client times out, or the connection breaks; the handler does not notice.
GiveUp(c) ==
    /\ pc[c] \notin {"idle", "sending"} /\ ~gone[c]
    /\ gone' = [gone EXCEPT ![c] = TRUE]
    /\ UNCHANGED <<shared, lock, pc, request, response, promised, owed, restarts>>

\* do_POST up to retain_receipt.
Post(c) ==
    /\ pc[c] = "received" /\ request[c].method = "POST"
    /\ LET answer == PostAnswer(request[c])
       IN  IF answer = Nothing
           THEN Goto(c, "sharing") /\ UNCHANGED response
           ELSE Goto(c, "answering") /\ response' = [response EXCEPT ![c] = answer]
    /\ UNCHANGED <<shared, lock, gone, request, promised, owed, restarts>>

\* do_GET up to receipt_bytes.
Get(c) ==
    /\ pc[c] = "received" /\ request[c].method = "GET"
    /\ LET answer == GetAnswer(request[c])
       IN  IF answer = Nothing
           THEN Goto(c, "looking") /\ UNCHANGED response
           ELSE Goto(c, "answering") /\ response' = [response EXCEPT ![c] = answer]
    /\ UNCHANGED <<shared, lock, gone, request, promised, owed, restarts>>

\* do_HEAD, do_PUT, do_PATCH, do_DELETE.
Other(c) ==
    /\ pc[c] = "received" /\ request[c] = OtherMethod
    /\ Goto(c, "answering")
    /\ response' = [response EXCEPT ![c] = Invalid(405)]
    /\ UNCHANGED <<shared, lock, gone, request, promised, owed, restarts>>

\* with self.shared_receipts_lock
Acquire(c) ==
    /\ lock = Free
    /\ \/ pc[c] = "sharing" /\ Goto(c, "storing")
       \/ pc[c] = "looking" /\ Goto(c, "reading")
    /\ lock' = c
    /\ UNCHANGED <<shared, gone, request, response, promised, owed, restarts>>

\* setdefault; an entry that differs is a RuntimeError, which ends the thread
\* without a response.
Store(c) ==
    /\ pc[c] = "storing"
    /\ LET query == request[c].body
           id    == IdOf[query]
           kept  == IF shared[id] = NoReceipt THEN query ELSE shared[id]
       IN  /\ shared' = [shared EXCEPT ![id] = kept]
           /\ IF kept = query
              THEN /\ Goto(c, "answering")
                   /\ response' = [response EXCEPT ![c] = Ok(query)]
                   /\ UNCHANGED <<gone, request, owed>>
              ELSE Close(c)
    /\ lock' = Free
    /\ UNCHANGED <<promised, restarts>>

\* Mutants: any kept receipt is as good; a lookup that finds nothing keeps the lock.
LookForAny(c) ==
    /\ pc[c] = "reading"
    /\ LET found == {shared[id] : id \in Ids} \ {NoReceipt}
       IN  response' = [response EXCEPT ![c] =
                           IF found = {} THEN NotFound ELSE Ok(CHOOSE q \in found : TRUE)]
    /\ lock' = Free
    /\ Goto(c, "answering")
    /\ UNCHANGED <<shared, gone, request, promised, owed, restarts>>

LookKeepsLock(c) ==
    /\ pc[c] = "reading"
    /\ LET kept == shared[request[c].name]
       IN  /\ response' = [response EXCEPT ![c] =
                               IF kept = NoReceipt THEN NotFound ELSE Ok(kept)]
           /\ lock' = IF kept = NoReceipt THEN lock ELSE Free
    /\ Goto(c, "answering")
    /\ UNCHANGED <<shared, gone, request, promised, owed, restarts>>

Look(c) ==
    /\ pc[c] = "reading"
    /\ LET kept == shared[request[c].name]
       IN  response' = [response EXCEPT ![c] =
                           IF kept = NoReceipt THEN NotFound ELSE Ok(kept)]
    /\ lock' = Free
    /\ Goto(c, "answering")
    /\ UNCHANGED <<shared, gone, request, promised, owed, restarts>>

\* The client gets the response; a 200 tells it what is shared.
Deliver(c) ==
    /\ pc[c] = "answering" /\ ~gone[c]
    /\ promised' = promised \cup
          {id \in Ids : /\ response[c].status = 200
                        /\ \/ Shares(request[c]) /\ id = IdOf[request[c].body]
                           \/ Asks(request[c], id)}
    /\ Close(c)
    /\ UNCHANGED <<shared, lock, restarts>>

\* The response is written for nobody: the answer is lost, not the work.
Lose(c) ==
    /\ pc[c] = "answering" /\ gone[c]
    /\ Close(c)
    /\ UNCHANGED <<shared, lock, promised, restarts>>

\* The threads are daemons: the process ends with them and with the table.
Restart ==
    /\ restarts < MaxRestarts
    /\ restarts' = restarts + 1
    /\ shared' = [id \in Ids |-> NoReceipt]
    /\ lock' = Free
    /\ pc' = [c \in Connections |-> "idle"]
    /\ gone' = [c \in Connections |-> FALSE]
    /\ request' = [c \in Connections |-> NoRequest]
    /\ response' = [c \in Connections |-> Nothing]
    /\ promised' = {}
    /\ owed' = [c \in Connections |-> FALSE]

Handle(c) == Post(c) \/ Get(c) \/ Other(c) \/ Acquire(c) \/ Store(c) \/ Look(c)

Leave(c) == BreakOff(c) \/ GiveUp(c)

Next == \/ \E c \in Connections : \/ Send(c) \/ Arrive(c) \/ Leave(c)
                                  \/ Handle(c) \/ Deliver(c) \/ Lose(c)
        \/ Restart

Spec == Init /\ [][Next]_vars

(***************************************************************************)
(* Handler threads are scheduled; among those that wait for the lock, one  *)
(* that waits long enough gets it; a response fits the socket's buffer.    *)
(* Clients owe nothing, not even the rest of a request: the handler reads  *)
(* it without a timeout, so neither Arrive nor BreakOff is fair.           *)
(***************************************************************************)
Fairness ==
    \A c \in Connections : /\ WF_vars(Post(c)) /\ WF_vars(Get(c)) /\ WF_vars(Other(c))
                           /\ WF_vars(Store(c)) /\ WF_vars(Look(c))
                           /\ WF_vars(Deliver(c)) /\ WF_vars(Lose(c))
                           /\ SF_vars(Acquire(c))
-------------------------------------------------------------------------------
(***************************************************************************)
(* Safety.                                                                 *)
(***************************************************************************)

\* What a client was told is shared can be looked up by anyone from then on, with
\* lost responses, repeated requests and other clients in between, until the
\* server restarts.
PromisesAreKept ==
    \A c \in Connections : owed[c] /\ pc[c] = "answering" => response[c].status = 200

\* Only retain_receipt writes the table and it never overwrites: between restarts a
\* receipt once kept is kept unchanged, and what is new was asked for by a valid
\* request with share=true, under the lock.
TableOnlyGrows ==
    [][restarts' = restarts =>
          \A id \in Ids : shared'[id] # shared[id] =>
              /\ shared[id] = NoReceipt
              /\ \E c \in Connections :
                    /\ lock = c /\ Shares(request[c]) /\ request[c].body = shared'[id]
                    /\ request[c].path = "decisions" /\ request[c].json]_vars

(***************************************************************************)
(* Liveness: a request that has arrived is answered, unless the client has *)
(* gone or the server restarts; its thread never waits for ever for the    *)
(* lock, whoever has died, has given up, or has stopped in the middle of   *)
(* another request.                                                        *)
(***************************************************************************)
EveryRequestEnds ==
    \A c \in Connections : pc[c] \notin {"idle", "sending"} ~> pc[c] = "idle"
===============================================================================
