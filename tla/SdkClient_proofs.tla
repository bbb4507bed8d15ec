--------------------------- MODULE SdkClient_proofs ---------------------------
(***************************************************************************)
(* Theorems about the reference server, for any connections, receipts and  *)
(* requests and any number of restarts; and about its callers, for any     *)
(* calls and any other clients.                                            *)
(***************************************************************************)
EXTENDS SdkClient, TLAPS

-------------------------------------------------------------------------------
(* The server *)

Requests  == Posts \cup Gets \cup {NoRequest, OtherMethod}
Positions == {"idle", "sending", "received", "sharing", "looking", "storing", "reading", "answering"}

\* Types of what the proofs speak of.
Types ==
    /\ shared \in [Ids -> Queries \cup {NoReceipt}]
    /\ lock \in Connections \cup {Free}
    /\ pc \in [Connections -> Positions]
    /\ gone \in [Connections -> BOOLEAN]
    /\ request \in [Connections -> Requests]
    /\ DOMAIN response = Connections
    /\ promised \subseteq Ids
    /\ owed \in [Connections -> BOOLEAN]
    /\ restarts \in Nat

\* A receipt is kept under its own id, and what was promised is kept.
TableInv ==
    /\ \A id \in Ids : shared[id] # NoReceipt => IdOf[shared[id]] = id
    /\ \A id \in promised : shared[id] # NoReceipt

\* Who is inside the critical sections.
LockInv == \A c \in Connections : pc[c] \in {"storing", "reading"} <=> lock = c

\* Whoever is on the way to the table has a request for it.
PlaceInv ==
    \A c \in Connections :
        /\ pc[c] # "idle" => request[c] # NoRequest
        /\ pc[c] \in {"sharing", "storing"} =>
              /\ request[c] \in Posts /\ Shares(request[c])
              /\ request[c].path = "decisions" /\ request[c].json
        /\ pc[c] \in {"looking", "reading"} =>
              /\ request[c] \in Gets /\ request[c].name \in Ids
              /\ Asks(request[c], request[c].name)

Found(id) == id \in Ids /\ shared[id] # NoReceipt

\* A 200 for a shared decision or a lookup is only given for what is kept.
AnswerInv ==
    \A c \in Connections : pc[c] = "answering" /\ response[c].status = 200 =>
        /\ Shares(request[c]) => Found(IdOf[request[c].body])
        /\ \A id \in Ids : Asks(request[c], id) => Found(id)

\* A lookup of what was promised before finds it.
OwedInv ==
    \A c \in Connections : owed[c] =>
        /\ \E id \in Ids : Asks(request[c], id) /\ Found(id)
        /\ pc[c] = "answering" => response[c].status = 200

IInv == Types /\ TableInv /\ LockInv /\ PlaceInv /\ AnswerInv /\ OwedInv
-------------------------------------------------------------------------------
(* Requests *)

\* Every request that is sent is one of the two methods that are modelled, or another.
LEMMA RequestKinds ==
    /\ \A r \in Posts : r.method = "POST" /\ r # NoRequest
    /\ \A r \in Gets : r.method = "GET" /\ r # NoRequest
    /\ OtherMethod # NoRequest
    /\ OtherMethod.method = "other" /\ NoRequest.method = "none"
BY ReceiptServerAssumption DEF AllPosts, AllGets, OtherMethod, NoRequest

\* do_POST needs the table exactly for a well-formed decision that is to be shared.
LEMMA PostNeedsTable ==
    ASSUME NEW r \in Posts
    PROVE  /\ PostAnswer(r) = Nothing => Shares(r) /\ r.path = "decisions" /\ r.json
           /\ PostAnswer(r) # Nothing /\ Shares(r) => PostAnswer(r).status # 200
<1>1. /\ r.path \in {"decisions", "other"}
      /\ r.share \in {"none", "true", "false", "other"}
      /\ r.json \in BOOLEAN /\ r.method = "POST"
      /\ r.body \in {"unreadable", "invalid", "unsupported_via", "unpublished"} \cup Queries
  BY ReceiptServerAssumption DEF AllPosts
<1>2. Malformed(r) = Nothing => r.path = "decisions"
  BY <1>1 DEF Malformed, NotFound, Invalid, Problem, Nothing
<1>3. Malformed(r) # Nothing => Malformed(r).status # 200
  BY <1>1 DEF Malformed, NotFound, Invalid, Problem, Nothing
<1>4. Undecided(r) = Nothing => r.body \in Queries
  BY <1>1 DEF Undecided, NotFound, Invalid, Problem, Nothing
<1>5. Undecided(r) # Nothing => Undecided(r).status # 200
  BY <1>1 DEF Undecided, NotFound, Invalid, Problem, Nothing
<1>6. Ok(r.body) # Nothing /\ Invalid(415) # Nothing /\ Invalid(415).status # 200
  BY DEF Ok, Invalid, Problem, Nothing
<1> QED
  BY <1>1, <1>2, <1>3, <1>4, <1>5, <1>6 DEF PostAnswer, Shares

\* do_GET needs the table exactly for a lookup.
LEMMA GetNeedsTable ==
    ASSUME NEW r \in Gets
    PROVE  /\ GetAnswer(r) = Nothing => r.name \in Ids /\ Asks(r, r.name)
           /\ \A id \in Ids : Asks(r, id) => GetAnswer(r) = Nothing
<1>1. /\ r.method = "GET"
      /\ r.route \in {"compare", "use-cases", "benchmark-health", "leaderboard", "entity",
                      "receipt", "bad-receipt", "other"}
      /\ r.route = "receipt" => r.name \in Ids
  BY ReceiptServerAssumption DEF AllGets
<1>2. /\ \A b : Ok(b) # Nothing
      /\ Invalid(400) # Nothing /\ NotFound # Nothing
  BY DEF Ok, Invalid, NotFound, Problem, Nothing
<1> QED
  BY <1>1, <1>2 DEF GetAnswer, Asks
-------------------------------------------------------------------------------
(* Every step keeps the invariant *)

LEMMA InitInv == Init => IInv
<1> SUFFICES ASSUME Init PROVE IInv
  OBVIOUS
<1>1. NoReceipt \notin Queries /\ Free \notin Connections
  BY QueriesAssumption, ConnectionAssumption
<1>2. Types
  BY DEF Init, Types, Requests, Positions
<1>3. TableInv /\ LockInv /\ PlaceInv
  BY <1>1 DEF Init, TableInv, LockInv, PlaceInv
<1>4. AnswerInv /\ OwedInv
  BY DEF Init, AnswerInv, OwedInv
<1> QED
  BY <1>2, <1>3, <1>4 DEF IInv

\* A step that leaves the table, the lock, the promises and the other connections alone
\* can only disturb what is said of its own connection.
LEMMA SendKeeps ==
    ASSUME IInv, NEW c \in Connections, Send(c)
    PROVE  IInv'
<1> USE DEF IInv
<1>1. PICK r \in Posts \cup Gets \cup {OtherMethod} :
         /\ request' = [request EXCEPT ![c] = r]
         /\ owed' = [owed EXCEPT ![c] = \E id \in promised : Asks(r, id)]
  BY DEF Send
<1>2. /\ pc[c] = "idle" /\ pc' = [pc EXCEPT ![c] = "sending"]
      /\ UNCHANGED <<shared, lock, gone, response, promised, restarts>>
  BY DEF Send, Goto
<1>3. r # NoRequest
  BY RequestKinds
<1>4. Types'
  <2>1. (\E id \in promised : Asks(r, id)) \in BOOLEAN
    OBVIOUS
  <2> HIDE DEF Asks
  <2> QED
    BY <1>1, <1>2, <2>1 DEF Types, Requests, Positions
<1>5. TableInv' /\ LockInv'
  BY <1>2 DEF TableInv, LockInv, Types
<1>6. PlaceInv' /\ AnswerInv'
  BY <1>1, <1>2, <1>3 DEF PlaceInv, AnswerInv, Types, Found
<1>7. OwedInv'
  <2> SUFFICES ASSUME NEW d \in Connections, owed'[d]
               PROVE  /\ \E id \in Ids : Asks(request'[d], id) /\ Found(id)'
                      /\ pc'[d] = "answering" => response'[d].status = 200
    BY DEF OwedInv
  <2>1. CASE d = c
    <3>1. PICK id \in promised : Asks(r, id)
      BY <1>1, <2>1 DEF Types
    <3>2. id \in Ids /\ Found(id)'
      BY <3>1, <1>2 DEF Types, TableInv, Found
    <3> QED
      BY <1>1, <1>2, <2>1, <3>1, <3>2 DEF Types
  <2>2. CASE d # c
    BY <1>1, <1>2, <2>2 DEF Types, OwedInv, Found
  <2> QED
    BY <2>1, <2>2
<1> QED
  BY <1>4, <1>5, <1>6, <1>7

LEMMA ArriveKeeps ==
    ASSUME IInv, NEW c \in Connections, Arrive(c)
    PROVE  IInv'
<1>1. /\ pc[c] = "sending" /\ pc' = [pc EXCEPT ![c] = "received"]
      /\ UNCHANGED <<shared, lock, gone, request, response, promised, owed, restarts>>
  BY DEF Arrive, Goto
<1>2. Types' /\ TableInv' /\ LockInv'
  BY <1>1 DEF IInv, Types, TableInv, LockInv, Positions
<1>3. PlaceInv' /\ AnswerInv' /\ OwedInv'
  BY <1>1 DEF IInv, Types, PlaceInv, AnswerInv, OwedInv, Found
<1> QED
  BY <1>2, <1>3 DEF IInv

\* The handler does not notice that its client has gone.
LEMMA GiveUpKeeps ==
    ASSUME IInv, NEW c \in Connections, GiveUp(c)
    PROVE  IInv'
<1>1. Types'
  BY DEF GiveUp, IInv, Types
<1>2. TableInv' /\ LockInv' /\ PlaceInv' /\ AnswerInv' /\ OwedInv'
  BY DEF GiveUp, IInv, TableInv, LockInv, PlaceInv, AnswerInv, OwedInv, Found
<1> QED
  BY <1>1, <1>2 DEF IInv

\* The answers that are given without looking at the table.
LEMMA AnswerAtOnceKeeps ==
    ASSUME IInv, NEW c \in Connections, NEW answer,
           pc[c] = "received", pc' = [pc EXCEPT ![c] = "answering"],
           response' = [response EXCEPT ![c] = answer],
           UNCHANGED <<shared, lock, gone, request, promised, owed, restarts>>,
           Shares(request[c]) => answer.status # 200,
           \A id \in Ids : ~Asks(request[c], id)
    PROVE  IInv'
<1>1. Types' /\ TableInv' /\ LockInv'
  BY DEF IInv, Types, TableInv, LockInv, Positions
<1>2. PlaceInv' /\ AnswerInv' /\ OwedInv'
  BY DEF IInv, Types, PlaceInv, AnswerInv, OwedInv, Found
<1> QED
  BY <1>1, <1>2 DEF IInv

LEMMA PostKeeps ==
    ASSUME IInv, NEW c \in Connections, Post(c)
    PROVE  IInv'
<1> DEFINE r == request[c]
<1>1. /\ pc[c] = "received" /\ r.method = "POST"
      /\ UNCHANGED <<shared, lock, gone, request, promised, owed, restarts>>
  BY DEF Post
<1>2. r \in Posts
  BY <1>1, RequestKinds DEF IInv, Types, Requests
<1>3. \A id \in Ids : ~Asks(r, id)
  BY <1>1 DEF Asks
<1>4. CASE PostAnswer(r) = Nothing
  <2>1. pc' = [pc EXCEPT ![c] = "sharing"] /\ UNCHANGED response
    BY <1>4 DEF Post, Goto
  <2>2. Shares(r) /\ r.path = "decisions" /\ r.json
    BY <1>2, <1>4, PostNeedsTable
  <2>3. Types' /\ TableInv' /\ LockInv'
    BY <1>1, <2>1 DEF IInv, Types, TableInv, LockInv, Positions
  <2>4. PlaceInv'
    BY <1>1, <1>2, <2>1, <2>2 DEF IInv, Types, PlaceInv
  <2>5. AnswerInv' /\ OwedInv'
    BY <1>1, <2>1 DEF IInv, Types, AnswerInv, OwedInv, Found
  <2> QED
    BY <2>3, <2>4, <2>5 DEF IInv
<1>5. CASE PostAnswer(r) # Nothing
  <2>1. pc' = [pc EXCEPT ![c] = "answering"] /\ response' = [response EXCEPT ![c] = PostAnswer(r)]
    BY <1>5 DEF Post, Goto
  <2>2. Shares(r) => PostAnswer(r).status # 200
    BY <1>2, <1>5, PostNeedsTable
  <2> QED
    BY <1>1, <1>3, <2>1, <2>2, AnswerAtOnceKeeps
<1> QED
  BY <1>4, <1>5

LEMMA GetKeeps ==
    ASSUME IInv, NEW c \in Connections, Get(c)
    PROVE  IInv'
<1> DEFINE r == request[c]
<1>1. /\ pc[c] = "received" /\ r.method = "GET"
      /\ UNCHANGED <<shared, lock, gone, request, promised, owed, restarts>>
  BY DEF Get
<1>2. r \in Gets
  BY <1>1, RequestKinds DEF IInv, Types, Requests
<1>3. CASE GetAnswer(r) = Nothing
  <2>1. pc' = [pc EXCEPT ![c] = "looking"] /\ UNCHANGED response
    BY <1>3 DEF Get, Goto
  <2>2. r.name \in Ids /\ Asks(r, r.name)
    BY <1>2, <1>3, GetNeedsTable
  <2>3. Types' /\ TableInv' /\ LockInv'
    BY <1>1, <2>1 DEF IInv, Types, TableInv, LockInv, Positions
  <2>4. PlaceInv'
    BY <1>1, <1>2, <2>1, <2>2 DEF IInv, Types, PlaceInv
  <2>5. AnswerInv' /\ OwedInv'
    BY <1>1, <2>1 DEF IInv, Types, AnswerInv, OwedInv, Found
  <2> QED
    BY <2>3, <2>4, <2>5 DEF IInv
<1>4. CASE GetAnswer(r) # Nothing
  <2>1. pc' = [pc EXCEPT ![c] = "answering"] /\ response' = [response EXCEPT ![c] = GetAnswer(r)]
    BY <1>4 DEF Get, Goto
  <2>2. ~Shares(r) /\ \A id \in Ids : ~Asks(r, id)
    BY <1>1, <1>2, <1>4, GetNeedsTable DEF Shares
  <2> QED
    BY <1>1, <2>1, <2>2, AnswerAtOnceKeeps
<1> QED
  BY <1>3, <1>4

LEMMA OtherKeeps ==
    ASSUME IInv, NEW c \in Connections, Other(c)
    PROVE  IInv'
<1>1. ~Shares(request[c]) /\ \A id \in Ids : ~Asks(request[c], id)
  BY DEF Other, OtherMethod, Shares, Asks
<1> QED
  BY <1>1, AnswerAtOnceKeeps DEF Other, Goto

LEMMA AcquireKeeps ==
    ASSUME IInv, NEW c \in Connections, Acquire(c)
    PROVE  IInv'
<1>1. PICK l \in {"storing", "reading"} :
         /\ pc' = [pc EXCEPT ![c] = l]
         /\ pc[c] = (IF l = "storing" THEN "sharing" ELSE "looking")
  BY DEF Acquire, Goto
<1>2. /\ lock = Free /\ lock' = c
      /\ UNCHANGED <<shared, gone, request, response, promised, owed, restarts>>
  BY DEF Acquire
<1>3. Types' /\ TableInv'
  BY <1>1, <1>2 DEF IInv, Types, TableInv, Positions
<1>4. LockInv'
  BY <1>1, <1>2, ConnectionAssumption DEF IInv, Types, LockInv
<1>5. PlaceInv'
  BY <1>1, <1>2 DEF IInv, Types, PlaceInv
<1>6. AnswerInv' /\ OwedInv'
  BY <1>1, <1>2 DEF IInv, Types, AnswerInv, OwedInv, Found
<1> QED
  BY <1>3, <1>4, <1>5, <1>6 DEF IInv

\* retain_receipt never meets an entry that differs: ids are content addresses.
LEMMA StoreKeepsAnId ==
    ASSUME IInv, NEW c \in Connections, Store(c)
    PROVE  LET query == request[c].body
           IN /\ query \in Queries /\ IdOf[query] \in Ids /\ Shares(request[c])
              /\ shared[IdOf[query]] \in {NoReceipt, query}
              /\ shared' = [shared EXCEPT ![IdOf[query]] = query]
              /\ pc' = [pc EXCEPT ![c] = "answering"]
              /\ response' = [response EXCEPT ![c] = Ok(query)]
              /\ lock' = Free /\ UNCHANGED <<gone, request, owed, promised, restarts>>
<1> DEFINE query == request[c].body
           id    == IdOf[query]
<1>1. Shares(request[c]) /\ query \in Queries
  BY DEF Store, IInv, PlaceInv, Shares
<1>2. id \in Ids
  BY <1>1, ReceiptServerAssumption
<1>3. shared[id] # NoReceipt => shared[id] = query
  BY <1>1, <1>2, ReceiptServerAssumption DEF IInv, Types, TableInv
<1> QED
  BY <1>1, <1>2, <1>3 DEF Store, Goto, Close

LEMMA StoreKeeps ==
    ASSUME IInv, NEW c \in Connections, Store(c)
    PROVE  IInv'
<1> DEFINE query == request[c].body
           id    == IdOf[query]
<1>1. /\ query \in Queries /\ id \in Ids /\ Shares(request[c])
      /\ shared[id] \in {NoReceipt, query}
      /\ shared' = [shared EXCEPT ![id] = query]
      /\ pc' = [pc EXCEPT ![c] = "answering"]
      /\ response' = [response EXCEPT ![c] = Ok(query)]
      /\ lock' = Free /\ UNCHANGED <<gone, request, owed, promised, restarts>>
  BY StoreKeepsAnId
<1>2. pc[c] = "storing" /\ lock = c
  BY DEF Store, IInv, LockInv
<1>3. query # NoReceipt
  BY <1>1, QueriesAssumption
<1>4. \A i : Found(i) => Found(i)'
  BY <1>1, <1>3 DEF IInv, Types, Found
<1>5. Found(id)'
  BY <1>1, <1>3 DEF IInv, Types, Found
<1>6. \A i : ~Asks(request[c], i)
  BY <1>1 DEF Asks, Shares
<1>7. Types'
  BY <1>1 DEF IInv, Types, Positions
<1>8. TableInv'
  BY <1>1, <1>3 DEF IInv, Types, TableInv
<1>9. LockInv'
  BY <1>1, <1>2, ConnectionAssumption DEF IInv, Types, LockInv
<1>10. PlaceInv'
  BY <1>1, <1>2 DEF IInv, Types, PlaceInv
<1>11. AnswerInv'
  <2> SUFFICES ASSUME NEW d \in Connections, pc'[d] = "answering", response'[d].status = 200
               PROVE  /\ Shares(request[d]) => Found(IdOf[request[d].body])'
                      /\ \A i \in Ids : Asks(request[d], i) => Found(i)'
    BY <1>1 DEF AnswerInv
  <2>1. CASE d = c
    BY <2>1, <1>5, <1>6
  <2>2. CASE d # c
    BY <2>2, <1>1, <1>4 DEF IInv, Types, AnswerInv
  <2> QED
    BY <2>1, <2>2
<1>12. OwedInv'
  BY <1>1, <1>4, <1>6 DEF IInv, Types, OwedInv
<1> QED
  BY <1>7, <1>8, <1>9, <1>10, <1>11, <1>12 DEF IInv

LEMMA LookKeeps ==
    ASSUME IInv, NEW c \in Connections, Look(c)
    PROVE  IInv'
<1> DEFINE id     == request[c].name
           answer == IF shared[id] = NoReceipt THEN NotFound ELSE Ok(shared[id])
<1>1. /\ pc[c] = "reading" /\ pc' = [pc EXCEPT ![c] = "answering"]
      /\ response' = [response EXCEPT ![c] = answer]
      /\ lock' = Free /\ UNCHANGED <<shared, gone, request, promised, owed, restarts>>
  BY DEF Look, Goto
<1>2. lock = c /\ id \in Ids /\ Asks(request[c], id)
  BY <1>1 DEF IInv, LockInv, PlaceInv
<1>3. ~Shares(request[c]) /\ \A i : Asks(request[c], i) => i = id
  BY <1>2 DEF Asks, Shares
<1>4. answer.status = 200 <=> Found(id)
  BY <1>2 DEF Found, NotFound, Problem, Ok
<1>5. Types' /\ TableInv'
  BY <1>1 DEF IInv, Types, TableInv, Positions
<1>6. LockInv'
  BY <1>1, <1>2, ConnectionAssumption DEF IInv, Types, LockInv
<1>7. PlaceInv'
  BY <1>1 DEF IInv, Types, PlaceInv
<1> HIDE DEF answer
<1>8. AnswerInv' /\ OwedInv'
  BY <1>1, <1>3, <1>4 DEF IInv, Types, AnswerInv, OwedInv, Found
<1> QED
  BY <1>5, <1>6, <1>7, <1>8 DEF IInv

\* A connection that is closed is owed nothing and holds nothing.
LEMMA CloseKeeps ==
    ASSUME IInv, NEW c \in Connections, pc[c] \in {"sending", "answering"}, Close(c),
           UNCHANGED <<shared, lock, restarts>>,
           promised' \subseteq Ids, \A id \in promised' : Found(id)
    PROVE  IInv'
<1>1. Types' /\ TableInv' /\ LockInv'
  BY DEF IInv, Types, TableInv, LockInv, Close, Goto, Requests, Positions, Found
<1>2. PlaceInv' /\ AnswerInv' /\ OwedInv'
  BY DEF IInv, Types, PlaceInv, AnswerInv, OwedInv, Close, Goto, Found
<1> QED
  BY <1>1, <1>2 DEF IInv

LEMMA DeliverKeeps ==
    ASSUME IInv, NEW c \in Connections, Deliver(c) \/ Lose(c) \/ BreakOff(c)
    PROVE  IInv'
<1>1. /\ pc[c] \in {"sending", "answering"} /\ Close(c)
      /\ UNCHANGED <<shared, lock, restarts>>
  BY DEF Deliver, Lose, BreakOff
<1>2. \A id \in promised : id \in Ids /\ Found(id)
  BY DEF IInv, Types, TableInv, Found
<1>3. \A id \in promised' : id \in Ids /\ Found(id)
  BY <1>1, <1>2 DEF Deliver, Lose, BreakOff, IInv, AnswerInv
<1> QED
  BY <1>1, <1>3, CloseKeeps

LEMMA RestartKeeps ==
    ASSUME IInv, Restart
    PROVE  IInv'
<1>1. Types'
  BY DEF IInv, Restart, Types, Requests, Positions
<1>2. TableInv' /\ LockInv' /\ PlaceInv'
  BY QueriesAssumption, ConnectionAssumption DEF Restart, TableInv, LockInv, PlaceInv
<1>3. AnswerInv' /\ OwedInv'
  BY DEF Restart, AnswerInv, OwedInv
<1> QED
  BY <1>1, <1>2, <1>3 DEF IInv

LEMMA StutterKeeps == IInv /\ UNCHANGED vars => IInv'
  BY DEF vars, IInv, Types, TableInv, LockInv, PlaceInv, AnswerInv, OwedInv, Found

\* The inductive invariant holds in every reachable state: the table, the lock, what the
\* handlers of the connections are doing (do_POST, do_GET) and what clients were told.
THEOREM Invariance == Spec => []IInv
<1>1. IInv /\ [Next]_vars => IInv'
  BY SendKeeps, ArriveKeeps, GiveUpKeeps, PostKeeps, GetKeeps, OtherKeeps, AcquireKeeps, StoreKeeps, LookKeeps,
     DeliverKeeps, RestartKeeps, StutterKeeps DEF Next, Handle, Leave
<1> QED
  BY <1>1, InitInv, PTL DEF Spec

-------------------------------------------------------------------------------
\* What a client was told is shared can be looked up by anyone until the server restarts.
THEOREM PromisesAreKeptTheorem == Spec => []PromisesAreKept
<1>1. IInv => PromisesAreKept
  BY DEF IInv, OwedInv, PromisesAreKept
<1> QED
  BY <1>1, Invariance, PTL

\* retain_receipt and receipt_bytes: never two connections inside, and nobody is inside
\* when the lock is free.
THEOREM MutualExclusion ==
    Spec => [](\A c, d \in Connections :
                  /\ pc[c] \in {"storing", "reading"} /\ pc[d] \in {"storing", "reading"} => c = d
                  /\ lock = Free => pc[c] \notin {"storing", "reading"})
<1>1. IInv => \A c, d \in Connections :
                 /\ pc[c] \in {"storing", "reading"} /\ pc[d] \in {"storing", "reading"} => c = d
                 /\ lock = Free => pc[c] \notin {"storing", "reading"}
  BY ConnectionAssumption DEF IInv, LockInv
<1> QED
  BY <1>1, Invariance, PTL

\* retain_receipt's RuntimeError (an id that collides) is never raised: whoever stores a
\* receipt gets an answer.
THEOREM NoCollision ==
    Spec => [][\A c \in Connections : Store(c) => pc'[c] = "answering"]_vars
<1>1. IInv => \A c \in Connections : Store(c) => pc'[c] = "answering"
  BY StoreKeepsAnId DEF IInv, Types
<1> QED
  BY <1>1, Invariance, PTL DEF Spec

\* Between restarts the table only grows, by valid requests that asked to share, under
\* the lock.
THEOREM TableOnlyGrowsTheorem == Spec => TableOnlyGrows
<1> DEFINE Grows ==
      restarts' = restarts =>
          \A id \in Ids : shared'[id] # shared[id] =>
              /\ shared[id] = NoReceipt
              /\ \E c \in Connections :
                    /\ lock = c /\ Shares(request[c]) /\ request[c].body = shared'[id]
                    /\ request[c].path = "decisions" /\ request[c].json
<1>1. IInv /\ [Next]_vars => [Grows]_vars
  <2> SUFFICES ASSUME IInv, Next, restarts' = restarts,
                      NEW id \in Ids, shared'[id] # shared[id]
               PROVE  /\ shared[id] = NoReceipt
                      /\ \E c \in Connections :
                            /\ lock = c /\ Shares(request[c]) /\ request[c].body = shared'[id]
                            /\ request[c].path = "decisions" /\ request[c].json
    OBVIOUS
  <2>1. ~Restart
    BY DEF IInv, Types, Restart
  <2>2. PICK c \in Connections : Store(c)
    BY <2>1 DEF Next, Handle, Leave, Send, Arrive, BreakOff, GiveUp, Post, Get, Other,
                Acquire, Look, Deliver, Lose
  <2>3. /\ lock = c /\ Shares(request[c]) /\ request[c].path = "decisions" /\ request[c].json
    BY <2>2 DEF Store, IInv, LockInv, PlaceInv
  <2>4. /\ shared[IdOf[request[c].body]] \in {NoReceipt, request[c].body}
        /\ shared' = [shared EXCEPT ![IdOf[request[c].body]] = request[c].body]
    BY <2>2, StoreKeepsAnId
  <2>5. id = IdOf[request[c].body] /\ shared'[id] = request[c].body
    BY <2>4 DEF IInv, Types
  <2> QED
    BY <2>3, <2>4, <2>5
<1> QED
  BY <1>1, Invariance, PTL DEF Spec, TableOnlyGrows

-------------------------------------------------------------------------------
(* Its callers *)

\* What AnsweredAsAsked says of one call and its response.
Fits(k, r) ==
    LET outcome == Outcome(k, r)
    IN CASE outcome.told = "document" -> outcome.what \in Asked(k)
         [] outcome.told = "problem" /\ outcome.what = "not_found" ->
               \/ k.about = "unknown"
               \/ k.method = "decision_receipt"
         [] outcome.told = "problem" /\ outcome.what = "validation" ->
               k.about = "unpublished" \/ k.view = "other"
         [] outcome.told = "problem" /\ outcome.what = "via_not_supported" ->
               k.about = "unsupported_via"
         [] OTHER -> FALSE

\* A connection that is open serves its call's request, and answers it with what it has
\* kept for it; until it is closed, all that the caller may have been told is that no
\* response came.
CallInv(c) ==
    /\ call[c] # NoCall => call[c] \in Calls /\ ~Raises(call[c])
    /\ call[c] # NoCall /\ pc[c] # "idle" => request[c] = RequestOf(call[c])
    /\ Served(c) => Fits(call[c], response[c])
    /\ kept[c] \in BOOLEAN
    /\ kept[c] /\ pc[c] # "idle" =>
          /\ pc[c] = "answering" /\ Shares(request[c])
          /\ response[c] = Ok(request[c].body)
    /\ call[c] = NoCall => told[c] = NotTold
    /\ pc[c] # "idle" => told[c] \in {NotTold, Unanswered}

\* What PublishedAsTold says of one connection.
PublishedInv(c) ==
    /\ kept[c] /\ call[c] # NoCall => call[c].share
    /\ kept[c] /\ told[c] # NotTold =>
          Success(call[c], told[c]) \/ told[c] = Unanswered
    /\ told[c] # NotTold /\ call[c].share /\ Success(call[c], told[c]) =>
          /\ call[c].about \in Queries
          /\ shared[IdOf[call[c].about]] = call[c].about

ClientInv ==
    /\ DOMAIN call = Connections /\ DOMAIN told = Connections /\ DOMAIN kept = Connections
    /\ \A c \in Connections : CallInv(c) /\ PublishedInv(c)
-------------------------------------------------------------------------------
(* Calls and what they are told *)

LEMMA CallKinds ==
    ASSUME NEW k \in Calls, ~Raises(k)
    PROVE  /\ k # NoCall /\ k.surface \in Surfaces /\ k.share \in BOOLEAN
           /\ k.share => k.method = "decide"
           /\ \/ /\ k.method = "decide"
                 /\ k.about \in Queries \cup {"unsupported_via", "unpublished"}
                 /\ k.share \in BOOLEAN /\ k.view = "none"
              \/ k.method = "decision_receipt" /\ k.about \in Ids /\ k.view = "none"
              \/ k.method \in {"use_cases", "benchmark_health"} /\ k.about = "known"
                 /\ k.view = "none"
              \/ k.method = "leaderboard" /\ k.about \in {"known", "unknown"}
                 /\ k.view = "none"
              \/ k.method \in {"entity", "compare"} /\ k.about \in {"known", "unknown"}
                 /\ k.view \in {"none", "view", "other"}
<1>1. \/ k \in CallsOf(Surfaces, "decide",
                       Queries \cup {"invalid", "unsupported_via", "unpublished"},
                       BOOLEAN, {"none"})
      \/ k \in CallsOf(Surfaces, "decision_receipt", Ids \cup {"malformed"}, {FALSE}, {"none"})
      \/ k \in CallsOf(Surfaces, "use_cases", {"known"}, {FALSE}, {"none"})
      \/ k \in CallsOf(Surfaces, "benchmark_health", {"known"}, {FALSE}, {"none"})
      \/ k \in CallsOf({"sdk"}, "leaderboard", {"known", "unknown", "malformed"},
                       {FALSE}, {"none"})
      \/ \E method \in {"entity", "compare"} :
            k \in CallsOf({"sdk"}, method, {"known", "unknown", "malformed"}, {FALSE},
                          {"none", "view", "other", "malformed"})
  <2> HIDE DEF CallsOf
  <2> QED
    BY SdkClientAssumption DEF AllCalls
<1>2. \A surfaces, m, abouts, shares, views :
         k \in CallsOf(surfaces, m, abouts, shares, views) =>
            /\ k.surface \in surfaces /\ k.method = m /\ k.about \in abouts
            /\ k.share \in shares /\ k.view \in views
  BY DEF CallsOf
<1> HIDE DEF CallsOf
<1>3. k.surface \in Surfaces
  BY <1>1, <1>2 DEF Surfaces
<1>4. k # NoCall
  BY <1>3 DEF NoCall, Surfaces
<1>5. k.share \in BOOLEAN /\ (k.share => k.method = "decide")
  <2>1. CASE k \in CallsOf(Surfaces, "decide",
                           Queries \cup {"invalid", "unsupported_via", "unpublished"},
                           BOOLEAN, {"none"})
    BY <2>1, <1>2
  <2>2. CASE ~(k \in CallsOf(Surfaces, "decide",
                             Queries \cup {"invalid", "unsupported_via", "unpublished"},
                             BOOLEAN, {"none"}))
    <3>1. k.share \in {FALSE}
      BY <2>2, <1>1, <1>2
    <3> QED
      BY <3>1
  <2> QED
    BY <2>1, <2>2
<1> QED
  BY <1>1, <1>2, <1>3, <1>4, <1>5 DEF Raises

LEMMA RequestOfCall ==
    ASSUME NEW k \in Calls, ~Raises(k)
    PROVE  /\ k.method = "decide" =>
                 /\ RequestOf(k).method = "POST" /\ RequestOf(k).path = "decisions"
                 /\ RequestOf(k).json /\ RequestOf(k).body = k.about
                 /\ RequestOf(k).share = IF k.share THEN "true" ELSE "none"
           /\ k.method # "decide" =>
                 /\ RequestOf(k).method = "GET" /\ RequestOf(k).route = Routes[k.method]
                 /\ RequestOf(k).name = k.about /\ RequestOf(k).query = k.view
  BY DEF RequestOf, ShareParameter

\* What each kind of response tells a caller.
LEMMA Told ==
    ASSUME NEW k
    PROVE  /\ \A d : Reads(k, d) => Outcome(k, Ok(d)) = [told |-> "document", what |-> d]
           /\ \A s \in {400, 404, 405, 415, 422}, code \in PROBLEM_CODES :
                 Outcome(k, Problem(s, code)) = [told |-> "problem", what |-> code]
           /\ Outcome(k, Nothing) = Unanswered
<1>1. \A d : Ok(d).status = 200 /\ Ok(d).body = d /\ Ok(d) # Nothing
  BY DEF Ok, Nothing
<1>2. \A s \in {400, 404, 405, 415, 422}, code \in PROBLEM_CODES :
         /\ Problem(s, code).status = s /\ Problem(s, code).body = code
         /\ Problem(s, code).status # 200 /\ ReadsProblem(Problem(s, code))
         /\ Problem(s, code) # Nothing
  BY DEF Problem, ReadsProblem, Nothing
<1> HIDE DEF PROBLEM_CODES, ReadsProblem
<1>3. \A d : Reads(k, d) => Outcome(k, Ok(d)) = [told |-> "document", what |-> d]
  BY <1>1 DEF Outcome
<1>4. \A s \in {400, 404, 405, 415, 422}, code \in PROBLEM_CODES :
         Outcome(k, Problem(s, code)) = [told |-> "problem", what |-> code]
  BY <1>2 DEF Outcome
<1>5. Outcome(k, Nothing) = Unanswered
  <2>1. Nothing.status = 0 /\ ~ReadsProblem(Nothing)
    BY DEF Nothing, ReadsProblem
  <2> QED
    BY <2>1 DEF Outcome
<1> QED
  BY <1>3, <1>4, <1>5

LEMMA DocumentFits ==
    ASSUME NEW k, NEW d, Reads(k, d), d \in Asked(k)
    PROVE  Fits(k, Ok(d))
  BY Told DEF Fits

LEMMA NotFoundFits ==
    ASSUME NEW k, k.about = "unknown" \/ k.method = "decision_receipt"
    PROVE  Fits(k, NotFound)
<1>1. Outcome(k, NotFound) = [told |-> "problem", what |-> "not_found"]
  BY Told DEF NotFound, PROBLEM_CODES
<1> QED
  BY <1>1 DEF Fits

LEMMA InvalidFits ==
    ASSUME NEW k, NEW s \in {400, 422}, k.about = "unpublished" \/ k.view = "other"
    PROVE  Fits(k, Invalid(s))
<1>1. Outcome(k, Invalid(s)) = [told |-> "problem", what |-> "validation"]
  BY Told DEF Invalid, PROBLEM_CODES
<1> QED
  BY <1>1 DEF Fits

LEMMA ViaFits ==
    ASSUME NEW k, k.about = "unsupported_via"
    PROVE  Fits(k, Problem(422, "via_not_supported"))
<1>1. Outcome(k, Problem(422, "via_not_supported"))
         = [told |-> "problem", what |-> "via_not_supported"]
  BY Told DEF PROBLEM_CODES
<1> QED
  BY <1>1 DEF Fits

\* do_POST's answers to the SDK's decide.
LEMMA PostFits ==
    ASSUME NEW k \in Calls, ~Raises(k), k.method = "decide",
           PostAnswer(RequestOf(k)) # Nothing
    PROVE  Fits(k, PostAnswer(RequestOf(k)))
<1> DEFINE r == RequestOf(k)
<1>1. /\ r.path = "decisions" /\ r.json /\ r.body = k.about
      /\ r.share \in {"none", "true"}
  BY RequestOfCall
<1>2. Malformed(r) = Nothing
  BY <1>1 DEF Malformed
<1>3. CASE k.about \in Queries
  <2>1. k.about \notin {"unreadable", "invalid", "unsupported_via", "unpublished"}
    BY <1>3, ReceiptServerAssumption
  <2>2. Undecided(r) = Nothing
    BY <1>1, <2>1 DEF Undecided
  <2>3. PostAnswer(r) = Ok(k.about)
    BY <1>1, <1>2, <2>2 DEF PostAnswer
  <2> QED
    BY <1>3, <2>3, DocumentFits DEF Reads, Asked
<1>4. CASE k.about = "unsupported_via"
  <2>1. Undecided(r) = Problem(422, "via_not_supported") /\ Undecided(r) # Nothing
    BY <1>1, <1>4 DEF Undecided, Problem, Nothing
  <2>2. PostAnswer(r) = Problem(422, "via_not_supported")
    BY <1>1, <1>2, <2>1 DEF PostAnswer
  <2> QED
    BY <1>4, <2>2, ViaFits
<1>5. CASE k.about = "unpublished"
  <2>1. Undecided(r) = Invalid(422) /\ Undecided(r) # Nothing
    BY <1>1, <1>5 DEF Undecided, Invalid, Problem, Nothing
  <2>2. PostAnswer(r) = Invalid(422)
    BY <1>1, <1>2, <2>1 DEF PostAnswer
  <2> QED
    BY <1>5, <2>2, InvalidFits
<1> QED
  BY <1>3, <1>4, <1>5, CallKinds

\* do_GET's answers to the SDK's other methods.
LEMMA GetFits ==
    ASSUME NEW k \in Calls, ~Raises(k), k.method # "decide",
           GetAnswer(RequestOf(k)) # Nothing
    PROVE  Fits(k, GetAnswer(RequestOf(k)))
<1> DEFINE r == RequestOf(k)
<1>1. r.route = Routes[k.method] /\ r.name = k.about /\ r.query = k.view
  BY RequestOfCall
<1>2. CASE k.method = "decision_receipt"
  <2>1. r.route = "receipt" /\ r.query = "none"
    BY <1>1, <1>2, CallKinds DEF Routes
  <2>2. GetAnswer(r) = Nothing
    BY <2>1 DEF GetAnswer
  <2> QED
    BY <2>2
<1>3. CASE k.method \in {"use_cases", "benchmark_health"}
  <2>1. r.route \in {"use-cases", "benchmark-health"} /\ k.view = "none"
    BY <1>1, <1>3, CallKinds DEF Routes
  <2>2. GetAnswer(r) = Ok(r.route)
    BY <2>1 DEF GetAnswer
  <2>3. Reads(k, r.route) /\ r.route \in Asked(k)
    BY <1>1, <1>3, <2>1 DEF Reads, Asked
  <2> QED
    BY <2>2, <2>3, DocumentFits
<1>4. CASE k.method = "leaderboard"
  <2>1. r.route = "leaderboard" /\ k.view = "none" /\ k.about \in {"known", "unknown"}
    BY <1>1, <1>4, CallKinds DEF Routes
  <2>2. GetAnswer(r) = IF k.about = "known" THEN Ok(r.route) ELSE NotFound
    BY <1>1, <2>1 DEF GetAnswer
  <2>3. Reads(k, r.route) /\ r.route \in Asked(k)
    BY <1>1, <1>4, <2>1 DEF Reads, Asked
  <2> QED
    BY <2>1, <2>2, <2>3, DocumentFits, NotFoundFits
<1>5. CASE k.method \in {"entity", "compare"}
  <2>1. /\ r.route \in {"entity", "compare"} /\ k.about \in {"known", "unknown"}
        /\ k.view \in {"none", "view", "other"}
    BY <1>1, <1>5, CallKinds DEF Routes
  <2>2. GetAnswer(r) = IF k.view = "other" THEN Invalid(400)
                       ELSE IF k.about = "known" THEN Ok(r.route) ELSE NotFound
    BY <1>1, <2>1 DEF GetAnswer
  <2>3. k.view # "other" => Reads(k, r.route) /\ r.route \in Asked(k)
    BY <1>1, <1>5, <2>1 DEF Reads, Asked
  <2> QED
    BY <2>1, <2>2, <2>3, DocumentFits, NotFoundFits, InvalidFits
<1> QED
  BY <1>2, <1>3, <1>4, <1>5, CallKinds

\* Whoever shares or asks for a receipt calls the method for it.
LEMMA TableRequests ==
    ASSUME NEW k \in Calls, ~Raises(k)
    PROVE  /\ Shares(RequestOf(k)) => /\ k.method = "decide" /\ k.share
                                      /\ RequestOf(k).body = k.about /\ k.about \in Queries
           /\ \A id : Asks(RequestOf(k), id) => k.method = "decision_receipt" /\ k.about = id
<1>1. Shares(RequestOf(k)) => /\ k.method = "decide" /\ k.share
                              /\ RequestOf(k).body = k.about /\ k.about \in Queries
  BY RequestOfCall DEF Shares
<1>2. ASSUME NEW id, Asks(RequestOf(k), id)
      PROVE  k.method = "decision_receipt" /\ k.about = id
  <2>1. /\ k.method # "decide" /\ Routes[k.method] = "receipt" /\ k.about = id
    BY <1>2, RequestOfCall DEF Asks
  <2> QED
    BY <2>1, CallKinds DEF Routes
<1> QED
  BY <1>1, <1>2

-------------------------------------------------------------------------------
(* The clients run on the server *)

LEMMA ClientStep == ClientNext => Next
  BY DEF ClientNext, Next, Begin, Call, OtherClient, Restarted

LEMMA ServerSpec == ClientSpec => Spec
<1>1. ClientInit => Init
  BY DEF ClientInit
<1>2. [ClientNext]_<<vars, clientVars>> => [Next]_vars
  BY ClientStep
<1> QED
  BY <1>1, <1>2, PTL DEF ClientSpec, Spec

-------------------------------------------------------------------------------
(* Every step keeps the invariant *)

LEMMA ClientInitInv == ClientInit => ClientInv
  BY DEF ClientInit, Init, ClientInv, CallInv, PublishedInv, Served

\* What succeeds and what does not.
LEMMA SuccessIsADocument ==
    ASSUME NEW k \in Calls, ~Raises(k), NEW r
    PROVE  /\ Success(k, Outcome(k, r)) <=> Outcome(k, r).told = "document"
           /\ ~Success(k, Unanswered)
<1>1. k.surface \in Surfaces
  BY CallKinds
<1>2. ASSUME NEW o, o.told \in {"document", "problem", "exception"}
      PROVE  Success(k, o) <=> o.told = "document"
  <2>1. o.told = "document" <=> ExitCode(o) = 0
    BY <1>2 DEF ExitCode, Unanswered
  <2> HIDE DEF ExitCode
  <2> QED
    BY <1>1, <1>2, <2>1 DEF Success, IsError, Surfaces
<1>3. Outcome(k, r).told \in {"document", "problem", "exception"}
  BY DEF Outcome, Unanswered
<1>4. Unanswered.told = "exception"
  BY DEF Unanswered
<1> QED
  BY <1>2, <1>3, <1>4

\* A shared decision that returns was answered with its own receipt.
LEMMA SharedReturns ==
    ASSUME NEW k \in Calls, ~Raises(k), k.share, NEW r, Fits(k, r),
           Success(k, Outcome(k, r))
    PROVE  /\ r.status = 200 /\ k.about \in Queries
           /\ Shares(RequestOf(k)) /\ RequestOf(k).body = k.about
<1>1. Outcome(k, r).told = "document"
  BY SuccessIsADocument
<1>2. r # Nothing
  BY <1>1, Told DEF Unanswered
<1>3. r.status = 200 /\ Reads(k, r.body) /\ Outcome(k, r).what = r.body
  BY <1>1, <1>2 DEF Outcome
<1>4. k.method = "decide"
  BY CallKinds
<1>5. r.body \in Queries /\ r.body = k.about
  BY <1>1, <1>3, <1>4 DEF Fits, Asked, Reads
<1> QED
  BY <1>3, <1>4, <1>5, RequestOfCall DEF Shares

\* A step of one connection and of its caller leaves what is said of the others alone, as
\* long as the table only grows.
LEMMA OwnStep ==
    ASSUME IInv, ClientInv, NEW c \in Connections,
           \A d \in Connections : d # c =>
              /\ pc'[d] = pc[d] /\ request'[d] = request[d] /\ response'[d] = response[d]
              /\ call'[d] = call[d] /\ told'[d] = told[d] /\ kept'[d] = kept[d],
           DOMAIN call' = Connections, DOMAIN told' = Connections, DOMAIN kept' = Connections,
           \A id \in Ids : shared[id] # NoReceipt => shared'[id] = shared[id],
           CallInv(c)', PublishedInv(c)'
    PROVE  ClientInv'
<1> SUFFICES ASSUME NEW d \in Connections, d # c PROVE CallInv(d)' /\ PublishedInv(d)'
  BY DEF ClientInv
<1>1. CallInv(d) /\ PublishedInv(d)
  BY DEF ClientInv
<1>2. CallInv(d)'
  BY <1>1 DEF CallInv, Served
<1>3. \A q \in Queries : shared[IdOf[q]] = q => shared'[IdOf[q]] = q
  BY QueriesAssumption, ReceiptServerAssumption
<1>4. PublishedInv(d)'
  BY <1>1, <1>3 DEF PublishedInv
<1> QED
  BY <1>2, <1>4

\* Follow leaves the other connections alone, and remembers the call of one that stays open.
LEMMA FollowOwn ==
    ASSUME ClientInv, NEW c \in Connections, NEW what, Follow(c, what)
    PROVE  /\ DOMAIN call' = Connections /\ DOMAIN told' = Connections
           /\ DOMAIN kept' = Connections
           /\ \A d \in Connections : d # c =>
                 call'[d] = call[d] /\ told'[d] = told[d] /\ kept'[d] = kept[d]
           /\ pc'[c] # "idle" \/ (call[c] # NoCall /\ call[c].share) =>
                 /\ call'[c] = call[c] /\ told'[c] = what
                 /\ kept'[c] = (kept[c] \/ shared' # shared)
           /\ ~(pc'[c] # "idle" \/ (call[c] # NoCall /\ call[c].share)) =>
                 call'[c] = NoCall /\ told'[c] = NotTold /\ kept'[c] = FALSE
  BY DEF Follow, ClientInv

\* A step of a thread that answers nothing yet.
LEMMA QuietStep ==
    ASSUME IInv, ClientInv, NEW c \in Connections, Follow(c, told[c]),
           UNCHANGED <<request, response, shared>>,
           NEW l \in Positions \ {"idle", "answering"}, pc' = [pc EXCEPT ![c] = l],
           pc[c] \notin {"idle", "answering"}
    PROVE  ClientInv'
<1>1. pc'[c] = l /\ l # "idle"
  BY DEF IInv, Types
<1>2. CallInv(c) /\ PublishedInv(c)
  BY DEF ClientInv
<1>3. call'[c] = call[c] /\ told'[c] = told[c] /\ kept'[c] = kept[c]
  BY <1>1, <1>2, FollowOwn DEF CallInv
<1>4. CallInv(c)' /\ PublishedInv(c)'
  BY <1>1, <1>2, <1>3 DEF CallInv, PublishedInv, Served
<1> QED
  BY <1>4, FollowOwn, OwnStep DEF IInv, Types

\* A step that answers one connection and leaves the table alone.
LEMMA AnswerStep ==
    ASSUME IInv, ClientInv, NEW c \in Connections, Follow(c, told[c]),
           UNCHANGED <<request, shared>>, NEW answer,
           pc[c] \notin {"idle", "answering"}, pc' = [pc EXCEPT ![c] = "answering"],
           response' = [response EXCEPT ![c] = answer],
           call[c] # NoCall => Fits(call[c], answer)
    PROVE  ClientInv'
<1>1. pc'[c] = "answering" /\ response'[c] = answer
  BY DEF IInv, Types
<1>2. CallInv(c) /\ PublishedInv(c)
  BY DEF ClientInv
<1>3. call'[c] = call[c] /\ told'[c] = told[c] /\ kept'[c] = kept[c]
  BY <1>1, <1>2, FollowOwn DEF CallInv
<1>4. CallInv(c)' /\ PublishedInv(c)'
  BY <1>1, <1>2, <1>3 DEF CallInv, PublishedInv, Served
<1> QED
  BY <1>4, FollowOwn, OwnStep DEF IInv, Types

\* A step with which the connection is closed, after which the caller has been told what.
LEMMA CloseStep ==
    ASSUME IInv, ClientInv, NEW c \in Connections, NEW what, Follow(c, what), Close(c),
           UNCHANGED shared,
           call[c] = NoCall => what = NotTold,
           kept[c] /\ what # NotTold => Success(call[c], what) \/ what = Unanswered,
           what # NotTold /\ call[c].share /\ Success(call[c], what) =>
              call[c].about \in Queries /\ shared[IdOf[call[c].about]] = call[c].about
    PROVE  ClientInv'
<1>1. pc'[c] = "idle"
  BY DEF Close, Goto, IInv, Types
<1>2. \A d \in Connections : d # c =>
         pc'[d] = pc[d] /\ request'[d] = request[d] /\ response'[d] = response[d]
  BY DEF Close, Goto, IInv, Types
<1>3. CallInv(c) /\ PublishedInv(c)
  BY DEF ClientInv
<1>4. CallInv(c)' /\ PublishedInv(c)'
  <2>1. CASE call[c] # NoCall /\ call[c].share
    <3>1. call'[c] = call[c] /\ told'[c] = what /\ kept'[c] = kept[c]
      BY <1>3, <2>1, FollowOwn DEF CallInv
    <3> QED
      BY <1>1, <1>3, <2>1, <3>1 DEF CallInv, PublishedInv, Served
  <2>2. CASE ~(call[c] # NoCall /\ call[c].share)
    <3>1. call'[c] = NoCall /\ told'[c] = NotTold /\ kept'[c] = FALSE
      BY <1>1, <2>2, FollowOwn
    <3> QED
      BY <1>1, <3>1 DEF CallInv, PublishedInv, Served
  <2> QED
    BY <2>1, <2>2
<1> QED
  BY <1>2, <1>4, FollowOwn, OwnStep

LEMMA BeginStep ==
    ASSUME IInv, ClientInv, NEW c \in Connections, Begin(c)
    PROVE  ClientInv'
<1>1. /\ pc'[c] = "sending" /\ UNCHANGED <<response, shared>>
      /\ \A d \in Connections : d # c => pc'[d] = pc[d] /\ request'[d] = request[d]
  BY DEF Begin, Call, OtherClient, Send, Goto, IInv, Types
<1>2. /\ told' = [told EXCEPT ![c] = NotTold] /\ kept' = [kept EXCEPT ![c] = FALSE]
      /\ DOMAIN call' = Connections
      /\ \A d \in Connections : d # c => call'[d] = call[d]
      /\ call'[c] # NoCall => /\ call'[c] \in Calls /\ ~Raises(call'[c])
                              /\ request'[c] = RequestOf(call'[c])
  BY DEF Begin, Call, OtherClient, ClientInv
<1>3. /\ told'[c] = NotTold /\ kept'[c] = FALSE
      /\ DOMAIN told' = Connections /\ DOMAIN kept' = Connections
      /\ \A d \in Connections : d # c => told'[d] = told[d] /\ kept'[d] = kept[d]
  BY <1>2 DEF ClientInv
<1>4. CallInv(c)' /\ PublishedInv(c)'
  BY <1>1, <1>2, <1>3 DEF CallInv, PublishedInv, Served
<1> QED
  BY <1>1, <1>2, <1>3, <1>4, OwnStep

LEMMA PostStep ==
    ASSUME IInv, ClientInv, NEW c \in Connections, Follow(c, told[c]),
           Post(c)
    PROVE  ClientInv'
<1>1. /\ pc[c] = "received" /\ request[c].method = "POST"
      /\ UNCHANGED <<shared, request>>
  BY DEF Post
<1>2. CASE PostAnswer(request[c]) = Nothing
  <2>1. pc' = [pc EXCEPT ![c] = "sharing"] /\ UNCHANGED response
    BY <1>2 DEF Post, Goto
  <2> QED
    BY <1>1, <2>1, QuietStep DEF Positions
<1>3. CASE PostAnswer(request[c]) # Nothing
  <2>1. /\ pc' = [pc EXCEPT ![c] = "answering"]
        /\ response' = [response EXCEPT ![c] = PostAnswer(request[c])]
    BY <1>3 DEF Post, Goto
  <2>2. call[c] # NoCall => Fits(call[c], PostAnswer(request[c]))
    <3> SUFFICES ASSUME call[c] # NoCall PROVE Fits(call[c], PostAnswer(request[c]))
      OBVIOUS
    <3>1. call[c] \in Calls /\ ~Raises(call[c]) /\ request[c] = RequestOf(call[c])
      BY <1>1 DEF ClientInv, CallInv
    <3>2. call[c].method = "decide"
      BY <1>1, <3>1, RequestOfCall
    <3> QED
      BY <1>3, <3>1, <3>2, PostFits
  <2> QED
    BY <1>1, <2>1, <2>2, AnswerStep
<1> QED
  BY <1>2, <1>3

LEMMA GetStep ==
    ASSUME IInv, ClientInv, NEW c \in Connections, Follow(c, told[c]),
           Get(c)
    PROVE  ClientInv'
<1>1. /\ pc[c] = "received" /\ request[c].method = "GET"
      /\ UNCHANGED <<shared, request>>
  BY DEF Get
<1>2. CASE GetAnswer(request[c]) = Nothing
  <2>1. pc' = [pc EXCEPT ![c] = "looking"] /\ UNCHANGED response
    BY <1>2 DEF Get, Goto
  <2> QED
    BY <1>1, <2>1, QuietStep DEF Positions
<1>3. CASE GetAnswer(request[c]) # Nothing
  <2>1. /\ pc' = [pc EXCEPT ![c] = "answering"]
        /\ response' = [response EXCEPT ![c] = GetAnswer(request[c])]
    BY <1>3 DEF Get, Goto
  <2>2. call[c] # NoCall => Fits(call[c], GetAnswer(request[c]))
    <3> SUFFICES ASSUME call[c] # NoCall PROVE Fits(call[c], GetAnswer(request[c]))
      OBVIOUS
    <3>1. call[c] \in Calls /\ ~Raises(call[c]) /\ request[c] = RequestOf(call[c])
      BY <1>1 DEF ClientInv, CallInv
    <3>2. call[c].method # "decide"
      BY <1>1, <3>1, RequestOfCall
    <3> QED
      BY <1>3, <3>1, <3>2, GetFits
  <2> QED
    BY <1>1, <2>1, <2>2, AnswerStep
<1> QED
  BY <1>2, <1>3

\* The SDK sends no other method.
LEMMA OtherStep ==
    ASSUME IInv, ClientInv, NEW c \in Connections, Follow(c, told[c]),
           Other(c)
    PROVE  ClientInv'
<1>1. /\ pc[c] = "received" /\ pc' = [pc EXCEPT ![c] = "answering"]
      /\ response' = [response EXCEPT ![c] = Invalid(405)]
      /\ request[c].method = "other" /\ UNCHANGED <<shared, request>>
  BY DEF Other, Goto, OtherMethod
<1>2. call[c] = NoCall
  BY <1>1, RequestOfCall DEF ClientInv, CallInv
<1> QED
  BY <1>1, <1>2, AnswerStep

LEMMA AcquireStep ==
    ASSUME IInv, ClientInv, NEW c \in Connections, Follow(c, told[c]),
           Acquire(c)
    PROVE  ClientInv'
<1>1. /\ \/ pc[c] = "sharing" /\ pc' = [pc EXCEPT ![c] = "storing"]
         \/ pc[c] = "looking" /\ pc' = [pc EXCEPT ![c] = "reading"]
      /\ UNCHANGED <<shared, request, response>>
  BY DEF Acquire, Goto
<1> QED
  BY <1>1, QuietStep DEF Positions

\* The handler has read the request.
LEMMA ArriveStep ==
    ASSUME IInv, ClientInv, NEW c \in Connections, Follow(c, told[c]), Arrive(c)
    PROVE  ClientInv'
  BY QuietStep DEF Arrive, Goto, Positions

LEMMA StoreStep ==
    ASSUME IInv, ClientInv, NEW c \in Connections, Follow(c, told[c]), Store(c)
    PROVE  ClientInv'
<1> DEFINE query == request[c].body
<1>1. /\ Shares(request[c]) /\ query \in Queries
      /\ shared[IdOf[query]] \in {NoReceipt, query}
      /\ shared' = [shared EXCEPT ![IdOf[query]] = query]
      /\ pc' = [pc EXCEPT ![c] = "answering"]
      /\ response' = [response EXCEPT ![c] = Ok(query)]
      /\ UNCHANGED request
  BY StoreKeepsAnId
<1>2. pc[c] = "storing" /\ pc'[c] = "answering" /\ response'[c] = Ok(query)
  BY <1>1 DEF Store, IInv, Types
<1>3. \A id \in Ids : shared[id] # NoReceipt => shared'[id] = shared[id]
  BY <1>1 DEF IInv, Types
<1>4. CallInv(c) /\ PublishedInv(c)
  BY DEF ClientInv
<1>5. /\ call'[c] = call[c] /\ told'[c] = told[c]
      /\ kept'[c] = (kept[c] \/ shared' # shared)
  BY <1>2, FollowOwn
<1>6. ASSUME call[c] # NoCall
      PROVE  call[c].share /\ Fits(call[c], Ok(query)) /\ ~Success(call[c], Unanswered)
  <2>1. call[c] \in Calls /\ ~Raises(call[c]) /\ request[c] = RequestOf(call[c])
    BY <1>2, <1>4, <1>6 DEF CallInv
  <2>2. call[c].method = "decide" /\ call[c].share /\ query = call[c].about
    BY <1>1, <2>1, TableRequests
  <2>3. Fits(call[c], Ok(query))
    BY <1>1, <2>2, DocumentFits DEF Reads, Asked
  <2> QED
    BY <2>1, <2>2, <2>3, SuccessIsADocument
<1>7. CallInv(c)'
  BY <1>1, <1>2, <1>4, <1>5, <1>6 DEF CallInv, Served
<1>8. PublishedInv(c)'
  BY <1>2, <1>4, <1>5, <1>6 DEF CallInv, PublishedInv
<1>9. \A d \in Connections : d # c =>
         pc'[d] = pc[d] /\ request'[d] = request[d] /\ response'[d] = response[d]
  BY <1>1 DEF IInv, Types
<1> QED
  BY <1>3, <1>7, <1>8, <1>9, FollowOwn, OwnStep

LEMMA LookStep ==
    ASSUME IInv, ClientInv, NEW c \in Connections, Follow(c, told[c]),
           Look(c)
    PROVE  ClientInv'
<1> DEFINE id     == request[c].name
           answer == IF shared[id] = NoReceipt THEN NotFound ELSE Ok(shared[id])
<1>1. /\ pc[c] = "reading" /\ pc' = [pc EXCEPT ![c] = "answering"]
      /\ response' = [response EXCEPT ![c] = answer]
      /\ UNCHANGED <<shared, request>>
  BY DEF Look, Goto
<1>2. id \in Ids /\ Asks(request[c], id)
  BY <1>1 DEF IInv, PlaceInv
<1>3. ASSUME call[c] # NoCall PROVE Fits(call[c], answer)
  <2>1. call[c] \in Calls /\ ~Raises(call[c]) /\ request[c] = RequestOf(call[c])
    BY <1>1, <1>3 DEF ClientInv, CallInv
  <2>2. call[c].method = "decision_receipt" /\ call[c].about = id
    BY <1>2, <2>1, TableRequests
  <2>3. CASE shared[id] = NoReceipt
    BY <2>2, <2>3, NotFoundFits
  <2>4. CASE shared[id] # NoReceipt
    <3>1. shared[id] \in Queries /\ IdOf[shared[id]] = id
      BY <1>2, <2>4 DEF IInv, Types, TableInv
    <3> QED
      BY <2>2, <2>4, <3>1, DocumentFits DEF Reads, Asked
  <2> QED
    BY <2>3, <2>4
<1> HIDE DEF answer
<1> QED
  BY <1>1, <1>3, AnswerStep

\* The caller gets the response.
LEMMA DeliverStep ==
    ASSUME IInv, ClientInv, NEW c \in Connections, Deliver(c), Ends(c, response[c])
    PROVE  ClientInv'
<1> DEFINE k    == call[c]
           r    == response[c]
           what == IF k = NoCall THEN NotTold ELSE Outcome(k, r)
<1>1. /\ pc[c] = "answering" /\ Close(c) /\ UNCHANGED shared /\ Follow(c, what)
  BY DEF Deliver, Ends
<1>2. CallInv(c)
  BY DEF ClientInv
<1>3. ASSUME k # NoCall
      PROVE  /\ k \in Calls /\ ~Raises(k) /\ request[c] = RequestOf(k) /\ Fits(k, r)
  BY <1>1, <1>2, <1>3 DEF CallInv, Served
<1>4. ASSUME k # NoCall, kept[c] PROVE Success(k, what)
  <2>1. Shares(RequestOf(k)) /\ r = Ok(RequestOf(k).body)
    BY <1>1, <1>2, <1>3, <1>4 DEF CallInv
  <2>2. k.method = "decide" /\ RequestOf(k).body \in Queries
    BY <1>3, <1>4, <2>1, TableRequests
  <2>3. Outcome(k, r).told = "document"
    BY <2>1, <2>2, Told DEF Reads
  <2> QED
    BY <1>3, <1>4, <2>3, SuccessIsADocument
<1>5. ASSUME k # NoCall, k.share, Success(k, what)
      PROVE  k.about \in Queries /\ shared[IdOf[k.about]] = k.about
  <2>1. /\ r.status = 200 /\ k.about \in Queries
        /\ Shares(request[c]) /\ request[c].body = k.about
    BY <1>3, <1>5, SharedReturns
  <2>2. Found(IdOf[k.about])
    BY <1>1, <2>1 DEF IInv, AnswerInv
  <2>3. shared[IdOf[k.about]] \in Queries /\ IdOf[shared[IdOf[k.about]]] = IdOf[k.about]
    BY <2>2 DEF IInv, Types, TableInv, Found
  <2> QED
    BY <2>1, <2>3, ReceiptServerAssumption
<1> HIDE DEF what
<1>6. k = NoCall => what = NotTold
  BY DEF what
<1> QED
  BY <1>1, <1>4, <1>5, <1>6, CloseStep

\* Nobody gets the response: whoever waited has been told so.
LEMMA LoseStep ==
    ASSUME IInv, ClientInv, NEW c \in Connections, Follow(c, told[c]), Lose(c)
    PROVE  ClientInv'
<1>1. pc[c] = "answering" /\ Close(c) /\ UNCHANGED shared
  BY DEF Lose
<1>2. CallInv(c) /\ PublishedInv(c)
  BY DEF ClientInv
<1> QED
  BY <1>1, <1>2, CloseStep DEF CallInv, PublishedInv

\* The caller is told that no response came, whatever the handler is doing.
LEMMA LeaveStep ==
    ASSUME IInv, ClientInv, NEW c \in Connections, Leave(c), Ends(c, Nothing)
    PROVE  ClientInv'
<1> DEFINE what == IF call[c] = NoCall THEN NotTold ELSE Unanswered
<1>1. Follow(c, what) /\ UNCHANGED shared
  BY Told DEF Ends, Leave, BreakOff, GiveUp
<1>2. CallInv(c) /\ PublishedInv(c)
  BY DEF ClientInv
<1>3. call[c] # NoCall => ~Success(call[c], Unanswered)
  BY <1>2, SuccessIsADocument DEF CallInv
<1>4. CASE BreakOff(c)
  <2>1. Close(c)
    BY <1>4 DEF BreakOff
  <2> QED
    BY <1>1, <1>3, <2>1, CloseStep
<1>5. CASE GiveUp(c)
  <2>1. pc[c] # "idle" /\ UNCHANGED <<pc, request, response>>
    BY <1>5 DEF GiveUp
  <2>2. call'[c] = call[c] /\ told'[c] = what /\ kept'[c] = kept[c]
    BY <1>1, <1>2, <2>1, FollowOwn DEF CallInv
  <2>3. CallInv(c)' /\ PublishedInv(c)'
    BY <1>2, <1>3, <2>1, <2>2 DEF CallInv, PublishedInv, Served
  <2> QED
    BY <1>1, <2>1, <2>3, FollowOwn, OwnStep
<1> QED
  BY <1>4, <1>5 DEF Leave

LEMMA RestartStep ==
    ASSUME IInv, ClientInv, Restarted
    PROVE  ClientInv'
<1>1. /\ \A c \in Connections : pc'[c] = "idle" /\ kept'[c] = FALSE
      /\ DOMAIN call' = Connections /\ DOMAIN told' = Connections
      /\ DOMAIN kept' = Connections
      /\ \A c \in Connections : call'[c] \in {call[c], NoCall}
      /\ \A c \in Connections :
            told'[c] = IF call'[c] = NoCall THEN NotTold ELSE Unanswered
  BY Told DEF Restarted, Restart
<1>2. ASSUME NEW c \in Connections PROVE CallInv(c)' /\ PublishedInv(c)'
  <2>1. call'[c] # NoCall => /\ call'[c] \in Calls /\ ~Raises(call'[c])
                             /\ ~Success(call'[c], Unanswered)
    BY <1>1, SuccessIsADocument DEF ClientInv, CallInv
  <2> QED
    BY <1>1, <2>1 DEF CallInv, PublishedInv, Served
<1> QED
  BY <1>1, <1>2 DEF ClientInv

\* The inductive invariant of clients and server together.
THEOREM ClientInvariance == ClientSpec => [](IInv /\ ClientInv)
<1>1. IInv /\ ClientInv /\ [ClientNext]_<<vars, clientVars>> => ClientInv'
  <2> SUFFICES ASSUME IInv, ClientInv, [ClientNext]_<<vars, clientVars>> PROVE ClientInv'
    OBVIOUS
  <2>1. ASSUME NEW c \in Connections, Handle(c), Follow(c, told[c]) PROVE ClientInv'
    BY <2>1, PostStep, GetStep, OtherStep, AcquireStep, StoreStep, LookStep DEF Handle
  <2>2. ASSUME UNCHANGED <<vars, clientVars>> PROVE ClientInv'
    BY <2>2 DEF vars, clientVars, ClientInv, CallInv, PublishedInv, Served
  <2> QED
    BY <2>1, <2>2, BeginStep, ArriveStep, LoseStep, DeliverStep, LeaveStep, RestartStep
       DEF ClientNext
<1>2. ClientInit => ClientInv
  BY ClientInitInv
<1> QED
  BY <1>1, <1>2, ServerSpec, Invariance, PTL DEF ClientSpec

\* Whatever other callers do, a call is told the document it asked for, or a problem that
\* is about what it asked.
THEOREM AnsweredAsAskedTheorem == ClientSpec => []AnsweredAsAsked
<1>1. ClientInv => AnsweredAsAsked
  BY DEF ClientInv, CallInv, AnsweredAsAsked, Fits
<1> QED
  BY <1>1, ClientInvariance, PTL

\* Nothing is kept for a call that did not ask to share, nor for one that is told a problem;
\* only a caller without a response cannot know; and a shared decision that returns has its
\* receipt in the table, however often it was sent.
THEOREM PublishedAsToldTheorem == ClientSpec => []PublishedAsTold
<1>1. ClientInv => PublishedAsTold
  BY DEF ClientInv, PublishedInv, CallInv, PublishedAsTold
<1> QED
  BY <1>1, ClientInvariance, PTL
===============================================================================
