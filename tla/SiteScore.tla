------------------------------- MODULE SiteScore ------------------------------
(***************************************************************************)
(* score_model of the site-translation board: a translator call per        *)
(* language, the first one alone, then a judge call per language and       *)
(* judge; a panel verdict per segment; one row.                            *)
(*                                                                         *)
(* A call is one execution of translate or judge, the attempts of complete *)
(* included: they share nothing with other calls.                          *)
(***************************************************************************)
EXTENDS Integers, FiniteSets, FiniteSetsExt, Functions, Sequences

CONSTANTS L,                  \* LANGUAGES are 1 .. L
          N,                  \* number of segments
          J,                  \* number of judges
          MinJudges,          \* MIN_JUDGES
          Concurrency,        \* threads of each pool
          ErrorNum,           \* MAX_ERROR_RATE is ErrorNum / ErrorDen
          ErrorDen,
          TranslatorReplies,  \* the "items" lists translators may return
          JudgeReplies        \* the "verdicts" lists judges may return

Languages == 1 .. L
Segments  == 1 .. N
Unknown   == 0

\* VERDICTS times 8, so that the mean of two is an integer.
Grade == [no_error |-> 8, minor |-> 6, major |-> 2, critical |-> 0]

\* passes says whether the deterministic check finds nothing.  A verdict is one of
\* VERDICTS, another string, or a value that cannot be a dictionary key.
Items    == [id : Segments \cup {Unknown}, passes : BOOLEAN]
Verdicts == [id : Segments \cup {Unknown}, verdict : DOMAIN Grade \cup {"other", "unhashable"}]

ASSUME SiteScoreAssumption ==
    /\ L \in Nat \ {0} /\ N \in Nat \ {0} /\ J \in Nat \ {0}
    /\ MinJudges \in 1 .. J
    /\ Concurrency \in Nat \ {0}
    /\ ErrorNum \in Nat /\ ErrorDen \in Nat
    /\ L * ErrorNum < ErrorDen      \* 15 languages, 5%
    /\ TranslatorReplies \subseteq Seq(Items)
    /\ JudgeReplies \subseteq Seq(Verdicts)

(***************************************************************************)
(* Calls 1 .. L are the translations, the rest the jobs, in the order of   *)
(* the list jobs.                                                          *)
(***************************************************************************)
Jobs  == L + 1 .. L + L * J
Calls == 1 .. L + L * J

VARIABLES phase,   \* where score_model is
          pc,      \* where each call is
          asked,   \* the language a judge call was made for, or Unknown
          reply,   \* the list in the reply a call received
          end,     \* "reply", or why there is none
          result,  \* the dictionary it returned; None is an end other than "reply"
          row      \* the row score_model returned

local == <<pc, asked, reply, end, result>>
vars  == <<phase, local, row>>

NoDict   == [s \in {} |-> 0]
NoRow    == [mode |-> "none", errors |-> 0, excluded |-> FALSE,
             languages |-> [l \in Languages |-> [sum |-> 0, errors |-> 0]]]
Running  == {c \in Calls : pc[c] = "running"}

Init ==
    /\ phase = "first"
    /\ pc = [c \in Calls |-> IF c = 1 THEN "running" ELSE "queued"]
    /\ asked = [c \in Jobs |-> Unknown]
    /\ reply = [c \in Calls |-> <<>>]
    /\ end = [c \in Calls |-> "none"]
    /\ result = [c \in Calls |-> NoDict]
    /\ row = NoRow
-------------------------------------------------------------------------------
(***************************************************************************)
(* Translator calls.                                                       *)
(***************************************************************************)
Return(c, e, r, v) ==
    /\ pc[c] = "running"
    /\ pc' = [pc EXCEPT ![c] = "done"]
    /\ end' = [end EXCEPT ![c] = e]
    /\ reply' = [reply EXCEPT ![c] = r]
    /\ result' = [result EXCEPT ![c] = v]
    /\ UNCHANGED <<phase, row>>

\* An exception that neither complete nor its caller catches.
Raise(c, r) ==
    /\ pc[c] = "running"
    /\ pc' = [pc EXCEPT ![c] = "raised"]
    /\ reply' = [reply EXCEPT ![c] = r]
    /\ UNCHANGED <<phase, end, result, row>>

\* id -> every text returned for it, under its place in the list; a text is reduced to
\* its check.
TextsById(items) ==
    [s \in {items[k].id : k \in DOMAIN items} |->
        [k \in {i \in DOMAIN items : items[i].id = s} |-> items[k].passes]]

Translate(c) ==
    /\ c \in Languages
    /\ \E items \in TranslatorReplies : Return(c, "reply", items, TextsById(items))
    /\ UNCHANGED asked

\* None: another status, no attempt left, no list of items; or, after the first
\* language, Unavailable, which _translate turns into None.
TranslateFails(c) ==
    /\ c \in Languages
    /\ Return(c, "failed", <<>>, NoDict)
    /\ UNCHANGED asked

\* Unavailable (404) at the first language.
TranslateUnavailable(c) ==
    /\ c = 1
    /\ Return(c, "unavailable", <<>>, NoDict)
    /\ UNCHANGED asked

\* A body that is not UTF-8, or choices that are a non-empty object.
TranslateRaises(c) ==
    /\ c \in Languages
    /\ Raise(c, <<>>)
    /\ UNCHANGED asked
-------------------------------------------------------------------------------
(***************************************************************************)
(* Judge calls.                                                            *)
(***************************************************************************)
\* jobs = [(code, j) for code in codes for j in judges]
JobLanguage(c) == ((c - L - 1) \div J) + 1

\* There is one text, and it passes the check.
Passes(l, s) ==
    /\ s \in DOMAIN result[l] /\ Cardinality(DOMAIN result[l][s]) = 1
    /\ \A k \in DOMAIN result[l][s] : result[l][s][k]

ToJudge(l) == {s \in Segments : Passes(l, s)}

Valid(v, wanted) == v.id \in wanted /\ v.verdict \in DOMAIN Grade

\* The first valid verdict of each segment.
ScoresById(vs, wanted) ==
    LET Places(s) == {k \in DOMAIN vs : vs[k].id = s /\ Valid(vs[k], wanted)}
    IN  [s \in {t \in wanted : Places(t) # {}} |-> Grade[vs[Min(Places(s))].verdict]]

\* Nothing to judge: no request.
JudgeNothing(c) ==
    /\ c \in Jobs /\ ToJudge(JobLanguage(c)) = {}
    /\ Return(c, "none", <<>>, NoDict)
    /\ UNCHANGED asked

\* The request goes out for the job's language.
Request(c) ==
    /\ c \in Jobs /\ ToJudge(JobLanguage(c)) # {}
    /\ asked' = [asked EXCEPT ![c] = JobLanguage(c)]

\* Looking an unhashable verdict up raises, unless the id is not wanted.
Unhashable(vs, wanted) ==
    \E k \in DOMAIN vs : vs[k].verdict = "unhashable" /\ vs[k].id \in wanted

Judge(c) ==
    /\ Request(c)
    /\ \E vs \in JudgeReplies :
          LET wanted == ToJudge(JobLanguage(c))
          IN  IF Unhashable(vs, wanted) THEN Raise(c, vs)
              ELSE Return(c, "reply", vs, ScoresById(vs, wanted))

\* Unavailable, None, or no list of verdicts.
JudgeFails(c) == Request(c) /\ Return(c, "failed", <<>>, NoDict)
-------------------------------------------------------------------------------
(***************************************************************************)
(* The row.                                                                *)
(***************************************************************************)
\* Mutant: the jobs are taken to be sorted by judge.
JudgedByJudge(l) == {c \in Jobs : ((c - L - 1) % L) + 1 = l}

\* judged[l], from zip(jobs, verdicts): the calls whose scores it holds.
Judged(l) == {c \in Jobs : JobLanguage(c) = l}

Unjudged == -1

\* statistics.median of the values of f: in ascending order the middle one, or the mean
\* of the middle two.
UpTo(f, d)   == {e \in DOMAIN f : f[e] < f[d] \/ (f[e] = f[d] /\ e <= d)}
Place(f, k)  == CHOOSE d \in DOMAIN f : Cardinality(UpTo(f, d)) = k
Median(f) ==
    LET n == Cardinality(DOMAIN f)
    IN  IF n % 2 = 1 THEN f[Place(f, (n + 1) \div 2)]
        ELSE (f[Place(f, n \div 2)] + f[Place(f, n \div 2 + 1)]) \div 2

\* votes: the scores of the judges that graded s.
Graded(l, s) == [c \in {d \in Judged(l) : s \in DOMAIN result[d]} |-> result[c][s]]

Panel(l, s) ==
    IF Cardinality(DOMAIN Graded(l, s)) < MinJudges THEN Unjudged ELSE Median(Graded(l, s))

\* Mutant: no translation is taken for an empty one.
OutcomeOfNothing(l, s) == IF ~Passes(l, s) THEN 0 ELSE Panel(l, s)

\* score_language: a score, or Unjudged for an error of either kind.
Outcome(l, s) ==
    IF end[l] # "reply" THEN Unjudged
    ELSE IF ~Passes(l, s) THEN 0
    ELSE Panel(l, s)

\* Mutant: a row at the ceiling is excluded too.
ExcludedAtCeiling(errors) == errors * ErrorDen >= ErrorNum * L * N

Excluded(errors) == errors * ErrorDen > ErrorNum * L * N

Errors(l) == {s \in Segments : Outcome(l, s) = Unjudged}

\* Those of all languages: flat without scored.
AllErrors == {o \in Languages \X Segments : o[2] \in Errors(o[1])}

Row ==
    [mode      |-> IF end[1] = "unavailable" THEN "unavailable" ELSE "reasoning_off",
     errors    |-> Cardinality(AllErrors),
     excluded  |-> Excluded(Cardinality(AllErrors)),
     languages |-> [l \in Languages |->
         [sum    |-> SumFunction([s \in Segments \ Errors(l) |-> Outcome(l, s)]),
          errors |-> Cardinality(Errors(l))]]]
-------------------------------------------------------------------------------
(***************************************************************************)
(* score_model and its two thread pools.                                   *)
(***************************************************************************)
Batch == CASE phase = "translate" -> 2 .. L
           [] phase = "judge"     -> Jobs
           [] phase = "aborting"  ->
                IF \E l \in Languages : pc[l] = "raised" THEN 2 .. L ELSE Jobs
           [] OTHER               -> {}

To(p) == phase' = p /\ UNCHANGED <<local, row>>

\* A free thread takes the next call of the batch, also while an exception waits.
Start(c) ==
    /\ c \in Batch /\ pc[c] = "queued"
    /\ \A d \in Batch : d < c => pc[d] # "queued"
    /\ Cardinality(Running) < Concurrency
    /\ pc' = [pc EXCEPT ![c] = "running"]
    /\ UNCHANGED <<phase, asked, reply, end, result, row>>

\* Mutant: the other languages are asked for all the same.
FanOutRegardless == phase = "first" /\ pc[1] = "done" /\ To("translate")

FanOut == phase = "first" /\ pc[1] = "done" /\ end[1] # "unavailable" /\ To("translate")

Unservable == phase = "first" /\ end[1] = "unavailable" /\ To("judge")

FirstRaises == phase = "first" /\ pc[1] = "raised" /\ To("raised")

Translated == phase = "translate" /\ (\A c \in Batch : pc[c] = "done") /\ To("judge")

Publish ==
    /\ phase = "judge" /\ \A c \in Batch : pc[c] = "done"
    /\ row' = Row
    /\ phase' = "scored"
    /\ UNCHANGED local

\* zip or list meets the exception at the call's place in the order.
MeetException ==
    /\ phase \in {"translate", "judge"}
    /\ \E c \in Batch : pc[c] = "raised" /\ \A d \in Batch : d < c => pc[d] = "done"
    /\ To("aborting")

\* What the pool has not started is cancelled, the last one first.
Cancel(c) ==
    /\ phase = "aborting" /\ c \in Batch /\ pc[c] = "queued"
    /\ \A d \in Batch : d > c => pc[d] # "queued"
    /\ pc' = [pc EXCEPT ![c] = "cancelled"]
    /\ UNCHANGED <<phase, asked, reply, end, result, row>>

Reraise ==
    /\ phase = "aborting"
    /\ \A c \in Batch : pc[c] \in {"done", "raised", "cancelled"}
    /\ To("raised")

Call(c) == \/ Translate(c) \/ TranslateFails(c) \/ TranslateUnavailable(c)
           \/ TranslateRaises(c) \/ JudgeNothing(c) \/ Judge(c) \/ JudgeFails(c)

ScoreModel == \/ FanOut \/ Unservable \/ FirstRaises \/ Translated \/ Publish
              \/ MeetException \/ Reraise
              \/ \E c \in Calls : Start(c) \/ Cancel(c)

Returned == phase \in {"scored", "raised"}
Stopped  == Returned /\ UNCHANGED vars

Progress == ScoreModel \/ \E c \in Calls : Call(c)

Next == Progress \/ Stopped

Spec == Init /\ [][Next]_vars

\* Some thread is scheduled, and a request ends: _fetch has a timeout.  That is enough:
\* no call waits for another one's lock.
FairSpec == Spec /\ WF_vars(Progress)
-------------------------------------------------------------------------------
(***************************************************************************)
(* What a row should say, from the replies and from what was asked.        *)
(***************************************************************************)
\* The texts' only item for the segment passes the check.
Delivered(l, s) ==
    /\ Cardinality({k \in DOMAIN reply[l] : reply[l][k].id = s}) = 1
    /\ \E k \in DOMAIN reply[l] : reply[l][k] = [id |-> s, passes |-> TRUE]

\* What the judges asked about the language said of the segment, each its first word.
Says(c, k, s) == reply[c][k].id = s /\ reply[c][k].verdict \in DOMAIN Grade

FirstWord(c, s) ==
    CHOOSE k \in DOMAIN reply[c] : Says(c, k, s) /\ \A h \in 1 .. k - 1 : ~Says(c, h, s)

Votes(l, s) ==
    [c \in {d \in Jobs : asked[d] = l /\ \E k \in DOMAIN reply[d] : Says(d, k, s)} |->
        Grade[reply[c][FirstWord(c, s)].verdict]]

\* At most half of the values of f are below a median and at most half above it.
Medians(f) ==
    {f[d] : d \in {e \in DOMAIN f :
        /\ 2 * Cardinality({x \in DOMAIN f : f[x] < f[e]}) <= Cardinality(DOMAIN f)
        /\ 2 * Cardinality({x \in DOMAIN f : f[x] > f[e]}) <= Cardinality(DOMAIN f)}}

Middle(f) == (Min(Medians(f)) + Max(Medians(f))) \div 2

Expected(l, s) == IF Delivered(l, s) THEN Middle(Votes(l, s)) ELSE 0

Ungraded(l) ==
    IF end[l] # "reply" THEN Segments
    ELSE {s \in Segments : Delivered(l, s) /\ Cardinality(DOMAIN Votes(l, s)) < MinJudges}

\* Whatever the order in which calls of several languages and judges end or fail, a
\* language's score is the sum of its own segments' panel medians: 0 for a segment that
\* did not arrive once and intact, and an error, not a 0, for one fewer than two of its
\* own judges graded or whose call failed.
ScoresAreThePanels ==
    phase = "scored" =>
        \A l \in Languages :
            /\ row.languages[l].errors = Cardinality(Ungraded(l))
            /\ row.languages[l].sum =
                  SumFunction([s \in Segments \ Ungraded(l) |-> Expected(l, s)])

\* A row is ranked only if every language came back: with L languages the error rate
\* of one failed call, 1/L, is already above the ceiling.
RankedRowIsTranslated ==
    phase = "scored" /\ ~row.excluded => \A l \in Languages : end[l] = "reply"

\* README: "a 404 costs nothing".  A model found unavailable by its first call is asked
\* nothing else, no judge is asked about it, and its row is excluded.
UnavailableCostsNothing ==
    end[1] = "unavailable" =>
        /\ \A c \in Calls \ {1} : end[c] = "none" /\ (c \in Jobs => asked[c] = Unknown)
        /\ phase = "scored" => row.mode = "unavailable" /\ row.excluded

(***************************************************************************)
(* The site board's score_model keeps the promise of the other board's: in *)
(* the end one row whose exclusion follows from its errors, or an          *)
(* exception, and nothing after that.  Its mode never leaves reasoning_off.*)
(***************************************************************************)
Promise == INSTANCE ModelScore WITH
    N     <- L * N,
    state <- IF Returned THEN phase ELSE "scoring",
    mode  <- "reasoning_off",
    row   <- [mode |-> row.mode, errors |-> row.errors, excluded |-> row.excluded]

\* See the comment above: score_model of this board implements ModelScore.
ImplementsModelScore == Promise!FairSpec
===============================================================================
