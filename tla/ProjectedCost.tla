----------------------------- MODULE ProjectedCost ----------------------------
(***************************************************************************)
(* The projected cost of a usage profile under an offer's price schedule   *)
(* (decision_contracts.py): integers in microusd, one ceiling, and no cost *)
(* where a rate it needs is not known.                                     *)
(*                                                                         *)
(* Cache writes and their rates are unique per time to live, so that they  *)
(* are functions of it.  A run of one offer is a sequence of tasks whose   *)
(* usage adds up.                                                          *)
(***************************************************************************)
EXTENDS PortableJson

CONSTANTS Million,         \* tokens a rate is quoted for
          SecondsPerHour,  \* of the storage rate
          MaxSafeInteger,
          Usages,          \* the profiles a task may have
          Schedules,       \* the price schedules an offer may have
          MaxTasks

UsageFields == {"uncached_input_tokens", "cached_read_tokens", "output_tokens",
                "cache_writes", "cache_storage_token_seconds"}

\* Neither None nor an exception is an integer.
ASSUME ProjectedCostAssumption ==
    /\ Million \in Nat \ {0} /\ SecondsPerHour \in Nat \ {0} /\ MaxSafeInteger \in Nat
    /\ Null \notin Int /\ Rejected \notin Int
    /\ \A u \in Usages : u = [f \in UsageFields |-> u[f]]

VARIABLES pricing,  \* the offer's schedule, or Null
          total,    \* the usage of all tasks so far, or Null
          tasks,    \* how many they are
          billed    \* the sum of their costs, or Null

quoteVars == <<pricing, total, tasks, billed>>

QuotesInit == pricing = Null /\ total = Null /\ tasks = 0 /\ billed = 0

-------------------------------------------------------------------------------
SafeFrom(minimum) == minimum .. MaxSafeInteger

ValidUsage(u) ==
    /\ \A f \in UsageFields \ {"cache_writes"} : u[f] \in SafeFrom(0)
    /\ \A ttl \in DOMAIN u.cache_writes :
          ttl \in SafeFrom(1) /\ u.cache_writes[ttl] \in SafeFrom(1)
    /\ u.uncached_input_tokens > 0 \/ u.cached_read_tokens > 0 \/ u.output_tokens > 0
       \/ DOMAIN u.cache_writes # {}

ValidSchedule(p) ==
    /\ p.uncached_input \in SafeFrom(0) /\ p.output \in SafeFrom(0)
    /\ p.cached_read \in SafeFrom(0) \cup {Null} /\ p.cache_storage \in SafeFrom(0) \cup {Null}
    /\ \A ttl \in DOMAIN p.cache_write_rates :
          ttl \in SafeFrom(1) /\ p.cache_write_rates[ttl] \in SafeFrom(0)
    /\ p.expires_at > p.observed_at /\ p.expires_at > p.effective_at

RateMissing(usage, p) ==
    \/ usage.cached_read_tokens > 0 /\ p.cached_read = Null
    \/ ~(DOMAIN usage.cache_writes \subseteq DOMAIN p.cache_write_rates)
    \/ usage.cache_storage_token_seconds > 0 /\ p.cache_storage = Null

Amount(tokens, rate) == IF tokens = 0 THEN 0 ELSE tokens * rate

TokenCost(usage, p) ==
    Amount(usage.uncached_input_tokens, p.uncached_input)
    + Amount(usage.cached_read_tokens, p.cached_read)
    + Amount(usage.output_tokens, p.output)
    + FoldFunctionOnSet(+, 0,
          [ttl \in DOMAIN usage.cache_writes \cap DOMAIN p.cache_write_rates |->
              usage.cache_writes[ttl] * p.cache_write_rates[ttl]],
          DOMAIN usage.cache_writes \cap DOMAIN p.cache_write_rates)

\* Mutant: a cost is rounded down.
Floor(numerator, denominator) == numerator \div denominator

Ceiling(numerator, denominator) ==
    numerator \div denominator + (IF numerator % denominator = 0 THEN 0 ELSE 1)

Numerator(usage, p) ==
    TokenCost(usage, p) * SecondsPerHour
    + Amount(usage.cache_storage_token_seconds, p.cache_storage)

ProjectedCostMicrousd(usage, p) ==
    LET cost == Ceiling(Numerator(usage, p), Million * SecondsPerHour)
    IN CASE RateMissing(usage, p)                             -> Null
         [] ~RateMissing(usage, p) /\ cost > MaxSafeInteger -> Rejected
         [] OTHER                                             -> cost

-------------------------------------------------------------------------------
Together(u, v) ==
    [f \in UsageFields |->
        IF f # "cache_writes" THEN u[f] + v[f]
        ELSE [ttl \in DOMAIN u[f] \cup DOMAIN v[f] |->
                 (IF ttl \in DOMAIN u[f] THEN u[f][ttl] ELSE 0)
                 + (IF ttl \in DOMAIN v[f] THEN v[f][ttl] ELSE 0)]]

Offer(p) ==
    /\ pricing = Null /\ ValidSchedule(p)
    /\ pricing' = p
    /\ UNCHANGED <<total, tasks, billed>>

Task(usage) ==
    /\ pricing # Null /\ tasks < MaxTasks /\ ValidUsage(usage)
    /\ tasks' = tasks + 1
    /\ LET sum  == IF tasks = 0 THEN usage ELSE Together(total, usage)
           cost == ProjectedCostMicrousd(usage, pricing)
       IN  /\ ValidUsage(sum) /\ cost # Rejected
           /\ total' = sum
           /\ billed' = IF billed = Null \/ cost = Null THEN Null ELSE billed + cost
    /\ UNCHANGED pricing

QuotesNext == (\E p \in Schedules : Offer(p)) \/ (\E u \in Usages : Task(u))
-------------------------------------------------------------------------------
Only(field, amount) ==
    [f \in UsageFields |-> IF f = field THEN amount ELSE IF f = "cache_writes" THEN <<>> ELSE 0]

\* Costs are exact with one ceiling (schemas/README.md, "one final ceiling").  A million
\* tokens, or a million token-hours, cost their rate.  The cost of several tasks together
\* is unknown exactly when the cost of one of them is, is never above what they cost one
\* by one, and below it by less than one microusd per further task; it is refused only
\* where it is not a safe integer.
CostsAddUp ==
    tasks > 0 =>
        LET cost == ProjectedCostMicrousd(total, pricing)
        IN /\ cost = Null <=> billed = Null
           /\ cost = Rejected => billed > MaxSafeInteger
           /\ cost \notin {Null, Rejected} => cost \in (billed - tasks + 1) .. billed
           /\ \A rate \in {<<"uncached_input_tokens", pricing.uncached_input, Million>>,
                           <<"cached_read_tokens", pricing.cached_read, Million>>,
                           <<"output_tokens", pricing.output, Million>>,
                           <<"cache_storage_token_seconds", pricing.cache_storage,
                             Million * SecondsPerHour>>} :
                 ProjectedCostMicrousd(Only(rate[1], rate[3]), pricing) = rate[2]
           /\ \A ttl \in DOMAIN pricing.cache_write_rates :
                 ProjectedCostMicrousd(Only("cache_writes", [t \in {ttl} |-> Million]), pricing)
                    = pricing.cache_write_rates[ttl]
===============================================================================
