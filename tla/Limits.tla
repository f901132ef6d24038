------------------------------- MODULE Limits -------------------------------
(***************************************************************************)
(* The request limits of /api/v1: per address, per API key and minute, per *)
(* API key and day. Each is a Redis counter: INCR, and, when it answers 1, *)
(* EXPIRE, as two calls of a goroutine that other goroutines, a failure or *)
(* a crash may come between. A counter is named when the stage begins.     *)
(*                                                                         *)
(* Keys presented are valid ones (module ApiKeys). hits is a history: what *)
(* each INCR that Redis answered led to.                                   *)
(***************************************************************************)
EXTENDS Process, FiniteSets, Bags, Functions

CONSTANTS
    Gates,              \* goroutines serving requests
    Ips, Keys, NoKey,
    Prefix,             \* [Keys -> ...]: the first 8 characters of each key
    IpLimit,            \* RateLimitPerMin
    RatePerMin,         \* [Keys -> Nat]
    QuotaDaily,         \* [Keys -> Nat]
    Minute, Day,        \* in ticks of the clock
    Offset,             \* of the local time zone, in ticks east of UTC
    Patience,           \* ticks a request lasts at most: the Redis client gives
                        \* a call up after seconds
    MaxRequests         \* bound of the model; requests with a key count twice

ASSUME LimitAssumption ==
    /\ NoKey \notin Keys /\ IpLimit \in Nat \ {0} /\ Offset \in 0..(Day - 1)
    /\ RatePerMin \in [Keys -> Nat] /\ QuotaDaily \in [Keys -> Nat]
    /\ Minute \in Nat \ {0} /\ Day \in Nat /\ Minute <= Day
    /\ Patience \in Nat /\ MaxRequests \in Nat

VARIABLES
    counter,    \* Redis: the counters that exist, name |-> [n, exp]
    gate,       \* the stage each goroutine's request is at
    requests,   \* requests so far
    hits, late  \* histories; late: counters whose EXPIRE failed or was delayed,
                \* or of which an INCR took effect without being answered

vars == <<process, counter, gate, requests, hits, late>>

Forever == MaxTime + Day + 1

NoRequest == [at |-> "idle", stage |-> "ip", name |-> <<>>, ip |-> CHOOSE i \in Ips : TRUE,
              key |-> NoKey, since |-> 0, ticks |-> 0]

Init ==
    /\ ProcessInit /\ counter = <<>> /\ requests = 0 /\ hits = EmptyBag /\ late = {}
    /\ gate = [g \in Gates |-> NoRequest]

-----------------------------------------------------------------------------
\* The counters.

LocalDay(t) == (t + Offset) \div Day

\* RateLimitKey, rlKey, quotaKey.
CounterName(stage, ip, key, t) ==
    CASE stage = "ip"    -> <<"ip", ip>>
      [] stage = "rate"  -> <<"rate", Prefix[key], t \div Minute>>
      [] stage = "quota" -> <<"quota", Prefix[key], LocalDay(t)>>

\* A minute from now, or the next midnight of UTC (Truncate).
Deadline(stage, t) == IF stage = "quota" THEN (t \div Day + 1) * Day ELSE t + Minute

Limit(stage, key) ==
    CASE stage = "ip" -> IpLimit [] stage = "rate" -> RatePerMin[key]
      [] stage = "quota" -> QuotaDaily[key]

CountOf(name) == IF name \in DOMAIN counter THEN counter[name].n ELSE 0

Incr(name) ==
    counter' = With(counter, name,
                    [n |-> CountOf(name) + 1,
                     exp |-> IF CountOf(name) = 0 THEN Forever ELSE counter[name].exp])

-----------------------------------------------------------------------------
\* A request.

Finish(g) == gate' = [gate EXCEPT ![g] = NoRequest]
At(stage, ip, key, ticks) ==
    [at |-> "incr", stage |-> stage, name |-> CounterName(stage, ip, key, now),
     ip |-> ip, key |-> key, since |-> 0, ticks |-> ticks]

\* What follows a stage that request r passed. The address's stage leads to the
\* handler or, with an API key, to the key's stages: Arrive has the latter apart.
Pass(g, r) ==
    IF r.stage = "rate" THEN gate' = [gate EXCEPT ![g] = At("quota", r.ip, r.key, r.ticks)]
                        ELSE Finish(g)

\* Mutant: the limit is compared with the count before this request.
AllowedBefore(n, limit) == n - 1 <= limit

Allowed(n, limit) == n <= limit

\* The answer n of an INCR made at time t decides: pass on, or 429.
Decide(g, r, n, t) ==
    LET ok == Allowed(n, Limit(r.stage, r.key)) IN
    /\ hits' = hits (+) SetToBag({[name |-> r.name, key |-> r.key, at |-> t, ok |-> ok]})
    /\ IF ok THEN Pass(g, r) ELSE Finish(g)

\* An INCR took effect, but its reply is lost: the Redis client sends it again,
\* or gives up and reports an error. No EXPIRE follows if this was the first.
Unanswered(g, r) ==
    /\ Fail("lostReply") /\ Incr(r.name)
    /\ gate' = [gate EXCEPT ![g] = r] \/ Pass(g, r)
    /\ late' = late \cup {r.name}
    /\ UNCHANGED hits

\* CheckRateLimit, CheckQuota: an INCR that fails lets the request pass; one
\* that answers 1 is followed by EXPIRE.
Count(g, r) ==
    /\ \/ Fail("redis") /\ Pass(g, r) /\ UNCHANGED <<counter, hits, late>>
       \/ Unanswered(g, r)
       \/ /\ Fine /\ Incr(r.name) /\ UNCHANGED late
          /\ IF CountOf(r.name) = 0
             THEN /\ gate' = [gate EXCEPT ![g] = [r EXCEPT !.at = "expire", !.since = now]]
                  /\ UNCHANGED hits
             ELSE Decide(g, r, CountOf(r.name) + 1, now)
    /\ UNCHANGED <<phase, now>>

\* RateLimitMiddleware: an address's counter has one name for ever, and when the
\* request came is nothing to it.
ArriveIp(g) == \E ip \in Ips : Count(g, At("ip", ip, NoKey, 0))

\* CombinedAuthMiddleware, of a request that the former let through, at any time
\* since: no stage of the one touches a counter of the other.
ArriveKey(g) ==
    /\ \E key \in Keys : gate' = [gate EXCEPT ![g] = At("rate", CHOOSE i \in Ips : TRUE, key, 0)]
    /\ UNCHANGED <<process, counter, hits, late>>

Arrive(g) ==
    /\ gate[g].at = "idle"
    /\ \/ requests' = requests + 1 /\ ArriveIp(g)
       \/ requests' = requests + 2 /\ ArriveKey(g)
    /\ requests' <= MaxRequests

\* The INCR of a key's stage, or one that is sent again.
CountNext(g) == gate[g].at = "incr" /\ Count(g, gate[g]) /\ UNCHANGED requests

\* Mutant: EXPIRE is forgotten.
NeverExpire(g) ==
    LET r == gate[g] IN
    /\ r.at = "expire" /\ Decide(g, r, 1, r.since)
    /\ UNCHANGED <<process, counter, requests, late>>

\* EXPIRE, whose error is ignored; a counter that is gone is left so. One that
\* the Redis client sends again is one that comes late.
Expire(g) ==
    LET r == gate[g]
        lateNow == late' = late \cup {r.name} IN
    /\ r.at = "expire"
    /\ \/ Fail("redis") /\ lateNow /\ UNCHANGED counter
       \/ /\ Fine
          /\ counter' = [counter EXCEPT ![r.name].exp = Deadline(r.stage, now)]
          /\ IF r.since = now THEN UNCHANGED late ELSE lateNow
    /\ Decide(g, r, 1, r.since)
    /\ UNCHANGED <<phase, now, requests>>

\* The process crashes and is started again: Redis keeps the counters.
Crash ==
    /\ \E g \in Gates : gate[g].at # "idle"
    /\ Fail("kill") /\ gate' = [g \in Gates |-> NoRequest]
    /\ late' = late \cup {gate[g].name : g \in {h \in Gates : gate[h].at = "expire"}}
    /\ UNCHANGED <<phase, now, counter, requests, hits>>

\* Redis drops a counter at its deadline.
Wait ==
    /\ Tick /\ \A g \in Gates : gate[g].ticks < Patience
    /\ gate' = [g \in Gates |->
                   IF gate[g].at = "idle" THEN gate[g] ELSE [gate[g] EXCEPT !.ticks = @ + 1]]
    /\ counter' = Restrict(counter, {x \in DOMAIN counter : now + 1 < counter[x].exp})
    /\ UNCHANGED <<requests, hits, late>>

Next == (\E g \in Gates : Arrive(g) \/ CountNext(g) \/ Expire(g)) \/ Crash \/ Wait

Spec == Init /\ [][Next]_vars

\* Mutant: the counter of the UTC day is read.
UsedThisUtcDay(key) == CountOf(<<"quota", Prefix[key], now \div Day>>)

\* used_today of GET /api-keys/:id/usage, when Redis answers.
UsedToday(key) == CountOf(CounterName("quota", "", key, now))

-----------------------------------------------------------------------------
\* Properties.

\* The counter lacks, or for a while lacked, the deadline it should have.
Untimed(name) == name \in late \/ \E g \in Gates : gate[g].at = "expire" /\ gate[g].name = name

\* Every variable has its type; a counter that exists has its deadline ahead, or
\* has none because its EXPIRE is yet to come, failed, or was never sent; it has
\* counted no request twice but for an INCR that was sent again.
TypeOK ==
    /\ ProcessTypeOK
    /\ \A x \in DOMAIN counter :
         /\ counter[x].n \in 1..(MaxRequests + MaxFaults)
         /\ \/ counter[x].exp \in (now + 1)..(now + Day)
            \/ counter[x].exp = Forever /\ Untimed(x)
    /\ \A g \in Gates :
         /\ gate[g].at \in {"idle", "incr", "expire"} /\ gate[g].ticks \in 0..Patience
         /\ gate[g].stage # "ip" => gate[g].key \in Keys
    /\ requests \in 0..MaxRequests /\ IsABag(hits)

Hits(P(_)) == BagCardinality(RestrictDomain(hits, P))

\* However an address times its requests, and whatever fails or crashes, no
\* span of a minute lets 2 * IpLimit of them through that Redis counted: the
\* window is fixed, not sliding (CheckRateLimit).
BurstBound ==
    \A ip \in Ips, t \in 0..now :
        Hits(LAMBDA h : h.name = <<"ip", ip>> /\ h.ok /\ h.at \in t..(t + Minute - 1))
            < 2 * IpLimit

\* The calls of a key that asked, were counted and passed within one period t
\* falls in: a minute of the clock, or a local day.
Passed(stage, key, Period(_), t) ==
    Hits(LAMBDA h : /\ h.name = CounterName(stage, "", key, t)
                    /\ h.key = key /\ h.ok /\ Period(h.at) = Period(t))

\* No key has more than RatePerMin calls counted and passed within a minute of
\* the clock (CheckRateLimit of the API keys).
MinuteBound ==
    \A key \in Keys, t \in 0..now :
        Passed("rate", key, LAMBDA x : x \div Minute, t) <= RatePerMin[key]

\* No key has more than its quota of calls counted and passed within a local day
\* when local time is UTC; elsewhere the counter is reset once within the day, at
\* UTC's midnight, and the bound holds before and after it (CheckQuota).
QuotaBound ==
    \A key \in Keys, t \in 0..now :
        Passed("quota", key, LAMBDA x : <<LocalDay(x), x \div Day>>, t) <= QuotaDaily[key]

\* An address is refused only for more than IpLimit requests within the last
\* minute, unless the EXPIRE of its counter failed or was late, or one of its
\* INCRs took effect without an answer: then a request may count twice, and the
\* address may be refused for ever (CheckRateLimit).
RefusedForCause ==
    \A r \in DOMAIN hits :
        r.name[1] = "ip" /\ ~r.ok /\ ~Untimed(r.name) =>
            Hits(LAMBDA h : h.name = r.name /\ h.at <= r.at /\ r.at < h.at + Minute) > IpLimit

\* The usage a key's owner is shown is no less than what the key, and others
\* with its prefix, used since UTC's midnight or the local one, whichever is
\* later (GetUsage).
UsageTruthful ==
    \A key \in Keys :
        UsedToday(key) >=
            Hits(LAMBDA h : /\ h.name = CounterName("quota", "", key, now)
                            /\ h.ok /\ h.at \div Day = now \div Day)
=============================================================================
