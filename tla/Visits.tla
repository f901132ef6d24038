------------------------------- MODULE Visits -------------------------------
(***************************************************************************)
(* What a visit leaves behind: the click counter of its link, written by a *)
(* goroutine nobody waits for; the de-duplication entry and the realtime   *)
(* bucket in Redis, written by log workers; the access_logs row; and the   *)
(* reports computed from them.                                             *)
(*                                                                         *)
(* How entries travel to a worker, and the fallback file, are in module    *)
(* AccessLog: a worker here takes a batch in one step. A visit is named by *)
(* its number in the history visits.                                       *)
(***************************************************************************)
EXTENDS Process, Sequences, Reports

CONSTANTS
    Links,
    Visitors,       \* set of [ip, ua, referer, country, city]
    Loggers,        \* log workers
    ChanCap,        \* capacity of logChan
    BatchMax,       \* entries of one flush
    MaxTries,       \* maxRetries + 1: attempts to write a batch
    Window,         \* DedupWindowSec, in ticks
    Minute, Keep,   \* ticks of a minute, and of a realtime bucket's life
    MaxVisits, MaxEdits     \* bounds of the model

ASSUME VisitAssumption ==
    /\ ChanCap \in Nat \ {0} /\ BatchMax \in Nat \ {0} /\ MaxTries \in Nat \ {0}
    /\ Window \in Nat \ {0} /\ Minute \in Nat \ {0} /\ Keep \in Nat \ {0}
    /\ MaxVisits \in Nat /\ MaxEdits \in Nat
    /\ IsFiniteSet(Links) /\ \A v \in Visitors : <<v.country, v.city>> # None

VARIABLES
    visits,     \* history: [link, who, at]
    fresh,      \* entries in logChan
    counting,   \* visits whose goroutine IncrClick has yet to run
    clicks,     \* click_count of each link
    edit,       \* the update of a link in progress
    dedup,      \* Redis: <<link, ip>> |-> deadline (0: none)
    bucket,     \* Redis: <<link, minute>> |-> [n, exp]
    worker,
    rows,       \* access_logs
    judged,     \* history: visit |-> [first, at], the verdict of CheckDedup
    realtime,   \* history: the judged visits whose INCR Redis answered
    missed,     \* history: visits that no write is known to have stored
    drifted     \* history: links whose click_count lost a click

redis == <<dedup, bucket>>
history == <<judged, realtime, missed, drifted>>
vars == <<process, visits, fresh, counting, clicks, edit, redis, worker, rows, history>>

NoEdit == [link |-> CHOOSE l \in Links : TRUE, seen |-> 0, on |-> FALSE, count |-> 0]
Idle == [at |-> "idle", todo |-> {}, done |-> {}, tries |-> 0]
Ips == {v.ip : v \in Visitors}

Init ==
    /\ ProcessInit /\ visits = <<>> /\ fresh = {} /\ counting = {} /\ rows = {}
    /\ clicks = [l \in Links |-> 0] /\ edit = NoEdit
    /\ dedup = [k \in Links \X Ips |-> 0] /\ bucket = <<>>
    /\ worker = [w \in Loggers |-> Idle]
    /\ judged = <<>> /\ realtime = {} /\ missed = {} /\ drifted = {}

-----------------------------------------------------------------------------
\* Redirect, and the click counter.

\* Mutant: the channel takes what it has no room for.
QueueAnyway(n) == fresh' = fresh \cup {n} /\ UNCHANGED missed

\* RecordAccess: a full channel drops the entry.
Queue(n) ==
    IF Cardinality(fresh) < ChanCap
    THEN fresh' = fresh \cup {n} /\ UNCHANGED missed
    ELSE missed' = missed \cup {n} /\ UNCHANGED fresh

Redirect(l, v) ==
    /\ Len(visits) < MaxVisits
    /\ visits' = Append(visits, [link |-> l, who |-> v, at |-> now])
    /\ counting' = counting \cup {Len(visits')}
    /\ Queue(Len(visits'))
    /\ UNCHANGED <<process, clicks, edit, redis, worker, rows, judged, realtime, drifted>>

IncrClick(n) ==
    LET l == visits[n].link IN
    /\ n \in counting /\ counting' = counting \ {n}
    /\ \/ Fine /\ clicks' = [clicks EXCEPT ![l] = @ + 1] /\ UNCHANGED drifted
       \/ Fail("db") /\ drifted' = drifted \cup {l} /\ UNCHANGED clicks
    /\ UNCHANGED <<phase, now, visits, fresh, edit, redis, worker, rows, judged, realtime, missed>>

\* Update reads the row ...
EditFind(l) ==
    /\ ~edit.on /\ edit.count < MaxEdits
    /\ edit' = [link |-> l, seen |-> clicks[l], on |-> TRUE, count |-> edit.count + 1]
    /\ UNCHANGED <<process, visits, fresh, counting, clicks, redis, worker, rows, history>>

\* Mutant: the row is saved without the count that was read.
SaveBlank ==
    /\ edit.on /\ edit' = [edit EXCEPT !.on = FALSE]
    /\ clicks' = [clicks EXCEPT ![edit.link] = 0] /\ UNCHANGED drifted
    /\ UNCHANGED <<process, visits, fresh, counting, redis, worker, rows, judged, realtime, missed>>

\* ... and saves every column of it, click_count as it was read.
EditSave ==
    /\ edit.on /\ edit' = [edit EXCEPT !.on = FALSE]
    /\ \/ /\ Fine /\ clicks' = [clicks EXCEPT ![edit.link] = edit.seen]
          /\ drifted' = IF clicks[edit.link] = edit.seen THEN drifted
                        ELSE drifted \cup {edit.link}
       \/ Fail("db") /\ UNCHANGED <<clicks, drifted>>
    /\ UNCHANGED <<phase, now, visits, fresh, counting, redis, worker, rows, judged, realtime, missed>>

-----------------------------------------------------------------------------
\* A log worker's flush.

Take(w) ==
    /\ worker[w].at = "idle"
    /\ \E S \in SUBSET fresh :
         /\ S # {} /\ Cardinality(S) <= BatchMax
         /\ \A n \in S, m \in fresh \ S : n < m
         /\ fresh' = fresh \ S
         /\ worker' = [worker EXCEPT ![w] = [Idle EXCEPT !.at = "get", !.todo = S]]
    /\ UNCHANGED <<process, visits, counting, clicks, edit, redis, rows, history>>

\* Mutant: an entry of the link's dedup keys is enough.
SeenAtAll(n) == \E ip \in Ips : now < dedup[<<visits[n].link, ip>>]

\* GET of dedupKey finds an entry.
Seen(n) == now < dedup[<<visits[n].link, visits[n].who.ip>>]

LiveBucket(b) == b \in DOMAIN bucket /\ now < bucket[b].exp
Forever == MaxTime + Keep

\* Mutant: a bucket is given the life of a minute.
BucketLifeMinute == Minute

BucketLife == Keep

\* RecordRealtime: INCR and EXPIRE, either of which may fail unnoticed; that they
\* do is a fault of the caller's.
RecordRealtime(n, incr, expire) ==
    LET b == <<visits[n].link, now \div Minute>>
        old == IF LiveBucket(b) THEN bucket[b] ELSE [n |-> 0, exp |-> Forever]
        new == [n |-> IF incr THEN old.n + 1 ELSE old.n,
                exp |-> IF expire THEN now + BucketLife ELSE old.exp] IN
    /\ bucket' = IF new.n = 0 THEN bucket ELSE With(bucket, b, new)
    /\ realtime' = IF incr THEN realtime \cup {n} ELSE realtime

\* Redis answers all calls for an entry, or none from some call on.
Outage(set, incr, expire) ==
    /\ (expire => incr) /\ (incr => set)
    /\ IF expire THEN Fine ELSE Fail("redis")

\* The entry at hand is judged and counted, and the worker goes on to the next.
\* Nobody sees whether it waits between the two.
Judge(w, n, first, incr, expire) ==
    LET todo == worker[w].todo \ {n} IN
    /\ judged' = With(judged, n, [first |-> first, at |-> now])
    /\ RecordRealtime(n, incr, expire)
    /\ worker' = [worker EXCEPT ![w] =
           [at |-> IF todo = {} THEN "write" ELSE "get", todo |-> todo,
            done |-> @.done \cup {n}, tries |-> 0]]

\* The channel and the batch are in the order of the visits.
Entry(w) == Min(worker[w].todo)

\* CheckDedup reads; an error counts as `not seen' ...
DedupGet(w) ==
    /\ worker[w].at = "get"
    /\ LET n == Entry(w) IN
       \/ \E incr, expire \in BOOLEAN :
            /\ Seen(n) /\ Judge(w, n, FALSE, incr, expire) /\ Outage(TRUE, incr, expire)
       \/ /\ IF Seen(n) THEN Fail("redis") ELSE Fine
          /\ worker' = [worker EXCEPT ![w].at = "set"]
          /\ UNCHANGED <<bucket, judged, realtime>>
    /\ UNCHANGED <<phase, now, visits, fresh, counting, clicks, edit, dedup, rows, missed, drifted>>

\* ... and then writes.
DedupSet(w) ==
    LET n == Entry(w) IN
    /\ worker[w].at = "set"
    /\ \E set, incr, expire \in BOOLEAN :
         /\ Judge(w, n, TRUE, incr, expire)
         /\ dedup' = IF set THEN [dedup EXCEPT ![<<visits[n].link, visits[n].who.ip>>] = now + Window]
                    ELSE dedup
         /\ Outage(set, incr, expire)
    /\ UNCHANGED <<phase, now, visits, fresh, counting, clicks, edit, rows, missed, drifted>>

\* The row of visit n, and which of them: 0 that of the write known to have
\* stored it, k that of its kth attempt, which did so and was taken to have
\* failed (a distinction of the model, no column). is_unique has a default of
\* true in the table's model, so gorm's INSERT replaces a FALSE, the zero value,
\* by TRUE.
RowOf(n, k) ==
    LET v == visits[n].who IN
    [visit |-> n, copy |-> k, link |-> visits[n].link, at |-> visits[n].at, unique |-> TRUE,
     bot |-> DetectBot(v.ua), device |-> EnrichedDevice(v.ua), browser |-> BrowserOf(v.ua),
     referer |-> v.referer, country |-> v.country, city |-> v.city]

\* BatchCreate, a transaction.
Store(w, k) == rows' = rows \cup {RowOf(n, k) : n \in worker[w].done}

\* An attempt is taken to have failed. The next one follows, or the outage lasts
\* until none is left.
NextTry(w) ==
    \/ /\ worker[w].tries + 1 < MaxTries
       /\ worker' = [worker EXCEPT ![w].tries = @ + 1] /\ UNCHANGED missed
    \/ worker' = [worker EXCEPT ![w] = Idle] /\ missed' = missed \cup worker[w].done

\* An attempt of writeBatchWithRetry. One that commits and whose reply is lost is
\* made again all the same.
Write(w) ==
    /\ worker[w].at = "write"
    /\ \/ /\ Fine /\ Store(w, 0)
          /\ worker' = [worker EXCEPT ![w] = Idle] /\ UNCHANGED missed
       \/ Fail("db") /\ UNCHANGED rows /\ NextTry(w)
       \/ Fail("lostReply") /\ Store(w, worker[w].tries + 1) /\ NextTry(w)
    /\ UNCHANGED <<phase, now, visits, fresh, counting, clicks, edit, redis, judged, realtime, drifted>>

InWorkers == UNION {worker[w].todo \cup worker[w].done : w \in Loggers}

\* A crash, and a restart: what was in memory is gone.
Crash ==
    /\ Fail("kill")
    /\ missed' = missed \cup fresh \cup InWorkers
    /\ drifted' = drifted \cup {visits[n].link : n \in counting}
    /\ fresh' = {} /\ counting' = {} /\ worker' = [w \in Loggers |-> Idle]
    /\ edit' = [edit EXCEPT !.on = FALSE]
    /\ UNCHANGED <<phase, now, visits, clicks, redis, rows, judged, realtime>>

Wait == Tick /\ UNCHANGED <<visits, fresh, counting, clicks, edit, redis, worker, rows, history>>

LogStep(w) == Take(w) \/ DedupGet(w) \/ DedupSet(w) \/ Write(w)

Next ==
    \/ \E l \in Links : EditFind(l) \/ \E v \in Visitors : Redirect(l, v)
    \/ \E n \in counting : IncrClick(n)
    \/ \E w \in Loggers : LogStep(w)
    \/ EditSave \/ Crash \/ Wait

Spec == Init /\ [][Next]_vars

-----------------------------------------------------------------------------
\* What the pages say.

\* GetRealtime, of a request for the last m minutes.
GetRealtime(l, m) ==
    Total([i \in 0..(m - 1) |->
        LET b == <<l, now \div Minute - i>> IN IF LiveBucket(b) THEN bucket[b].n ELSE 0])

-----------------------------------------------------------------------------
\* Properties.

\* Every variable has its type; the channel holds no more than its capacity.
TypeOK ==
    /\ ProcessTypeOK
    /\ \A n \in DOMAIN visits : visits[n].link \in Links /\ visits[n].who \in Visitors
    /\ fresh \subseteq DOMAIN visits /\ Cardinality(fresh) <= ChanCap
    /\ counting \subseteq DOMAIN visits /\ clicks \in [Links -> 0..MaxVisits]
    /\ \A w \in Loggers :
         /\ worker[w].at \in {"idle", "get", "set", "write"}
         /\ worker[w].todo \cup worker[w].done \subseteq DOMAIN visits
         /\ worker[w].tries \in 0..(MaxTries - 1)
    /\ missed \subseteq DOMAIN visits /\ drifted \subseteq Links

OfThis(l) == {n \in DOMAIN visits : visits[n].link = l}

\* click_count is the number of redirects whose goroutine has run, unless the
\* database refused one, a crash took one, or an update of the link saved the
\* count it had read before one (IncrClick, Update): nothing else moves it. Those
\* only ever lose clicks, however updates and goroutines cross.
ClicksExact ==
    \A l \in Links :
        LET ran == Cardinality(OfThis(l)) - Cardinality(OfThis(l) \cap counting) IN
        IF l \in drifted THEN clicks[l] <= ran ELSE clicks[l] = ran

\* A visit is judged a repeat only if another one to the same link, from the same
\* address, was judged the first less than a window ago (CheckDedup), although
\* several workers read and write the entries one after the other.
RepeatsHaveFirst ==
    \A n \in DOMAIN judged : ~judged[n].first =>
        \E m \in DOMAIN judged :
            /\ judged[m].first /\ visits[m].link = visits[n].link
            /\ visits[m].who.ip = visits[n].who.ip
            /\ judged[m].at <= judged[n].at /\ judged[n].at < judged[m].at + Window

\* The realtime page shows every visit that reached a bucket in the minutes asked
\* for, and no other, as far back as buckets live; beyond that it shows no more
\* than there were (RecordRealtime, GetRealtime).
RealtimeExact ==
    \A l \in Links, m \in 1..(MaxTime \div Minute + 1) :
        LET counted == Cardinality({n \in realtime :
                           visits[n].link = l /\ judged[n].at \div Minute > now \div Minute - m}) IN
        IF m * Minute <= Keep THEN GetRealtime(l, m) = counted ELSE GetRealtime(l, m) <= counted

Filters == [excludeBot : BOOLEAN, uniqueOnly : BOOLEAN]
Dates == 0..(MaxTime \div Day) \cup {None}

\* One range's reports on one link add up to its summary, bots being the device
\* "bot".
AddUp(l, from, to, f) ==
    LET s == Summary(rows, l, from, to, f)
        devices == DeviceBreakdown(rows, l, from, to, f) IN
    /\ \A g \in {"hour", "day", "week"}, tz \in DOMAIN Zones :
         TotalOf(Timeseries(rows, l, from, to, g, tz, f)) = s.total
    /\ Total(devices) = s.total /\ Total(BrowserBreakdown(rows, l, from, to, f)) = s.total
    /\ s.total - s.human = (IF "bot" \in DOMAIN devices THEN devices["bot"] ELSE 0)
    /\ Total(RefererBreakdown(rows, l, from, to, f)) <= s.total
    /\ (s.topCountry = {None}) = (DOMAIN GeoBreakdown(rows, l, from, to, f) = {})

\* Ranges given as dates never count a visit twice, and leave out only those of
\* a day's last second, its beginning excluded.
DatesApart ==
    \A r \in rows :
        LET days == {d \in Dates \ {None} :
                        r \in OfLink(rows, r.link, RangeFrom(d, now), RangeTo(d, now), NoFilter)} IN
        \/ days = {r.at \div Day}
        \/ days = {} /\ r.at % Day > Day - Second

\* Rows of writes that were taken to have failed.
Doubted == {r \in rows : r.copy # 0}

\* The pages agree with one another and with what happened: the reports of a
\* link add up, whatever range and filter; the global traffic, the overview's total
\* and the links' summaries are one number; and it is that of the visits neither
\* under way nor missed, plus the rows of the writes whose reply was lost, which
\* nothing takes back (writeBatchWithRetry). Reports depend on rows alone, no row
\* being later than now, and are looked at when all visits have come and nothing
\* is under way.
ReportsReconcile ==
    LET all == CountSince(rows, 0) IN
    /\ all = Len(visits) - Cardinality(fresh \cup InWorkers \cup missed) + Cardinality(Doubted)
    /\ now = MaxTime /\ Len(visits) = MaxVisits /\ fresh \cup InWorkers = {} =>
         /\ \A l \in {r.link : r \in rows}, d \in Dates, f \in Filters :
              AddUp(l, RangeFrom(d, now), RangeTo(d, now), f)
         /\ DatesApart
         /\ all = TotalOf(GlobalTimeseries(rows, 0, now, "day"))
         /\ all = Total([l \in Links |-> Summary(rows, l, 0, now, NoFilter).total])

\* What the documentation says, and the code does not: `unique' visitors are
\* those whose visit was not a repeat within the window (`if true, only include
\* is_unique=true entries', model/dto.go:148; CheckDedup). The column is TRUE in
\* every row, and the summary's two figures are one.
UniqueAreFirsts ==
    \A l \in Links :
        Summary(rows, l, 0, now, NoFilter).unique =
            Cardinality({r \in rows : r.link = l /\ judged[r.visit].first})
=============================================================================
