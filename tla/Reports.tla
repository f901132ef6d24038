------------------------------ MODULE Reports ------------------------------
(***************************************************************************)
(* What the analytics and admin pages compute: functions of access_logs, a *)
(* set R of rows, and how a user agent is read into the columns they group *)
(* by. A user agent is the set of the words in it that the code looks for. *)
(* The column '' that a report leaves out is None. LIMIT, larger than the  *)
(* number of values here, and the order of the rows are left out.          *)
(***************************************************************************)
EXTENDS Integers, FiniteSetsExt, Functions

CONSTANTS
    None,
    BotWords,           \* those of botPatterns
    Zones,              \* the time zones PostgreSQL knows, as ticks east of UTC
    Second, Hour, Day   \* in ticks

ASSUME ReportAssumption ==
    /\ Second \in Nat \ {0} /\ Hour \in Nat \ {0} /\ Day \in Nat
    /\ Second <= Hour /\ Hour <= Day
    /\ None \notin Nat
    /\ None \notin {"bot", "mobile", "tablet", "desktop"}
    /\ None \notin {"Firefox", "Edge", "Chrome", "Safari", "Opera", "Other"}

-----------------------------------------------------------------------------
\* EnrichAccessLog.

DetectBot(ua) == ua \cap BotWords # {}

\* A switch: the first of its cases one of whose words is in ua.
FirstOf(ua, cases, default) ==
    LET at == {i \in DOMAIN cases : cases[i][1] \cap ua # {}} IN
    IF at = {} THEN default ELSE cases[Min(at)][2]

\* parseUserAgent: an Android is a phone unless it calls itself a tablet; the
\* second conditions on Chrome and Safari follow from the order.
DeviceOf(ua) ==
    IF "ipad" \notin ua /\ "android" \in ua /\ "tablet" \notin ua THEN "mobile"
    ELSE FirstOf(ua, <<<<{"ipad"}, "tablet">>, <<{"mobile"}, "mobile">>, <<{"tablet"}, "tablet">>>>,
                 "desktop")

BrowserOf(ua) ==
    FirstOf(ua, <<<<{"firefox"}, "Firefox">>, <<{"edg"}, "Edge">>, <<{"chrome"}, "Chrome">>,
                  <<{"safari"}, "Safari">>, <<{"opera", "opr"}, "Opera">>>>, "Other")

\* Mutant: the device of a bot stays what its user agent pretends.
DeviceAsTold(ua) == DeviceOf(ua)

EnrichedDevice(ua) == IF DetectBot(ua) THEN "bot" ELSE DeviceOf(ua)

-----------------------------------------------------------------------------
\* AccessLogRepo. A filter is [excludeBot, uniqueOnly].

NoFilter == [excludeBot |-> FALSE, uniqueOnly |-> FALSE]

\* filterWhere
Where(R, f) == {r \in R : ~(f.excludeBot /\ r.bot) /\ (f.uniqueOnly => r.unique)}

Between(R, from, to) == {r \in R : from <= r.at /\ r.at <= to}

OfLink(R, l, from, to, f) == {r \in Between(Where(R, f), from, to) : r.link = l}

\* GROUP BY Key, without the rows where the column is ''.
CountBy(S, Key(_)) ==
    [x \in {Key(r) : r \in S} \ {None} |-> Cardinality({r \in S : Key(r) = x})]

\* ORDER BY count DESC LIMIT 1: one of the most frequent values.
Tops(g) ==
    IF DOMAIN g = {} THEN {None}
    ELSE {x \in DOMAIN g : (\A y \in DOMAIN g : g[y] <= g[x])}

Unique(S) == {r \in S : r.unique}

Summary(R, l, from, to, f) ==
    LET S == OfLink(R, l, from, to, f) IN
    [total |-> Cardinality(S), unique |-> Cardinality(Unique(S)),
     human |-> Cardinality({r \in S : ~r.bot}),
     topCountry |-> Tops(CountBy(S, LAMBDA r : r.country)),
     topReferer |-> Tops(CountBy(S, LAMBDA r : r.referer))]

\* sanitizeTimezone
OffsetOf(tz) == IF tz \in DOMAIN Zones THEN Zones[tz] ELSE 0

Width(granularity) ==
    CASE granularity = "hour" -> Hour [] granularity = "week" -> 7 * Day [] OTHER -> Day

Points(S, offset, granularity) ==
    LET bucket(r) == (r.at + offset) \div Width(granularity) IN
    [b \in {bucket(r) : r \in S} |->
        LET B == {r \in S : bucket(r) = b} IN
        [clicks |-> Cardinality(B), unique |-> Cardinality(Unique(B))]]

Timeseries(R, l, from, to, granularity, tz, f) ==
    Points(OfLink(R, l, from, to, f), OffsetOf(tz), granularity)

GlobalTimeseries(R, from, to, granularity) ==
    Points(Between(R, from, to), 0, IF granularity = "hour" THEN "hour" ELSE "day")

RefererBreakdown(R, l, from, to, f) == CountBy(OfLink(R, l, from, to, f), LAMBDA r : r.referer)
DeviceBreakdown(R, l, from, to, f)  == CountBy(OfLink(R, l, from, to, f), LAMBDA r : r.device)
BrowserBreakdown(R, l, from, to, f) == CountBy(OfLink(R, l, from, to, f), LAMBDA r : r.browser)
GeoBreakdown(R, l, from, to, f) ==
    CountBy(OfLink(R, l, from, to, f),
            LAMBDA r : IF r.country = None THEN None ELSE <<r.country, r.city>>)

CountSince(R, t) == Cardinality({r \in R : r.at >= t})

-----------------------------------------------------------------------------
\* The handlers' parameters.

\* Mutant: a day given as `to' reaches to the next midnight and includes it.
DayEndInclusive(d) == (d + 1) * Day

\* t.Add(24*time.Hour - time.Second)
DayEnd(d) == (d + 1) * Day - Second

\* parseTimeRange with `from' and `to' as dates, or absent.
RangeFrom(d, now) == IF d = None THEN now - 7 * Day ELSE d * Day
RangeTo(d, now) == IF d = None THEN now ELSE DayEnd(d)

Total(g) == FoldFunctionOnSet(+, 0, g, DOMAIN g)
TotalOf(points) == Total([b \in DOMAIN points |-> points[b].clicks])
=============================================================================
