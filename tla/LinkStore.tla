------------------------------ MODULE LinkStore ------------------------------
(***************************************************************************)
(* Concurrent requests against the short_links table and the Redis cache   *)
(* in front of it (LinkService over LinkRepo and RedisCache).              *)
(*                                                                         *)
(* One step is one call to PostgreSQL or Redis together with the Go code   *)
(* up to the next such call; between two steps any other request may run.  *)
(* A process p stands for a goroutine serving one request at a time; pc[p] *)
(* names the call it makes next, held[p] is the ShortLink struct in its    *)
(* hands and visit[p] what a visitor asked for, with the url the cache     *)
(* gave. Input validation (validateURL, bindings) is done: every request   *)
(* here carries valid data.                                                *)
(***************************************************************************)
EXTENDS LinkTypes, FiniteSets

CONSTANTS
    Procs,
    NoCode, NoRow, NoEntry, Forever,
    DayTTL,     \* the 24h lifetime of a cache entry, in clock ticks
    Faults,     \* the remote systems that may fail: subset of {"db", "redis", "server"}
    MaxLinks,   \* bound: links ever inserted
    MaxTime     \* bound: last instant of the clock

ASSUME StoreAssumption ==
    /\ NoCode \notin Codes
    /\ NoRow \notin Row
    /\ Forever \notin Nat
    /\ NoEntry \notin [url : Urls, until : Nat \cup {Forever}]
    /\ DayTTL \in Nat \ {0}
    /\ Faults \subseteq {"db", "redis", "server"}

VARIABLES
    links,      \* the rows of short_links
    nextId,     \* the sequence behind its primary key
    cache,      \* Redis: code |-> entry
    now,        \* the clock of server and Redis
    pc, held, visit, reply,
    issued,     \* history: the key of every row ever inserted
    met         \* history: the id the code had when the visit arrived, or 0

db == <<links, nextId, issued>>
request == <<pc, held, visit, reply, met>>
vars == <<links, nextId, cache, now, pc, held, visit, reply, issued, met>>

Entry == [url : Urls, until : Nat \cup {Forever}]
NoVisit == [code |-> NoCode, url |-> NoUrl]

Init ==
    /\ links = {} /\ nextId = 1 /\ issued = {}
    /\ cache = [c \in Codes |-> NoEntry]
    /\ now = 0
    /\ pc = [p \in Procs |-> "idle"]
    /\ held = [p \in Procs |-> NoRow]
    /\ visit = [p \in Procs |-> NoVisit]
    /\ reply = [p \in Procs |-> Silent]
    /\ met = [p \in Procs |-> 0]

-----------------------------------------------------------------------------
\* Control of a request.

\* The first call of a request: p goes on to `label` with struct l, or is done.
Begin(p, label, l) ==
    /\ pc[p] = "idle"
    /\ pc' = [pc EXCEPT ![p] = label]
    /\ held' = [held EXCEPT ![p] = l]
    /\ reply' = [reply EXCEPT ![p] = Silent]
    /\ met' = [met EXCEPT ![p] = 0]
    /\ UNCHANGED visit

Refuse(p) ==
    /\ pc[p] = "idle"
    /\ reply' = [reply EXCEPT ![p] = Say("failed")]
    /\ met' = [met EXCEPT ![p] = 0]
    /\ UNCHANGED <<pc, held, visit>>

Goto(p, label) ==
    /\ pc' = [pc EXCEPT ![p] = label]
    /\ UNCHANGED <<held, visit, reply, met>>

Finish(p, r) ==
    /\ pc' = [pc EXCEPT ![p] = "idle"]
    /\ held' = [held EXCEPT ![p] = NoRow]
    /\ visit' = [visit EXCEPT ![p] = NoVisit]
    /\ reply' = [reply EXCEPT ![p] = r]
    /\ UNCHANGED met

-----------------------------------------------------------------------------
\* The cache.

\* ttl := 24h, or time.Until(*ExpiresAt). Redis keeps an entry whose ttl is not
\* positive for ever: SET without PX.
Deadline(l) ==
    IF l.expires = Never THEN now + DayTTL
    ELSE IF l.expires > now THEN l.expires ELSE Forever

CacheFault == "redis" \in Faults /\ UNCHANGED cache

CacheSet(l) ==
    \/ cache' = [cache EXCEPT ![l.code] = [url |-> l.url, until |-> Deadline(l)]]
    \/ CacheFault

CacheDel(c) ==
    \/ cache' = [cache EXCEPT ![c] = NoEntry]
    \/ CacheFault

-----------------------------------------------------------------------------
\* The table.

At(c) == {l \in links : l.code = c}
WithId(i) == {l \in links : l.id = i}

IdAt(c) == IF At(c) = {} THEN 0 ELSE (CHOOSE l \in At(c) : TRUE).id

NewLinks ==
    [id : {0}, user : Users, code : Codes, url : Urls,
     status : {"active"}, expires : Expiries \cup {Never}]

-----------------------------------------------------------------------------
\* Create, CreateWithBatchID: check the code, insert, fill the cache.

\* Mutant: the cache is filled before the row is known to exist.
CreateCheckFillsFirst(p) ==
    /\ nextId + Cardinality({q \in Procs : pc[q] = "insert"}) <= MaxLinks
    /\ \E l \in NewLinks :
        /\ At(l.code) = {} /\ Begin(p, "insert", l)
        /\ CacheSet(l)
    /\ UNCHANGED <<db, now>>

\* ShortCodeExists for a custom code, or the last draw of generateUniqueCode:
\* earlier draws only read. A taken custom code is refused, and so are ten
\* draws that are all taken.
CreateCheck(p) ==
    /\ nextId + Cardinality({q \in Procs : pc[q] = "insert"}) <= MaxLinks
    /\ \E l \in NewLinks :
        \/ At(l.code) = {} /\ Begin(p, "insert", l)
        \/ At(l.code) # {} /\ Refuse(p)
    /\ UNCHANGED <<db, cache, now>>

\* Mutant: no unique index, so that only the check guards the code.
CreateInsertUnindexed(p) ==
    /\ pc[p] = "insert"
    /\ LET l == [held[p] EXCEPT !.id = nextId] IN
        /\ links' = links \cup {l}
        /\ issued' = issued \cup {KeyOf(l)}
        /\ nextId' = nextId + 1
        /\ held' = [held EXCEPT ![p] = l]
    /\ pc' = [pc EXCEPT ![p] = "fill"]
    /\ UNCHANGED <<visit, reply, met, cache, now>>

\* The INSERT, under the unique index on short_code.
CreateInsert(p) ==
    /\ pc[p] = "insert"
    /\ LET l == [held[p] EXCEPT !.id = nextId] IN
        IF At(l.code) = {}
        THEN /\ links' = links \cup {l}
             /\ issued' = issued \cup {KeyOf(l)}
             /\ nextId' = nextId + 1
             /\ held' = [held EXCEPT ![p] = l]
             /\ pc' = [pc EXCEPT ![p] = "fill"]
             /\ UNCHANGED <<visit, reply, met>>
        ELSE Finish(p, Say("failed")) /\ UNCHANGED db
    /\ UNCHANGED <<cache, now>>

CreateFill(p) ==
    /\ pc[p] = "fill"
    /\ CacheSet(held[p])
    /\ Finish(p, Say("ok"))
    /\ UNCHANGED <<db, now>>

-----------------------------------------------------------------------------
\* Resolve: cache first, then the table, which decides; on a miss the cache is
\* filled from the row that was read.

VisitGet(p) ==
    /\ pc[p] = "idle"
    /\ \E c \in Codes :
        /\ met' = [met EXCEPT ![p] = IdAt(c)]
        /\ \/ /\ cache[c] # NoEntry
              /\ visit' = [visit EXCEPT ![p] = [code |-> c, url |-> cache[c].url]]
              /\ pc' = [pc EXCEPT ![p] = "hit"]
           \/ /\ cache[c] = NoEntry \/ "redis" \in Faults
              /\ visit' = [visit EXCEPT ![p] = [code |-> c, url |-> NoUrl]]
              /\ pc' = [pc EXCEPT ![p] = "miss"]
    /\ reply' = [reply EXCEPT ![p] = Silent]
    /\ UNCHANGED <<db, cache, now, held>>

\* Mutant: a live row is enough, its status and expiry are not looked at again.
VisitHitTrustsCache(p) ==
    /\ pc[p] = "hit"
    /\ \/ /\ At(visit[p].code) = {} \/ "db" \in Faults
          /\ Finish(p, Redirect(visit[p].url, 0))
       \/ \E l \in At(visit[p].code) : Finish(p, Redirect(visit[p].url, l.id))
    /\ UNCHANGED <<db, cache, now>>

\* After a hit: without a row (or when the read fails) the cached url is served
\* as it is; with one, the row decides and the cached url is served.
VisitHit(p) ==
    /\ pc[p] = "hit"
    /\ \/ /\ At(visit[p].code) = {} \/ "db" \in Faults
          /\ Finish(p, Redirect(visit[p].url, 0))
       \/ \E l \in At(visit[p].code) :
          \/ l.status # "active" /\ Finish(p, Say("inactive"))
          \/ l.status = "active" /\ Lapsed(l, now) /\ Goto(p, "drop")
          \/ Servable(l, now) /\ Finish(p, Redirect(visit[p].url, l.id))
    /\ UNCHANGED <<db, cache, now>>

\* The cached entry of an expired link is deleted before the visitor hears.
VisitDrop(p) ==
    /\ pc[p] = "drop"
    /\ CacheDel(visit[p].code)
    /\ Finish(p, Say("expired"))
    /\ UNCHANGED <<db, now>>

\* Mutant: the not-found return is missing and the nil row is used.
VisitMissUnguarded(p) ==
    /\ pc[p] = "miss"
    /\ \/ At(visit[p].code) = {} /\ Goto(p, "warm")
       \/ \E l \in At(visit[p].code) :
          \/ l.status # "active" /\ Finish(p, Say("inactive"))
          \/ l.status = "active" /\ Lapsed(l, now) /\ Finish(p, Say("expired"))
          \/ /\ Servable(l, now)
             /\ pc' = [pc EXCEPT ![p] = "warm"]
             /\ held' = [held EXCEPT ![p] = l]
             /\ UNCHANGED <<visit, reply, met>>
    /\ UNCHANGED <<db, cache, now>>

VisitMiss(p) ==
    /\ pc[p] = "miss"
    /\ \/ At(visit[p].code) = {} /\ Finish(p, Say("notFound"))
       \/ \E l \in At(visit[p].code) :
          \/ l.status # "active" /\ Finish(p, Say("inactive"))
          \/ l.status = "active" /\ Lapsed(l, now) /\ Finish(p, Say("expired"))
          \/ /\ Servable(l, now)
             /\ pc' = [pc EXCEPT ![p] = "warm"]
             /\ held' = [held EXCEPT ![p] = l]
             /\ UNCHANGED <<visit, reply, met>>
    /\ UNCHANGED <<db, cache, now>>

VisitWarm(p) ==
    /\ pc[p] = "warm"
    /\ CacheSet(held[p])
    /\ Finish(p, Redirect(held[p].url, held[p].id))
    /\ UNCHANGED <<db, now>>

-----------------------------------------------------------------------------
\* Update: read the row, change the struct, Save all its columns, then drop the
\* cache entry.

\* The struct after the request's changes; a field not named is kept.
Changed(l) ==
    [id : {l.id}, user : {l.user}, code : {l.code}, url : {l.url},
     status : Statuses, expires : Expiries \cup {l.expires}]

UpdateFind(p) ==
    /\ \E u \in Users, i \in 1..MaxLinks :
        \/ /\ WithId(i) = {} \/ \E l \in WithId(i) : l.user # u
           /\ Refuse(p)
        \/ \E l \in WithId(i) :
           /\ l.user = u
           /\ \E m \in Changed(l) : Begin(p, "save", m)
    /\ UNCHANGED <<db, cache, now>>

\* db.Save is an UPDATE by primary key; when it affects no row it goes on to an
\* INSERT ... ON CONFLICT (id) DO UPDATE of the same struct.
UpdateSave(p) ==
    /\ pc[p] = "save"
    /\ IF WithId(held[p].id) # {}
       THEN /\ links' = (links \ WithId(held[p].id)) \cup {held[p]}
            /\ Goto(p, "purge")
       ELSE /\ Goto(p, "reinsert")
            /\ UNCHANGED links
    /\ UNCHANGED <<nextId, issued, cache, now>>

UpdateReinsert(p) ==
    /\ pc[p] = "reinsert"
    /\ IF At(held[p].code) \subseteq WithId(held[p].id)
       THEN /\ links' = (links \ WithId(held[p].id)) \cup {held[p]}
            /\ Goto(p, "purge")
       ELSE /\ Finish(p, Say("failed"))
            /\ UNCHANGED links
    /\ UNCHANGED <<nextId, issued, cache, now>>

UpdatePurge(p) ==
    /\ pc[p] = "purge"
    /\ CacheDel(held[p].code)
    /\ Finish(p, Say("ok"))
    /\ UNCHANGED <<db, now>>

-----------------------------------------------------------------------------
\* Delete, and ForceDelete, which asks no owner: read the row, drop the cache
\* entry, delete the row.

DeleteFind(p) ==
    /\ \E u \in Users, i \in 1..MaxLinks, forced \in BOOLEAN :
        \/ /\ WithId(i) = {} \/ \E l \in WithId(i) : l.user # u /\ ~forced
           /\ Refuse(p)
        \/ \E l \in WithId(i) :
           /\ l.user = u \/ forced
           /\ Begin(p, "unlist", l)
    /\ UNCHANGED <<db, cache, now>>

DeleteUnlist(p) ==
    /\ pc[p] = "unlist"
    /\ CacheDel(held[p].code)
    /\ Goto(p, "remove")
    /\ UNCHANGED <<db, now>>

DeleteRemove(p) ==
    /\ pc[p] = "remove"
    /\ links' = {l \in links : ~(l.id = held[p].id /\ l.user = held[p].user)}
    /\ Finish(p, Say("ok"))
    /\ UNCHANGED <<nextId, issued, cache, now>>

-----------------------------------------------------------------------------
\* What goes wrong around a request.

\* A statement fails and the request ends there. The read after a cache hit is
\* not among these: its error is ignored (VisitHit).
DbError(p) ==
    /\ "db" \in Faults
    /\ pc[p] \in {"insert", "miss", "save", "reinsert", "remove"}
    /\ Finish(p, IF visit[p] = NoVisit THEN Say("failed") ELSE Say("error"))
    /\ UNCHANGED <<db, cache, now>>

\* The server goes down and comes back with no request in flight.
Restart ==
    /\ "server" \in Faults
    /\ pc' = [p \in Procs |-> "idle"]
    /\ held' = [p \in Procs |-> NoRow]
    /\ visit' = [p \in Procs |-> NoVisit]
    /\ reply' = [p \in Procs |-> Silent]
    /\ met' = [p \in Procs |-> 0]
    /\ UNCHANGED <<db, cache, now>>

\* Time passes and Redis lets go of the entries whose ttl is over.
Tick ==
    /\ now < MaxTime
    /\ now' = now + 1
    /\ cache' = [c \in Codes |->
                    IF cache[c] # NoEntry /\ cache[c].until = now + 1
                    THEN NoEntry ELSE cache[c]]
    /\ UNCHANGED <<db, request>>

Next ==
    \/ Tick \/ Restart
    \/ \E p \in Procs :
        \/ CreateCheck(p) \/ CreateInsert(p) \/ CreateFill(p)
        \/ VisitGet(p) \/ VisitHit(p) \/ VisitDrop(p) \/ VisitMiss(p) \/ VisitWarm(p)
        \/ UpdateFind(p) \/ UpdateSave(p) \/ UpdateReinsert(p) \/ UpdatePurge(p)
        \/ DeleteFind(p) \/ DeleteUnlist(p) \/ DeleteRemove(p)
        \/ DbError(p)

Spec == Init /\ [][Next]_vars

-----------------------------------------------------------------------------
\* Types: the struct a request holds and the code a visit asks for are there
\* exactly while the calls that need them are pending.
Labels == {"idle", "insert", "fill", "hit", "miss", "drop", "warm", "save",
           "reinsert", "purge", "unlist", "remove"}
VisitLabels == {"hit", "miss", "drop", "warm"}
StructLabels == Labels \ {"idle", "hit", "miss", "drop"}

StoreOK ==
    /\ links \subseteq Row
    /\ issued \subseteq Key
    /\ nextId \in Nat \ {0}
    /\ cache \in [Codes -> Entry \cup {NoEntry}]
    /\ now \in Nat

RequestOK ==
    /\ pc \in [Procs -> Labels]
    /\ held \in [Procs -> Row \cup {NoRow}]
    /\ visit \in [Procs -> [code : Codes \cup {NoCode}, url : Urls \cup {NoUrl}]]
    /\ reply \in [Procs -> Reply]
    /\ met \in [Procs -> Nat]
    /\ \A p \in Procs :
        /\ held[p] # NoRow <=> pc[p] \in StructLabels
        /\ visit[p] # NoVisit <=> pc[p] \in VisitLabels
        /\ visit[p].code # NoCode <=> pc[p] \in VisitLabels
        /\ pc[p] = "hit" => visit[p].url # NoUrl

TypeOK == StoreOK /\ RequestOK

\* A short code names at most one link (README.md:166-171), whatever creates
\* race for it and whatever update writes back a link deleted under it.
UniqueCodes == \A l, m \in links : l.code = m.code => l = m

\* A visitor is never sent to a url that nobody registered under the code asked
\* for: every cached entry, and every url on its way to a visitor or into the
\* cache, was registered for that very code.
RegisteredFor(c, u) == \E k \in issued : k.code = c /\ k.url = u

UrlProvenance ==
    /\ \A c \in Codes : cache[c] # NoEntry => RegisteredFor(c, cache[c].url)
    /\ \A p \in Procs :
        /\ pc[p] = "hit" => RegisteredFor(visit[p].code, visit[p].url)
        /\ pc[p] \in {"fill", "warm"} => RegisteredFor(held[p].code, held[p].url)

\* The store implements LinkDirectory: each visit's verdict, decided at its read
\* of the table, is true of the table at that instant.
Visiting(p) == pc[p] \in VisitLabels

Directory == INSTANCE LinkDirectory WITH
    asked <- [p \in Procs |-> visit[p].code],
    decided <- [p \in Procs |->
        CASE pc[p] = "warm" -> Redirect(held[p].url, held[p].id)
          [] pc[p] = "drop" -> Say("expired")
          [] OTHER -> Silent],
    reply <- [p \in Procs |-> IF reply[p].kind \in VisitKinds THEN reply[p] ELSE Silent]

ImplementsDirectory == Directory!Spec

\* TestRedirect_NotFound (tests/integration_test.go): a visit to a code
\* that has no link when it arrives is answered 404, never by a redirect.
UnknownCodeIsNotFound ==
    \A p \in Procs : reply[p].kind = "redirect" /\ met[p] = 0 => reply[p].id # 0

\* TestRedirect_Active: a visit to a code that has a link, answered by a
\* redirect attributed to that link, leads to the url of that link.
RedirectsToOwnUrl ==
    \A p \in Procs, l \in links :
        /\ reply[p].kind = "redirect"
        /\ reply[p].id = l.id /\ met[p] = l.id
        => reply[p].url = l.url
=============================================================================
