--------------------------- MODULE LinkStoreProofs ---------------------------
(***************************************************************************)
(* Proofs about LinkStore, for every set of processes, codes, urls and     *)
(* users and every bound.                                                  *)
(***************************************************************************)
EXTENDS LinkStore, TLAPS

-----------------------------------------------------------------------------
\* The answers a request can end with are replies.
LEMMA SayReply ==
    \A k \in {"none", "ok", "failed", "notFound", "inactive", "expired", "error"} :
        Say(k) \in Reply
BY DEF Say, Reply, VisitKinds

LEMMA RedirectReply ==
    ASSUME NEW u \in Urls \cup {NoUrl}, NEW i \in Nat
    PROVE  Redirect(u, i) \in Reply
BY DEF Redirect, Reply, VisitKinds

\* The ways a request moves on keep the types of what the request holds.
LEMMA FinishType ==
    ASSUME NEW p \in Procs, NEW r \in Reply, RequestOK, Finish(p, r)
    PROVE  RequestOK'
BY DEF RequestOK, Finish, Labels, StructLabels, VisitLabels, NoVisit

LEMMA BeginType ==
    ASSUME NEW p \in Procs, NEW l \in Row, NEW label \in StructLabels \ VisitLabels,
           RequestOK, Begin(p, label, l)
    PROVE  RequestOK'
BY SayReply, StoreAssumption
   DEF RequestOK, Begin, Labels, StructLabels, VisitLabels, Silent

LEMMA RefuseType ==
    ASSUME NEW p \in Procs, RequestOK, Refuse(p)
    PROVE  RequestOK'
BY SayReply DEF RequestOK, Refuse

LEMMA GotoType ==
    ASSUME NEW p \in Procs, NEW label \in Labels \ {"hit"}, RequestOK, Goto(p, label),
           pc[p] \in StructLabels <=> label \in StructLabels,
           pc[p] \in VisitLabels <=> label \in VisitLabels
    PROVE  RequestOK'
BY DEF RequestOK, Goto

-----------------------------------------------------------------------------
\* The cache calls keep the type of the cache.
LEMMA CacheSetType ==
    ASSUME NEW l \in Row, StoreOK, CacheSet(l)
    PROVE  cache' \in [Codes -> Entry \cup {NoEntry}]
<1>1. Deadline(l) \in Nat \cup {Forever}
  <2>1. l.expires = Never \/ l.expires \in Nat
    BY LinkAssumption DEF Row
  <2>2. now \in Nat /\ now + DayTTL \in Nat
    BY StoreAssumption DEF StoreOK
  <2> QED
    BY <2>1, <2>2 DEF Deadline
<1> QED
  BY <1>1 DEF StoreOK, CacheSet, CacheFault, Entry, Row

LEMMA CacheDelType ==
    ASSUME NEW c \in Codes, StoreOK, CacheDel(c)
    PROVE  cache' \in [Codes -> Entry \cup {NoEntry}]
BY DEF StoreOK, CacheDel, CacheFault

-----------------------------------------------------------------------------
\* Type correctness: the store's state is always well formed, and a request
\* holds a struct, and a visit, exactly while its pending calls need them.
THEOREM TypeCorrect == Spec => []TypeOK
<1>1. Init => TypeOK
  BY SayReply DEF Init, TypeOK, StoreOK, RequestOK, Silent, NoVisit, Labels,
                  StructLabels, VisitLabels
<1>2. TypeOK /\ [Next]_vars => TypeOK'
  <2> SUFFICES ASSUME TypeOK, [Next]_vars PROVE TypeOK'
    OBVIOUS
  <2> USE DEF TypeOK, db
  <2>1. CASE Tick
    BY <2>1 DEF Tick, StoreOK, RequestOK, request
  <2>2. CASE Restart
    BY <2>2, SayReply DEF Restart, StoreOK, RequestOK, Silent, NoVisit, Labels,
                          StructLabels, VisitLabels
  <2>3. ASSUME NEW p \in Procs, CreateCheck(p) PROVE TypeOK'
    <3>1. StoreOK'
      BY <2>3 DEF CreateCheck, StoreOK
    <3>2. NewLinks \subseteq Row
      BY DEF NewLinks, Row, Statuses
    <3> QED
      BY <2>3, <3>1, <3>2, BeginType, RefuseType
         DEF CreateCheck, Labels, StructLabels, VisitLabels
  <2>4. ASSUME NEW p \in Procs, CreateInsert(p) PROVE TypeOK'
    <3> DEFINE l == [held[p] EXCEPT !.id = nextId]
    <3>1. held[p] \in Row
      BY <2>4 DEF CreateInsert, RequestOK, Labels, StructLabels
    <3>2. l \in Row /\ KeyOf(l) \in Key
      BY <3>1 DEF Row, Key, KeyOf, StoreOK
    <3>3. CASE At(l.code) = {}
      <4>1. /\ links' = links \cup {l} /\ issued' = issued \cup {KeyOf(l)}
            /\ nextId' = nextId + 1 /\ UNCHANGED <<cache, now>>
            /\ held' = [held EXCEPT ![p] = l] /\ pc' = [pc EXCEPT ![p] = "fill"]
            /\ UNCHANGED <<visit, reply, met>> /\ pc[p] = "insert"
        BY <2>4, <3>3 DEF CreateInsert
      <4>2. StoreOK'
        BY <4>1, <3>2 DEF StoreOK
      <4>3. RequestOK'
        BY <4>1, <3>2, StoreAssumption
           DEF RequestOK, Labels, StructLabels, VisitLabels
      <4> QED
        BY <4>2, <4>3
    <3>4. CASE At(l.code) # {}
      BY <2>4, <3>4, SayReply, FinishType DEF CreateInsert, StoreOK
    <3> QED
      BY <3>3, <3>4
  <2>5. ASSUME NEW p \in Procs, CreateFill(p) PROVE TypeOK'
    <3>1. held[p] \in Row
      BY <2>5 DEF CreateFill, RequestOK, Labels, StructLabels
    <3> QED
      BY <2>5, <3>1, CacheSetType, FinishType, SayReply DEF CreateFill, StoreOK
  <2>6. ASSUME NEW p \in Procs, VisitGet(p) PROVE TypeOK'
    <3>1. PICK c \in Codes : VisitGet(p)!2!(c)
      BY <2>6 DEF VisitGet
    <3>2. IdAt(c) \in Nat
      BY DEF IdAt, At, StoreOK, Row
    <3>3. cache[c] # NoEntry => cache[c].url \in Urls
      BY DEF StoreOK, Entry
    <3>4. StoreOK'
      BY <2>6 DEF VisitGet, StoreOK
    <3>5. RequestOK'
      BY <2>6, <3>1, <3>2, <3>3, SayReply, LinkAssumption, StoreAssumption
         DEF VisitGet, RequestOK, Silent, NoVisit, Labels, StructLabels, VisitLabels
    <3> QED
      BY <3>4, <3>5
  <2>7. ASSUME NEW p \in Procs, VisitHit(p) PROVE TypeOK'
    <3>1. StoreOK'
      BY <2>7 DEF VisitHit, StoreOK
    <3>2. visit[p].url \in Urls \cup {NoUrl}
      BY DEF RequestOK
    <3>3. \A l \in links : l.id \in Nat
      BY DEF StoreOK, Row
    <3>4. CASE Goto(p, "drop")
      BY <2>7, <3>1, <3>4, GotoType DEF VisitHit, Labels, StructLabels, VisitLabels
    <3>5. CASE \E r \in Reply : Finish(p, r)
      BY <3>1, <3>5, FinishType
    <3> QED
      BY <2>7, <3>2, <3>3, <3>4, <3>5, SayReply, RedirectReply DEF VisitHit, At
  <2>8. ASSUME NEW p \in Procs, VisitDrop(p) PROVE TypeOK'
    <3>1. visit[p].code \in Codes
      BY <2>8 DEF VisitDrop, RequestOK, VisitLabels
    <3> QED
      BY <2>8, <3>1, CacheDelType, FinishType, SayReply DEF VisitDrop, StoreOK
  <2>9. ASSUME NEW p \in Procs, VisitMiss(p) PROVE TypeOK'
    <3>1. StoreOK'
      BY <2>9 DEF VisitMiss, StoreOK
    <3>2. CASE \E r \in Reply : Finish(p, r)
      BY <3>1, <3>2, FinishType
    <3>3. ASSUME NEW l \in links, pc' = [pc EXCEPT ![p] = "warm"],
                 held' = [held EXCEPT ![p] = l], UNCHANGED <<visit, reply, met>>
          PROVE  TypeOK'
      <4>1. l \in Row /\ l # NoRow
        BY StoreAssumption DEF StoreOK
      <4> QED
        BY <2>9, <3>1, <3>3, <4>1
           DEF VisitMiss, RequestOK, Labels, StructLabels, VisitLabels
    <3> QED
      BY <2>9, <3>2, <3>3, SayReply DEF VisitMiss, At
  <2>10. ASSUME NEW p \in Procs, VisitWarm(p) PROVE TypeOK'
    <3>1. held[p] \in Row
      BY <2>10 DEF VisitWarm, RequestOK, Labels, StructLabels
    <3>2. Redirect(held[p].url, held[p].id) \in Reply
      BY <3>1, RedirectReply DEF Row
    <3> QED
      BY <2>10, <3>1, <3>2, CacheSetType, FinishType DEF VisitWarm, StoreOK
  <2>11. ASSUME NEW p \in Procs, UpdateFind(p) PROVE TypeOK'
    <3>1. StoreOK'
      BY <2>11 DEF UpdateFind, StoreOK
    <3>2. \A l \in links : Changed(l) \subseteq Row
      BY DEF Changed, StoreOK, Row
    <3> QED
      BY <2>11, <3>1, <3>2, BeginType, RefuseType
         DEF UpdateFind, WithId, Labels, StructLabels, VisitLabels
  <2>12. ASSUME NEW p \in Procs, UpdateSave(p) PROVE TypeOK'
    <3>1. held[p] \in Row
      BY <2>12 DEF UpdateSave, RequestOK, Labels, StructLabels
    <3>2. StoreOK'
      BY <2>12, <3>1 DEF UpdateSave, StoreOK
    <3>3. RequestOK'
      BY <2>12, GotoType DEF UpdateSave, Labels, StructLabels, VisitLabels
    <3> QED
      BY <3>2, <3>3
  <2>13. ASSUME NEW p \in Procs, UpdateReinsert(p) PROVE TypeOK'
    <3>1. held[p] \in Row
      BY <2>13 DEF UpdateReinsert, RequestOK, Labels, StructLabels
    <3>2. StoreOK'
      BY <2>13, <3>1 DEF UpdateReinsert, StoreOK
    <3>3. RequestOK'
      BY <2>13, GotoType, FinishType, SayReply
         DEF UpdateReinsert, Labels, StructLabels, VisitLabels
    <3> QED
      BY <3>2, <3>3
  <2>14. ASSUME NEW p \in Procs, UpdatePurge(p) PROVE TypeOK'
    <3>1. held[p].code \in Codes
      BY <2>14 DEF UpdatePurge, RequestOK, Row, Labels, StructLabels
    <3> QED
      BY <2>14, <3>1, CacheDelType, FinishType, SayReply DEF UpdatePurge, StoreOK
  <2>15. ASSUME NEW p \in Procs, DeleteFind(p) PROVE TypeOK'
    <3>1. StoreOK'
      BY <2>15 DEF DeleteFind, StoreOK
    <3> QED
      BY <2>15, <3>1, BeginType, RefuseType
         DEF DeleteFind, WithId, StoreOK, Labels, StructLabels, VisitLabels
  <2>16. ASSUME NEW p \in Procs, DeleteUnlist(p) PROVE TypeOK'
    <3>1. held[p].code \in Codes
      BY <2>16 DEF DeleteUnlist, RequestOK, Row, Labels, StructLabels
    <3>2. StoreOK'
      BY <2>16, <3>1, CacheDelType DEF DeleteUnlist, StoreOK
    <3>3. RequestOK'
      BY <2>16, GotoType DEF DeleteUnlist, Labels, StructLabels, VisitLabels
    <3> QED
      BY <3>2, <3>3
  <2>17. ASSUME NEW p \in Procs, DeleteRemove(p) PROVE TypeOK'
    BY <2>17, FinishType, SayReply DEF DeleteRemove, StoreOK
  <2>18. ASSUME NEW p \in Procs, DbError(p) PROVE TypeOK'
    BY <2>18, FinishType, SayReply DEF DbError, StoreOK
  <2>19. CASE UNCHANGED vars
    BY <2>19 DEF vars, StoreOK, RequestOK
  <2> QED
    BY <2>1, <2>2, <2>3, <2>4, <2>5, <2>6, <2>7, <2>8, <2>9, <2>10, <2>11, <2>12,
       <2>13, <2>14, <2>15, <2>16, <2>17, <2>18, <2>19 DEF Next
<1> QED
  BY <1>1, <1>2, PTL DEF Spec

-----------------------------------------------------------------------------
\* Ids and keys. An id is issued once, so a row, and the struct a request holds
\* of a row, are known by the key under which the row was first inserted. This
\* is what makes the code of a struct that is written back trustworthy.
Keys ==
    /\ \A k \in issued : k.id < nextId
    /\ \A j, k \in issued : j.id = k.id => j = k
    /\ \A l \in links : KeyOf(l) \in issued
    /\ \A l, m \in links : l.id = m.id => l = m
    /\ \A p \in Procs :
        pc[p] \in StructLabels \ {"insert"} => KeyOf(held[p]) \in issued

\* A step that leaves the table alone and lets p go on with a struct of a row,
\* with the one it has, or with none, keeps Keys.
LEMMA KeysWithoutWrite ==
    ASSUME NEW p \in Procs, TypeOK, TypeOK', Keys, UNCHANGED db,
           \A q \in Procs \ {p} : pc'[q] = pc[q] /\ held'[q] = held[q],
           \/ pc'[p] \notin StructLabels \/ pc'[p] = "insert"
           \/ pc[p] \in StructLabels \ {"insert"} /\ KeyOf(held'[p]) = KeyOf(held[p])
           \/ \E l \in links : KeyOf(held'[p]) = KeyOf(l)
    PROVE  Keys'
BY DEF Keys, db

\* Writing a struct back over the row with its id keeps Keys: its key was issued.
LEMMA WriteBackKeys ==
    ASSUME NEW p \in Procs, TypeOK, Keys, UNCHANGED <<nextId, issued, held>>,
           pc[p] \in StructLabels \ {"insert"}, NEW label, label \in StructLabels,
           pc' = [pc EXCEPT ![p] = label],
           links' = (links \ WithId(held[p].id)) \cup {held[p]}
    PROVE  Keys'
BY DEF Keys, WithId, TypeOK, RequestOK

THEOREM KeysInvariant == Spec => []Keys
<1>1. Init => Keys
  BY DEF Init, Keys, StructLabels
<1>2. TypeOK /\ TypeOK' /\ Keys /\ [Next]_vars => Keys'
  <2> SUFFICES ASSUME TypeOK, TypeOK', Keys, [Next]_vars PROVE Keys'
    OBVIOUS
  <2>1. CASE Tick
    BY <2>1 DEF Tick, Keys, db, request
  <2>2. CASE Restart
    BY <2>2 DEF Restart, Keys, db, StructLabels
  <2> USE DEF TypeOK, RequestOK
  <2>3. ASSUME NEW p \in Procs, CreateCheck(p) PROVE Keys'
    BY <2>3, KeysWithoutWrite DEF CreateCheck, Begin, Refuse
  <2>4. ASSUME NEW p \in Procs, CreateInsert(p) PROVE Keys'
    <3> DEFINE l == [held[p] EXCEPT !.id = nextId]
    <3>1. held[p] \in Row
      BY <2>4 DEF CreateInsert, Labels, StructLabels
    <3>2. l.id = nextId /\ KeyOf(l).id = nextId
      BY <3>1 DEF Row, KeyOf
    <3>3. CASE At(l.code) = {}
      <4>1. /\ links' = links \cup {l} /\ issued' = issued \cup {KeyOf(l)}
            /\ nextId' = nextId + 1 /\ held' = [held EXCEPT ![p] = l]
            /\ pc' = [pc EXCEPT ![p] = "fill"]
        BY <2>4, <3>3 DEF CreateInsert
      <4>2. /\ nextId \in Nat
            /\ \A k \in issued : k.id \in Nat
            /\ \A m \in links : KeyOf(m).id = m.id
        BY DEF StoreOK, Key, KeyOf
      <4>3. (\A m \in links : m.id # nextId) /\ (\A k \in issued : k.id # nextId)
        BY <4>2 DEF Keys
      <4> HIDE DEF l
      <4>4. (\A k \in issued' : k.id < nextId')
        BY <4>1, <4>2, <3>2 DEF Keys, StoreOK
      <4>5. \A j, k \in issued' : j.id = k.id => j = k
        BY <4>1, <4>3, <3>2 DEF Keys
      <4>6. \A m \in links' : KeyOf(m) \in issued'
        BY <4>1 DEF Keys
      <4>7. \A m, n \in links' : m.id = n.id => m = n
        BY <4>1, <4>3, <3>2 DEF Keys
      <4>8. \A q \in Procs :
              pc'[q] \in StructLabels \ {"insert"} => KeyOf(held'[q]) \in issued'
        BY <4>1 DEF Keys
      <4> QED
        BY <4>4, <4>5, <4>6, <4>7, <4>8 DEF Keys
    <3>4. CASE At(l.code) # {}
      BY <2>4, <3>4, KeysWithoutWrite DEF CreateInsert, Finish, StructLabels
    <3> QED
      BY <3>3, <3>4
  <2>5. ASSUME NEW p \in Procs, CreateFill(p) PROVE Keys'
    BY <2>5, KeysWithoutWrite DEF CreateFill, Finish, StructLabels
  <2>6. ASSUME NEW p \in Procs, VisitGet(p) PROVE Keys'
    BY <2>6, KeysWithoutWrite DEF VisitGet, StructLabels
  <2>7. ASSUME NEW p \in Procs, VisitHit(p) PROVE Keys'
    BY <2>7, KeysWithoutWrite DEF VisitHit, Finish, Goto, StructLabels
  <2>8. ASSUME NEW p \in Procs, VisitDrop(p) PROVE Keys'
    BY <2>8, KeysWithoutWrite DEF VisitDrop, Finish, StructLabels
  <2>9. ASSUME NEW p \in Procs, VisitMiss(p) PROVE Keys'
    BY <2>9, KeysWithoutWrite DEF VisitMiss, Finish, At, StructLabels
  <2>10. ASSUME NEW p \in Procs, VisitWarm(p) PROVE Keys'
    BY <2>10, KeysWithoutWrite DEF VisitWarm, Finish, StructLabels
  <2>11. ASSUME NEW p \in Procs, UpdateFind(p) PROVE Keys'
    <3>1. \A l \in links : \A m \in Changed(l) : KeyOf(m) = KeyOf(l)
      BY DEF Changed, KeyOf
    <3> QED
      BY <2>11, <3>1, KeysWithoutWrite DEF UpdateFind, Begin, Refuse, WithId
  <2>12. ASSUME NEW p \in Procs, UpdateSave(p) PROVE Keys'
    <3>1. CASE WithId(held[p].id) # {}
      BY <2>12, <3>1, WriteBackKeys DEF UpdateSave, Goto, Labels, StructLabels
    <3>2. CASE WithId(held[p].id) = {}
      BY <2>12, <3>2, KeysWithoutWrite DEF UpdateSave, Goto, db, StructLabels
    <3> QED
      BY <3>1, <3>2
  <2>13. ASSUME NEW p \in Procs, UpdateReinsert(p) PROVE Keys'
    <3>1. CASE At(held[p].code) \subseteq WithId(held[p].id)
      BY <2>13, <3>1, WriteBackKeys DEF UpdateReinsert, Goto, Labels, StructLabels
    <3>2. CASE ~(At(held[p].code) \subseteq WithId(held[p].id))
      BY <2>13, <3>2, KeysWithoutWrite DEF UpdateReinsert, Finish, db, StructLabels
    <3> QED
      BY <3>1, <3>2
  <2>14. ASSUME NEW p \in Procs, UpdatePurge(p) PROVE Keys'
    BY <2>14, KeysWithoutWrite DEF UpdatePurge, Finish, StructLabels
  <2>15. ASSUME NEW p \in Procs, DeleteFind(p) PROVE Keys'
    BY <2>15, KeysWithoutWrite DEF DeleteFind, Begin, Refuse, WithId
  <2>16. ASSUME NEW p \in Procs, DeleteUnlist(p) PROVE Keys'
    BY <2>16, KeysWithoutWrite DEF DeleteUnlist, Goto, StructLabels
  <2>17. ASSUME NEW p \in Procs, DeleteRemove(p) PROVE Keys'
    BY <2>17 DEF DeleteRemove, Finish, Keys, StructLabels
  <2>18. ASSUME NEW p \in Procs, DbError(p) PROVE Keys'
    BY <2>18, KeysWithoutWrite DEF DbError, Finish, StructLabels
  <2>19. CASE UNCHANGED vars
    BY <2>19 DEF vars, Keys
  <2> QED
    BY <2>1, <2>2, <2>3, <2>4, <2>5, <2>6, <2>7, <2>8, <2>9, <2>10, <2>11, <2>12,
       <2>13, <2>14, <2>15, <2>16, <2>17, <2>18, <2>19 DEF Next
<1> QED
  BY <1>1, <1>2, TypeCorrect, PTL DEF Spec

-----------------------------------------------------------------------------
\* A short code names at most one link, whatever requests race: the unique index
\* stops a second insert, and an update writes back only the code of its own id.
THEOREM CodesAreUnique == Spec => []UniqueCodes
<1>1. Init => UniqueCodes
  BY DEF Init, UniqueCodes
<1>2. TypeOK /\ Keys /\ UniqueCodes /\ [Next]_vars => UniqueCodes'
  <2> SUFFICES ASSUME TypeOK, Keys, UniqueCodes, [Next]_vars PROVE UniqueCodes'
    OBVIOUS
  <2> USE DEF TypeOK, RequestOK
  <2>1. ASSUME NEW p \in Procs, CreateInsert(p) PROVE UniqueCodes'
    <3> DEFINE l == [held[p] EXCEPT !.id = nextId]
    <3>1. \/ At(l.code) = {} /\ links' = links \cup {l}
          \/ links' = links
      BY <2>1 DEF CreateInsert, db
    <3> QED
      BY <3>1 DEF UniqueCodes, At
  <2>2. ASSUME NEW p \in Procs, UpdateSave(p) PROVE UniqueCodes'
    <3>1. CASE WithId(held[p].id) = {}
      BY <2>2, <3>1 DEF UpdateSave, UniqueCodes
    <3>2. ASSUME NEW l \in WithId(held[p].id) PROVE UniqueCodes'
      <4>1. KeyOf(held[p]) \in issued /\ KeyOf(l) \in issued
        BY <2>2 DEF UpdateSave, Keys, WithId, StructLabels, Labels
      <4>2. KeyOf(held[p]) = KeyOf(l)
        BY <4>1 DEF Keys, WithId, KeyOf
      <4>3. held[p].code = l.code /\ WithId(held[p].id) = {l}
        BY <4>2 DEF KeyOf, WithId, Keys
      <4>4. links' = (links \ {l}) \cup {held[p]}
        BY <2>2, <4>3 DEF UpdateSave
      <4> QED
        BY <4>3, <4>4 DEF UniqueCodes, WithId
    <3> QED
      BY <3>1, <3>2
  <2>3. ASSUME NEW p \in Procs, UpdateReinsert(p) PROVE UniqueCodes'
    BY <2>3 DEF UpdateReinsert, UniqueCodes, At, WithId
  <2>4. ASSUME NEW p \in Procs, DeleteRemove(p) PROVE UniqueCodes'
    BY <2>4 DEF DeleteRemove, UniqueCodes
  <2>5. ASSUME UNCHANGED links PROVE UniqueCodes'
    BY <2>5 DEF UniqueCodes
  <2> QED
    BY <2>1, <2>2, <2>3, <2>4, <2>5
       DEF Next, Tick, Restart, CreateCheck, CreateFill, VisitGet, VisitHit,
           VisitDrop, VisitMiss, VisitWarm, UpdateFind, UpdatePurge, DeleteFind,
           DeleteUnlist, DbError, vars, db
<1> QED
  BY <1>1, <1>2, TypeCorrect, KeysInvariant, PTL DEF Spec

-----------------------------------------------------------------------------
\* No visitor is led to a url that was never registered under the code asked
\* for, and the cache never holds one: every url cached comes from a struct whose
\* key was issued.
LEMMA CachedIsRegistered ==
    ASSUME TypeOK, UrlProvenance, UNCHANGED issued,
           NEW l \in Row, KeyOf(l) \in issued, CacheSet(l),
           NEW c \in Codes, cache'[c] # NoEntry
    PROVE  RegisteredFor(c, cache'[c].url)
<1>1. CASE cache'[c] = cache[c]
  BY <1>1 DEF UrlProvenance
<1>2. CASE cache'[c] # cache[c]
  <2>1. c = l.code /\ cache'[c] = [url |-> l.url, until |-> Deadline(l)]
    BY <1>2 DEF CacheSet, CacheFault, TypeOK, StoreOK
  <2> QED
    BY <2>1 DEF RegisteredFor, KeyOf
<1> QED
  BY <1>1, <1>2

THEOREM UrlsComeFromTheirCode == Spec => []UrlProvenance
<1>1. Init => UrlProvenance
  BY DEF Init, UrlProvenance
<1>2. TypeOK /\ TypeOK' /\ Keys /\ Keys' /\ UrlProvenance /\ [Next]_vars => UrlProvenance'
  <2> SUFFICES ASSUME TypeOK, TypeOK', Keys, Keys', UrlProvenance, [Next]_vars
               PROVE  UrlProvenance'
    OBVIOUS
  <2>1. issued \subseteq issued'
    BY DEF Next, Tick, Restart, CreateCheck, CreateInsert, CreateFill, VisitGet,
           VisitHit, VisitDrop, VisitMiss, VisitWarm, UpdateFind, UpdateSave,
           UpdateReinsert, UpdatePurge, DeleteFind, DeleteUnlist, DeleteRemove,
           DbError, vars, db
  <2>2. ASSUME NEW c \in Codes, cache'[c] # NoEntry
        PROVE  \E k \in issued' : k.code = c /\ k.url = cache'[c].url
    <3>1. CASE cache'[c] = cache[c]
      BY <2>1, <2>2, <3>1 DEF UrlProvenance, RegisteredFor
    <3>2. CASE cache'[c] # cache[c]
      <4>1. PICK p \in Procs : CreateFill(p) \/ VisitWarm(p)
        BY <2>2, <3>2
           DEF Next, Tick, Restart, CreateCheck, CreateInsert, VisitGet, VisitHit,
               VisitDrop, VisitMiss, UpdateFind, UpdateSave, UpdateReinsert,
               UpdatePurge, DeleteFind, DeleteUnlist, DeleteRemove, DbError, vars,
               CacheDel, CacheFault, TypeOK, StoreOK
      <4>2. KeyOf(held[p]) \in issued /\ held[p] \in Row /\ CacheSet(held[p])
        BY <4>1 DEF CreateFill, VisitWarm, Keys, TypeOK, RequestOK, StructLabels, Labels
      <4>3. UNCHANGED issued
        BY <4>1 DEF CreateFill, VisitWarm, db
      <4> QED
        BY <2>2, <4>2, <4>3, CachedIsRegistered DEF RegisteredFor
    <3> QED
      BY <3>1, <3>2
  <2>3. ASSUME NEW p \in Procs, pc'[p] = "hit"
        PROVE  \E k \in issued' : k.code = visit'[p].code /\ k.url = visit'[p].url
    <3>1. CASE pc[p] = "hit" /\ visit'[p] = visit[p]
      BY <2>1, <3>1 DEF UrlProvenance, RegisteredFor
    <3>2. CASE VisitGet(p)
      BY <2>1, <2>3, <3>2 DEF VisitGet, UrlProvenance, RegisteredFor, TypeOK, RequestOK
    <3>3. ASSUME Tick \/ Restart \/ UNCHANGED vars
          PROVE  pc[p] = "hit" /\ visit'[p] = visit[p]
      BY <2>3, <3>3 DEF Tick, Restart, vars, request
    <3> USE DEF TypeOK, RequestOK
    <3>4. ASSUME NEW q \in Procs, CreateCheck(q) \/ UpdateFind(q) \/ DeleteFind(q)
          PROVE  pc[p] = "hit" /\ visit'[p] = visit[p]
      BY <2>3, <3>4 DEF CreateCheck, UpdateFind, DeleteFind, Begin, Refuse
    <3>5. ASSUME NEW q \in Procs, NEW r, Finish(q, r)
          PROVE  pc[p] = "hit" /\ visit'[p] = visit[p]
      BY <2>3, <3>5 DEF Finish
    <3>6. ASSUME NEW q \in Procs, CreateInsert(q) \/ VisitHit(q) \/ VisitMiss(q)
          PROVE  pc[p] = "hit" /\ visit'[p] = visit[p]
      BY <2>3, <3>5, <3>6 DEF CreateInsert, VisitHit, VisitMiss, Goto
    <3>7. ASSUME NEW q \in Procs, UpdateSave(q) \/ UpdateReinsert(q) \/ DeleteUnlist(q)
          PROVE  pc[p] = "hit" /\ visit'[p] = visit[p]
      BY <2>3, <3>5, <3>7 DEF UpdateSave, UpdateReinsert, DeleteUnlist, Goto
    <3>8. ASSUME NEW q \in Procs, VisitGet(q), q # p
          PROVE  pc[p] = "hit" /\ visit'[p] = visit[p]
      BY <2>3, <3>8 DEF VisitGet
    <3> QED
      BY <3>1, <3>2, <3>3, <3>4, <3>5, <3>6, <3>7, <3>8
         DEF Next, CreateFill, VisitDrop, VisitWarm, UpdatePurge, DeleteRemove, DbError
  <2>4. ASSUME NEW p \in Procs, pc'[p] \in {"fill", "warm"}
        PROVE  \E k \in issued' : k.code = held'[p].code /\ k.url = held'[p].url
    BY <2>4 DEF Keys, KeyOf, StructLabels, Labels
  <2> QED
    BY <2>2, <2>3, <2>4 DEF UrlProvenance, RegisteredFor
<1> QED
  BY <1>1, <1>2, TypeCorrect, KeysInvariant, PTL DEF Spec

-----------------------------------------------------------------------------
(***************************************************************************)
(* LinkStore implements LinkDirectory: under the mapping of LinkStore's    *)
(* instance Directory, the store's initial states are the directory's and  *)
(* each of its steps is a step of the directory or changes nothing there.  *)
(***************************************************************************)

\* What the mapping needs beside TypeOK, Keys and UrlProvenance.

\* The rows, and the structs requests hold of rows.
Structs == links \cup {held[p] : p \in {q \in Procs : pc[q] \in StructLabels \ {"insert"}}}

\* A link keeps its owner, whoever holds a struct of it or writes one back.
Owners == \A x, y \in Structs : x.id = y.id => x.user = y.user

\* Between its first call and its answer a request has answered nothing.
Quiet == \A p \in Procs : pc[p] # "idle" => reply[p] = Silent

LEMMA OwnersKept ==
    ASSUME Owners, \A x \in Structs' : \E y \in Structs : y.id = x.id /\ y.user = x.user
    PROVE  Owners'
BY DEF Owners

\* A step of p that writes nothing to the table but p's struct, and goes on with
\* a struct it had or one of a row.
LEMMA OwnersSteady ==
    ASSUME NEW p \in Procs, TypeOK, TypeOK', Owners,
           \A q \in Procs \ {p} : pc'[q] = pc[q] /\ held'[q] = held[q],
           links' \subseteq links \/ (/\ pc[p] \in StructLabels \ {"insert"}
                                      /\ links' \subseteq links \cup {held[p]}),
           \/ pc'[p] \notin StructLabels \/ pc'[p] = "insert"
           \/ pc[p] \in StructLabels \ {"insert"} /\ held'[p] = held[p]
           \/ \E l \in links : held'[p].id = l.id /\ held'[p].user = l.user
    PROVE  Owners'
<1>1. ASSUME NEW x \in links' PROVE \E y \in Structs : y.id = x.id /\ y.user = x.user
  BY DEF Structs
<1>2. ASSUME NEW q \in Procs, pc'[q] \in StructLabels \ {"insert"}
      PROVE  \E y \in Structs : y.id = held'[q].id /\ y.user = held'[q].user
  <2>1. CASE q # p
    BY <1>2, <2>1 DEF Structs
  <2>2. CASE q = p
    BY <1>2, <2>2 DEF Structs
  <2> QED
    BY <2>1, <2>2
<1> QED
  BY <1>1, <1>2, OwnersKept DEF Structs

\* The ways a request moves on keep Quiet.
LEMMA QuietSteps ==
    ASSUME NEW p \in Procs, RequestOK, Quiet,
           \/ \E label, l : Begin(p, label, l)
           \/ Refuse(p) \/ \E label : Goto(p, label) /\ pc[p] # "idle"
           \/ \E r : Finish(p, r)
    PROVE  Quiet'
BY DEF Quiet, RequestOK, Begin, Refuse, Goto, Finish

\* Owners never change, and a request that is under way has not answered.
THEOREM OwnersStay == Spec => [](Owners /\ Quiet)
<1>1. Init => Owners /\ Quiet
  BY DEF Init, Owners, Quiet, Structs, StructLabels
<1>2. TypeOK /\ TypeOK' /\ Keys /\ Owners /\ Quiet /\ [Next]_vars => Owners' /\ Quiet'
  <2> SUFFICES ASSUME TypeOK, TypeOK', Keys, Owners, Quiet, [Next]_vars PROVE Owners' /\ Quiet'
    OBVIOUS
  <2> USE DEF TypeOK
  <2>1. CASE Tick
    BY <2>1 DEF Tick, Owners, Quiet, Structs, db, request
  <2>2. CASE Restart
    <3>1. Owners'
      BY <2>2 DEF Restart, Owners, Structs, db, StructLabels
    <3>2. Quiet'
      BY <2>2 DEF Restart, Quiet
    <3> QED
      BY <3>1, <3>2
  <2>3. ASSUME NEW p \in Procs, CreateCheck(p) PROVE Owners' /\ Quiet'
    <3>1. links' = links /\ (Refuse(p) \/ \E l : Begin(p, "insert", l))
      BY <2>3 DEF CreateCheck, db
    <3>2. Owners'
      BY <3>1, OwnersSteady DEF Begin, Refuse, RequestOK, StructLabels
    <3> QED
      BY <3>1, <3>2, QuietSteps
  <2>4. ASSUME NEW p \in Procs, CreateInsert(p) PROVE Owners' /\ Quiet'
    <3> DEFINE l == [held[p] EXCEPT !.id = nextId]
    <3>1. held[p] \in Row /\ pc[p] = "insert"
      BY <2>4 DEF CreateInsert, RequestOK, Labels, StructLabels
    <3>2. l.id = nextId
      BY <3>1 DEF Row
    <3>3. CASE At(l.code) = {}
      <4>1. /\ links' = links \cup {l} /\ held' = [held EXCEPT ![p] = l]
            /\ pc' = [pc EXCEPT ![p] = "fill"] /\ reply' = reply
        BY <2>4, <3>3 DEF CreateInsert
      <4>2. \A x \in Structs : x.id # nextId
        <5>1. \A x \in Structs : KeyOf(x) \in issued /\ KeyOf(x).id = x.id
          BY DEF Structs, Keys, KeyOf
        <5> QED
          BY <5>1 DEF Keys, StoreOK, Key
      <4> HIDE DEF l
      <4>3. \A x \in Structs' : x = l \/ x \in Structs
        BY <4>1 DEF Structs, RequestOK
      <4>4. Owners'
        BY <3>2, <4>2, <4>3 DEF Owners
      <4>5. Quiet'
        BY <3>1, <4>1 DEF Quiet, RequestOK
      <4> QED
        BY <4>4, <4>5
    <3>4. CASE At(l.code) # {}
      <4>1. links' = links /\ Finish(p, Say("failed"))
        BY <2>4, <3>4 DEF CreateInsert, db
      <4>2. Owners'
        BY <4>1, OwnersSteady DEF Finish, RequestOK, StructLabels
      <4> QED
        BY <4>1, <4>2, QuietSteps
    <3> QED
      BY <3>3, <3>4
  <2>5. ASSUME NEW p \in Procs, NEW r, Finish(p, r),
               links' \subseteq links \/ (/\ pc[p] \in StructLabels \ {"insert"}
                                          /\ links' \subseteq links \cup {held[p]})
        PROVE  Owners' /\ Quiet'
    <3>1. Owners'
      BY <2>5, OwnersSteady DEF Finish, RequestOK, StructLabels
    <3> QED
      BY <2>5, <3>1, QuietSteps
  <2>6. ASSUME NEW p \in Procs, VisitGet(p) PROVE Owners' /\ Quiet'
    <3>1. links' = links /\ held' = held /\ reply' = [reply EXCEPT ![p] = Silent]
          /\ (\A q \in Procs \ {p} : pc'[q] = pc[q]) /\ pc'[p] \in {"hit", "miss"}
      BY <2>6 DEF VisitGet, db, RequestOK
    <3>2. Owners'
      BY <3>1, OwnersSteady DEF StructLabels
    <3>3. Quiet'
      BY <3>1 DEF Quiet, RequestOK
    <3> QED
      BY <3>2, <3>3
  <2>7. ASSUME NEW p \in Procs, NEW label \in Labels, Goto(p, label), pc[p] # "idle",
               label \in StructLabels => pc[p] \in StructLabels \ {"insert"},
               links' \subseteq links \/ (/\ pc[p] \in StructLabels \ {"insert"}
                                          /\ links' \subseteq links \cup {held[p]})
        PROVE  Owners' /\ Quiet'
    <3>1. Owners'
      BY <2>7, OwnersSteady DEF Goto, RequestOK
    <3> QED
      BY <2>7, <3>1, QuietSteps
  <2>8. ASSUME NEW p \in Procs, VisitHit(p) PROVE Owners' /\ Quiet'
    <3>1. links' = links /\ pc[p] = "hit" /\ (Goto(p, "drop") \/ \E r : Finish(p, r))
      BY <2>8 DEF VisitHit, db
    <3> QED
      BY <2>5, <2>7, <3>1 DEF Labels, StructLabels
  <2>9. ASSUME NEW p \in Procs, VisitMiss(p) PROVE Owners' /\ Quiet'
    <3>1. links' = links /\ pc[p] = "miss"
      BY <2>9 DEF VisitMiss, db
    <3>2. CASE \E r : Finish(p, r)
      BY <2>5, <3>1, <3>2
    <3>3. ASSUME NEW l \in links, pc' = [pc EXCEPT ![p] = "warm"],
                 held' = [held EXCEPT ![p] = l], UNCHANGED <<visit, reply, met>>
          PROVE  Owners' /\ Quiet'
      <4>1. Owners'
        BY <3>1, <3>3, OwnersSteady DEF RequestOK
      <4>2. Quiet'
        BY <3>1, <3>3 DEF Quiet, RequestOK
      <4> QED
        BY <4>1, <4>2
    <3> QED
      BY <2>9, <3>2, <3>3 DEF VisitMiss, At
  <2>10. ASSUME NEW p \in Procs, UpdateFind(p) PROVE Owners' /\ Quiet'
    <3>1. links' = links /\ (\/ Refuse(p)
                             \/ \E l \in links : \E m : /\ m.id = l.id /\ m.user = l.user
                                                        /\ Begin(p, "save", m))
      <4>1. \A l \in links : \A m \in Changed(l) : m.id = l.id /\ m.user = l.user
        BY DEF Changed
      <4> QED
        BY <2>10, <4>1 DEF UpdateFind, db, WithId
    <3>2. Owners'
      BY <3>1, OwnersSteady DEF Begin, Refuse, RequestOK
    <3> QED
      BY <3>1, <3>2, QuietSteps
  <2>11. ASSUME NEW p \in Procs, DeleteFind(p) PROVE Owners' /\ Quiet'
    <3>1. links' = links /\ (Refuse(p) \/ \E l \in links : Begin(p, "unlist", l))
      BY <2>11 DEF DeleteFind, db, WithId
    <3>2. Owners'
      BY <3>1, OwnersSteady DEF Begin, Refuse, RequestOK
    <3> QED
      BY <3>1, <3>2, QuietSteps
  <2>12. ASSUME NEW p \in Procs, UpdateSave(p) PROVE Owners' /\ Quiet'
    <3>1. pc[p] = "save" /\ links' \subseteq links \cup {held[p]}
          /\ (Goto(p, "purge") \/ Goto(p, "reinsert"))
      BY <2>12 DEF UpdateSave
    <3> QED
      BY <2>7, <3>1 DEF Labels, StructLabels
  <2>13. ASSUME NEW p \in Procs, UpdateReinsert(p) PROVE Owners' /\ Quiet'
    <3>1. pc[p] = "reinsert" /\ links' \subseteq links \cup {held[p]}
          /\ (Goto(p, "purge") \/ Finish(p, Say("failed")))
      BY <2>13 DEF UpdateReinsert
    <3> QED
      BY <2>5, <2>7, <3>1 DEF Labels, StructLabels
  <2>14. ASSUME NEW p \in Procs, DeleteUnlist(p) PROVE Owners' /\ Quiet'
    <3>1. pc[p] = "unlist" /\ links' = links /\ Goto(p, "remove")
      BY <2>14 DEF DeleteUnlist, db
    <3> QED
      BY <2>7, <3>1 DEF Labels, StructLabels
  <2>15. ASSUME NEW p \in Procs,
                \/ CreateFill(p) \/ VisitDrop(p) \/ VisitWarm(p) \/ UpdatePurge(p)
                \/ DeleteRemove(p) \/ DbError(p)
         PROVE  Owners' /\ Quiet'
    BY <2>5, <2>15 DEF CreateFill, VisitDrop, VisitWarm, UpdatePurge, DeleteRemove, DbError, db
  <2>16. CASE UNCHANGED vars
    BY <2>16 DEF vars, Owners, Quiet, Structs
  <2> QED
    BY <2>1, <2>2, <2>3, <2>4, <2>6, <2>8, <2>9, <2>10, <2>11, <2>12, <2>13, <2>14, <2>15,
       <2>16 DEF Next
<1> QED
  BY <1>1, <1>2, TypeCorrect, KeysInvariant, PTL DEF Spec

-----------------------------------------------------------------------------
\* The directory's variables, as the mapping computes them.

Asked == [p \in Procs |-> visit[p].code]
Decided == [p \in Procs |-> CASE pc[p] = "warm" -> Redirect(held[p].url, held[p].id)
                              [] pc[p] = "drop" -> Say("expired")
                              [] OTHER -> Silent]
Replied == [p \in Procs |-> IF reply[p].kind \in VisitKinds THEN reply[p] ELSE Silent]

LEMMA SameSilence == Directory!Silent = Silent
BY DEF Directory!Silent, Directory!Say, Silent, Say

\* Only p moves.
OnlyMoves(p) ==
    \A q \in Procs \ {p} : /\ pc'[q] = pc[q] /\ held'[q] = held[q]
                           /\ visit'[q] = visit[q] /\ reply'[q] = reply[q]

LEMMA MapMoves ==
    ASSUME NEW p \in Procs, OnlyMoves(p)
    PROVE  /\ Asked' = [Asked EXCEPT ![p] = Asked'[p]]
           /\ Decided' = [Decided EXCEPT ![p] = Decided'[p]]
           /\ Replied' = [Replied EXCEPT ![p] = Replied'[p]]
<1>1. /\ Asked = [q \in Procs |-> Asked[q]] /\ Asked' = [q \in Procs |-> Asked'[q]]
      /\ Decided = [q \in Procs |-> Decided[q]] /\ Decided' = [q \in Procs |-> Decided'[q]]
      /\ Replied = [q \in Procs |-> Replied[q]] /\ Replied' = [q \in Procs |-> Replied'[q]]
  BY DEF Asked, Decided, Replied
<1>2. \A q \in Procs \ {p} :
        /\ Asked'[q] = Asked[q] /\ Decided'[q] = Decided[q] /\ Replied'[q] = Replied[q]
  BY DEF Asked, Decided, Replied, OnlyMoves
<1> QED
  BY <1>1, <1>2

\* The verdict of p is reached, delivered, given at once, or withdrawn.
LEMMA AskStep ==
    ASSUME NEW p \in Procs, NEW c \in Codes, OnlyMoves(p), UNCHANGED <<links, issued, now>>,
           Asked[p] = NoCode, Asked'[p] = c, Decided'[p] = Decided[p], Replied'[p] = Silent
    PROVE  Directory!Ask(p, c)
<1>1. /\ Asked' = [Asked EXCEPT ![p] = c] /\ Decided' = Decided
      /\ Replied' = [Replied EXCEPT ![p] = Silent]
  <2>1. Decided = [q \in Procs |-> Decided[q]]
    BY DEF Decided
  <2> QED
    BY <2>1, MapMoves
<1> QED
  BY <1>1, SameSilence DEF Directory!Ask, Directory!tables, Asked, Decided, Replied

LEMMA DecideStep ==
    ASSUME NEW p \in Procs, OnlyMoves(p), UNCHANGED <<links, issued, now>>,
           Asked[p] # NoCode, Decided[p] = Silent, Asked'[p] = Asked[p],
           Replied'[p] = Replied[p], Directory!TrueOf(Asked[p], Decided'[p])
    PROVE  Directory!Decide(p)
<1>1. /\ Asked' = Asked /\ Replied' = Replied
      /\ Decided' = [Decided EXCEPT ![p] = Decided'[p]]
  <2>1. Asked = [q \in Procs |-> Asked[q]] /\ Replied = [q \in Procs |-> Replied[q]]
    BY DEF Asked, Replied
  <2> QED
    BY <2>1, MapMoves
<1> QED
  BY <1>1, SameSilence DEF Directory!Decide, Directory!tables, Asked, Decided, Replied

LEMMA DeliverStep ==
    ASSUME NEW p \in Procs, OnlyMoves(p), UNCHANGED <<links, issued, now>>,
           Decided[p] # Silent, Decided'[p] = Silent, Replied'[p] = Decided[p],
           Asked'[p] = NoCode
    PROVE  Directory!Deliver(p)
<1>1. /\ Asked' = [Asked EXCEPT ![p] = NoCode] /\ Decided' = [Decided EXCEPT ![p] = Silent]
      /\ Replied' = [Replied EXCEPT ![p] = Decided[p]]
  BY MapMoves
<1> QED
  BY <1>1, SameSilence DEF Directory!Deliver, Directory!tables, Asked, Decided, Replied

LEMMA AnswerStep ==
    ASSUME NEW p \in Procs, OnlyMoves(p), UNCHANGED <<links, issued, now>>,
           Asked[p] # NoCode, Decided[p] = Silent, Decided'[p] = Silent,
           Directory!TrueOf(Asked[p], Replied'[p]), Asked'[p] = NoCode
    PROVE  Directory!AnswerAtOnce(p)
<1>1. /\ Asked' = [Asked EXCEPT ![p] = NoCode] /\ Decided' = Decided
      /\ Replied' = [Replied EXCEPT ![p] = Replied'[p]]
  <2>1. Decided = [q \in Procs |-> Decided[q]]
    BY DEF Decided
  <2> QED
    BY <2>1, MapMoves
<1> QED
  BY <1>1, SameSilence DEF Directory!AnswerAtOnce, Directory!tables, Asked, Decided, Replied

LEMMA ClearStep ==
    ASSUME NEW p \in Procs, OnlyMoves(p), UNCHANGED <<links, issued, now>>,
           Asked[p] = NoCode, Asked'[p] = NoCode, Decided'[p] = Decided[p], Replied'[p] = Silent
    PROVE  Directory!Clear(p)
<1>1. /\ Asked' = Asked /\ Decided' = Decided /\ Replied' = [Replied EXCEPT ![p] = Silent]
  <2>1. Asked = [q \in Procs |-> Asked[q]] /\ Decided = [q \in Procs |-> Decided[q]]
    BY DEF Asked, Decided
  <2> QED
    BY <2>1, MapMoves
<1> QED
  BY <1>1, SameSilence DEF Directory!Clear, Directory!tables, Asked, Decided, Replied

\* A step that shows no visitor anything.
LEMMA QuietStep ==
    ASSUME NEW p \in Procs, OnlyMoves(p),
           Asked'[p] = Asked[p], Decided'[p] = Decided[p], Replied'[p] = Replied[p]
    PROVE  UNCHANGED <<Asked, Decided, Replied>>
<1>1. /\ Asked = [q \in Procs |-> Asked[q]] /\ Decided = [q \in Procs |-> Decided[q]]
      /\ Replied = [q \in Procs |-> Replied[q]]
  BY DEF Asked, Decided, Replied
<1> QED
  BY <1>1, MapMoves

\* The table changes by one link.
LEMMA ChangeStep ==
    ASSUME UNCHANGED <<now, Asked, Decided, Replied>>,
           \/ \E l \in links' : Directory!Register(l) \/ Directory!Reinstate(l)
           \/ \E l \in links, m \in links' : Directory!Amend(l, m)
           \/ \E l \in links : Directory!Withdraw(l)
    PROVE  Directory!ChangeLinks
BY DEF Directory!ChangeLinks, Asked, Decided, Replied

-----------------------------------------------------------------------------
\* What the store's steps show.

\* What p shows before its step.
LEMMA ShownAt ==
    ASSUME NEW p \in Procs, TypeOK, Quiet
    PROVE  /\ Asked[p] = visit[p].code /\ Asked[p] \in Codes \cup {NoCode}
           /\ Asked[p] # NoCode <=> pc[p] \in VisitLabels
           /\ pc[p] \notin {"warm", "drop"} => Decided[p] = Silent
           /\ pc[p] = "warm" => Decided[p] = Redirect(held[p].url, held[p].id)
           /\ pc[p] = "drop" => Decided[p] = Say("expired")
           /\ pc[p] # "idle" => Replied[p] = Silent
BY DEF TypeOK, RequestOK, Asked, Decided, Replied, Quiet, Silent, Say, VisitKinds

LEMMA FinishShows ==
    ASSUME NEW p \in Procs, NEW r, TypeOK, Finish(p, r)
    PROVE  /\ OnlyMoves(p) /\ Asked'[p] = NoCode /\ Decided'[p] = Silent
           /\ Replied'[p] = IF r.kind \in VisitKinds THEN r ELSE Silent
BY DEF TypeOK, RequestOK, Finish, OnlyMoves, Asked, Decided, Replied, NoVisit

LEMMA GotoShows ==
    ASSUME NEW p \in Procs, NEW label, TypeOK, Goto(p, label)
    PROVE  /\ OnlyMoves(p) /\ Asked'[p] = Asked[p] /\ Replied'[p] = Replied[p]
           /\ label = "drop" => Decided'[p] = Say("expired")
           /\ label \notin {"drop", "warm"} => Decided'[p] = Silent
BY DEF TypeOK, RequestOK, Goto, OnlyMoves, Asked, Decided, Replied

LEMMA BeginShows ==
    ASSUME NEW p \in Procs, TypeOK,
           Refuse(p) \/ \E l, label : label \notin {"drop", "warm"} /\ Begin(p, label, l)
    PROVE  /\ OnlyMoves(p) /\ pc[p] = "idle" /\ Asked'[p] = Asked[p]
           /\ Decided'[p] = Silent /\ Replied'[p] = Silent
<1>1. Decided'[p] = Silent
  <2>1. CASE Refuse(p)
    BY <2>1 DEF Refuse, TypeOK, RequestOK, Decided
  <2>2. ASSUME NEW l, NEW label, label \notin {"drop", "warm"}, Begin(p, label, l)
        PROVE  Decided'[p] = Silent
    BY <2>2 DEF Begin, TypeOK, RequestOK, Decided
  <2> QED
    BY <2>1, <2>2
<1>2. OnlyMoves(p) /\ pc[p] = "idle" /\ Asked'[p] = Asked[p]
  BY DEF Refuse, Begin, TypeOK, RequestOK, OnlyMoves, Asked
<1>3. Replied'[p] = Silent
  BY DEF Refuse, Begin, TypeOK, RequestOK, Replied, Say, Silent, VisitKinds
<1> QED
  BY <1>1, <1>2, <1>3

\* An owner's request that is done, or refused, clears what its client was told.
LEMMA OwnerDone ==
    ASSUME NEW p \in Procs, TypeOK, Quiet, UNCHANGED <<links, issued, now>>,
           pc[p] \notin VisitLabels, Finish(p, Say("ok")) \/ Finish(p, Say("failed"))
    PROVE  Directory!Clear(p)
<1>1. Say("ok").kind \notin VisitKinds /\ Say("failed").kind \notin VisitKinds
  BY DEF Say, VisitKinds
<1>2. /\ OnlyMoves(p) /\ Asked'[p] = NoCode /\ Decided'[p] = Silent /\ Replied'[p] = Silent
  BY <1>1, FinishShows
<1>3. Asked[p] = NoCode /\ Decided[p] = Silent
  BY ShownAt DEF VisitLabels
<1> QED
  BY <1>2, <1>3, ClearStep

\* A request's first call clears it too.
LEMMA OwnerBegun ==
    ASSUME NEW p \in Procs, TypeOK, Quiet, UNCHANGED <<links, issued, now>>,
           Refuse(p) \/ \E l, label : label \notin {"drop", "warm"} /\ Begin(p, label, l)
    PROVE  Directory!Clear(p)
<1>1. /\ OnlyMoves(p) /\ pc[p] = "idle" /\ Asked'[p] = Asked[p]
      /\ Decided'[p] = Silent /\ Replied'[p] = Silent
  BY BeginShows
<1>2. Asked[p] = NoCode /\ Decided[p] = Silent
  BY <1>1, ShownAt DEF VisitLabels
<1> QED
  BY <1>1, <1>2, ClearStep

\* A change of the table by a request that answers nobody yet.
LEMMA OwnerChanges ==
    ASSUME NEW p \in Procs, TypeOK, Quiet, UNCHANGED now, pc[p] \notin VisitLabels \cup {"idle"},
           \/ Finish(p, Say("ok"))
           \/ \E label \in StructLabels \ VisitLabels : Goto(p, label)
    PROVE  UNCHANGED <<Asked, Decided, Replied>>
<1>1. Asked[p] = NoCode /\ Decided[p] = Silent /\ Replied[p] = Silent
  BY ShownAt DEF VisitLabels
<1>2. CASE Finish(p, Say("ok"))
  <2>1. Say("ok").kind \notin VisitKinds
    BY DEF Say, VisitKinds
  <2> QED
    BY <1>1, <1>2, <2>1, FinishShows, QuietStep
<1>3. ASSUME NEW label \in StructLabels \ VisitLabels, Goto(p, label)
      PROVE  UNCHANGED <<Asked, Decided, Replied>>
  <2>1. label \notin {"drop", "warm"}
    BY DEF VisitLabels
  <2> QED
    BY <1>1, <1>3, <2>1, GotoShows, QuietStep
<1> QED
  BY <1>2, <1>3

\* A visit answered with a verdict that is true at that instant.
LEMMA VisitAnswered ==
    ASSUME NEW p \in Procs, TypeOK, Quiet, UNCHANGED <<links, issued, now>>,
           pc[p] \in {"hit", "miss"}, NEW r, r.kind \in VisitKinds,
           Finish(p, r), Directory!TrueOf(visit[p].code, r)
    PROVE  Directory!AnswerAtOnce(p)
<1>1. OnlyMoves(p) /\ Asked'[p] = NoCode /\ Decided'[p] = Silent /\ Replied'[p] = r
  BY FinishShows
<1>2. Asked[p] # NoCode /\ Decided[p] = Silent /\ Asked[p] = visit[p].code
  BY ShownAt DEF VisitLabels
<1> QED
  BY <1>1, <1>2, AnswerStep

\* Verdicts that are true.
LEMMA TrueVerdicts ==
    ASSUME NEW c
    PROVE  /\ Directory!TrueOf(c, Say("error"))
           /\ At(c) = {} => Directory!TrueOf(c, Say("notFound"))
           /\ \A u : RegisteredFor(c, u) => Directory!TrueOf(c, Redirect(u, 0))
           /\ \A l \in At(c) :
                /\ l.status = "inactive" => Directory!TrueOf(c, Say("inactive"))
                /\ Lapsed(l, now) => Directory!TrueOf(c, Say("expired"))
                /\ \A u : RegisteredFor(c, u) /\ Servable(l, now) =>
                     Directory!TrueOf(c, Redirect(u, l.id))
<1>1. \A k : Directory!Say(k) = Say(k)
  BY DEF Directory!Say, Say
<1>2. \A l, t : (Directory!Lapsed(l, t) <=> Lapsed(l, t))
             /\ (Directory!Servable(l, t) <=> Servable(l, t))
  BY DEF Directory!Lapsed, Lapsed, Directory!Servable, Servable
<1>3. \A u : RegisteredFor(c, u) => u \in Directory!UrlsOf(c)
  BY DEF RegisteredFor, Directory!UrlsOf
<1>4. \A u, i : /\ Redirect(u, i).kind = "redirect" /\ Redirect(u, i).url = u
                /\ Redirect(u, i).id = i
  BY DEF Redirect
<1>5. Directory!TrueOf(c, Say("error"))
  BY <1>1 DEF Directory!TrueOf
<1>6. At(c) = {} => Directory!TrueOf(c, Say("notFound"))
  BY <1>1 DEF Directory!TrueOf, Directory!Free, At
<1>7. \A u : RegisteredFor(c, u) => Directory!TrueOf(c, Redirect(u, 0))
  BY <1>3, <1>4 DEF Directory!TrueOf
<1>8. \A l \in At(c) : /\ l.status = "inactive" => Directory!TrueOf(c, Say("inactive"))
                       /\ Lapsed(l, now) => Directory!TrueOf(c, Say("expired"))
  BY <1>1, <1>2 DEF Directory!TrueOf, At
<1>9. \A l \in At(c) : \A u : RegisteredFor(c, u) /\ Servable(l, now) =>
        Directory!TrueOf(c, Redirect(u, l.id))
  BY <1>2, <1>3, <1>4 DEF Directory!TrueOf, At
<1> QED
  BY <1>5, <1>6, <1>7, <1>8, <1>9

-----------------------------------------------------------------------------
\* Each step of the store.

RefInv == TypeOK /\ Keys /\ UrlProvenance /\ Owners /\ Quiet

\* A step of the directory, or nothing happens there.
Shown == Directory!Next \/ UNCHANGED <<links, issued, now, Asked, Decided, Replied>>

LEMMA VisitGetShown ==
    ASSUME RefInv, NEW p \in Procs, VisitGet(p)
    PROVE  Shown
<1>1. PICK c \in Codes : VisitGet(p)!2!(c)
  BY DEF VisitGet
<1>2. /\ UNCHANGED <<links, issued, now, held>> /\ pc[p] = "idle"
      /\ reply' = [reply EXCEPT ![p] = Silent]
  BY DEF VisitGet, db
<1>3. /\ \A q \in Procs \ {p} : visit'[q] = visit[q] /\ pc'[q] = pc[q]
      /\ visit'[p].code = c /\ pc'[p] \in {"hit", "miss"}
  BY <1>1 DEF RefInv, TypeOK, RequestOK
<1>4. OnlyMoves(p) /\ Asked'[p] = c /\ Decided'[p] = Silent
  BY <1>2, <1>3 DEF OnlyMoves, Asked, Decided
<1>5. Replied'[p] = Silent
  BY <1>2 DEF RefInv, TypeOK, RequestOK, Replied, Silent, Say, VisitKinds
<1>6. Asked[p] = NoCode /\ Decided[p] = Silent
  BY <1>2, ShownAt DEF RefInv, VisitLabels
<1>7. Directory!Ask(p, c)
  BY <1>2, <1>4, <1>5, <1>6, AskStep
<1> QED
  BY <1>7 DEF Shown, Directory!Next

\* What a visit has of the table and the cache at its read.
LEMMA AtRead ==
    ASSUME RefInv, NEW p \in Procs, pc[p] \in {"hit", "miss"}
    PROVE  /\ visit[p].code \in Codes
           /\ \A l \in At(visit[p].code) :
                l \in Row /\ RegisteredFor(visit[p].code, l.url)
           /\ pc[p] = "hit" => RegisteredFor(visit[p].code, visit[p].url)
<1>1. visit[p].code \in Codes
  BY DEF RefInv, TypeOK, RequestOK, VisitLabels
<1>2. \A l \in At(visit[p].code) : l \in Row /\ KeyOf(l) \in issued
  BY DEF RefInv, TypeOK, StoreOK, Keys, At
<1>3. \A l \in At(visit[p].code) : RegisteredFor(visit[p].code, l.url)
  BY <1>2 DEF RegisteredFor, KeyOf, At
<1> QED
  BY <1>1, <1>2, <1>3 DEF RefInv, UrlProvenance

LEMMA VisitHitShown ==
    ASSUME RefInv, NEW p \in Procs, VisitHit(p)
    PROVE  Shown
<1>0. PICK c : c = visit[p].code
  OBVIOUS
<1>1. /\ UNCHANGED <<links, issued, now>> /\ pc[p] = "hit" /\ RegisteredFor(c, visit[p].url)
      /\ \A l \in At(c) : l \in Row
  BY <1>0, AtRead DEF VisitHit, db
<1>2. ASSUME NEW r, Finish(p, r), r.kind \in VisitKinds, Directory!TrueOf(c, r) PROVE Shown
  BY <1>0, <1>1, <1>2, VisitAnswered DEF RefInv, Shown, Directory!Next
<1>3. /\ \A u, i : Redirect(u, i).kind \in VisitKinds
      /\ Say("inactive").kind \in VisitKinds
  BY DEF Redirect, Say, VisitKinds
<1>4. CASE Finish(p, Redirect(visit[p].url, 0))
  BY <1>1, <1>2, <1>3, <1>4, TrueVerdicts
<1>5. ASSUME NEW l \in At(c), l.status # "active", Finish(p, Say("inactive")) PROVE Shown
  <2>1. l.status = "inactive"
    BY <1>1, <1>5 DEF Row, Statuses
  <2> QED
    BY <1>2, <1>3, <1>5, <2>1, TrueVerdicts
<1>6. ASSUME NEW l \in At(c), Servable(l, now), Finish(p, Redirect(visit[p].url, l.id))
      PROVE  Shown
  BY <1>1, <1>2, <1>3, <1>6, TrueVerdicts
<1>7. ASSUME NEW l \in At(c), Lapsed(l, now), Goto(p, "drop") PROVE Shown
  <2>1. /\ OnlyMoves(p) /\ Asked'[p] = Asked[p] /\ Replied'[p] = Replied[p]
        /\ Decided'[p] = Say("expired")
    BY <1>7, GotoShows DEF RefInv
  <2>2. Asked[p] # NoCode /\ Decided[p] = Silent /\ Asked[p] = c
    BY <1>0, <1>1, ShownAt DEF RefInv, VisitLabels
  <2>3. Directory!TrueOf(c, Say("expired"))
    BY <1>7, TrueVerdicts
  <2>4. Directory!Decide(p)
    BY <1>1, <2>1, <2>2, <2>3, DecideStep
  <2> QED
    BY <2>4 DEF Shown, Directory!Next
<1> QED
  BY <1>0, <1>4, <1>5, <1>6, <1>7 DEF VisitHit

LEMMA VisitMissShown ==
    ASSUME RefInv, NEW p \in Procs, VisitMiss(p)
    PROVE  Shown
<1>0. PICK c : c = visit[p].code
  OBVIOUS
<1>1. /\ UNCHANGED <<links, issued, now>> /\ pc[p] = "miss"
      /\ \A l \in At(c) : l \in Row /\ RegisteredFor(c, l.url)
  BY <1>0, AtRead DEF VisitMiss, db
<1>2. ASSUME NEW r, Finish(p, r), r.kind \in VisitKinds, Directory!TrueOf(c, r) PROVE Shown
  BY <1>0, <1>1, <1>2, VisitAnswered DEF RefInv, Shown, Directory!Next
<1>3. \A k \in {"inactive", "expired", "notFound"} : Say(k).kind \in VisitKinds
  BY DEF Say, VisitKinds
<1>4. CASE At(c) = {} /\ Finish(p, Say("notFound"))
  BY <1>2, <1>3, <1>4, TrueVerdicts
<1>5. ASSUME NEW l \in At(c), l.status # "active", Finish(p, Say("inactive")) PROVE Shown
  <2>1. l.status = "inactive"
    BY <1>1, <1>5 DEF Row, Statuses
  <2> QED
    BY <1>2, <1>3, <1>5, <2>1, TrueVerdicts
<1>6. ASSUME NEW l \in At(c), Lapsed(l, now), Finish(p, Say("expired")) PROVE Shown
  BY <1>2, <1>3, <1>6, TrueVerdicts
<1>7. ASSUME NEW l \in At(c), Servable(l, now), pc' = [pc EXCEPT ![p] = "warm"],
             held' = [held EXCEPT ![p] = l], UNCHANGED <<visit, reply, met>>
      PROVE  Shown
  <2>1. /\ OnlyMoves(p) /\ Asked'[p] = Asked[p] /\ Replied'[p] = Replied[p]
        /\ Decided'[p] = Redirect(l.url, l.id)
    BY <1>7 DEF RefInv, TypeOK, RequestOK, OnlyMoves, Asked, Decided, Replied
  <2>2. Asked[p] # NoCode /\ Decided[p] = Silent /\ Asked[p] = c
    BY <1>0, <1>1, ShownAt DEF RefInv, VisitLabels
  <2>3. Directory!TrueOf(c, Redirect(l.url, l.id))
    BY <1>1, <1>7, TrueVerdicts
  <2>4. Directory!Decide(p)
    BY <1>1, <2>1, <2>2, <2>3, DecideStep
  <2> QED
    BY <2>4 DEF Shown, Directory!Next
<1> QED
  BY <1>0, <1>4, <1>5, <1>6, <1>7 DEF VisitMiss

\* The verdict was reached at the read of the table; now the visitor hears it.
LEMMA VisitDelivered ==
    ASSUME RefInv, NEW p \in Procs, VisitDrop(p) \/ VisitWarm(p)
    PROVE  Shown
<1>1. UNCHANGED <<links, issued, now>>
  BY DEF VisitDrop, VisitWarm, db
<1>2. PICK r : /\ Finish(p, r) /\ r.kind \in {"expired", "redirect"} /\ r = Decided[p]
  BY ShownAt DEF RefInv, VisitDrop, VisitWarm, Say, Redirect
<1>3. OnlyMoves(p) /\ Asked'[p] = NoCode /\ Decided'[p] = Silent /\ Replied'[p] = r
  BY <1>2, FinishShows DEF RefInv, VisitKinds
<1>4. r # Silent
  BY <1>2 DEF Silent, Say
<1>5. Directory!Deliver(p)
  BY <1>1, <1>2, <1>3, <1>4, DeliverStep
<1> QED
  BY <1>5 DEF Shown, Directory!Next

LEMMA CreateInsertShown ==
    ASSUME RefInv, NEW p \in Procs, CreateInsert(p)
    PROVE  Shown
<1> DEFINE l == [held[p] EXCEPT !.id = nextId]
<1>1. /\ held[p] \in Row /\ pc[p] = "insert" /\ now' = now
  BY DEF CreateInsert, RefInv, TypeOK, RequestOK, Labels, StructLabels
<1>2. CASE At(l.code) = {}
  <2>1. /\ links' = links \cup {l} /\ issued' = issued \cup {KeyOf(l)}
        /\ held' = [held EXCEPT ![p] = l] /\ pc' = [pc EXCEPT ![p] = "fill"]
        /\ UNCHANGED <<visit, reply>>
    BY <1>2 DEF CreateInsert
  <2>2. l.id = nextId /\ \A k \in issued : k.id # nextId
    BY <1>1 DEF Row, RefInv, Keys, TypeOK, StoreOK, Key
  <2>3. \A q \in Procs : /\ pc[q] \notin {"warm", "drop"} \/ (pc'[q] = pc[q] /\ held'[q] = held[q])
                         /\ pc'[q] \notin {"warm", "drop"} \/ pc'[q] = pc[q]
    BY <1>1, <2>1 DEF RefInv, TypeOK, RequestOK
  <2>4. UNCHANGED <<Asked, Decided, Replied>>
    <3>1. UNCHANGED <<Asked, Replied>>
      BY <2>1 DEF Asked, Replied
    <3>2. \A q \in Procs : Decided'[q] = Decided[q]
      BY <2>3 DEF Decided
    <3>3. Decided = [q \in Procs |-> Decided[q]] /\ Decided' = [q \in Procs |-> Decided'[q]]
      BY DEF Decided
    <3> QED
      BY <3>1, <3>2, <3>3
  <2> HIDE DEF l
  <2>5. Directory!KeyOf(l) = KeyOf(l)
    BY DEF Directory!KeyOf, KeyOf
  <2>6. Directory!Register(l)
    BY <1>2, <2>1, <2>2, <2>5 DEF Directory!Register, Directory!Free, At
  <2>7. Directory!ChangeLinks
    BY <1>1, <2>1, <2>4, <2>6, ChangeStep
  <2> QED
    BY <2>7 DEF Shown, Directory!Next
<1>3. CASE At(l.code) # {}
  <2>1. UNCHANGED <<links, issued, now>> /\ Finish(p, Say("failed"))
    BY <1>3 DEF CreateInsert, db
  <2>2. Directory!Clear(p)
    BY <1>1, <2>1, OwnerDone DEF RefInv, VisitLabels
  <2> QED
    BY <2>2 DEF Shown, Directory!Next
<1> QED
  BY <1>2, <1>3

\* A struct written back is the row it came from, amended, or reinstates it.
LEMMA WriteBackShown ==
    ASSUME RefInv, NEW p \in Procs, pc[p] \in {"save", "reinsert"},
           UNCHANGED <<issued, now>>, Goto(p, "purge"),
           links' = (links \ WithId(held[p].id)) \cup {held[p]},
           WithId(held[p].id) = {} => At(held[p].code) = {}
    PROVE  Shown
<1>0. PICK m : m = held[p]
  OBVIOUS
<1>1. m \in Structs /\ KeyOf(m) \in issued /\ m \in links'
  BY <1>0 DEF RefInv, Structs, Keys, StructLabels, Labels
<1>2. UNCHANGED <<Asked, Decided, Replied>>
  BY OwnerChanges DEF RefInv, VisitLabels, StructLabels, Labels
<1>3. \A l : Directory!KeyOf(l) = KeyOf(l)
  BY DEF Directory!KeyOf, KeyOf
<1>4. ASSUME NEW l \in WithId(m.id) PROVE Directory!Amend(l, m) /\ l \in links
  <2>1. l \in links /\ l.id = m.id /\ KeyOf(l) \in issued /\ l \in Structs
    BY DEF WithId, RefInv, Keys, Structs
  <2>2. KeyOf(l).id = l.id /\ KeyOf(m).id = m.id
    BY DEF KeyOf
  <2>3. KeyOf(m) = KeyOf(l)
    BY <1>1, <2>1, <2>2 DEF RefInv, Keys
  <2>4. m.user = l.user
    BY <1>1, <2>1 DEF RefInv, Owners
  <2>5. WithId(m.id) = {l}
    BY <2>1 DEF WithId, RefInv, Keys
  <2> QED
    BY <1>0, <1>3, <2>1, <2>3, <2>4, <2>5 DEF Directory!Amend
<1>5. CASE WithId(m.id) = {}
  <2>1. Directory!Reinstate(m)
    BY <1>0, <1>1, <1>3, <1>5 DEF Directory!Reinstate, Directory!Free, At
  <2> QED
    BY <1>1, <1>2, <2>1, ChangeStep DEF Shown, Directory!Next
<1> QED
  BY <1>1, <1>2, <1>4, <1>5, ChangeStep DEF Shown, Directory!Next

LEMMA UpdateSaveShown ==
    ASSUME RefInv, NEW p \in Procs, UpdateSave(p)
    PROVE  Shown
<1>1. UNCHANGED <<issued, now>> /\ pc[p] = "save"
  BY DEF UpdateSave
<1>2. CASE WithId(held[p].id) # {}
  BY <1>1, <1>2, WriteBackShown DEF UpdateSave
<1>3. CASE WithId(held[p].id) = {}
  <2>1. links' = links /\ Goto(p, "reinsert")
    BY <1>3 DEF UpdateSave
  <2>2. UNCHANGED <<Asked, Decided, Replied>>
    BY <1>1, <2>1, OwnerChanges DEF RefInv, VisitLabels, StructLabels, Labels
  <2> QED
    BY <1>1, <2>1, <2>2 DEF Shown
<1> QED
  BY <1>2, <1>3

LEMMA UpdateReinsertShown ==
    ASSUME RefInv, NEW p \in Procs, UpdateReinsert(p)
    PROVE  Shown
<1>1. UNCHANGED <<issued, now>> /\ pc[p] = "reinsert"
  BY DEF UpdateReinsert
<1>2. CASE At(held[p].code) \subseteq WithId(held[p].id)
  BY <1>1, <1>2, WriteBackShown DEF UpdateReinsert
<1>3. CASE ~(At(held[p].code) \subseteq WithId(held[p].id))
  <2>1. links' = links /\ Finish(p, Say("failed"))
    BY <1>3 DEF UpdateReinsert
  <2>2. Directory!Clear(p)
    BY <1>1, <2>1, OwnerDone DEF RefInv, VisitLabels
  <2> QED
    BY <2>2 DEF Shown, Directory!Next
<1> QED
  BY <1>2, <1>3

LEMMA DeleteRemoveShown ==
    ASSUME RefInv, NEW p \in Procs, DeleteRemove(p)
    PROVE  Shown
<1>1. /\ UNCHANGED <<issued, now>> /\ pc[p] = "remove" /\ Finish(p, Say("ok"))
      /\ links' = {l \in links : ~(l.id = held[p].id /\ l.user = held[p].user)}
  BY DEF DeleteRemove
<1>2. UNCHANGED <<Asked, Decided, Replied>>
  BY <1>1, OwnerChanges DEF RefInv, VisitLabels
<1>3. CASE links' = links
  BY <1>1, <1>2, <1>3 DEF Shown
<1>4. CASE links' # links
  <2>1. PICK l \in links : l.id = held[p].id /\ l.user = held[p].user
    BY <1>1, <1>4
  <2>2. links' = links \ {l}
    BY <1>1, <2>1 DEF RefInv, Keys
  <2>3. Directory!Withdraw(l)
    BY <1>1, <2>2 DEF Directory!Withdraw
  <2> QED
    BY <1>1, <1>2, <2>3, ChangeStep DEF Shown, Directory!Next
<1> QED
  BY <1>3, <1>4

LEMMA DbErrorShown ==
    ASSUME RefInv, NEW p \in Procs, DbError(p)
    PROVE  Shown
<1>1. /\ UNCHANGED <<links, issued, now>>
      /\ pc[p] \in {"insert", "miss", "save", "reinsert", "remove"}
      /\ visit[p] = NoVisit <=> pc[p] # "miss"
      /\ Finish(p, IF visit[p] = NoVisit THEN Say("failed") ELSE Say("error"))
  BY DEF DbError, db, RefInv, TypeOK, RequestOK, VisitLabels
<1>2. CASE pc[p] = "miss"
  <2>1. Finish(p, Say("error")) /\ Say("error").kind \in VisitKinds
    BY <1>1, <1>2 DEF Say, VisitKinds
  <2>2. Directory!AnswerAtOnce(p)
    BY <1>1, <1>2, <2>1, TrueVerdicts, VisitAnswered DEF RefInv
  <2> QED
    BY <2>2 DEF Shown, Directory!Next
<1>3. CASE pc[p] # "miss"
  <2>1. Directory!Clear(p)
    BY <1>1, <1>3, OwnerDone DEF RefInv, VisitLabels
  <2> QED
    BY <2>1 DEF Shown, Directory!Next
<1> QED
  BY <1>2, <1>3

LEMMA RestartShown ==
    ASSUME RefInv, Restart
    PROVE  Shown
<1>1. UNCHANGED <<links, issued, now>>
  BY DEF Restart, db
<1>2. /\ Asked' = [p \in Procs |-> NoCode] /\ Decided' = [p \in Procs |-> Silent]
      /\ Replied' = [p \in Procs |-> Silent]
  BY DEF Restart, Asked, Decided, Replied, NoVisit
<1>3. Directory!GoDown
  BY <1>1, <1>2, SameSilence DEF Directory!GoDown, Directory!tables, Asked, Decided, Replied
<1> QED
  BY <1>3 DEF Shown, Directory!Next

LEMMA TickShown ==
    ASSUME Tick
    PROVE  Shown
<1>1. UNCHANGED <<links, issued, Asked, Decided, Replied>> /\ now' = now + 1
  BY DEF Tick, db, request, Asked, Decided, Replied
<1>2. Directory!Tick
  BY <1>1 DEF Directory!Tick, Directory!tables, Asked, Decided, Replied
<1> QED
  BY <1>2 DEF Shown, Directory!Next

\* The store implements the directory: every verdict a visitor gets was true of
\* the table at an instant of his visit, and every change of the table is one the
\* directory allows (Create, Resolve, Update, Delete with all their interleavings,
\* failures and restarts).
THEOREM StoreImplementsDirectory == Spec => ImplementsDirectory
<1>1. Init => Directory!Init
  BY SameSilence DEF Init, Directory!Init, NoVisit, Silent, Say, VisitKinds
<1>2. RefInv /\ [Next]_vars => [Directory!Next]_(Directory!dvars)
  <2> SUFFICES ASSUME RefInv, [Next]_vars PROVE [Directory!Next]_(Directory!dvars)
    OBVIOUS
  <2>1. Shown => [Directory!Next]_(Directory!dvars)
    BY DEF Shown, Directory!dvars, Asked, Decided, Replied
  <2>2. ASSUME UNCHANGED vars PROVE Shown
    BY <2>2 DEF vars, Shown, Asked, Decided, Replied
  <2>3. ASSUME NEW p \in Procs, CreateCheck(p) \/ UpdateFind(p) \/ DeleteFind(p) PROVE Shown
    <3>1. UNCHANGED <<links, issued, now>>
          /\ (Refuse(p) \/ \E l, label : label \notin {"drop", "warm"} /\ Begin(p, label, l))
      <4>1. "insert" \notin {"drop", "warm"} /\ "save" \notin {"drop", "warm"}
            /\ "unlist" \notin {"drop", "warm"}
        OBVIOUS
      <4> QED
        BY <2>3, <4>1 DEF CreateCheck, UpdateFind, DeleteFind, db
    <3>2. Directory!Clear(p)
      BY <3>1, OwnerBegun DEF RefInv
    <3> QED
      BY <3>2 DEF Shown, Directory!Next
  <2>4. ASSUME NEW p \in Procs, CreateFill(p) \/ UpdatePurge(p) PROVE Shown
    <3>1. UNCHANGED <<links, issued, now>> /\ pc[p] \notin VisitLabels /\ Finish(p, Say("ok"))
      BY <2>4 DEF CreateFill, UpdatePurge, db, VisitLabels
    <3>2. Directory!Clear(p)
      BY <3>1, OwnerDone DEF RefInv
    <3> QED
      BY <3>2 DEF Shown, Directory!Next
  <2>5. ASSUME NEW p \in Procs, DeleteUnlist(p) PROVE Shown
    <3>1. UNCHANGED <<links, issued, now>> /\ pc[p] = "unlist" /\ Goto(p, "remove")
      BY <2>5 DEF DeleteUnlist, db
    <3>2. UNCHANGED <<Asked, Decided, Replied>>
      BY <3>1, OwnerChanges DEF RefInv, VisitLabels, StructLabels, Labels
    <3> QED
      BY <3>1, <3>2 DEF Shown
  <2> QED
    BY <2>1, <2>2, <2>3, <2>4, <2>5, TickShown, RestartShown, CreateInsertShown, VisitGetShown,
       VisitHitShown, VisitMissShown, VisitDelivered, UpdateSaveShown, UpdateReinsertShown,
       DeleteRemoveShown, DbErrorShown DEF Next
<1> QED
  BY <1>1, <1>2, TypeCorrect, KeysInvariant, UrlsComeFromTheirCode, OwnersStay, PTL
     DEF Spec, RefInv, ImplementsDirectory, Directory!Spec
=============================================================================
