---------------------------- MODULE VisitsProofs ----------------------------
(***************************************************************************)
(* Proofs about Visits, for every set of links, visitors and log workers,  *)
(* every capacity, window, minute and bound. The invariant has four parts: *)
(* the click counters, the way of an entry to its row, the verdicts of the *)
(* de-duplication, and the realtime buckets.                               *)
(***************************************************************************)
EXTENDS Visits, Recursion, SequenceTheorems

-----------------------------------------------------------------------------
\* What each variable holds.

Visit == [link : Links, who : Visitors, at : Nat]
Edit == [link : Links \cup {NoEdit.link}, seen : Nat, on : BOOLEAN, count : Nat]

ClickShape ==
    /\ visits \in Seq(Visit) /\ Len(visits) <= MaxVisits
    /\ counting \in SUBSET DOMAIN visits
    /\ clicks \in [Links -> Nat] /\ drifted \in SUBSET Links
    /\ edit \in Edit /\ (edit.on => edit.link \in Links)

\* No counter, and no count read by an update, is ahead of the goroutines that
\* have run.
Counted(l) == Cardinality(OfThis(l))
Pending(l) == Cardinality(OfThis(l) \cap counting)
Ran(l, c) == c + Pending(l) <= Counted(l)

\* What ClicksExact says of a link that lost no click.
Exact == \A l \in Links \ drifted : clicks[l] + Pending(l) = Counted(l)

ClickInv ==
    /\ ClickShape
    /\ \A l \in Links : Ran(l, clicks[l])
    /\ edit.on => Ran(edit.link, edit.seen)
    /\ Exact

-----------------------------------------------------------------------------
\* The click counters.

\* The visits of a link are finitely many.
LEMMA VisitsOfLink ==
    ASSUME ClickShape, NEW l
    PROVE  /\ DOMAIN visits = 1..Len(visits) /\ Len(visits) \in Nat
           /\ IsFiniteSet(DOMAIN visits) /\ IsFiniteSet(OfThis(l))
           /\ IsFiniteSet(OfThis(l) \cap counting)
           /\ Counted(l) \in Nat /\ Counted(l) <= MaxVisits /\ Pending(l) \in Nat
<1>1. DOMAIN visits = 1..Len(visits) /\ Len(visits) \in Nat /\ 1 \in Int /\ Len(visits) \in Int
  BY DEF ClickShape
<1>2. IsFiniteSet(DOMAIN visits) /\ Cardinality(DOMAIN visits) = Len(visits)
  <2>1. IsFiniteSet(1..Len(visits)) /\ Cardinality(1..Len(visits)) =
            IF 1 > Len(visits) THEN 0 ELSE Len(visits) - 1 + 1
    BY <1>1, FS_Interval, Zenon
  <2> QED
    BY <1>1, <2>1
<1>3. OfThis(l) \in SUBSET DOMAIN visits /\ OfThis(l) \cap counting \in SUBSET DOMAIN visits
  BY DEF OfThis
<1>4. /\ IsFiniteSet(OfThis(l)) /\ IsFiniteSet(OfThis(l) \cap counting)
      /\ Cardinality(OfThis(l)) <= Len(visits)
  BY <1>2, <1>3, FS_Subset
<1>5. Cardinality(OfThis(l)) \in Nat /\ Cardinality(OfThis(l) \cap counting) \in Nat
  BY <1>4, FS_CardinalityType
<1> QED
  BY <1>1, <1>2, <1>4, <1>5, VisitAssumption DEF ClickShape, Counted, Pending

\* A redirect adds one visit, and its goroutine.
LEMMA RedirectCounts ==
    ASSUME ClickInv, now \in Nat, NEW l \in Links, NEW v \in Visitors, Redirect(l, v)
    PROVE  ClickInv'
<1> DEFINE n == Len(visits) + 1
<1>1. /\ DOMAIN visits = 1..Len(visits) /\ Len(visits) \in Nat
      /\ visits' = Append(visits, [link |-> l, who |-> v, at |-> now])
      /\ [link |-> l, who |-> v, at |-> now] \in Visit
  BY DEF ClickInv, ClickShape, Redirect, Visit
<1>2. /\ visits' \in Seq(Visit) /\ DOMAIN visits' = DOMAIN visits \cup {n}
      /\ Len(visits') = n /\ n \notin DOMAIN visits
      /\ visits'[n].link = l /\ \A k \in DOMAIN visits : visits'[k] = visits[k]
  BY <1>1 DEF ClickInv, ClickShape
<1>3. counting' = counting \cup {n} /\ counting \in SUBSET DOMAIN visits
  BY <1>1, <1>2 DEF Redirect, ClickInv, ClickShape
<1>4. ClickShape'
  BY <1>1, <1>2, <1>3, VisitAssumption DEF ClickInv, ClickShape, Redirect
<1>5. ASSUME NEW k \in Links
      PROVE  \/ Counted(k)' = Counted(k) /\ Pending(k)' = Pending(k)
             \/ Counted(k)' = Counted(k) + 1 /\ Pending(k)' = Pending(k) + 1
  <2>1. IsFiniteSet(OfThis(k)) /\ IsFiniteSet(OfThis(k) \cap counting)
    BY VisitsOfLink DEF ClickInv
  <2>2. CASE k = l
    <3>1. /\ OfThis(k)' = OfThis(k) \cup {n} /\ n \notin OfThis(k)
          /\ (OfThis(k) \cap counting)' = (OfThis(k) \cap counting) \cup {n}
      BY <1>2, <1>3, <2>2 DEF OfThis
    <3> HIDE DEF n
    <3> QED
      BY <2>1, <3>1, FS_AddElement DEF Counted, Pending
  <2>3. CASE k # l
    BY <1>2, <1>3, <2>3 DEF OfThis, Counted, Pending
  <2> QED
    BY <2>2, <2>3
<1>6. ASSUME NEW k \in Links, NEW c \in Nat, Ran(k, c)
      PROVE  Ran(k, c)'
  <2>1. /\ Counted(k) \in Nat /\ Pending(k) \in Nat
    BY VisitsOfLink DEF ClickInv
  <2> QED
    BY <1>5, <1>6, <2>1 DEF Ran
<1>7. clicks' = clicks /\ edit' = edit /\ drifted' = drifted
  BY DEF Redirect
<1>8. /\ \A k \in Links : Ran(k, clicks[k]) /\ clicks[k] \in Nat
      /\ edit.on => edit.link \in Links /\ edit.seen \in Nat /\ Ran(edit.link, edit.seen)
  BY DEF ClickInv, ClickShape, Edit
<1>9. Exact'
  <2> SUFFICES ASSUME NEW k \in Links, k \notin drifted
               PROVE  clicks[k] + Pending(k)' = Counted(k)'
    BY <1>7 DEF Exact
  <2>1. /\ Counted(k) \in Nat /\ Pending(k) \in Nat
        /\ clicks[k] + Pending(k) = Counted(k)
    BY VisitsOfLink DEF ClickInv, Exact
  <2> QED
    BY <1>5, <1>8, <2>1
<1>10. \A k \in Links : Ran(k, clicks[k])'
  BY <1>6, <1>7, <1>8
<1> QED
  BY <1>4, <1>6, <1>7, <1>8, <1>9, <1>10 DEF ClickInv

\* The goroutine of a visit ends, with a click more or one that is lost.
LEMMA IncrClickCounts ==
    ASSUME ClickInv, NEW n, IncrClick(n)
    PROVE  ClickInv'
<1> DEFINE l == visits[n].link
<1>1. /\ n \in counting /\ n \in DOMAIN visits /\ l \in Links /\ visits' = visits
      /\ counting' = counting \ {n} /\ edit' = edit
      /\ drifted \in SUBSET Links /\ clicks \in [Links -> Nat]
  <2>1. n \in counting /\ visits' = visits /\ counting' = counting \ {n} /\ edit' = edit
    BY DEF IncrClick
  <2>2. /\ visits \in Seq(Visit) /\ counting \in SUBSET DOMAIN visits
        /\ drifted \in SUBSET Links /\ clicks \in [Links -> Nat]
    BY DEF ClickInv, ClickShape
  <2>3. n \in DOMAIN visits /\ visits[n] \in Visit
    BY <2>1, <2>2
  <2> QED
    BY <2>1, <2>2, <2>3 DEF Visit
<1>2. \/ clicks' = [clicks EXCEPT ![l] = @ + 1] /\ drifted' = drifted
      \/ clicks' = clicks /\ drifted' = drifted \cup {l}
  BY DEF IncrClick
<1> HIDE DEF l
<1>3. ClickShape'
  BY <1>1, <1>2 DEF ClickInv, ClickShape
<1>4. ASSUME NEW k \in Links
      PROVE  /\ OfThis(k)' = OfThis(k) /\ Counted(k) \in Nat
             /\ Pending(k) \in Nat /\ Counted(k)' = Counted(k)
             /\ Pending(k)' = IF k = l THEN Pending(k) - 1 ELSE Pending(k)
  <2>1. /\ IsFiniteSet(OfThis(k) \cap counting) /\ OfThis(k)' = OfThis(k)
        /\ Counted(k) \in Nat /\ Pending(k) \in Nat
    BY <1>1, VisitsOfLink DEF ClickInv, OfThis
  <2>2. /\ (OfThis(k) \cap counting)' = (OfThis(k) \cap counting) \ {n}
        /\ n \in OfThis(k) \cap counting <=> k = l
    BY <1>1, <2>1 DEF OfThis, l
  <2> QED
    BY <2>1, <2>2, FS_RemoveElement DEF Counted, Pending
<1>5. \A k \in Links : Ran(k, clicks[k]) /\ clicks[k] \in Nat
  BY <1>1 DEF ClickInv
<1>6. ASSUME NEW k \in Links PROVE Ran(k, clicks[k])'
  <2>1. /\ clicks'[k] \in Nat
        /\ clicks'[k] = clicks[k] \/ (k = l /\ clicks'[k] = clicks[k] + 1)
    BY <1>1, <1>2, <1>5
  <2> QED
    BY <1>1, <1>4, <1>5, <2>1 DEF Ran
<1>7. edit.on => Ran(edit.link, edit.seen)'
  <2> SUFFICES ASSUME edit.on PROVE Ran(edit.link, edit.seen)'
    OBVIOUS
  <2>1. edit.link \in Links /\ edit.seen \in Nat /\ Ran(edit.link, edit.seen)
    BY DEF ClickInv, ClickShape, Edit
  <2> QED
    BY <1>1, <1>4, <2>1 DEF Ran
<1>8. Exact'
  <2> SUFFICES ASSUME NEW k \in Links, k \notin drifted'
               PROVE  (clicks[k] + Pending(k) = Counted(k))'
    BY DEF Exact
  <2>1. k \notin drifted /\ clicks[k] + Pending(k) = Counted(k)
    BY <1>2 DEF ClickInv, Exact
  <2> QED
    BY <1>1, <1>2, <1>4, <1>5, <2>1
<1> QED
  BY <1>1, <1>3, <1>6, <1>7, <1>8 DEF ClickInv

\* An update reads a count no higher than it may be, and saves it.
LEMMA EditCounts ==
    ASSUME ClickInv, EditSave \/ \E l \in Links : EditFind(l)
    PROVE  ClickInv'
<1>1. /\ visits' = visits /\ counting' = counting
      /\ clicks \in [Links -> Nat] /\ drifted \in SUBSET Links
      /\ edit \in Edit /\ (edit.on => edit.link \in Links)
  BY DEF EditSave, EditFind, ClickInv, ClickShape
<1>2. \A k : /\ Counted(k)' = Counted(k) /\ Pending(k)' = Pending(k)
             /\ \A c : Ran(k, c)' <=> Ran(k, c)
  BY <1>1 DEF OfThis, Ran, Counted, Pending
<1>3. CASE \E l \in Links : EditFind(l)
  <2> PICK l \in Links : EditFind(l)
    BY <1>3
  <2> DEFINE e == [link |-> l, seen |-> clicks[l], on |-> TRUE, count |-> edit.count + 1]
  <2>1. edit' = e /\ clicks' = clicks /\ drifted' = drifted
    BY DEF EditFind, history
  <2>2. e \in Edit /\ e.link = l /\ e.seen = clicks[l]
    BY <1>1 DEF Edit
  <2> HIDE DEF e
  <2>3. ClickShape'
    BY <1>1, <2>1, <2>2 DEF ClickInv, ClickShape
  <2> QED
    BY <1>1, <1>2, <2>1, <2>2, <2>3 DEF ClickInv, Exact
<1>4. CASE EditSave
  <2> DEFINE l == edit.link
             e == [edit EXCEPT !.on = FALSE]
  <2>1. /\ edit.on /\ edit' = e /\ l \in Links /\ edit.seen \in Nat /\ Ran(l, edit.seen)
        /\ \/ clicks' = [clicks EXCEPT ![l] = edit.seen]
              /\ drifted' = IF clicks[l] = edit.seen THEN drifted ELSE drifted \cup {l}
           \/ clicks' = clicks /\ drifted' = drifted
    BY <1>1, <1>4 DEF EditSave, ClickInv, Edit
  <2>2. e \in Edit /\ ~e.on
    BY <1>1 DEF Edit
  <2> HIDE DEF e, l
  <2>3. ClickShape'
    BY <1>1, <2>1, <2>2 DEF ClickInv, ClickShape
  <2>4. \A k \in Links : Ran(k, clicks'[k])
    BY <1>1, <2>1 DEF ClickInv
  <2>5. Exact'
    BY <1>1, <1>2, <2>1 DEF ClickInv, Exact
  <2> QED
    BY <1>1, <1>2, <2>1, <2>2, <2>3, <2>4, <2>5 DEF ClickInv
<1> QED
  BY <1>3, <1>4

\* A crash loses the goroutines, and the update, under way.
LEMMA CrashCounts ==
    ASSUME ClickInv, Crash
    PROVE  ClickInv'
<1> DEFINE e == [edit EXCEPT !.on = FALSE]
<1>1. /\ visits' = visits /\ counting' = {} /\ clicks' = clicks /\ edit' = e
      /\ drifted' = drifted \cup {visits[n].link : n \in counting}
      /\ visits \in Seq(Visit) /\ counting \in SUBSET DOMAIN visits
      /\ clicks \in [Links -> Nat] /\ drifted \in SUBSET Links /\ edit \in Edit
  BY DEF Crash, ClickInv, ClickShape
<1>2. e \in Edit /\ ~e.on
  BY <1>1 DEF Edit
<1> HIDE DEF e
<1>3. ClickShape'
  <2>1. \A n \in counting : visits[n] \in Visit
    BY <1>1
  <2>2. \A n \in counting : visits[n].link \in Links
    BY <2>1 DEF Visit
  <2> QED
    BY <1>1, <1>2, <2>2 DEF ClickInv, ClickShape
<1>4. ASSUME NEW k \in Links
      PROVE  /\ OfThis(k)' = OfThis(k) /\ Counted(k) \in Nat
             /\ Pending(k) \in Nat /\ Counted(k)' = Counted(k)
             /\ Pending(k)' = 0 /\ clicks[k] \in Nat
             /\ Pending(k) = 0 \/ k \in drifted'
  <2>1. OfThis(k)' = OfThis(k) /\ (OfThis(k) \cap counting)' = {}
    BY <1>1 DEF OfThis
  <2>2. OfThis(k) \cap counting = {} \/ k \in drifted'
    BY <1>1 DEF OfThis
  <2>3. Cardinality({}) = 0
    BY FS_EmptySet
  <2> QED
    BY <1>1, <2>1, <2>2, <2>3, VisitsOfLink DEF ClickInv, Counted, Pending
<1>5. ASSUME NEW k \in Links PROVE Ran(k, clicks[k])'
  <2>1. /\ Ran(k, clicks[k]) /\ clicks[k] \in Nat /\ Counted(k) \in Nat /\ Pending(k) \in Nat
        /\ Counted(k)' = Counted(k) /\ Pending(k)' = 0
    BY <1>4 DEF ClickInv
  <2>2. clicks'[k] = clicks[k] /\ clicks[k] \in Nat
    BY <1>1
  <2> QED
    BY <2>1, <2>2 DEF Ran
<1>6. Exact'
  BY <1>1, <1>4 DEF ClickInv, Exact
<1> QED
  BY <1>1, <1>2, <1>3, <1>5, <1>6 DEF ClickInv

-----------------------------------------------------------------------------
\* The way of an entry to its row.

Places == {"idle", "get", "set", "write"}
Work == [at : Places, todo : SUBSET Nat, done : SUBSET Nat, tries : 0..(MaxTries - 1)]

Held(w) == worker[w].todo \cup worker[w].done

\* The visits whose entries a write is known to have stored.
Written == DOMAIN visits \ (fresh \cup InWorkers \cup missed)

LogShape ==
    /\ visits \in Seq(Visit) /\ worker \in [Loggers -> Work]
    /\ fresh \in SUBSET DOMAIN visits /\ missed \in SUBSET DOMAIN visits
    /\ \A w \in Loggers : Held(w) \in SUBSET DOMAIN visits
    /\ DOMAIN judged \in SUBSET DOMAIN visits

\* An entry is in one place, judged once it is done with.
Apart ==
    /\ missed \cap fresh = {}
    /\ \A w \in Loggers :
         /\ Held(w) \cap fresh = {} /\ Held(w) \cap missed = {}
         /\ \A u \in Loggers : u # w => Held(u) \cap Held(w) = {}
         /\ worker[w].todo \cap DOMAIN judged = {} /\ worker[w].done \subseteq DOMAIN judged
    /\ fresh \cap DOMAIN judged = {}

\* A worker has entries to judge while it judges, and then no more.
InStep ==
    \A w \in Loggers :
        /\ worker[w].at = "idle" => worker[w].todo = {} /\ worker[w].done = {}
        /\ worker[w].at \in {"get", "set"} => worker[w].todo # {}
        /\ worker[w].at = "write" => worker[w].todo = {}

\* Each of them has the row of that write; there are no rows but those, and those
\* of a visit's attempts.
RowsInv ==
    /\ IsFiniteSet(rows)
    /\ \A n \in Written : RowOf(n, 0) \in rows
    /\ \A r \in rows : \E n \in DOMAIN visits : \E k \in Nat :
           r = RowOf(n, k) /\ (k = 0 => n \in Written)

LogInv ==
    /\ LogShape /\ Cardinality(fresh) <= ChanCap
    /\ Apart
    /\ InStep
    /\ RowsInv

\* A function's values on a finite set are finitely many.
LEMMA FiniteImage ==
    ASSUME NEW S, IsFiniteSet(S), NEW c
    PROVE  IsFiniteSet({c[r] : r \in S})
<1> DEFINE f == [r \in S |-> c[r]]
<1>1. f \in Surjection(S, {c[r] : r \in S})
  BY DEF Surjection
<1> HIDE DEF f
<1> QED
  BY <1>1, FS_Surjection

LEMMA LeastEntry ==
    ASSUME NEW T \in SUBSET Nat, T # {}
    PROVE  Min(T) \in T
BY LeastNumber DEF Min

\* The rows stand if the same visits are written, and those before are as they were.
LEMMA RowsStay ==
    ASSUME LogInv, rows' = rows, Written' = Written,
           \A n \in DOMAIN visits : n \in DOMAIN visits' /\ visits'[n] = visits[n]
    PROVE  RowsInv'
<1>1. \A n \in DOMAIN visits : \A k : RowOf(n, k)' = RowOf(n, k)
  BY DEF RowOf
<1>2. \A n \in Written' : n \in DOMAIN visits /\ n \in Written
  BY DEF Written
<1>3. /\ IsFiniteSet(rows)
      /\ \A n \in Written : RowOf(n, 0) \in rows
      /\ \A r \in rows : \E n \in DOMAIN visits : \E k \in Nat :
             r = RowOf(n, k) /\ (k = 0 => n \in Written)
  BY DEF LogInv, RowsInv
<1>4. \A n \in Written' : RowOf(n, 0)' \in rows'
  BY <1>1, <1>2, <1>3
<1>5. ASSUME NEW r \in rows'
      PROVE  \E n \in DOMAIN visits' : \E k \in Nat : r = RowOf(n, k)' /\ (k = 0 => n \in Written')
  <2>1. PICK n \in DOMAIN visits : \E k \in Nat : r = RowOf(n, k) /\ (k = 0 => n \in Written)
    BY <1>3
  <2>2. PICK k \in Nat : r = RowOf(n, k) /\ (k = 0 => n \in Written)
    BY <2>1
  <2>3. n \in DOMAIN visits' /\ r = RowOf(n, k)' /\ (k = 0 => n \in Written')
    BY <1>1, <2>1, <2>2
  <2> QED
    BY <2>2, <2>3, Zenon
<1> QED
  BY <1>3, <1>4, <1>5 DEF RowsInv

\* An attempt stores a row for each visit of its batch.
LEMMA RowsStored ==
    ASSUME LogInv, NEW D \in SUBSET DOMAIN visits, IsFiniteSet(D), NEW k \in Nat,
           rows' = rows \cup {RowOf(n, k) : n \in D}, visits' = visits,
           Written' = IF k = 0 THEN Written \cup D ELSE Written
    PROVE  RowsInv'
<1>1. \A n, i : RowOf(n, i)' = RowOf(n, i)
  BY DEF RowOf
<1>2. /\ IsFiniteSet(rows)
      /\ \A n \in Written : RowOf(n, 0) \in rows
      /\ \A r \in rows : \E n \in DOMAIN visits : \E i \in Nat :
             r = RowOf(n, i) /\ (i = 0 => n \in Written)
  BY DEF LogInv, RowsInv
<1>3. IsFiniteSet(rows')
  <2> DEFINE f == [n \in D |-> RowOf(n, k)]
  <2>1. {RowOf(n, k) : n \in D} = {f[n] : n \in D}
    OBVIOUS
  <2> HIDE DEF f
  <2>2. IsFiniteSet({f[n] : n \in D})
    BY FiniteImage
  <2> QED
    BY <1>2, <2>1, <2>2, FS_Union
<1>4. \A n \in Written' : RowOf(n, 0)' \in rows'
  <2> SUFFICES ASSUME NEW n \in Written' PROVE RowOf(n, 0) \in rows'
    BY <1>1
  <2>1. n \in Written \/ (k = 0 /\ n \in D)
    OBVIOUS
  <2> QED
    BY <1>2, <2>1
<1>5. ASSUME NEW r \in rows'
      PROVE  \E n \in DOMAIN visits' : \E i \in Nat : r = RowOf(n, i)' /\ (i = 0 => n \in Written')
  <2>1. CASE r \in rows
    <3>1. PICK n \in DOMAIN visits : \E i \in Nat : r = RowOf(n, i) /\ (i = 0 => n \in Written)
      BY <1>2, <2>1
    <3>2. PICK i \in Nat : r = RowOf(n, i) /\ (i = 0 => n \in Written)
      BY <3>1
    <3>3. n \in DOMAIN visits' /\ r = RowOf(n, i)' /\ (i = 0 => n \in Written')
      BY <1>1, <3>1, <3>2
    <3> QED
      BY <3>2, <3>3, Zenon
  <2>2. CASE \E n \in D : r = RowOf(n, k)
    <3>1. PICK n \in D : r = RowOf(n, k)
      BY <2>2
    <3>2. n \in DOMAIN visits' /\ r = RowOf(n, k)' /\ (k = 0 => n \in Written')
      BY <1>1, <3>1
    <3> QED
      BY <3>2, Zenon
  <2> QED
    BY <2>1, <2>2
<1> QED
  BY <1>3, <1>4, <1>5 DEF RowsInv

\* The rows stand if each worker, the channel and the missed keep to their own.
LEMMA SameWritten ==
    ASSUME LogInv, visits' = visits, fresh' = fresh, missed' = missed, rows' = rows,
           \A w \in Loggers : Held(w)' = Held(w)
    PROVE  RowsInv'
<1>1. InWorkers' = InWorkers
  BY DEF InWorkers, Held
<1>2. Written' = Written
  BY <1>1 DEF Written
<1> QED
  BY <1>2, RowsStay

\* The verdict on an entry makes it one the worker is done with.
LEMMA JudgeMoves ==
    ASSUME LogInv, NEW w \in Loggers, NEW n \in worker[w].todo, NEW r,
           judged' = With(judged, n, r),
           worker' = [worker EXCEPT ![w] =
               [at |-> IF worker[w].todo \ {n} = {} THEN "write" ELSE "get",
                todo |-> worker[w].todo \ {n}, done |-> worker[w].done \cup {n}, tries |-> 0]],
           visits' = visits, fresh' = fresh, missed' = missed, rows' = rows
    PROVE  LogInv'
<1> DEFINE e == [at |-> IF worker[w].todo \ {n} = {} THEN "write" ELSE "get",
                 todo |-> worker[w].todo \ {n}, done |-> worker[w].done \cup {n}, tries |-> 0]
<1>1. /\ worker \in [Loggers -> Work] /\ worker[w] \in Work
      /\ \A u \in Loggers : Held(u) \in SUBSET DOMAIN visits
  BY DEF LogInv, LogShape
<1>2. /\ e \in Work /\ e.todo = worker[w].todo \ {n} /\ e.done = worker[w].done \cup {n}
      /\ e.at \in {"get", "write"} /\ (e.at = "get" => e.todo # {})
      /\ (e.at = "write" => e.todo = {})
  BY <1>1, VisitAssumption DEF Work, Places
<1>3. worker' = [worker EXCEPT ![w] = e]
  OBVIOUS
<1> HIDE DEF e
<1>4. /\ worker' \in [Loggers -> Work] /\ worker'[w] = e
      /\ \A u \in Loggers : u # w => worker'[u] = worker[u]
  BY <1>1, <1>2, <1>3
<1>5. \A u \in Loggers : Held(u)' = Held(u)
  BY <1>2, <1>4 DEF Held
<1>6. DOMAIN judged' = DOMAIN judged \cup {n} /\ n \in Held(w) /\ n \in DOMAIN visits
  BY <1>1 DEF With, Held
<1>7. LogShape'
  BY <1>4, <1>5, <1>6 DEF LogInv, LogShape
<1>8. Apart'
  <2>1. missed' \cap fresh' = {}
    BY DEF LogInv, Apart
  <2>2. ASSUME NEW u \in Loggers
        PROVE  /\ Held(u)' \cap fresh' = {} /\ Held(u)' \cap missed' = {}
               /\ \A v \in Loggers : v # u => Held(v)' \cap Held(u)' = {}
    BY <1>5 DEF LogInv, Apart
  <2>3. ASSUME NEW u \in Loggers
        PROVE  /\ worker'[u].todo \cap DOMAIN judged' = {}
               /\ worker'[u].done \subseteq DOMAIN judged'
    <3>1. worker[u].todo \cap DOMAIN judged = {} /\ worker[u].done \subseteq DOMAIN judged
      BY DEF LogInv, Apart
    <3>2. CASE u = w
      BY <1>2, <1>4, <1>6, <3>1, <3>2
    <3>3. CASE u # w
      <4>1. n \notin Held(u)
        BY <1>6, <3>3 DEF LogInv, Apart
      <4> QED
        BY <1>4, <1>6, <3>1, <3>3, <4>1 DEF Held
    <3> QED
      BY <3>2, <3>3
  <2>4. fresh' \cap DOMAIN judged' = {}
    BY <1>6 DEF LogInv, Apart
  <2> QED
    BY <2>1, <2>2, <2>3, <2>4 DEF Apart
<1>9. InStep'
  BY <1>2, <1>4 DEF LogInv, InStep
<1>10. RowsInv'
  BY <1>5, SameWritten
<1> QED
  BY <1>7, <1>8, <1>9, <1>10 DEF LogInv

\* The verdict is still to come.
LEMMA KeepsJudging ==
    ASSUME LogInv, NEW w \in Loggers, worker[w].at = "get",
           worker' = [worker EXCEPT ![w].at = "set"],
           judged' = judged, visits' = visits, fresh' = fresh, missed' = missed, rows' = rows
    PROVE  LogInv'
<1>1. worker \in [Loggers -> Work] /\ worker[w] \in Work
  BY DEF LogInv, LogShape
<1>2. /\ worker' \in [Loggers -> Work] /\ worker'[w].at = "set"
      /\ \A u \in Loggers : /\ worker'[u].todo = worker[u].todo
                            /\ worker'[u].done = worker[u].done
                            /\ u # w => worker'[u].at = worker[u].at
  BY <1>1 DEF Work, Places
<1>3. \A u \in Loggers : Held(u)' = Held(u)
  BY <1>2 DEF Held
<1>4. LogShape' /\ Apart'
  BY <1>2, <1>3 DEF LogInv, LogShape, Apart
<1>5. InStep'
  <2> SUFFICES ASSUME NEW u \in Loggers
               PROVE  /\ worker'[u].at = "idle" => worker'[u].todo = {} /\ worker'[u].done = {}
                      /\ worker'[u].at \in {"get", "set"} => worker'[u].todo # {}
                      /\ worker'[u].at = "write" => worker'[u].todo = {}
    BY DEF InStep
  <2>1. worker[w].todo # {}
    BY DEF LogInv, InStep
  <2> QED
    BY <1>2, <2>1 DEF LogInv, InStep
<1> QED
  BY <1>3, <1>4, <1>5, SameWritten DEF LogInv

\* A worker takes its batch out of the channel.
LEMMA TakeMoves ==
    ASSUME LogInv, NEW w \in Loggers, Take(w)
    PROVE  LogInv'
<1>1. PICK S \in SUBSET fresh :
          /\ S # {} /\ fresh' = fresh \ S
          /\ worker' = [worker EXCEPT ![w] = [Idle EXCEPT !.at = "get", !.todo = S]]
  BY DEF Take
<1> DEFINE e == [Idle EXCEPT !.at = "get", !.todo = S]
<1>2. /\ worker \in [Loggers -> Work] /\ worker[w].at = "idle"
      /\ worker[w].todo = {} /\ worker[w].done = {}
      /\ visits' = visits /\ missed' = missed /\ judged' = judged /\ rows' = rows
  BY DEF LogInv, LogShape, InStep, Take, history
<1>3. /\ visits \in Seq(Visit) /\ DOMAIN visits = 1..Len(visits) /\ Len(visits) \in Nat
      /\ fresh \in SUBSET DOMAIN visits /\ S \in SUBSET DOMAIN visits
      /\ IsFiniteSet(DOMAIN visits)
  <2>1. /\ visits \in Seq(Visit) /\ DOMAIN visits = 1..Len(visits) /\ Len(visits) \in Int
        /\ 1 \in Int /\ Len(visits) \in Nat
    BY DEF LogInv, LogShape
  <2>2. IsFiniteSet(1..Len(visits))
    BY <2>1, FS_Interval, Zenon
  <2> QED
    BY <2>1, <2>2 DEF LogInv, LogShape
<1>4. e \in Work /\ e.at = "get" /\ e.todo = S /\ e.done = {}
  <2>1. S \in SUBSET Nat
    BY <1>3
  <2>2. Idle \in Work /\ Idle.done = {}
    BY VisitAssumption DEF Idle, Work, Places
  <2>3. e \in Work /\ e.at = "get" /\ e.todo = S /\ e.done = Idle.done
    BY <2>1, <2>2 DEF Work, Places
  <2> QED
    BY <2>2, <2>3
<1>5. worker' = [worker EXCEPT ![w] = e]
  BY <1>1
<1> HIDE DEF e
<1>6. /\ worker' \in [Loggers -> Work] /\ worker'[w] = e
      /\ \A u \in Loggers : u # w => worker'[u] = worker[u]
  BY <1>2, <1>4, <1>5
<1>7. /\ Held(w) = {} /\ Held(w)' = S
      /\ \A u \in Loggers : u # w => Held(u)' = Held(u)
  BY <1>2, <1>4, <1>6 DEF Held
<1>8. LogShape'
  BY <1>1, <1>2, <1>3, <1>6, <1>7 DEF LogInv, LogShape
<1>9. Cardinality(fresh') <= ChanCap
  <2>1. IsFiniteSet(fresh) /\ Cardinality(fresh) <= ChanCap
    BY <1>3, FS_Subset DEF LogInv
  <2>2. fresh' \in SUBSET fresh
    BY <1>1
  <2>3. IsFiniteSet(fresh') /\ Cardinality(fresh') <= Cardinality(fresh)
    BY <2>1, <2>2, FS_Subset
  <2> QED
    BY <2>1, <2>3, FS_CardinalityType, VisitAssumption
<1>10. Apart'
  <2>1. missed' \cap fresh' = {} /\ fresh' \cap DOMAIN judged' = {}
    BY <1>1, <1>2 DEF LogInv, Apart
  <2>2. ASSUME NEW u \in Loggers
        PROVE  /\ Held(u)' \cap fresh' = {} /\ Held(u)' \cap missed' = {}
               /\ \A v \in Loggers : v # u => Held(v)' \cap Held(u)' = {}
    BY <1>1, <1>2, <1>7 DEF LogInv, Apart
  <2>3. ASSUME NEW u \in Loggers
        PROVE  /\ worker'[u].todo \cap DOMAIN judged' = {}
               /\ worker'[u].done \subseteq DOMAIN judged'
    BY <1>1, <1>2, <1>4, <1>6 DEF LogInv, Apart
  <2> QED
    BY <2>1, <2>2, <2>3 DEF Apart
<1>11. InStep'
  BY <1>1, <1>4, <1>6 DEF LogInv, InStep
<1>12. InWorkers' = InWorkers \cup S
  BY <1>7 DEF InWorkers, Held
<1>13. Written' = Written
  BY <1>1, <1>2, <1>12 DEF Written
<1>14. RowsInv'
  BY <1>2, <1>13, RowsStay
<1> QED
  BY <1>8, <1>9, <1>10, <1>11, <1>14 DEF LogInv

\* An attempt has failed, or is taken to have, and there is another one to come.
LEMMA TryAgain ==
    ASSUME LogInv, NEW w \in Loggers, worker[w].at = "write", worker[w].tries + 1 < MaxTries,
           worker' = [worker EXCEPT ![w].tries = @ + 1],
           visits' = visits, fresh' = fresh, missed' = missed, judged' = judged
    PROVE  LogShape' /\ Apart' /\ InStep' /\ Written' = Written
<1>1. worker \in [Loggers -> Work] /\ worker[w] \in Work
  BY DEF LogInv, LogShape
<1>2. /\ worker' \in [Loggers -> Work]
      /\ \A u \in Loggers : /\ worker'[u].todo = worker[u].todo
                            /\ worker'[u].done = worker[u].done
                            /\ worker'[u].at = worker[u].at
  BY <1>1, VisitAssumption DEF Work, Places
<1>3. \A u \in Loggers : Held(u)' = Held(u)
  BY <1>2 DEF Held
<1>4. InWorkers' = InWorkers
  BY <1>3 DEF InWorkers, Held
<1> QED
  BY <1>2, <1>3, <1>4 DEF LogInv, LogShape, Apart, InStep, Written

\* The worker lets go of its batch: it is written, or missed.
LEMMA BatchEnds ==
    ASSUME LogInv, NEW w \in Loggers, worker[w].at = "write",
           worker' = [worker EXCEPT ![w] = Idle],
           visits' = visits, fresh' = fresh, judged' = judged,
           missed' = missed \/ missed' = missed \cup worker[w].done
    PROVE  /\ LogShape' /\ Apart' /\ InStep'
           /\ missed' = missed => Written' = Written \cup worker[w].done
           /\ missed' = missed \cup worker[w].done => Written' = Written
<1> DEFINE D == worker[w].done
<1>1. worker \in [Loggers -> Work] /\ worker[w].todo = {} /\ Held(w) = D
  BY DEF LogInv, LogShape, InStep, Held
<1>2. D \in SUBSET DOMAIN visits /\ D \cap fresh = {} /\ D \cap missed = {}
  BY <1>1 DEF LogInv, LogShape, Apart
<1> HIDE DEF D
<1>3. Idle \in Work /\ Idle.todo = {} /\ Idle.done = {} /\ Idle.at = "idle"
  BY VisitAssumption DEF Idle, Work, Places
<1>4. /\ worker' \in [Loggers -> Work] /\ worker'[w] = Idle
      /\ \A u \in Loggers : u # w => worker'[u] = worker[u]
  BY <1>1, <1>3
<1>5. /\ Held(w)' = {} /\ \A u \in Loggers : u # w => Held(u)' = Held(u) /\ Held(u) \cap D = {}
  BY <1>1, <1>3, <1>4 DEF Held, LogInv, Apart
<1>6. InWorkers' = InWorkers \ D /\ D \subseteq InWorkers
  BY <1>1, <1>5 DEF InWorkers, Held
<1>7. missed' = missed \/ missed' = missed \cup D
  BY DEF D
<1>8. LogShape'
  BY <1>1, <1>2, <1>4, <1>5, <1>7 DEF LogInv, LogShape
<1>9. Apart'
  <2>1. missed' \cap fresh' = {} /\ fresh' \cap DOMAIN judged' = {}
    BY <1>2, <1>7 DEF LogInv, Apart
  <2>2. ASSUME NEW u \in Loggers
        PROVE  /\ Held(u)' \cap fresh' = {} /\ Held(u)' \cap missed' = {}
               /\ \A v \in Loggers : v # u => Held(v)' \cap Held(u)' = {}
    BY <1>5, <1>7 DEF LogInv, Apart
  <2>3. ASSUME NEW u \in Loggers
        PROVE  /\ worker'[u].todo \cap DOMAIN judged' = {}
               /\ worker'[u].done \subseteq DOMAIN judged'
    BY <1>3, <1>4 DEF LogInv, Apart
  <2> QED
    BY <2>1, <2>2, <2>3 DEF Apart
<1>10. InStep'
  BY <1>3, <1>4 DEF LogInv, InStep
<1>11. missed' = missed => Written' = Written \cup D
  BY <1>2, <1>6 DEF Written
<1>12. missed' = missed \cup D => Written' = Written
  BY <1>2, <1>6 DEF Written
<1> QED
  BY <1>8, <1>9, <1>10, <1>11, <1>12 DEF D

\* An attempt to write the batch: it is done, made again, or given up.
LEMMA WriteMoves ==
    ASSUME LogInv, NEW w \in Loggers, Write(w)
    PROVE  LogInv'
<1> DEFINE D == worker[w].done
           k == worker[w].tries + 1
<1>1. /\ worker[w].at = "write" /\ worker[w] \in Work
      /\ visits' = visits /\ fresh' = fresh /\ judged' = judged
      /\ D \in SUBSET DOMAIN visits
  BY DEF LogInv, LogShape, Write, Held
<1>2. IsFiniteSet(D)
  <2>1. DOMAIN visits = 1..Len(visits) /\ Len(visits) \in Int /\ 1 \in Int
    BY DEF LogInv, LogShape
  <2>2. IsFiniteSet(1..Len(visits))
    BY <2>1, FS_Interval, Zenon
  <2>3. IsFiniteSet(DOMAIN visits)
    BY <2>1, <2>2
  <2> QED
    BY <1>1, <2>3, FS_Subset
<1>3. k \in Nat /\ k # 0
  BY <1>1, VisitAssumption DEF Work
<1>4. \/ rows' = rows \cup {RowOf(n, 0) : n \in D} /\ worker' = [worker EXCEPT ![w] = Idle]
         /\ missed' = missed
      \/ (rows' = rows \/ rows' = rows \cup {RowOf(n, k) : n \in D}) /\ NextTry(w)
  BY DEF Write, Store
<1>5. CASE rows' = rows \cup {RowOf(n, 0) : n \in D} /\ worker' = [worker EXCEPT ![w] = Idle]
           /\ missed' = missed
  <2>1. LogShape' /\ Apart' /\ InStep' /\ Written' = Written \cup D
    BY <1>1, <1>5, BatchEnds
  <2> HIDE DEF D
  <2>2. RowsInv'
    BY <1>1, <1>2, <1>5, <2>1, RowsStored
  <2> QED
    BY <1>1, <2>1, <2>2 DEF LogInv
<1>6. CASE (rows' = rows \/ rows' = rows \cup {RowOf(n, k) : n \in D}) /\ NextTry(w)
  <2>1. LogShape' /\ Apart' /\ InStep' /\ Written' = Written
    <3>1. CASE /\ worker[w].tries + 1 < MaxTries
               /\ worker' = [worker EXCEPT ![w].tries = @ + 1] /\ missed' = missed
      BY <1>1, <3>1, TryAgain
    <3>2. CASE worker' = [worker EXCEPT ![w] = Idle] /\ missed' = missed \cup D
      BY <1>1, <3>2, BatchEnds
    <3> QED
      BY <1>6, <3>1, <3>2 DEF NextTry
  <2>2. RowsInv'
    <3> HIDE DEF D, k
    <3>1. CASE rows' = rows
      BY <1>1, <2>1, <3>1, RowsStay
    <3>2. CASE rows' = rows \cup {RowOf(n, k) : n \in D}
      BY <1>1, <1>2, <1>3, <2>1, <3>2, RowsStored
    <3> QED
      BY <1>6, <3>1, <3>2
  <2> QED
    BY <1>1, <2>1, <2>2 DEF LogInv
<1> QED
  BY <1>4, <1>5, <1>6

\* A crash takes what is in the channel and with the workers.
LEMMA CrashLoses ==
    ASSUME LogInv, Crash
    PROVE  LogInv'
<1>1. /\ visits' = visits /\ fresh' = {} /\ judged' = judged /\ rows' = rows
      /\ missed' = missed \cup fresh \cup InWorkers /\ worker' = [w \in Loggers |-> Idle]
  BY DEF Crash
<1>2. Idle \in Work /\ Idle.todo = {} /\ Idle.done = {} /\ Idle.at = "idle"
  BY VisitAssumption DEF Idle, Work, Places
<1>3. \A w \in Loggers : worker'[w] = Idle /\ Held(w)' = {}
  BY <1>1, <1>2 DEF Held
<1>4. InWorkers' = {} /\ InWorkers \in SUBSET DOMAIN visits
  BY <1>3 DEF InWorkers, Held, LogInv, LogShape
<1>5. LogShape' /\ InStep' /\ Apart'
  BY <1>1, <1>2, <1>3, <1>4 DEF LogInv, LogShape, InStep, Apart
<1>6. Cardinality(fresh') = 0
  BY <1>1, FS_EmptySet
<1>7. Written' = Written
  BY <1>1, <1>4 DEF Written
<1>8. RowsInv'
  BY <1>1, <1>7, RowsStay
<1> QED
  BY <1>5, <1>6, <1>8, VisitAssumption DEF LogInv

\* A redirect's entry is queued, or missed.
LEMMA RedirectQueues ==
    ASSUME LogInv, ClickInv, now \in Nat, NEW l \in Links, NEW v \in Visitors, Redirect(l, v)
    PROVE  LogInv'
<1> DEFINE n == Len(visits) + 1
<1>1. /\ DOMAIN visits = 1..Len(visits) /\ Len(visits) \in Nat
      /\ visits' = Append(visits, [link |-> l, who |-> v, at |-> now])
      /\ [link |-> l, who |-> v, at |-> now] \in Visit /\ visits \in Seq(Visit)
      /\ worker' = worker /\ judged' = judged /\ rows' = rows
  BY DEF LogInv, LogShape, Redirect, Visit
<1>2. /\ visits' \in Seq(Visit) /\ DOMAIN visits' = DOMAIN visits \cup {n}
      /\ Len(visits') = n /\ n \notin DOMAIN visits
      /\ \A k \in DOMAIN visits : visits'[k] = visits[k]
  BY <1>1
<1>3. \/ Cardinality(fresh) < ChanCap /\ fresh' = fresh \cup {n} /\ missed' = missed
      \/ fresh' = fresh /\ missed' = missed \cup {n}
  BY <1>2 DEF Redirect, Queue
<1> HIDE DEF n
<1>4. /\ \A w \in Loggers : Held(w)' = Held(w) /\ n \notin Held(w)
      /\ InWorkers' = InWorkers /\ n \notin fresh /\ n \notin missed /\ n \notin DOMAIN judged
  BY <1>1, <1>2 DEF Held, InWorkers, LogInv, LogShape
<1>5. LogShape'
  BY <1>1, <1>2, <1>3, <1>4 DEF LogInv, LogShape
<1>6. InStep' /\ Apart'
  BY <1>1, <1>3, <1>4 DEF LogInv, InStep, Apart
<1>7. Cardinality(fresh') <= ChanCap
  <2>1. IsFiniteSet(fresh)
    BY VisitsOfLink, FS_Subset DEF ClickInv, LogInv, LogShape
  <2>2. Cardinality(fresh) \in Nat /\ Cardinality(fresh \cup {n}) = Cardinality(fresh) + 1
    BY <1>4, <2>1, FS_CardinalityType, FS_AddElement
  <2> QED
    BY <1>3, <2>2, VisitAssumption DEF LogInv
<1>8. Written' = Written
  BY <1>2, <1>3, <1>4 DEF Written
<1>9. RowsInv'
  BY <1>1, <1>2, <1>8, RowsStay
<1> QED
  BY <1>5, <1>6, <1>7, <1>9 DEF LogInv

-----------------------------------------------------------------------------
\* Verdicts.

\* GET finds the first visit's entry, or the worker goes on to SET.
LEMMA GetCases ==
    ASSUME LogInv, NEW w \in Loggers, DedupGet(w)
    PROVE  /\ UNCHANGED <<visits, fresh, counting, clicks, edit, dedup, rows, missed, drifted, now>>
           /\ Entry(w) \in worker[w].todo /\ Entry(w) \in DOMAIN visits
           /\ \/ \E incr, expire \in BOOLEAN :
                   /\ Seen(Entry(w)) /\ Judge(w, Entry(w), FALSE, incr, expire)
                   /\ Outage(TRUE, incr, expire)
              \/ /\ worker[w].at = "get" /\ worker' = [worker EXCEPT ![w].at = "set"]
                 /\ UNCHANGED <<bucket, judged, realtime>>
<1>1. worker[w].todo # {} /\ worker[w].todo \in SUBSET Nat /\ worker[w].at = "get"
  BY DEF LogInv, LogShape, InStep, DedupGet, Work
<1>2. Entry(w) \in worker[w].todo
  BY <1>1, LeastEntry DEF Entry
<1>3. Entry(w) \in DOMAIN visits
  BY <1>2 DEF LogInv, LogShape, Held
<1> QED
  BY <1>1, <1>2, <1>3 DEF DedupGet

\* The visit at hand is a first one, whatever SET answers.
LEMMA SetCases ==
    ASSUME LogInv, NEW w \in Loggers, DedupSet(w)
    PROVE  /\ UNCHANGED <<visits, fresh, counting, clicks, edit, rows, missed, drifted, now>>
           /\ Entry(w) \in worker[w].todo /\ Entry(w) \in DOMAIN visits
           /\ \E set, incr, expire \in BOOLEAN :
                /\ Judge(w, Entry(w), TRUE, incr, expire)
                /\ dedup' = IF set THEN [dedup EXCEPT ![<<visits[Entry(w)].link,
                                             visits[Entry(w)].who.ip>>] = now + Window]
                            ELSE dedup
                /\ Outage(set, incr, expire)
<1>1. worker[w].todo # {} /\ worker[w].todo \in SUBSET Nat
  BY DEF LogInv, LogShape, InStep, DedupSet, Work
<1>2. Entry(w) \in worker[w].todo
  BY <1>1, LeastEntry DEF Entry
<1>3. Entry(w) \in DOMAIN visits
  BY <1>2 DEF LogInv, LogShape, Held
<1> QED
  BY <1>2, <1>3 DEF DedupSet

\* The entry at hand had no verdict before.
LEMMA JudgeKeepsLog ==
    ASSUME LogInv, NEW w \in Loggers, NEW n \in worker[w].todo,
           NEW first, NEW incr, NEW expire, Judge(w, n, first, incr, expire),
           visits' = visits, fresh' = fresh, missed' = missed, rows' = rows
    PROVE  LogInv' /\ judged' = With(judged, n, [first |-> first, at |-> now])
           /\ n \notin DOMAIN judged /\ n \in DOMAIN visits
<1>1. judged' = With(judged, n, [first |-> first, at |-> now])
  BY DEF Judge
<1>2. worker \in [Loggers -> Work] /\ n \in Held(w) /\ n \notin DOMAIN judged
      /\ n \in DOMAIN visits
  BY DEF LogInv, LogShape, Held, Apart
<1>3. worker' = [worker EXCEPT ![w] =
               [at |-> IF worker[w].todo \ {n} = {} THEN "write" ELSE "get",
                todo |-> worker[w].todo \ {n}, done |-> worker[w].done \cup {n}, tries |-> 0]]
  BY <1>2 DEF Judge
<1> QED
  BY <1>1, <1>2, <1>3, JudgeMoves

Verdict == [first : BOOLEAN, at : Nat]

Key(n) == <<visits[n].link, visits[n].who.ip>>

\* Every entry in Redis is that of a visit judged the first, a window before its
\* deadline.
EntryBacked ==
    \A k \in Links \X Ips : dedup[k] # 0 =>
        \E m \in DOMAIN judged :
            judged[m].first /\ Key(m) = k /\ judged[m].at + Window = dedup[k]

VerdictInv ==
    /\ dedup \in [Links \X Ips -> Nat]
    /\ \A n \in DOMAIN judged : judged[n] \in Verdict /\ judged[n].at <= now
    /\ \A n \in DOMAIN visits : visits[n].at <= now
    /\ EntryBacked
    /\ RepeatsHaveFirst

LEMMA KeyType ==
    ASSUME LogInv, NEW n \in DOMAIN visits
    PROVE  Key(n) \in Links \X Ips /\ visits[n] \in Visit
<1>1. visits[n] \in Visit
  BY DEF LogInv, LogShape
<1>2. visits[n].link \in Links /\ visits[n].who \in Visitors
  BY <1>1 DEF Visit
<1> QED
  BY <1>1, <1>2 DEF Key, Ips

\* What the verdicts of the past say, they say of a longer history too.
LEMMA VerdictsStay ==
    ASSUME VerdictInv, LogInv, now \in Nat, now' \in Nat, now <= now',
           judged' = judged, dedup' = dedup,
           \A n \in DOMAIN visits : n \in DOMAIN visits' /\ visits'[n] = visits[n],
           \A n \in DOMAIN visits' : n \in DOMAIN visits \/ visits'[n].at = now
    PROVE  VerdictInv'
<1>1. DOMAIN judged \in SUBSET DOMAIN visits
  BY DEF LogInv, LogShape
<1>2. \A n \in DOMAIN judged : Key(n)' = Key(n) /\ visits'[n] = visits[n]
  BY <1>1 DEF Key
<1>3. EntryBacked'
  BY <1>2 DEF VerdictInv, EntryBacked
<1>4. RepeatsHaveFirst'
  BY <1>2 DEF VerdictInv, RepeatsHaveFirst
<1>5. \A n \in DOMAIN judged : judged[n] \in Verdict /\ judged[n].at <= now'
  <2> SUFFICES ASSUME NEW n \in DOMAIN judged
               PROVE  judged[n] \in Verdict /\ judged[n].at <= now'
    OBVIOUS
  <2>1. judged[n] \in Verdict /\ judged[n].at <= now
    BY DEF VerdictInv
  <2> QED
    BY <2>1 DEF Verdict
<1>6. \A n \in DOMAIN visits' : visits'[n].at <= now'
  <2> SUFFICES ASSUME NEW n \in DOMAIN visits' PROVE visits'[n].at <= now'
    OBVIOUS
  <2>1. CASE n \in DOMAIN visits
    <3>1. visits[n].at <= now /\ visits[n] \in Visit
      BY <2>1, KeyType DEF VerdictInv
    <3> QED
      BY <2>1, <3>1 DEF Visit
  <2> QED
    BY <2>1
<1> QED
  BY <1>3, <1>4, <1>5, <1>6 DEF VerdictInv

\* A further verdict: a repeat that finds its first, or a first.
LEMMA VerdictJoins ==
    ASSUME VerdictInv, LogInv, now \in Nat, now' = now, visits' = visits,
           NEW n \in DOMAIN visits, n \notin DOMAIN judged, NEW first \in BOOLEAN,
           judged' = With(judged, n, [first |-> first, at |-> now]),
           \/ dedup' = dedup /\ (first \/ Seen(n))
           \/ first /\ dedup' = [dedup EXCEPT ![Key(n)] = now + Window]
    PROVE  VerdictInv'
<1> DEFINE r == [first |-> first, at |-> now]
<1>1. /\ DOMAIN judged' = DOMAIN judged \cup {n} /\ judged'[n] = r
      /\ \A k \in DOMAIN judged : judged'[k] = judged[k]
      /\ r \in Verdict /\ r.first = first /\ r.at = now
  BY DEF With, Verdict
<1> HIDE DEF r
<1>2. Key(n) \in Links \X Ips /\ \A k : Key(k)' = Key(k)
  BY KeyType DEF Key
<1>3. dedup \in [Links \X Ips -> Nat] /\ now + Window \in Nat
  BY VisitAssumption DEF VerdictInv
<1>4. dedup' \in [Links \X Ips -> Nat]
  BY <1>2, <1>3
<1>5. EntryBacked'
  <2> SUFFICES ASSUME NEW k \in Links \X Ips, dedup'[k] # 0
               PROVE  \E m \in DOMAIN judged' :
                        judged'[m].first /\ Key(m)' = k /\ judged'[m].at + Window = dedup'[k]
    BY DEF EntryBacked
  <2>1. CASE dedup'[k] = dedup[k]
    BY <1>1, <1>2, <2>1 DEF VerdictInv, EntryBacked
  <2>2. CASE first /\ k = Key(n) /\ dedup'[k] = now + Window
    <3>1. judged'[n].first /\ Key(n)' = k
      BY <1>1, <1>2, <2>2, Zenon
    <3>2. n \in DOMAIN judged' /\ judged'[n].at + Window = dedup'[k]
      BY <1>1, <2>2
    <3> QED
      BY <3>1, <3>2
  <2> QED
    BY <1>2, <1>3, <2>1, <2>2
<1>6. RepeatsHaveFirst'
  <2> SUFFICES ASSUME NEW k \in DOMAIN judged', ~judged'[k].first
               PROVE  \E m \in DOMAIN judged' :
                        /\ judged'[m].first /\ visits[m].link = visits[k].link
                        /\ visits[m].who.ip = visits[k].who.ip
                        /\ judged'[m].at <= judged'[k].at
                        /\ judged'[k].at < judged'[m].at + Window
    BY DEF RepeatsHaveFirst
  <2>1. CASE k \in DOMAIN judged
    BY <1>1, <2>1 DEF VerdictInv, RepeatsHaveFirst
  <2>2. CASE k = n
    <3>1. ~first /\ now < dedup[Key(n)] /\ dedup[Key(n)] \in Nat
      BY <1>1, <1>2, <1>3, <2>2 DEF Seen, Key
    <3>2. PICK m \in DOMAIN judged :
              judged[m].first /\ Key(m) = Key(n) /\ judged[m].at + Window = dedup[Key(n)]
      BY <1>2, <3>1 DEF VerdictInv, EntryBacked
    <3>3. judged[m].at <= now /\ visits[m].link = visits[n].link
          /\ visits[m].who.ip = visits[n].who.ip
      BY <3>2 DEF VerdictInv, Key
    <3> QED
      BY <1>1, <2>2, <3>1, <3>2, <3>3
  <2> QED
    BY <1>1, <2>1, <2>2
<1> QED
  BY <1>1, <1>4, <1>5, <1>6 DEF VerdictInv

-----------------------------------------------------------------------------
\* The realtime buckets.

\* A tick lies in its minute.
LEMMA InMinute ==
    ASSUME NEW a \in Nat
    PROVE  /\ a \div Minute \in Nat
           /\ (a \div Minute) * Minute <= a /\ a < (a \div Minute) * Minute + Minute
BY VisitAssumption

\* The visits that INCR of bucket b has counted.
Reached(b) == {n \in realtime : visits[n].link = b[1] /\ judged[n].at \div Minute = b[2]}

BucketOf == [n : Nat, exp : Nat]

\* A bucket holds no more than was counted, and all of it, to the end of its
\* minute at least, if it lives as long.
BucketInv ==
    /\ realtime \in SUBSET DOMAIN judged
    /\ \A b \in DOMAIN bucket :
         /\ b \in Links \X Nat /\ bucket[b] \in BucketOf
         /\ bucket[b].n <= Cardinality(Reached(b))
    /\ Minute <= Keep =>
         /\ \A b \in DOMAIN bucket :
              /\ bucket[b].n = Cardinality(Reached(b))
              /\ b[2] * Minute + Keep <= bucket[b].exp
         /\ \A b \in Links \X Nat : Reached(b) # {} => b \in DOMAIN bucket

LEMMA ReachedFinite ==
    ASSUME LogInv, BucketInv, NEW b
    PROVE  IsFiniteSet(Reached(b)) /\ Cardinality(Reached(b)) \in Nat
<1>1. /\ DOMAIN visits = 1..Len(visits) /\ Len(visits) \in Int /\ 1 \in Int
      /\ Reached(b) \in SUBSET DOMAIN visits
  BY DEF LogInv, LogShape, BucketInv, Reached
<1>2. IsFiniteSet(DOMAIN visits)
  <2>1. IsFiniteSet(1..Len(visits))
    BY <1>1, FS_Interval, Zenon
  <2> QED
    BY <1>1, <2>1
<1> QED
  BY <1>1, <1>2, FS_Subset, FS_CardinalityType

\* Buckets say the same of a longer history.
LEMMA BucketsStay ==
    ASSUME BucketInv, LogInv, judged' = judged, realtime' = realtime, bucket' = bucket,
           \A n \in DOMAIN visits : n \in DOMAIN visits' /\ visits'[n] = visits[n]
    PROVE  BucketInv'
<1>1. realtime \in SUBSET DOMAIN visits
  BY DEF BucketInv, LogInv, LogShape
<1>2. \A b : Reached(b)' = Reached(b)
  BY <1>1 DEF Reached
<1> QED
  BY <1>2 DEF BucketInv

\* INCR and EXPIRE, as far as they get.
LEMMA BucketsCount ==
    ASSUME BucketInv, LogInv, VerdictInv, now \in 0..MaxTime, visits' = visits,
           NEW n \in DOMAIN visits, n \notin DOMAIN judged, NEW r \in Verdict, r.at = now,
           judged' = With(judged, n, r),
           NEW incr \in BOOLEAN, NEW expire \in BOOLEAN, RecordRealtime(n, incr, expire)
    PROVE  BucketInv'
<1>0. PICK b : b = <<visits[n].link, now \div Minute>>
  OBVIOUS
<1> DEFINE old == IF LiveBucket(b) THEN bucket[b] ELSE [n |-> 0, exp |-> Forever]
           new == [n |-> IF incr THEN old.n + 1 ELSE old.n,
                   exp |-> IF expire THEN now + BucketLife ELSE old.exp]
<1>1. /\ bucket' = IF new.n = 0 THEN bucket ELSE With(bucket, b, new)
      /\ realtime' = IF incr THEN realtime \cup {n} ELSE realtime
  BY <1>0 DEF RecordRealtime
<1>2. /\ DOMAIN judged' = DOMAIN judged \cup {n} /\ judged'[n] = r
      /\ \A k \in DOMAIN judged : judged'[k] = judged[k]
  BY DEF With
<1>3. /\ now \in Nat /\ now \div Minute \in Nat /\ Keep \in Nat /\ Minute \in Nat /\ MaxTime \in Nat
      /\ (now \div Minute) * Minute \in Nat
      /\ (now \div Minute) * Minute <= now /\ now < (now \div Minute) * Minute + Minute
      /\ now <= MaxTime
  <2>1. now \in Nat /\ now <= MaxTime /\ Keep \in Nat /\ Minute \in Nat /\ MaxTime \in Nat
    BY ProcessAssumption, VisitAssumption
  <2>2. /\ now \div Minute \in Nat
        /\ (now \div Minute) * Minute <= now /\ now < (now \div Minute) * Minute + Minute
    BY <2>1, InMinute
  <2> QED
    BY <2>1, <2>2
<1>4. b \in Links \X Nat /\ b[1] = visits[n].link /\ b[2] = now \div Minute
  <2>1. visits[n].link \in Links
    BY KeyType DEF Visit
  <2> QED
    BY <1>0, <1>3, <2>1
<1> DEFINE start == (now \div Minute) * Minute
<1>5. b[2] * Minute = start
  BY <1>4
<1> HIDE DEF start
<1>6. LiveBucket(b) => bucket[b] \in BucketOf /\ b \in DOMAIN bucket
  BY DEF LiveBucket, BucketInv
<1>7. /\ old \in BucketOf /\ old.n \in Nat /\ old.exp \in Nat
      /\ old.n <= Cardinality(Reached(b))
      /\ Minute <= Keep => old.n = Cardinality(Reached(b)) /\ start + Keep <= old.exp
  <2>1. Cardinality(Reached(b)) \in Nat /\ (Reached(b) = {} => Cardinality(Reached(b)) = 0)
    BY ReachedFinite, FS_EmptySet
  <2>2. CASE LiveBucket(b)
    BY <1>5, <1>6, <2>2 DEF BucketInv, BucketOf
  <2>3. CASE ~LiveBucket(b)
    <3>1. old = [n |-> 0, exp |-> MaxTime + Keep]
      BY <2>3 DEF Forever
    <3>2. ASSUME Minute <= Keep PROVE Reached(b) = {}
      <4>1. SUFFICES ASSUME b \in DOMAIN bucket PROVE FALSE
        BY <1>4, <3>2 DEF BucketInv
      <4>2. bucket[b].exp <= now /\ start + Keep <= bucket[b].exp /\ bucket[b].exp \in Nat
        BY <1>3, <1>5, <2>3, <3>2, <4>1 DEF LiveBucket, BucketInv, BucketOf
      <4> QED
        BY <1>3, <3>2, <4>2 DEF start
    <3>3. start + Keep <= MaxTime + Keep /\ MaxTime + Keep \in Nat
      BY <1>3 DEF start
    <3> HIDE DEF old
    <3> QED
      BY <2>1, <3>1, <3>2, <3>3 DEF BucketOf
  <2> QED
    BY <2>2, <2>3
<1> HIDE DEF old
<1>8. /\ new.n = (IF incr THEN old.n + 1 ELSE old.n) /\ new \in BucketOf /\ new.n \in Nat
      /\ Minute <= Keep => start + Keep <= new.exp
  <2>1. now + BucketLife \in Nat /\ start + Keep <= now + BucketLife
    BY <1>3 DEF BucketLife, start
  <2> QED
    BY <1>7, <2>1 DEF BucketOf
<1> HIDE DEF new
<1>9. ASSUME NEW c
      PROVE  Reached(c)' = IF incr /\ c[1] = b[1] /\ c[2] = b[2] THEN Reached(c) \cup {n}
                           ELSE Reached(c)
  <2>1. realtime \in SUBSET DOMAIN judged /\ n \notin realtime
    BY DEF BucketInv
  <2> QED
    BY <1>1, <1>2, <1>4, <2>1 DEF Reached
<1>10. Cardinality(Reached(b))' =
           IF incr THEN Cardinality(Reached(b)) + 1 ELSE Cardinality(Reached(b))
  <2>1. IsFiniteSet(Reached(b)) /\ n \notin Reached(b)
    BY ReachedFinite DEF BucketInv, Reached
  <2>2. Reached(b)' = IF incr THEN Reached(b) \cup {n} ELSE Reached(b)
    BY <1>9
  <2>3. Cardinality(Reached(b) \cup {n}) = Cardinality(Reached(b)) + 1
    BY <2>1, FS_AddElement, Zenon
  <2> QED
    BY <2>2, <2>3
<1>11. \A c \in Links \X Nat : c # b => Reached(c)' = Reached(c)
  BY <1>4, <1>9
<1>12. realtime' \in SUBSET DOMAIN judged'
  BY <1>1, <1>2 DEF BucketInv
<1>13. CASE new.n = 0
  <2>1. bucket' = bucket /\ ~incr
    BY <1>1, <1>7, <1>8, <1>13
  <2>2. \A c : Reached(c)' = Reached(c)
    BY <1>9, <2>1
  <2> QED
    BY <1>12, <2>1, <2>2 DEF BucketInv
<1>14. CASE new.n # 0
  <2>1. /\ DOMAIN bucket' = DOMAIN bucket \cup {b} /\ bucket'[b] = new
        /\ \A c \in DOMAIN bucket : c # b => bucket'[c] = bucket[c]
    BY <1>1, <1>14 DEF With
  <2>2. ASSUME NEW c \in DOMAIN bucket'
        PROVE  /\ c \in Links \X Nat /\ bucket'[c] \in BucketOf
               /\ bucket'[c].n <= Cardinality(Reached(c))'
               /\ Minute <= Keep => /\ bucket'[c].n = Cardinality(Reached(c))'
                                    /\ c[2] * Minute + Keep <= bucket'[c].exp
    <3>1. CASE c = b
      <4>1. Cardinality(Reached(b)) \in Nat /\ bucket'[c] = new
        BY <2>1, <3>1, ReachedFinite
      <4>2. /\ new.n <= Cardinality(Reached(b))'
            /\ Minute <= Keep => new.n = Cardinality(Reached(b))'
        BY <1>7, <1>8, <1>10, <4>1
      <4>3. Cardinality(Reached(c))' = Cardinality(Reached(b))'
        BY <3>1
      <4> QED
        BY <1>4, <1>5, <1>8, <3>1, <4>1, <4>2, <4>3
    <3>2. CASE c # b
      <4>1. c \in DOMAIN bucket /\ c \in Links \X Nat
        BY <2>1, <3>2 DEF BucketInv
      <4> QED
        BY <1>11, <2>1, <3>2, <4>1 DEF BucketInv
    <3> QED
      BY <3>1, <3>2
  <2>3. ASSUME Minute <= Keep, NEW c \in Links \X Nat, Reached(c)' # {}
        PROVE  c \in DOMAIN bucket'
    BY <1>11, <2>1, <2>3 DEF BucketInv
  <2> QED
    BY <1>12, <2>2, <2>3 DEF BucketInv
<1> QED
  BY <1>8, <1>13, <1>14

-----------------------------------------------------------------------------
\* The invariant.

IInv == ProcessTypeOK /\ ClickInv /\ LogInv /\ VerdictInv /\ BucketInv

LEMMA InitIInv == Init => IInv
<1> SUFFICES ASSUME Init PROVE IInv
  OBVIOUS
<1>1. visits = <<>> /\ DOMAIN visits = {} /\ Len(visits) = 0 /\ visits \in Seq(Visit)
  BY DEF Init
<1>2. Cardinality({}) = 0 /\ IsFiniteSet({})
  BY FS_EmptySet
<1>3. ProcessTypeOK
  BY ProcessAssumption DEF Init, ProcessInit, ProcessTypeOK
<1>4. ClickInv
  <2>1. edit \in Edit /\ ~edit.on
    BY DEF Init, NoEdit, Edit
  <2>2. ClickShape
    BY <1>1, <2>1, VisitAssumption DEF Init, ClickShape
  <2>3. \A l : OfThis(l) = {} /\ OfThis(l) \cap counting = {}
    BY <1>1 DEF OfThis
  <2>4. \A l : Counted(l) = 0 /\ Pending(l) = 0
    BY <1>2, <2>3 DEF Counted, Pending
  <2> QED
    BY <2>1, <2>2, <2>4 DEF Init, ClickInv, Ran, Exact
<1>5. LogInv
  <2>1. Idle \in Work /\ Idle.todo = {} /\ Idle.done = {} /\ Idle.at = "idle"
    BY VisitAssumption DEF Idle, Work, Places
  <2>2. /\ \A w \in Loggers : worker[w] = Idle /\ Held(w) = {}
        /\ worker \in [Loggers -> Work] /\ fresh = {} /\ missed = {} /\ rows = {}
        /\ DOMAIN judged = {}
    BY <2>1 DEF Init, Held
  <2>3. Written = {}
    BY <1>1 DEF Written
  <2>4. LogShape /\ Apart /\ InStep
    BY <1>1, <2>1, <2>2 DEF LogShape, Apart, InStep
  <2> QED
    BY <1>2, <2>2, <2>3, <2>4, VisitAssumption DEF LogInv, RowsInv
<1>6. VerdictInv
  BY <1>1 DEF Init, VerdictInv, EntryBacked, RepeatsHaveFirst
<1>7. BucketInv
  BY DEF Init, BucketInv, Reached
<1> QED
  BY <1>3, <1>4, <1>5, <1>6, <1>7 DEF IInv

\* The clock goes forward, and calls fail, within their bounds.
LEMMA ProcessStep ==
    ASSUME ProcessTypeOK, [Next]_vars
    PROVE  ProcessTypeOK' /\ now \in Nat /\ now' \in Nat /\ now <= now' /\ now \in 0..MaxTime
<1> DEFINE Moves == /\ phase' = phase /\ (now' = now \/ (now < MaxTime /\ now' = now + 1))
                    /\ (faults' = faults \/ (faults < MaxFaults /\ faults' = faults + 1))
<1>1. ASSUME NEW w \in Loggers, DedupGet(w) \/ DedupSet(w) PROVE Moves
  <2>1. phase' = phase /\ now' = now
    BY <1>1 DEF DedupGet, DedupSet
  <2>2. CASE DedupGet(w)
    BY <2>1, <2>2 DEF DedupGet, Outage, Fine, Fail
  <2>3. CASE DedupSet(w)
    BY <2>1, <2>3 DEF DedupSet, Outage, Fine, Fail
  <2> QED
    BY <1>1, <2>2, <2>3
<1>2. ASSUME NEW w \in Loggers, Take(w) \/ Write(w) PROVE Moves
  BY <1>2 DEF Take, Write, process, Fine, Fail
<1>3. ASSUME EditSave \/ Crash \/ Wait \/ UNCHANGED vars \/ \E n \in counting : IncrClick(n)
      PROVE  Moves
  BY <1>3 DEF EditSave, Crash, Wait, Tick, vars, process, IncrClick, Fine, Fail
<1>4. ASSUME NEW l \in Links, EditFind(l) \/ \E v \in Visitors : Redirect(l, v) PROVE Moves
  BY <1>4 DEF EditFind, Redirect, process
<1>5. Moves
  BY <1>1, <1>2, <1>3, <1>4 DEF Next, LogStep
<1> QED
  BY <1>5, ProcessAssumption DEF ProcessTypeOK

LEMMA ClickStep ==
    ASSUME IInv, [Next]_vars
    PROVE  ClickInv'
<1>1. ClickInv /\ now \in Nat
  BY ProcessStep DEF IInv
<1>2. ASSUME UNCHANGED <<visits, counting, clicks, edit, drifted>> PROVE ClickInv'
  BY <1>1, <1>2 DEF ClickInv, ClickShape, Ran, Exact, Counted, Pending, OfThis
<1>3. ASSUME NEW l \in Links, NEW v \in Visitors, Redirect(l, v) PROVE ClickInv'
  BY <1>1, <1>3, RedirectCounts
<1>4. ASSUME NEW n \in counting, IncrClick(n) PROVE ClickInv'
  BY <1>1, <1>4, IncrClickCounts
<1>5. ASSUME EditSave \/ \E l \in Links : EditFind(l) PROVE ClickInv'
  BY <1>1, <1>5, EditCounts
<1>6. ASSUME Crash PROVE ClickInv'
  BY <1>1, <1>6, CrashCounts
<1>7. ASSUME Wait \/ (\E w \in Loggers : LogStep(w)) \/ UNCHANGED vars
      PROVE  UNCHANGED <<visits, counting, clicks, edit, drifted>>
  BY <1>7 DEF Wait, LogStep, Take, DedupGet, DedupSet, Write, vars, history
<1> QED
  BY <1>2, <1>3, <1>4, <1>5, <1>6, <1>7 DEF Next

LEMMA LogInvStep ==
    ASSUME IInv, [Next]_vars
    PROVE  LogInv'
<1>1. LogInv /\ ClickInv /\ now \in Nat
  BY ProcessStep DEF IInv
<1>2. ASSUME UNCHANGED <<visits, fresh, worker, judged, missed, rows>> PROVE LogInv'
  <2>1. \A w \in Loggers : Held(w)' = Held(w)
    BY <1>2 DEF Held
  <2>2. LogShape' /\ Apart' /\ InStep'
    BY <1>1, <1>2, <2>1 DEF LogInv, LogShape, Apart, InStep
  <2> QED
    BY <1>1, <1>2, <2>1, <2>2, SameWritten DEF LogInv
<1>3. ASSUME NEW l \in Links, NEW v \in Visitors, Redirect(l, v) PROVE LogInv'
  BY <1>1, <1>3, RedirectQueues
<1>4. ASSUME NEW w \in Loggers, Take(w) PROVE LogInv'
  BY <1>1, <1>4, TakeMoves
<1>5. ASSUME NEW w \in Loggers, DedupGet(w) PROVE LogInv'
  <2>1. UNCHANGED <<visits, fresh, rows, missed>> /\ Entry(w) \in worker[w].todo
    BY <1>1, <1>5, GetCases
  <2>2. CASE \E incr, expire \in BOOLEAN : Judge(w, Entry(w), FALSE, incr, expire)
    BY <1>1, <2>1, <2>2, JudgeKeepsLog
  <2>3. CASE worker[w].at = "get" /\ worker' = [worker EXCEPT ![w].at = "set"]
             /\ UNCHANGED <<bucket, judged, realtime>>
    BY <1>1, <2>1, <2>3, KeepsJudging
  <2> QED
    BY <1>1, <1>5, <2>2, <2>3, GetCases
<1>6. ASSUME NEW w \in Loggers, DedupSet(w) PROVE LogInv'
  <2>1. /\ UNCHANGED <<visits, fresh, rows, missed>> /\ Entry(w) \in worker[w].todo
        /\ \E incr, expire \in BOOLEAN : Judge(w, Entry(w), TRUE, incr, expire)
    BY <1>1, <1>6, SetCases
  <2> QED
    BY <1>1, <2>1, JudgeKeepsLog
<1>7. ASSUME NEW w \in Loggers, Write(w) PROVE LogInv'
  BY <1>1, <1>7, WriteMoves
<1>8. ASSUME Crash PROVE LogInv'
  BY <1>1, <1>8, CrashLoses
<1>9. ASSUME \/ \E n \in counting : IncrClick(n)
             \/ EditSave \/ Wait \/ UNCHANGED vars \/ \E l \in Links : EditFind(l)
      PROVE  UNCHANGED <<visits, fresh, worker, judged, missed, rows>>
  BY <1>9 DEF IncrClick, EditSave, EditFind, Wait, vars, history
<1> QED
  BY <1>2, <1>3, <1>4, <1>5, <1>6, <1>7, <1>8, <1>9 DEF Next, LogStep

LEMMA VerdictStep ==
    ASSUME IInv, [Next]_vars
    PROVE  VerdictInv' /\ BucketInv'
<1>1. /\ VerdictInv /\ BucketInv /\ LogInv /\ now \in Nat /\ now' \in Nat /\ now <= now'
      /\ now \in 0..MaxTime
  BY ProcessStep DEF IInv
<1> DEFINE Longer == /\ \A n \in DOMAIN visits : n \in DOMAIN visits' /\ visits'[n] = visits[n]
                     /\ \A n \in DOMAIN visits' : n \in DOMAIN visits \/ visits'[n].at = now
<1>2. ASSUME UNCHANGED <<judged, realtime, dedup, bucket>>, Longer
      PROVE  VerdictInv' /\ BucketInv'
  BY <1>1, <1>2, VerdictsStay, BucketsStay
<1>3. ASSUME NEW l \in Links, NEW v \in Visitors, Redirect(l, v)
      PROVE  VerdictInv' /\ BucketInv'
  <2>1. UNCHANGED <<judged, realtime, dedup, bucket>>
    BY <1>3 DEF Redirect, redis
  <2>2. /\ visits \in Seq(Visit) /\ [link |-> l, who |-> v, at |-> now] \in Visit
        /\ visits' = Append(visits, [link |-> l, who |-> v, at |-> now])
    BY <1>1, <1>3 DEF Redirect, LogInv, LogShape, Visit
  <2>3. Longer
    BY <2>2
  <2> QED
    BY <1>2, <2>1, <2>3
<1>4. ASSUME NEW w \in Loggers, NEW n \in worker[w].todo, NEW first \in BOOLEAN,
             NEW incr \in BOOLEAN, NEW expire \in BOOLEAN, Judge(w, n, first, incr, expire),
             UNCHANGED <<visits, fresh, missed, rows, now>>,
             \/ dedup' = dedup /\ (first \/ Seen(n))
             \/ first /\ dedup' = [dedup EXCEPT ![Key(n)] = now + Window]
      PROVE  VerdictInv' /\ BucketInv'
  <2> DEFINE r == [first |-> first, at |-> now]
  <2>1. /\ judged' = With(judged, n, r) /\ n \notin DOMAIN judged /\ n \in DOMAIN visits
    BY <1>1, <1>4, JudgeKeepsLog
  <2>2. VerdictInv'
    BY <1>1, <1>4, <2>1, VerdictJoins
  <2>3. r \in Verdict /\ r.at = now
    BY <1>1 DEF Verdict
  <2>4. RecordRealtime(n, incr, expire)
    BY <1>4 DEF Judge
  <2> HIDE DEF r
  <2>5. BucketInv'
    BY <1>1, <1>4, <2>1, <2>3, <2>4, BucketsCount
  <2> QED
    BY <2>2, <2>5
<1>5. ASSUME NEW w \in Loggers, DedupGet(w) PROVE VerdictInv' /\ BucketInv'
  <2>1. /\ UNCHANGED <<visits, fresh, rows, missed, now, dedup>> /\ Entry(w) \in worker[w].todo
    BY <1>1, <1>5, GetCases
  <2>2. CASE \E incr, expire \in BOOLEAN :
               Seen(Entry(w)) /\ Judge(w, Entry(w), FALSE, incr, expire)
    BY <1>4, <2>1, <2>2
  <2>3. CASE UNCHANGED <<bucket, judged, realtime>>
    BY <1>2, <2>1, <2>3
  <2> QED
    BY <1>1, <1>5, <2>2, <2>3, GetCases
<1>6. ASSUME NEW w \in Loggers, DedupSet(w) PROVE VerdictInv' /\ BucketInv'
  <2>1. /\ UNCHANGED <<visits, fresh, rows, missed, now>> /\ Entry(w) \in worker[w].todo
    BY <1>1, <1>6, SetCases
  <2>2. PICK set \in BOOLEAN, incr \in BOOLEAN, expire \in BOOLEAN :
            /\ Judge(w, Entry(w), TRUE, incr, expire)
            /\ dedup' = IF set THEN [dedup EXCEPT ![<<visits[Entry(w)].link,
                                         visits[Entry(w)].who.ip>>] = now + Window]
                        ELSE dedup
    BY <1>1, <1>6, SetCases
  <2>3. dedup' = dedup \/ dedup' = [dedup EXCEPT ![Key(Entry(w))] = now + Window]
    BY <2>2 DEF Key
  <2> QED
    BY <1>4, <2>1, <2>2, <2>3
<1>7. ASSUME \/ \E n \in counting : IncrClick(n)
             \/ \E w \in Loggers : Take(w) \/ Write(w)
             \/ EditSave \/ Wait \/ Crash \/ UNCHANGED vars \/ \E l \in Links : EditFind(l)
      PROVE  UNCHANGED <<visits, judged, realtime, dedup, bucket>>
  BY <1>7 DEF IncrClick, Take, Write, EditSave, EditFind, Wait, Crash, vars, history, redis
<1>8. ASSUME UNCHANGED visits PROVE Longer
  BY <1>8
<1> QED
  BY <1>2, <1>3, <1>5, <1>6, <1>7, <1>8 DEF Next, LogStep

\* The invariant, which every property below follows from.
THEOREM Inductive == Spec => []IInv
<1>1. IInv /\ [Next]_vars => IInv'
  BY ProcessStep, ClickStep, LogInvStep, VerdictStep DEF IInv
<1> QED
  BY <1>1, InitIInv, PTL DEF Spec

\* However many redirects, workers, updates and crashes there are: every variable
\* keeps its type, no counter is ahead of the visits, and the channel stays within
\* its capacity (TypeOK).
THEOREM VisitTypes == Spec => []TypeOK
<1>1. IInv => TypeOK
  <2> SUFFICES ASSUME IInv PROVE TypeOK
    OBVIOUS
  <2>1. \A n \in DOMAIN visits : visits[n].link \in Links /\ visits[n].who \in Visitors
    BY KeyType DEF IInv, Visit
  <2>2. fresh \subseteq DOMAIN visits /\ Cardinality(fresh) <= ChanCap /\ ProcessTypeOK
        /\ counting \subseteq DOMAIN visits /\ missed \subseteq DOMAIN visits
        /\ drifted \subseteq Links
    BY DEF IInv, LogInv, LogShape, ClickInv, ClickShape
  <2>3. ASSUME NEW l \in Links PROVE clicks[l] \in 0..MaxVisits
    <3>1. clicks[l] \in Nat /\ Ran(l, clicks[l])
      BY DEF IInv, ClickInv, ClickShape
    <3>2. Counted(l) \in Nat /\ Counted(l) <= MaxVisits /\ Pending(l) \in Nat
      BY VisitsOfLink DEF IInv, ClickInv
    <3> QED
      BY <3>1, <3>2, VisitAssumption DEF Ran
  <2>4. clicks \in [Links -> 0..MaxVisits]
    BY <2>3 DEF IInv, ClickInv, ClickShape
  <2>5. ASSUME NEW w \in Loggers
        PROVE  /\ worker[w].at \in {"idle", "get", "set", "write"}
               /\ worker[w].todo \cup worker[w].done \subseteq DOMAIN visits
               /\ worker[w].tries \in 0..(MaxTries - 1)
    BY DEF IInv, LogInv, LogShape, Work, Places, Held
  <2> QED
    BY <2>1, <2>2, <2>4, <2>5 DEF TypeOK
<1> QED
  BY <1>1, Inductive, PTL

\* For every interleaving of click goroutines, updates and crashes, the counter of
\* a link that lost no click is the number of its visits less those whose goroutine
\* is under way, and that of any link is no more (IncrClick, Update).
THEOREM ClicksAreExact == Spec => []ClicksExact
<1>1. IInv => ClicksExact
  <2> SUFFICES ASSUME IInv, NEW l \in Links
               PROVE  LET ran == Counted(l) - Pending(l) IN
                      IF l \in drifted THEN clicks[l] <= ran ELSE clicks[l] = ran
    BY DEF ClicksExact, Counted, Pending
  <2>1. Counted(l) \in Nat /\ Pending(l) \in Nat /\ clicks[l] \in Nat
    BY VisitsOfLink DEF IInv, ClickInv, ClickShape
  <2>2. Ran(l, clicks[l]) /\ (l \notin drifted => clicks[l] + Pending(l) = Counted(l))
    BY DEF IInv, ClickInv, Exact
  <2> QED
    BY <2>1, <2>2 DEF Ran
<1> QED
  BY <1>1, Inductive, PTL

\* However many workers read and write the entries of Redis, in whatever order and
\* with whatever failures, a repeat has its first less than a window before it
\* (CheckDedup).
THEOREM RepeatsFollowFirsts == Spec => []RepeatsHaveFirst
<1>1. IInv => RepeatsHaveFirst
  BY DEF IInv, VerdictInv
<1> QED
  BY <1>1, Inductive, PTL

-----------------------------------------------------------------------------
\* What the pages say.

LEMMA TotalIsSum ==
    ASSUME NEW g
    PROVE  Total(g) = Sum(g, DOMAIN g)
BY Zenon DEF Total, Sum

\* The buckets of the m minutes up to now, and the visits they have counted.
Minutes(l, m) == [i \in 0..(m - 1) |-> Reached(<<l, now \div Minute - i>>)]

Shown(l, m) ==
    [i \in 0..(m - 1) |->
        LET b == <<l, now \div Minute - i>> IN IF LiveBucket(b) THEN bucket[b].n ELSE 0]

LEMMA MinutesParts ==
    ASSUME IInv, NEW l \in Links, NEW m \in Nat \ {0}
    PROVE  /\ Parts(Minutes(l, m), 0..(m - 1)) /\ IsFiniteSet(0..(m - 1))
           /\ Joined(Minutes(l, m), 0..(m - 1)) =
                  {n \in realtime : /\ visits[n].link = l
                                    /\ judged[n].at \div Minute > now \div Minute - m}
<1>1. now \in Nat /\ now \div Minute \in Nat /\ Minute \in Nat \ {0}
  BY InMinute, VisitAssumption DEF IInv, ProcessTypeOK
<1>2. \A i \in 0..(m - 1) : IsFiniteSet(Reached(<<l, now \div Minute - i>>))
  BY ReachedFinite DEF IInv
<1>3. Parts(Minutes(l, m), 0..(m - 1))
  <2>1. ASSUME NEW i \in 0..(m - 1), NEW k \in 0..(m - 1), i # k
        PROVE  Minutes(l, m)[i] \cap Minutes(l, m)[k] = {}
    BY <1>1, <2>1 DEF Minutes, Reached
  <2> QED
    BY <1>2, <2>1 DEF Parts, Minutes
<1>4. IsFiniteSet(0..(m - 1))
  <2>1. 0 \in Int /\ m - 1 \in Int
    OBVIOUS
  <2> QED
    BY <2>1, FS_Interval
<1>5. ASSUME NEW n \in realtime
      PROVE  judged[n].at \div Minute \in Nat /\ judged[n].at \div Minute <= now \div Minute
  <2>1. judged[n].at \in Nat /\ judged[n].at <= now
    BY DEF IInv, BucketInv, VerdictInv, Verdict
  <2>2. /\ judged[n].at \div Minute \in Nat
        /\ (judged[n].at \div Minute) * Minute <= judged[n].at
    BY <2>1, InMinute
  <2>3. now < (now \div Minute) * Minute + Minute
    BY <1>1, InMinute
  <2> QED
    BY <1>1, <2>1, <2>2, <2>3
<1>6. ASSUME NEW n \in realtime, visits[n].link = l
      PROVE  judged[n].at \div Minute > now \div Minute - m
                 <=> \E i \in 0..(m - 1) : n \in Minutes(l, m)[i]
  <2>1. \A i \in 0..(m - 1) : n \in Minutes(l, m)[i]
                                 <=> judged[n].at \div Minute = now \div Minute - i
    BY <1>6 DEF Minutes, Reached
  <2>2. CASE judged[n].at \div Minute > now \div Minute - m
    <3> DEFINE i == now \div Minute - judged[n].at \div Minute
    <3>1. i \in 0..(m - 1) /\ judged[n].at \div Minute = now \div Minute - i
      BY <1>1, <1>5, <2>2
    <3> QED
      BY <2>1, <2>2, <3>1
  <2>3. ASSUME NEW i \in 0..(m - 1), n \in Minutes(l, m)[i]
        PROVE  judged[n].at \div Minute > now \div Minute - m
    BY <1>1, <2>1, <2>3
  <2> QED
    BY <2>2, <2>3
<1>7. \A i \in 0..(m - 1) : \A n \in Minutes(l, m)[i] : n \in realtime /\ visits[n].link = l
  BY DEF Minutes, Reached
<1> QED
  BY <1>3, <1>4, <1>6, <1>7 DEF Joined

\* A bucket is alive while its minute is among those asked for, if buckets live
\* that long.
LEMMA ShownCounts ==
    ASSUME IInv, NEW l \in Links, NEW m \in Nat \ {0}, NEW i \in 0..(m - 1)
    PROVE  /\ Shown(l, m)[i] \in Nat /\ Shown(l, m)[i] <= Cardinality(Minutes(l, m)[i])
           /\ m * Minute <= Keep => Shown(l, m)[i] = Cardinality(Minutes(l, m)[i])
<1> DEFINE b == <<l, now \div Minute - i>>
<1>1. /\ now \in Nat /\ now \div Minute \in Nat /\ Minute \in Nat \ {0} /\ Keep \in Nat
      /\ now < (now \div Minute) * Minute + Minute
  BY InMinute, VisitAssumption DEF IInv, ProcessTypeOK
<1>2. /\ Minutes(l, m)[i] = Reached(b)
      /\ Shown(l, m)[i] = IF LiveBucket(b) THEN bucket[b].n ELSE 0
  BY DEF Minutes, Shown
<1>3. IsFiniteSet(Reached(b)) /\ Cardinality(Reached(b)) \in Nat
  BY ReachedFinite DEF IInv
<1>4. b[1] = l /\ b[2] = now \div Minute - i
  OBVIOUS
<1> HIDE DEF b
<1>5. ASSUME m * Minute <= Keep PROVE Minute <= Keep
  <2>1. m >= 1 /\ m * Minute >= Minute
    BY <1>1
  <2> QED
    BY <1>1, <1>5, <2>1
<1>6. CASE LiveBucket(b)
  BY <1>2, <1>3, <1>5, <1>6 DEF LiveBucket, IInv, BucketInv, BucketOf
<1>7. CASE ~LiveBucket(b)
  <2>1. ASSUME m * Minute <= Keep PROVE Reached(b) = {}
    <3>1. ASSUME b \in DOMAIN bucket PROVE FALSE
      <4>1. /\ bucket[b].exp <= now /\ bucket[b].exp \in Nat
            /\ b[2] * Minute + Keep <= bucket[b].exp
        BY <1>1, <1>5, <1>7, <2>1, <3>1 DEF LiveBucket, IInv, BucketInv, BucketOf
      <4>2. (now \div Minute - i) * Minute + Keep <= now
        BY <1>1, <1>4, <4>1
      <4>3. (now \div Minute - i) * Minute = (now \div Minute) * Minute - i * Minute
        BY <1>1
      <4>4. i * Minute + Minute <= m * Minute
        BY <1>1
      <4>5. (now \div Minute) * Minute \in Int /\ i * Minute \in Int /\ m * Minute \in Int
        BY <1>1
      <4> QED
        BY <1>1, <2>1, <4>2, <4>3, <4>4, <4>5
    <3>2. ASSUME NEW n \in Reached(b) PROVE FALSE
      <4>1. b[2] \in Nat
        <5>1. n \in realtime /\ judged[n].at \div Minute = b[2]
          BY <3>2 DEF Reached
        <5>2. judged[n].at \in Nat
          BY <5>1 DEF IInv, BucketInv, VerdictInv, Verdict
        <5> QED
          BY <5>1, <5>2, InMinute
      <4>2. b \in Links \X Nat
        BY <1>4, <4>1 DEF b
      <4> QED
        BY <1>5, <2>1, <3>1, <3>2, <4>2 DEF IInv, BucketInv
    <3> QED
      BY <3>2
  <2> QED
    BY <1>2, <1>3, <1>7, <2>1, FS_EmptySet
<1> QED
  BY <1>6, <1>7

\* The realtime page is exact for every number of links and workers, every minute
\* and every life of the buckets, whatever Redis refuses (RecordRealtime,
\* GetRealtime).
THEOREM RealtimeIsExact == Spec => []RealtimeExact
<1>1. IInv => RealtimeExact
  <2> SUFFICES ASSUME IInv, NEW l \in Links, NEW m \in 1..(MaxTime \div Minute + 1)
               PROVE  LET counted == Cardinality({n \in realtime :
                              visits[n].link = l
                              /\ judged[n].at \div Minute > now \div Minute - m}) IN
                      IF m * Minute <= Keep THEN GetRealtime(l, m) = counted
                      ELSE GetRealtime(l, m) <= counted
    BY DEF RealtimeExact
  <2> DEFINE counted == Cardinality(Joined(Minutes(l, m), 0..(m - 1)))
  <2>1. m \in Nat \ {0}
    BY ProcessAssumption, InMinute
  <2>2. GetRealtime(l, m) = Sum(Shown(l, m), 0..(m - 1))
    <3>1. GetRealtime(l, m) = Total(Shown(l, m)) /\ DOMAIN Shown(l, m) = 0..(m - 1)
      BY Zenon DEF GetRealtime, Shown
    <3> QED
      BY <3>1, TotalIsSum
  <2>3. IF m * Minute <= Keep THEN GetRealtime(l, m) = counted ELSE GetRealtime(l, m) <= counted
    <3>1. Parts(Minutes(l, m), 0..(m - 1)) /\ IsFiniteSet(0..(m - 1))
      BY <2>1, MinutesParts
    <3>2. CASE m * Minute <= Keep
      <4>1. \A i \in 0..(m - 1) : Shown(l, m)[i] = Cardinality(Minutes(l, m)[i])
        BY <2>1, <3>2, ShownCounts
      <4> QED
        BY <2>2, <3>1, <3>2, <4>1, SumOfParts
    <3>3. CASE ~(m * Minute <= Keep)
      <4>1. \A i \in 0..(m - 1) : /\ Shown(l, m)[i] \in Nat
                                  /\ Shown(l, m)[i] <= Cardinality(Minutes(l, m)[i])
        BY <2>1, ShownCounts
      <4> QED
        BY <2>2, <3>1, <3>3, <4>1, SumUpToParts
    <3> QED
      BY <3>2, <3>3
  <2> QED
    BY <2>1, <2>3, MinutesParts
<1> QED
  BY <1>1, Inductive, PTL

-----------------------------------------------------------------------------
\* The reports.

\* A column of a set of rows: what a report groups them by.
Group(S, c, D) == [x \in D |-> Cardinality({r \in S : c[r] = x})]

\* A report's numbers add up to the rows that fall into its groups.
LEMMA GroupsAddUp ==
    ASSUME NEW S, IsFiniteSet(S), NEW c, NEW D, IsFiniteSet(D)
    PROVE  Total(Group(S, c, D)) = Cardinality({r \in S : c[r] \in D})
<1> DEFINE P == [x \in D |-> {r \in S : c[r] = x}]
<1>1. \A x \in D : P[x] \in SUBSET S
  OBVIOUS
<1>2. \A x \in D : IsFiniteSet(P[x])
  BY <1>1, FS_Subset
<1>3. Parts(P, D) /\ Joined(P, D) = {r \in S : c[r] \in D}
  BY <1>2 DEF Parts, Joined
<1>4. DOMAIN Group(S, c, D) = D /\ \A x \in D : Group(S, c, D)[x] = Cardinality(P[x])
  BY DEF Group
<1> HIDE DEF P
<1>5. Sum(Group(S, c, D), D) = Cardinality(Joined(P, D))
  BY <1>3, <1>4, SumOfParts
<1> QED
  BY <1>3, <1>4, <1>5, TotalIsSum

\* Only a bot's device is "bot", and no row lacks its device or browser.
LEMMA AgentRead ==
    ASSUME NEW ua
    PROVE  /\ DeviceOf(ua) \in {"mobile", "tablet", "desktop"}
           /\ BrowserOf(ua) \in {"Firefox", "Edge", "Chrome", "Safari", "Opera", "Other"}
<1>1. ASSUME NEW cases, NEW k \in Nat, DOMAIN cases = 1..k, NEW default, NEW V, default \in V,
             \A i \in 1..k : cases[i][2] \in V
      PROVE  FirstOf(ua, cases, default) \in V
  <2> DEFINE at == {i \in DOMAIN cases : cases[i][1] \cap ua # {}}
  <2>1. CASE at = {}
    BY <1>1, <2>1 DEF FirstOf
  <2>2. CASE at # {}
    <3>1. at \in SUBSET Nat /\ at \in SUBSET (1..k)
      BY <1>1
    <3> HIDE DEF at
    <3>2. Min(at) \in 1..k
      BY <2>2, <3>1, LeastEntry
    <3> QED
      BY <1>1, <2>2, <3>2, Zenon DEF FirstOf, at
  <2> QED
    BY <2>1, <2>2
<1>2. DeviceOf(ua) \in {"mobile", "tablet", "desktop"}
  <2> DEFINE cs == <<<<{"ipad"}, "tablet">>, <<{"mobile"}, "mobile">>, <<{"tablet"}, "tablet">>>>
             names == {"mobile", "tablet", "desktop"}
  <2>1. DOMAIN cs = 1..3 /\ (\A i \in 1..3 : cs[i][2] \in names) /\ "desktop" \in names
    OBVIOUS
  <2> HIDE DEF cs, names
  <2>2. FirstOf(ua, cs, "desktop") \in names
    BY <1>1, <2>1
  <2> USE DEF cs
  <2> QED
    BY <2>2 DEF DeviceOf, names
<1>3. BrowserOf(ua) \in {"Firefox", "Edge", "Chrome", "Safari", "Opera", "Other"}
  <2> DEFINE cs == <<<<{"firefox"}, "Firefox">>, <<{"edg"}, "Edge">>, <<{"chrome"}, "Chrome">>,
                     <<{"safari"}, "Safari">>, <<{"opera", "opr"}, "Opera">>>>
             names == {"Firefox", "Edge", "Chrome", "Safari", "Opera", "Other"}
  <2>1. DOMAIN cs = 1..5 /\ (\A i \in 1..5 : cs[i][2] \in names) /\ "Other" \in names
    OBVIOUS
  <2> HIDE DEF cs, names
  <2>2. FirstOf(ua, cs, "Other") \in names
    BY <1>1, <2>1
  <2> USE DEF cs
  <2> QED
    BY <2>2 DEF BrowserOf, names
<1> QED
  BY <1>2, <1>3

\* What is so of every row.
Sound(r) ==
    /\ r.link \in Links /\ r.at \in 0..now
    /\ r.bot \in BOOLEAN /\ (r.bot <=> r.device = "bot")
    /\ r.device # None /\ r.browser # None /\ <<r.country, r.city>> # None

LEMMA RowsSound ==
    ASSUME IInv
    PROVE  \A r \in rows : Sound(r)
<1> SUFFICES ASSUME NEW n \in DOMAIN visits, NEW k \in Nat PROVE Sound(RowOf(n, k))
  BY DEF IInv, LogInv, RowsInv
<1> DEFINE v == visits[n].who
<1>1. n \in DOMAIN visits /\ visits[n] \in Visit /\ visits[n].at <= now /\ now \in Nat
  BY KeyType DEF IInv, VerdictInv, ProcessTypeOK
<1>2. visits[n].link \in Links /\ v \in Visitors /\ visits[n].at \in 0..now
  BY <1>1 DEF Visit
<1>3. <<v.country, v.city>> # None
  BY <1>2, VisitAssumption
<1>4. /\ DetectBot(v.ua) \in BOOLEAN /\ (DetectBot(v.ua) <=> EnrichedDevice(v.ua) = "bot")
      /\ EnrichedDevice(v.ua) # None /\ BrowserOf(v.ua) # None
  <2>1. DeviceOf(v.ua) \in {"mobile", "tablet", "desktop"}
    BY AgentRead
  <2>2. BrowserOf(v.ua) \in {"Firefox", "Edge", "Chrome", "Safari", "Opera", "Other"}
    BY AgentRead
  <2>3. DetectBot(v.ua) \in BOOLEAN
    BY DEF DetectBot
  <2> QED
    BY <2>1, <2>2, <2>3, ReportAssumption DEF EnrichedDevice
<1> HIDE DEF v
<1>5. RowOf(n, k) = [visit |-> n, copy |-> k, link |-> visits[n].link, at |-> visits[n].at, unique |-> TRUE,
                  bot |-> DetectBot(v.ua), device |-> EnrichedDevice(v.ua),
                  browser |-> BrowserOf(v.ua),
                  referer |-> v.referer, country |-> v.country, city |-> v.city]
  BY Zenon DEF RowOf, v
<1> QED
  BY <1>2, <1>3, <1>4, <1>5 DEF Sound

\* There is one row for each visit written, besides those of the attempts taken to
\* have failed.
LEMMA RowsCounted ==
    ASSUME IInv
    PROVE  /\ IsFiniteSet(rows) /\ Cardinality(rows) \in Nat
           /\ Cardinality(rows) = Len(visits) - Cardinality(fresh \cup InWorkers \cup missed)
                                      + Cardinality(Doubted)
<1> DEFINE f == [n \in Written |-> RowOf(n, 0)]
           kept == {r \in rows : r.copy = 0}
           gone == fresh \cup InWorkers \cup missed
<1>1. /\ DOMAIN visits = 1..Len(visits) /\ Len(visits) \in Nat
      /\ IsFiniteSet(DOMAIN visits)
  BY VisitsOfLink DEF IInv, ClickInv
<1>2. Cardinality(DOMAIN visits) = Len(visits)
  <2>1. 1 \in Int /\ Len(visits) \in Int
    BY <1>1
  <2>2. Cardinality(1..Len(visits)) = IF 1 > Len(visits) THEN 0 ELSE Len(visits) - 1 + 1
    BY <2>1, FS_Interval, Zenon
  <2> QED
    BY <1>1, <2>2
<1>3. \A n, k : RowOf(n, k).visit = n /\ RowOf(n, k).copy = k
  BY DEF RowOf
<1>4. /\ IsFiniteSet(rows) /\ \A n \in Written : RowOf(n, 0) \in rows
      /\ \A r \in rows : \E n \in DOMAIN visits : \E k \in Nat :
             r = RowOf(n, k) /\ (k = 0 => n \in Written)
  BY DEF IInv, LogInv, RowsInv
<1>5. f \in Bijection(Written, kept)
  <2>1. \A n \in Written : RowOf(n, 0) \in kept
    BY <1>3, <1>4
  <2>2. ASSUME NEW r \in kept PROVE \E n \in Written : r = RowOf(n, 0)
    <3>1. PICK n \in DOMAIN visits : \E k \in Nat : r = RowOf(n, k) /\ (k = 0 => n \in Written)
      BY <1>4
    <3> QED
      BY <1>3, <3>1
  <2> HIDE DEF kept
  <2> QED
    BY <1>3, <2>1, <2>2 DEF Bijection, Injection, Surjection, IsInjective
<1>6. gone \in SUBSET DOMAIN visits /\ Written = DOMAIN visits \ gone
  BY DEF IInv, LogInv, LogShape, InWorkers, Held, Written
<1>7. rows \cap Doubted = Doubted /\ rows \ Doubted = kept /\ Doubted \in SUBSET rows
  BY DEF Doubted
<1> HIDE DEF f, gone, kept
<1>8. /\ IsFiniteSet(Written)
      /\ Cardinality(Written) = Cardinality(DOMAIN visits) - Cardinality(DOMAIN visits \cap gone)
  BY <1>1, <1>6, FS_Difference
<1>9. DOMAIN visits \cap gone = gone
  BY <1>6
<1>10. ExistsBijection(Written, kept)
  BY <1>5 DEF ExistsBijection
<1>11. IsFiniteSet(kept) /\ Cardinality(kept) = Cardinality(Written)
  BY <1>8, <1>10, FS_Bijection
<1>12. Cardinality(kept) = Cardinality(rows) - Cardinality(Doubted)
  <2>1. Cardinality(rows \ Doubted) = Cardinality(rows) - Cardinality(rows \cap Doubted)
    BY <1>4, FS_Difference
  <2> QED
    BY <1>7, <2>1
<1>13. IsFiniteSet(gone) /\ IsFiniteSet(Doubted)
  BY <1>1, <1>4, <1>6, <1>7, FS_Subset
<1>14. /\ Cardinality(rows) \in Nat /\ Cardinality(Doubted) \in Nat
       /\ Cardinality(gone) \in Nat
  BY <1>4, <1>13, FS_CardinalityType
<1>15. Cardinality(Written) = Len(visits) - Cardinality(gone)
  BY <1>2, <1>8, <1>9
<1>16. Cardinality(rows) = Len(visits) - Cardinality(gone) + Cardinality(Doubted)
  <2>1. PICK all \in Nat : all = Cardinality(rows)
    BY <1>14
  <2>2. PICK extra \in Nat : extra = Cardinality(Doubted)
    BY <1>14
  <2>3. PICK lost \in Nat : lost = Cardinality(gone)
    BY <1>14
  <2>4. PICK came \in Nat : came = Len(visits)
    BY <1>1
  <2>5. came - lost = all - extra
    BY <1>11, <1>12, <1>15, <2>1, <2>2, <2>3, <2>4
  <2>6. all = came - lost + extra
    BY <2>1, <2>2, <2>3, <2>4, <2>5
  <2> QED
    BY <2>1, <2>2, <2>3, <2>4, <2>6
<1> QED
  BY <1>4, <1>14, <1>16 DEF gone

\* The rows a range, a link and a filter leave.
LEMMA OfLinkRows ==
    ASSUME IInv, NEW l, NEW from, NEW to, NEW f
    PROVE  /\ OfLink(rows, l, from, to, f) \in SUBSET rows
           /\ IsFiniteSet(OfLink(rows, l, from, to, f))
           /\ Cardinality(OfLink(rows, l, from, to, f)) \in Nat
           /\ \A r \in OfLink(rows, l, from, to, f) : Sound(r)
<1>1. OfLink(rows, l, from, to, f) \in SUBSET rows
  BY DEF OfLink, Between, Where
<1> QED
  BY <1>1, RowsCounted, RowsSound, FS_Subset, FS_CardinalityType

\* The numbers of a series add up to its rows.
LEMMA SeriesAddsUp ==
    ASSUME NEW S, IsFiniteSet(S), NEW offset, NEW granularity
    PROVE  TotalOf(Points(S, offset, granularity)) = Cardinality(S)
<1> DEFINE c == [r \in S |-> (r.at + offset) \div Width(granularity)]
           D == {c[r] : r \in S}
           points == Points(S, offset, granularity)
           counts == [b \in DOMAIN points |-> points[b].clicks]
<1>1. D = {(r.at + offset) \div Width(granularity) : r \in S}
  OBVIOUS
<1>2. points = [b \in D |-> LET B == {r \in S : (r.at + offset) \div Width(granularity) = b} IN
                            [clicks |-> Cardinality(B), unique |-> Cardinality(Unique(B))]]
  BY <1>1, Zenon DEF Points
<1> HIDE DEF points
<1>3. \A b \in D : {r \in S : (r.at + offset) \div Width(granularity) = b} = {r \in S : c[r] = b}
  OBVIOUS
<1>4. DOMAIN points = D /\ \A b \in D : points[b].clicks = Cardinality({r \in S : c[r] = b})
  BY <1>2, <1>3
<1>5. IsFiniteSet(D) /\ {r \in S : c[r] \in D} = S
  BY FiniteImage
<1> HIDE DEF c, D
<1>6. counts = Group(S, c, D)
  BY <1>4 DEF Group
<1>7. Total(Group(S, c, D)) = Cardinality(S)
  BY <1>5, GroupsAddUp
<1>8. TotalOf(points) = Total(counts)
  BY Zenon DEF TotalOf
<1> HIDE DEF counts
<1> QED
  BY <1>6, <1>7, <1>8, Zenon DEF points

\* A report by a column leaves out the rows where the column is empty, and no
\* other.
Counts(S, c) == Group(S, c, {c[r] : r \in S} \ {None})

LEMMA ColumnAddsUp ==
    ASSUME NEW S, IsFiniteSet(S), NEW c
    PROVE  Total(Counts(S, c)) = Cardinality({r \in S : c[r] # None})
<1> DEFINE D == {c[r] : r \in S} \ {None}
<1>1. IsFiniteSet({c[r] : r \in S}) /\ D \in SUBSET {c[r] : r \in S}
  BY FiniteImage
<1>2. IsFiniteSet(D)
  BY <1>1, FS_Subset
<1>3. {r \in S : c[r] \in D} = {r \in S : c[r] # None}
  OBVIOUS
<1> HIDE DEF D
<1>4. Total(Group(S, c, D)) = Cardinality({r \in S : c[r] \in D})
  BY <1>2, GroupsAddUp
<1> QED
  BY <1>3, <1>4 DEF Counts, D

\* The columns.
RefererIn(S) == [r \in S |-> r.referer]
DeviceIn(S) == [r \in S |-> r.device]
BrowserIn(S) == [r \in S |-> r.browser]
CountryIn(S) == [r \in S |-> r.country]
PlaceIn(S) == [r \in S |-> IF r.country = None THEN None ELSE <<r.country, r.city>>]

LEMMA Breakdowns ==
    ASSUME NEW R, NEW l, NEW from, NEW to, NEW f, NEW S, S = OfLink(R, l, from, to, f)
    PROVE  /\ RefererBreakdown(R, l, from, to, f) = Counts(S, RefererIn(S))
           /\ DeviceBreakdown(R, l, from, to, f) = Counts(S, DeviceIn(S))
           /\ BrowserBreakdown(R, l, from, to, f) = Counts(S, BrowserIn(S))
           /\ GeoBreakdown(R, l, from, to, f) = Counts(S, PlaceIn(S))
BY DEF RefererBreakdown, DeviceBreakdown, BrowserBreakdown, GeoBreakdown, CountBy, Counts,
       Group, RefererIn, DeviceIn, BrowserIn, PlaceIn

LEMMA SummaryOf ==
    ASSUME NEW R, NEW l, NEW from, NEW to, NEW f, NEW S, S = OfLink(R, l, from, to, f)
    PROVE  /\ Summary(R, l, from, to, f).total = Cardinality(S)
           /\ Summary(R, l, from, to, f).unique = Cardinality(Unique(S))
           /\ Summary(R, l, from, to, f).human = Cardinality({r \in S : ~r.bot})
           /\ Summary(R, l, from, to, f).topCountry = Tops(Counts(S, CountryIn(S)))
<1>1. CountBy(S, LAMBDA r : r.country) = Counts(S, CountryIn(S))
  BY DEF CountBy, Counts, Group, CountryIn
<1> QED
  BY <1>1 DEF Summary

LEMMA TotalOfSummary ==
    ASSUME NEW R, NEW l, NEW from, NEW to, NEW f
    PROVE  Summary(R, l, from, to, f).total = Cardinality(OfLink(R, l, from, to, f))
BY Zenon DEF Summary

\* There is a top country unless no row has one.
LEMMA TopsExist ==
    ASSUME NEW S, NEW c
    PROVE  (Tops(Counts(S, c)) = {None}) <=> (\A r \in S : c[r] = None)
<1> DEFINE g == Counts(S, c)
<1>1. DOMAIN g = {c[r] : r \in S} \ {None}
  BY DEF Counts, Group
<1>2. Tops(g) \subseteq DOMAIN g \/ (DOMAIN g = {} /\ Tops(g) = {None})
  BY DEF Tops
<1>3. DOMAIN g = {} => Tops(g) = {None}
  BY DEF Tops
<1> HIDE DEF g
<1>4. None \notin DOMAIN g
  BY <1>1
<1>5. (Tops(g) = {None}) <=> (DOMAIN g = {})
  BY <1>2, <1>3, <1>4
<1> QED
  BY <1>1, <1>5 DEF g

\* The reports of any range, link and filter add up.
LEMMA ReportsAddUp ==
    ASSUME IInv, NEW l, NEW from, NEW to, NEW f
    PROVE  AddUp(l, from, to, f)
<1> DEFINE s == Summary(rows, l, from, to, f)
           devices == DeviceBreakdown(rows, l, from, to, f)
<1>0. PICK S : S = OfLink(rows, l, from, to, f)
  OBVIOUS
<1>1. IsFiniteSet(S) /\ Cardinality(S) \in Nat /\ \A r \in S : Sound(r)
  BY <1>0, OfLinkRows
<1>2. /\ s.total = Cardinality(S) /\ s.unique = Cardinality(Unique(S))
      /\ s.human = Cardinality({r \in S : ~r.bot})
      /\ s.topCountry = Tops(Counts(S, CountryIn(S)))
  BY <1>0, SummaryOf
<1> DEFINE device == DeviceIn(S)
           browser == BrowserIn(S)
           referer == RefererIn(S)
           country == CountryIn(S)
           place == PlaceIn(S)
<1>3. /\ RefererBreakdown(rows, l, from, to, f) = Counts(S, referer)
      /\ devices = Counts(S, device)
      /\ BrowserBreakdown(rows, l, from, to, f) = Counts(S, browser)
      /\ GeoBreakdown(rows, l, from, to, f) = Counts(S, place)
  BY <1>0, Breakdowns
<1> HIDE DEF s, devices
<1>4. ASSUME NEW g, NEW tz
      PROVE  TotalOf(Timeseries(rows, l, from, to, g, tz, f)) = s.total
  <2>1. Timeseries(rows, l, from, to, g, tz, f) = Points(S, OffsetOf(tz), g)
    BY <1>0, Zenon DEF Timeseries
  <2> QED
    BY <1>1, <1>2, <2>1, SeriesAddsUp
<1>5. Total(devices) = s.total /\ Total(BrowserBreakdown(rows, l, from, to, f)) = s.total
  <2>1. {r \in S : device[r] # None} = S /\ {r \in S : browser[r] # None} = S
    BY <1>1 DEF Sound, DeviceIn, BrowserIn
  <2> HIDE DEF device, browser
  <2>2. /\ Total(Counts(S, device)) = Cardinality({r \in S : device[r] # None})
        /\ Total(Counts(S, browser)) = Cardinality({r \in S : browser[r] # None})
    BY <1>1, ColumnAddsUp
  <2> QED
    BY <1>2, <1>3, <2>1, <2>2
<1>6. Total(RefererBreakdown(rows, l, from, to, f)) <= s.total
  <2>1. {r \in S : referer[r] # None} \in SUBSET S
    BY DEF RefererIn
  <2> HIDE DEF referer
  <2>2. Total(Counts(S, referer)) = Cardinality({r \in S : referer[r] # None})
    BY <1>1, ColumnAddsUp
  <2>3. Cardinality({r \in S : referer[r] # None}) <= Cardinality(S)
    BY <1>1, <2>1, FS_Subset
  <2> QED
    BY <1>2, <1>3, <2>2, <2>3
<1>7. s.total - s.human = (IF "bot" \in DOMAIN devices THEN devices["bot"] ELSE 0)
  <2> DEFINE people == {r \in S : ~r.bot}
             bots == {r \in S : device[r] = "bot"}
  <2>1. people \in SUBSET S /\ bots = S \ people /\ S \cap people = people
    BY <1>1 DEF Sound, DeviceIn
  <2>2. /\ DOMAIN devices = {device[r] : r \in S} \ {None}
        /\ \A x \in DOMAIN devices : devices[x] = Cardinality({r \in S : device[r] = x})
    BY <1>3 DEF Counts, Group
  <2>3. ("bot" \in DOMAIN devices <=> bots # {})
    BY <2>2, ReportAssumption
  <2>4. "bot" \in DOMAIN devices => devices["bot"] = Cardinality(bots)
    BY <2>2
  <2> HIDE DEF people, bots
  <2>5. Cardinality(S \ people) = Cardinality(S) - Cardinality(S \cap people)
    BY <1>1, FS_Difference
  <2>6. bots = {} => Cardinality(bots) = 0
    BY FS_EmptySet
  <2>7. s.human = Cardinality(people)
    BY <1>2 DEF people
  <2> QED
    BY <1>2, <2>1, <2>3, <2>4, <2>5, <2>6, <2>7
<1>8. (s.topCountry = {None}) = (DOMAIN GeoBreakdown(rows, l, from, to, f) = {})
  <2>1. DOMAIN Counts(S, place) = {} <=> \A r \in S : place[r] = None
    BY DEF Counts, Group
  <2>2. \A r \in S : place[r] = None <=> country[r] = None
    BY <1>1 DEF Sound, PlaceIn, CountryIn
  <2> HIDE DEF place
  <2>3. Tops(Counts(S, country)) = {None} <=> \A r \in S : country[r] = None
    <3> HIDE DEF country
    <3> QED
      BY TopsExist
  <2>4. s.topCountry = Tops(Counts(S, country))
    BY <1>2
  <2> HIDE DEF country
  <2> QED
    BY <1>3, <2>1, <2>2, <2>3, <2>4
<1> QED
  BY <1>4, <1>5, <1>6, <1>7, <1>8 DEF AddUp, s, devices

\* A day begins at a multiple of its length, and ends before the next one.
LEMMA InDay ==
    ASSUME NEW t \in Nat
    PROVE  /\ Day \in Nat /\ Day > 0 /\ Second \in Nat /\ Second > 0
           /\ t \div Day \in Nat /\ (t \div Day) * Day \in Nat
           /\ (t \div Day) * Day <= t /\ t < (t \div Day) * Day + Day
           /\ t % Day = t - (t \div Day) * Day
<1>1. Day \in Nat \ {0} /\ Second \in Nat /\ Second > 0
  BY ReportAssumption
<1>2. t \div Day \in Nat
  BY <1>1
<1>3. (t \div Day) * Day \in Nat
  BY <1>1, <1>2
<1>4. (t \div Day) * Day <= t /\ t < (t \div Day) * Day + Day
  BY <1>1
<1>5. t % Day = t - (t \div Day) * Day
  BY <1>1
<1> QED
  BY <1>1, <1>2, <1>3, <1>4, <1>5

\* A tick is in one day only.
LEMMA OneDay ==
    ASSUME NEW t \in Nat, NEW d \in Nat, d * Day <= t, t < d * Day + Day
    PROVE  d = t \div Day
<1> DEFINE q == t \div Day
<1>1. /\ Day \in Nat /\ Day > 0 /\ q \in Nat /\ q * Day <= t /\ t < q * Day + Day
  BY InDay
<1> HIDE DEF q
<1>2. ~(d < q)
  <2>1. SUFFICES ASSUME d + 1 <= q PROVE FALSE
    BY <1>1
  <2>2. (d + 1) * Day <= q * Day /\ (d + 1) * Day = d * Day + Day
    BY <1>1, <2>1
  <2>3. d * Day \in Nat /\ q * Day \in Nat
    BY <1>1
  <2> QED
    BY <1>1, <2>2, <2>3
<1>3. ~(q < d)
  <2>1. SUFFICES ASSUME q + 1 <= d PROVE FALSE
    BY <1>1
  <2>2. (q + 1) * Day <= d * Day /\ (q + 1) * Day = q * Day + Day
    BY <1>1, <2>1
  <2>3. d * Day \in Nat /\ q * Day \in Nat
    BY <1>1
  <2> QED
    BY <1>1, <2>2, <2>3
<1> QED
  BY <1>1, <1>2, <1>3 DEF q

LEMMA DaysApart ==
    ASSUME IInv
    PROVE  DatesApart
<1> SUFFICES ASSUME NEW r \in rows
             PROVE  LET days == {d \in Dates \ {None} :
                              r \in OfLink(rows, r.link, RangeFrom(d, now), RangeTo(d, now), NoFilter)} IN
                    \/ days = {r.at \div Day}
                    \/ days = {} /\ r.at % Day > Day - Second
  BY DEF DatesApart
<1> DEFINE days == {d \in Dates \ {None} :
                      r \in OfLink(rows, r.link, RangeFrom(d, now), RangeTo(d, now), NoFilter)}
           q == r.at \div Day
<1>1. r.at \in Nat /\ r.at <= now /\ now \in Nat /\ now <= MaxTime /\ MaxTime \in Nat
  <2>1. now \in 0..MaxTime /\ MaxTime \in Nat
    BY ProcessAssumption DEF IInv, ProcessTypeOK
  <2>2. r.at \in 0..now
    BY RowsSound DEF Sound
  <2> QED
    BY <2>1, <2>2
<1>2. /\ Day \in Nat /\ Day > 0 /\ Second \in Nat /\ Second > 0 /\ q \in Nat /\ q * Day \in Nat
      /\ q * Day <= r.at /\ r.at < q * Day + Day /\ r.at % Day = r.at - q * Day
  BY <1>1, InDay
<1>3. MaxTime \div Day \in Nat /\ MaxTime < (MaxTime \div Day) * Day + Day
  BY <1>1, InDay
<1>4. Dates \ {None} = 0..(MaxTime \div Day)
  BY <1>3, ReportAssumption DEF Dates
<1> HIDE DEF q
<1>5. q \in Dates \ {None}
  <2>1. SUFFICES ASSUME MaxTime \div Day + 1 <= q PROVE FALSE
    BY <1>2, <1>3, <1>4
  <2>2. (MaxTime \div Day) * Day + Day <= q * Day
    <3>1. PICK k \in Nat : k = MaxTime \div Day
      BY <1>3
    <3>2. (k + 1) * Day <= q * Day /\ (k + 1) * Day = k * Day + Day
      BY <1>2, <2>1, <3>1
    <3> QED
      BY <3>1, <3>2
  <2>3. (MaxTime \div Day) * Day \in Nat
    BY <1>2, <1>3
  <2> QED
    BY <1>1, <1>2, <1>3, <2>2, <2>3
<1>6. ASSUME NEW d \in Dates \ {None}
      PROVE  d \in days <=> d * Day <= r.at /\ r.at <= (d + 1) * Day - Second
  BY <1>6 DEF OfLink, Between, Where, NoFilter, RangeFrom, RangeTo, DayEnd
<1>7. days \in SUBSET (Dates \ {None})
  OBVIOUS
<1> HIDE DEF days
<1>8. ASSUME NEW d \in days PROVE d = q
  <2>1. d \in Nat /\ d * Day <= r.at /\ r.at <= (d + 1) * Day - Second
    BY <1>4, <1>6, <1>7
  <2>2. (d + 1) * Day = d * Day + Day /\ d * Day \in Nat
    BY <1>2, <2>1
  <2>3. r.at < d * Day + Day
    BY <1>1, <1>2, <2>1, <2>2
  <2> QED
    BY <1>1, <2>1, <2>3, OneDay DEF q
<1>9. (q + 1) * Day = q * Day + Day
  BY <1>2
<1>10. CASE q \in days
  BY <1>8, <1>10 DEF q, days
<1>11. CASE q \notin days
  <2>1. days = {}
    BY <1>8, <1>11
  <2>2. r.at > q * Day + Day - Second
    BY <1>1, <1>2, <1>5, <1>6, <1>9, <1>11
  <2> QED
    BY <1>1, <1>2, <2>1, <2>2 DEF days
<1> QED
  BY <1>10, <1>11

\* A link's rows without a filter, and all rows, up to now.
LEMMA Unfiltered ==
    ASSUME IInv, NEW l
    PROVE  /\ Between(rows, 0, now) = rows /\ {r \in rows : r.at >= 0} = rows
           /\ OfLink(rows, l, 0, now, NoFilter) = {r \in rows : r.link = l}
<1>1. \A r \in rows : r.at \in Nat /\ r.at <= now /\ 0 <= r.at /\ r.at >= 0
  <2>1. now \in Nat
    BY DEF IInv, ProcessTypeOK
  <2>2. \A r \in rows : r.at \in 0..now
    BY RowsSound DEF Sound
  <2> QED
    BY <2>1, <2>2
<1>2. Between(rows, 0, now) = rows
  BY <1>1 DEF Between
<1>3. Where(rows, NoFilter) = rows
  BY DEF Where, NoFilter
<1> QED
  BY <1>1, <1>2, <1>3 DEF OfLink

\* For every number of links, visitors, visits and workers, every number of attempts,
\* every time zone, range and filter: the pages agree with one another, and with
\* what happened but for the rows of writes whose reply was lost, which are all
\* there is in excess (writeBatchWithRetry, AccessLogRepo, parseTimeRange).
THEOREM ReportsAgree == Spec => []ReportsReconcile
<1>1. IInv => ReportsReconcile
  <2> SUFFICES ASSUME IInv PROVE ReportsReconcile
    OBVIOUS
  <2>1. CountSince(rows, 0) = Cardinality(rows)
    BY Unfiltered DEF CountSince
  <2>2. Cardinality(rows) = TotalOf(GlobalTimeseries(rows, 0, now, "day"))
    <3>1. GlobalTimeseries(rows, 0, now, "day") = Points(rows, 0, "day")
      BY Unfiltered DEF GlobalTimeseries
    <3> QED
      BY <3>1, RowsCounted, SeriesAddsUp
  <2>3. Cardinality(rows) = Total([l \in Links |-> Summary(rows, l, 0, now, NoFilter).total])
    <3> DEFINE link == [r \in rows |-> r.link]
    <3>1. \A l \in Links : Summary(rows, l, 0, now, NoFilter).total
                               = Cardinality({r \in rows : link[r] = l})
      <4> SUFFICES ASSUME NEW l \in Links
                   PROVE  Summary(rows, l, 0, now, NoFilter).total
                              = Cardinality({r \in rows : link[r] = l})
        OBVIOUS
      <4>1. PICK S : S = OfLink(rows, l, 0, now, NoFilter)
        OBVIOUS
      <4>2. S = {r \in rows : link[r] = l}
        BY <4>1, Unfiltered
      <4>3. Summary(rows, l, 0, now, NoFilter).total = Cardinality(S)
        BY <4>1, TotalOfSummary
      <4> QED
        BY <4>2, <4>3, Zenon
    <3>2. {r \in rows : link[r] \in Links} = rows
      BY RowsSound DEF Sound
    <3> HIDE DEF link
    <3>3. [l \in Links |-> Summary(rows, l, 0, now, NoFilter).total] = Group(rows, link, Links)
      BY <3>1, Zenon DEF Group
    <3>4. Total(Group(rows, link, Links)) = Cardinality({r \in rows : link[r] \in Links})
      BY RowsCounted, GroupsAddUp, VisitAssumption
    <3> QED
      BY <3>2, <3>3, <3>4, Zenon
  <2> QED
    BY <2>1, <2>2, <2>3, RowsCounted, ReportsAddUp, DaysApart DEF ReportsReconcile
<1> QED
  BY <1>1, Inductive, PTL
=============================================================================
