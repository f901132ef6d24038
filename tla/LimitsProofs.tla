---------------------------- MODULE LimitsProofs ----------------------------
(***************************************************************************)
(* Proofs about the request limits. The argument follows one counter from  *)
(* the INCR that creates it, at the time s, to its deadline: what it has   *)
(* counted since s, and how far from s the requests are that earlier       *)
(* counters of its name let through.                                       *)
(***************************************************************************)
EXTENDS Limits, Recursion

IpNames == {<<"ip", ip>> : ip \in Ips}
RateNames == {<<"rate", Prefix[k], m>> : k \in Keys, m \in 0..MaxTime}
QuotaNames == {<<"quota", Prefix[k], d>> : k \in Keys, d \in 0..(MaxTime + Day)}
Names == IpNames \cup RateNames \cup QuotaNames

Hit == [name : Names, key : Keys \cup {NoKey}, at : 0..MaxTime, ok : BOOLEAN]

\* The copies of the elements of S in the bag b, told apart by a number.
Copies(b) == [h \in DOMAIN b |-> {h} \X (1..b[h])]
Tally(b, S) == Cardinality(Joined(Copies(b), DOMAIN b \cap S))

\* The hit that a request that has its answer 1 becomes once EXPIRE is done.
Pending(g) == gate[g].at = "expire"
Due(g) == [name |-> gate[g].name, key |-> gate[g].key, at |-> gate[g].since,
           ok |-> Allowed(1, Limit(gate[g].stage, gate[g].key))]

PendingOn(x) == {g \in Gates : Pending(g) /\ gate[g].name = x}

\* What the counters counted, of which S, hits of one name, are so many.
Counted == DOMAIN hits \cup {Due(g) : g \in {h \in Gates : Pending(h)}}
Made(S) == Tally(hits, S) + (IF \E g \in Gates : Pending(g) /\ Due(g) \in S THEN 1 ELSE 0)

Named(x) == {h \in Hit : h.name = x}
From(x, s) == {h \in Named(x) : h.at >= s}
OkFrom(x, k, s) == {h \in Named(x) : h.key = k /\ h.ok /\ h.at >= s}
OkBetween(x, s, t) == {h \in Named(x) : h.ok /\ s <= h.at /\ h.at < t}
OkSince(x, s) == OkBetween(x, s, MaxTime + 1)
OkInMinute(x, k) == {h \in Named(x) : h.key = k /\ h.ok /\ h.at \div Minute = x[3]}
OkInDay(x, k, d) == {h \in Named(x) : h.key = k /\ h.ok /\ h.at \div Day = d}
Before(x, t) == {h \in Named(x) : h.at <= t /\ t < h.at + Minute}

-----------------------------------------------------------------------------
\* The inductive invariant.

Request == [at : {"idle", "incr", "expire"}, stage : {"ip", "rate", "quota"},
            name : Names \cup {<<>>}, ip : Ips \cup {NoRequest.ip},
            key : Keys \cup {NoKey}, since : 0..MaxTime, ticks : 0..Patience]

\* Request r may be under way now.
Fits(r) ==
    /\ r \in Request
    /\ r.stage # "ip" => r.key \in Keys
    /\ r.at # "idle" =>
         /\ r.name \in Names /\ r.name[1] = r.stage
         /\ r.name \in RateNames => r.name[3] <= now \div Minute

GateInv ==
    /\ gate \in [Gates -> Request]
    /\ \A g \in Gates :
         /\ Fits(gate[g])
         /\ Pending(g) => gate[g].since \in 0..now /\ gate[g].name \in DOMAIN counter
    /\ \A g, h \in Gates : Pending(g) /\ Pending(h) /\ gate[g].name = gate[h].name => g = h

HitInv ==
    /\ IsABag(hits) /\ IsFiniteSet(DOMAIN hits) /\ Counted \subseteq Hit
    /\ \A h \in Counted : h.at <= now

\* What was counted of x before s is apart from what is counted from s on.
Apart(x, s) ==
    /\ x \in RateNames =>
         \A h \in Counted : h.name = x /\ h.at < s /\ h.at \div Minute = x[3] =>
                                x[3] < s \div Minute
    /\ x \in QuotaNames =>
         \A h \in Counted : h.name = x /\ h.at < s => h.at \div Day < s \div Day
    /\ x \in IpNames =>
         \A t \in 0..s : s < t + Minute => Made(OkBetween(x, t, s)) < IpLimit

\* No counter x exists: the next one may start now.
Gone(x) == Apart(x, now) /\ \A h \in Counted : h.name = x => h.at < now

\* When the counter x, which began at s, ends.
Timed(x, s) ==
    /\ now < counter[x].exp /\ (x \in RateNames => x[3] <= s \div Minute)
    /\ \/ counter[x].exp = Forever /\ (x \in late \/ PendingOn(x) # {})
       \/ /\ counter[x].exp \in (now + 1)..(now + Day) /\ PendingOn(x) = {}
          /\ x \in QuotaNames => counter[x].exp % Day = 0
          /\ x \notin QuotaNames => counter[x].exp >= s + Minute
          /\ x \in IpNames /\ x \notin late => counter[x].exp = s + Minute
    /\ \A g \in PendingOn(x) : gate[g].since = s

\* What the counter x, which began at s, counted.
Tells(x, s) ==
    /\ counter[x].n \in Nat
    /\ Made(From(x, s)) <= counter[x].n
    /\ x \notin late => Made(From(x, s)) = counter[x].n
    /\ x \notin IpNames => \A k \in Keys : Made(OkFrom(x, k, s)) <= Limit(x[1], k)
    /\ x \in IpNames =>
         /\ Made(OkSince(x, s)) <= IpLimit /\ Made(OkSince(x, s + 1)) < IpLimit
         /\ Made(From(x, s + 1)) < counter[x].n

Life(x, s) == Timed(x, s) /\ Tells(x, s) /\ Apart(x, s)

LifeInv ==
    /\ DOMAIN counter \subseteq Names /\ counter \in [DOMAIN counter -> [n : Nat, exp : Nat]]
    /\ \A x \in DOMAIN counter : \E s \in 0..now : Life(x, s)
    /\ \A x \in Names \ DOMAIN counter : Gone(x)

BoundOK(x) ==
    /\ x \in RateNames => \A k \in Keys : Made(OkInMinute(x, k)) <= RatePerMin[k]
    /\ x \in QuotaNames =>
         \A k \in Keys, d \in 0..MaxTime : Made(OkInDay(x, k, d)) <= QuotaDaily[k]
    /\ x \in IpNames => \A t \in 0..MaxTime : Made(OkBetween(x, t, t + Minute)) < 2 * IpLimit

BoundInv == \A x \in Names : BoundOK(x)

Caused(r) ==
    \/ Made(Before(r.name, r.at)) > IpLimit
    \/ \E g \in PendingOn(r.name) : gate[g].since < now

CauseInv ==
    \A r \in Counted : r.name \in IpNames /\ ~r.ok /\ r.name \notin late => Caused(r)

\* The stages whose INCR request r is still to make, and those of all gates.
Debt(r) ==
    IF r.stage = "rate" /\ r.at # "idle"
    THEN {"quota"} \cup {w \in {"rate"} : r.at = "incr"}
    ELSE {w \in {r.stage} : r.at = "incr"}
Stages == {"ip", "rate", "quota"}
Owed == {w \in Gates \X Stages : w[2] \in Debt(gate[w[1]])}

\* An INCR is one of a request's, or one sent again after a fault.
CountInv ==
    /\ IsFiniteSet(Owed) /\ requests \in 0..MaxRequests
    /\ Cardinality(Owed) <= requests + faults
    /\ \A x \in DOMAIN counter :
           counter[x].n >= 1 /\ counter[x].n + Cardinality(Owed) <= requests + faults

IInv ==
    /\ ProcessTypeOK
    /\ GateInv
    /\ HitInv
    /\ LifeInv
    /\ BoundInv
    /\ CauseInv
    /\ CountInv

-----------------------------------------------------------------------------
\* Counting in bags.

\* A bag's copies are parts, and as many as the bag says.
LEMMA CopiesAreParts ==
    ASSUME NEW b, IsABag(b), NEW D \in SUBSET DOMAIN b
    PROVE  Parts(Copies(b), D) /\ \A h \in D : b[h] \in Nat /\ Cardinality(Copies(b)[h]) = b[h]
<1>1. ASSUME NEW h \in D
      PROVE  /\ b[h] \in Nat /\ IsFiniteSet(Copies(b)[h])
             /\ Cardinality(Copies(b)[h]) = b[h]
  <2>1. b[h] \in Nat /\ Copies(b)[h] = {h} \X (1..b[h])
    BY DEF IsABag, Copies
  <2>2. IsFiniteSet(1..b[h]) /\ Cardinality(1..b[h]) = b[h]
    <3>1. 0 \in Int /\ 1 \in Int /\ b[h] \in Int
      BY <2>1
    <3>2. IsFiniteSet(1..b[h]) /\ Cardinality(1..b[h]) = IF 1 > b[h] THEN 0 ELSE b[h] - 1 + 1
      BY <3>1, FS_Interval, Zenon
    <3> QED
      BY <2>1, <3>2
  <2>3. IsFiniteSet({h}) /\ Cardinality({h}) = 1
    BY FS_Singleton
  <2>4. /\ IsFiniteSet({h} \X (1..b[h]))
        /\ Cardinality({h} \X (1..b[h])) = Cardinality({h}) * Cardinality(1..b[h])
    BY <2>2, <2>3, FS_Product, Zenon
  <2> QED
    BY <2>1, <2>2, <2>3, <2>4
<1>2. \A x, y \in D : x # y => Copies(b)[x] \cap Copies(b)[y] = {}
  BY DEF Copies
<1> QED
  BY <1>1, <1>2 DEF Parts

\* The copies in a bag of finitely many elements are finite in number.
LEMMA TallyType ==
    ASSUME NEW b, IsABag(b), IsFiniteSet(DOMAIN b), NEW S
    PROVE  IsFiniteSet(Joined(Copies(b), DOMAIN b \cap S)) /\ Tally(b, S) \in Nat
<1> DEFINE D == DOMAIN b \cap S
<1>1. IsFiniteSet(D) /\ D \in SUBSET DOMAIN b
  BY FS_Subset
<1>2. Parts(Copies(b), D) /\ \A h \in D : b[h] = Cardinality(Copies(b)[h])
  BY <1>1, CopiesAreParts
<1>3. IsFiniteSet(Joined(Copies(b), D))
  BY <1>1, <1>2, SumOfParts
<1> QED
  BY <1>3, FS_CardinalityType DEF Tally

\* The cardinality of a bag restricted to S is what the tally of S says.
LEMMA TallyIsCardinality ==
    ASSUME NEW b, IsABag(b), IsFiniteSet(DOMAIN b), NEW S
    PROVE  BagCardinality(Restrict(b, DOMAIN b \cap S)) = Tally(b, S)
<1> DEFINE D == DOMAIN b \cap S
           B == Restrict(b, D)
           kept == CHOOSE f : SumTable(f, B, DOMAIN B)
<1>1. Sum(B, DOMAIN B) = kept[DOMAIN B]
  BY Zenon DEF Sum, FoldFunctionOnSet, MapThenFoldSet, SumTable, Some
<1>2. BagCardinality(B) = kept[DOMAIN B]
  BY Zenon DEF BagCardinality, SumTable, Some
<1> HIDE DEF kept
<1>3. DOMAIN B = D /\ \A h \in D : B[h] = b[h]
  BY DEF Restrict
<1> HIDE DEF B
<1>4. IsFiniteSet(D) /\ D \in SUBSET DOMAIN b
  BY FS_Subset
<1>5. Parts(Copies(b), D) /\ \A h \in D : B[h] = Cardinality(Copies(b)[h])
  BY <1>3, <1>4, CopiesAreParts
<1>6. Sum(B, D) = Cardinality(Joined(Copies(b), D))
  BY <1>4, <1>5, SumOfParts
<1> QED
  BY <1>1, <1>2, <1>3, <1>6 DEF Tally, B

\* No copy of S but of T or U: S has no more of them than the two.
LEMMA TallyUnion ==
    ASSUME NEW b, IsABag(b), IsFiniteSet(DOMAIN b), NEW S, NEW T, NEW U,
           \A h \in DOMAIN b : h \in S => h \in T \/ h \in U
    PROVE  Tally(b, S) <= Tally(b, T) + Tally(b, U)
<1> DEFINE J(V) == Joined(Copies(b), DOMAIN b \cap V)
<1>1. IsFiniteSet(J(S)) /\ IsFiniteSet(J(T)) /\ IsFiniteSet(J(U))
  BY TallyType
<1>2. J(S) \subseteq J(T) \cup J(U)
  BY DEF Joined
<1> HIDE DEF J
<1>3. /\ IsFiniteSet(J(T) \cup J(U)) /\ IsFiniteSet(J(T) \cap J(U))
      /\ Cardinality(J(T) \cup J(U)) =
             Cardinality(J(T)) + Cardinality(J(U)) - Cardinality(J(T) \cap J(U))
  BY <1>1, FS_Union, FS_Subset
<1>4. Cardinality(J(S)) <= Cardinality(J(T) \cup J(U))
  BY <1>2, <1>3, FS_Subset
<1>5. /\ Cardinality(J(S)) \in Nat /\ Cardinality(J(T)) \in Nat
      /\ Cardinality(J(U)) \in Nat /\ Cardinality(J(T) \cap J(U)) \in Nat
  BY <1>1, <1>3, FS_CardinalityType
<1>6. Cardinality(J(S)) <= Cardinality(J(T)) + Cardinality(J(U))
  BY <1>3, <1>4, <1>5
<1> QED
  BY <1>6 DEF Tally, J

\* A bag has no copy of the elements of the empty set.
LEMMA TallyNone ==
    ASSUME NEW b, NEW S, \A h \in DOMAIN b : h \notin S
    PROVE  Tally(b, S) = 0
<1>1. Joined(Copies(b), DOMAIN b \cap S) = {}
  BY DEF Joined
<1> QED
  BY <1>1, FS_EmptySet DEF Tally

\* If every copy of S is one of T, S has no more than T.
LEMMA TallyMono ==
    ASSUME NEW b, IsABag(b), IsFiniteSet(DOMAIN b), NEW S, NEW T,
           \A h \in DOMAIN b : h \in S => h \in T
    PROVE  Tally(b, S) <= Tally(b, T)
<1>1. Tally(b, S) <= Tally(b, T) + Tally(b, {})
  BY TallyUnion
<1>2. Tally(b, {}) = 0
  BY TallyNone
<1>3. Tally(b, S) \in Nat /\ Tally(b, T) \in Nat
  BY TallyType
<1> QED
  BY <1>1, <1>2, <1>3

\* A hit more is an element of the bag, with a copy more.
LEMMA BagAdd ==
    ASSUME NEW b, IsABag(b), IsFiniteSet(DOMAIN b), NEW e, NEW c, c = b (+) SetToBag({e})
    PROVE  /\ IsABag(c) /\ DOMAIN c = DOMAIN b \cup {e} /\ IsFiniteSet(DOMAIN c)
           /\ c = [h \in DOMAIN b \cup {e} |->
                     IF h \in DOMAIN b THEN IF h = e THEN b[h] + 1 ELSE b[h] ELSE 1]
<1>1. c = [h \in DOMAIN b \cup {e} |->
             IF h \in DOMAIN b THEN IF h = e THEN b[h] + 1 ELSE b[h] ELSE 1]
  BY DEF (+), SetToBag, IsABag
<1>2. IsABag(c) /\ DOMAIN c = DOMAIN b \cup {e} /\ IsFiniteSet(DOMAIN c)
  <2>1. DOMAIN c = DOMAIN b \cup {e}
    BY <1>1
  <2>2. IsFiniteSet(DOMAIN b \cup {e})
    BY FS_AddElement
  <2>3. \A h \in DOMAIN b : b[h] \in Nat /\ b[h] > 0
    BY DEF IsABag
  <2>4. \A h \in DOMAIN c : c[h] \in Nat /\ c[h] > 0
    BY <1>1, <2>3
  <2> QED
    BY <1>1, <2>1, <2>2, <2>4 DEF IsABag
<1> QED
  BY <1>1, <1>2

\* A hit more is one more in the tally of the sets that it is in.
LEMMA TallyAdd ==
    ASSUME NEW b, IsABag(b), IsFiniteSet(DOMAIN b), NEW e, NEW c, c = b (+) SetToBag({e}),
           NEW S
    PROVE  Tally(c, S) = Tally(b, S) + (IF e \in S THEN 1 ELSE 0)
<1>1. c = [h \in DOMAIN b \cup {e} |->
             IF h \in DOMAIN b THEN IF h = e THEN b[h] + 1 ELSE b[h] ELSE 1]
  BY BagAdd
<1>2. IsABag(c) /\ DOMAIN c = DOMAIN b \cup {e} /\ IsFiniteSet(DOMAIN c)
  BY BagAdd
<1> DEFINE J(a) == Joined(Copies(a), DOMAIN a \cap S)
<1>3. ASSUME e \notin S PROVE Tally(c, S) = Tally(b, S)
  <2>1. J(c) = J(b)
    BY <1>1, <1>2, <1>3 DEF Joined, Copies
  <2> QED
    BY <2>1 DEF Tally
<1>4. ASSUME e \in S PROVE Tally(c, S) = Tally(b, S) + 1
  <2> DEFINE m == c[e]
  <2>1. m \in Nat /\ m = (IF e \in DOMAIN b THEN b[e] + 1 ELSE 1)
    BY <1>1 DEF IsABag
  <2>2. \A h \in DOMAIN c : Copies(c)[h] = {h} \X (1..c[h])
    BY DEF Copies
  <2>3. \A h \in DOMAIN b : Copies(b)[h] = {h} \X (1..b[h])
    BY DEF Copies
  <2>4. \A h \in DOMAIN b : h # e => c[h] = b[h]
    BY <1>1
  <2>5. Copies(c)[e] = (IF e \in DOMAIN b THEN Copies(b)[e] ELSE {}) \cup {<<e, m>>}
    <3>1. CASE e \in DOMAIN b
      <4>1. b[e] \in Nat /\ m = b[e] + 1
        BY <3>1, <2>1 DEF IsABag
      <4>2. 1..m = 1..b[e] \cup {m}
        BY <4>1
      <4> QED
        <5>1. Copies(c)[e] = {e} \X (1..m)
          BY <1>2, <2>2
        <5>2. Copies(b)[e] = {e} \X (1..b[e])
          BY <2>3, <3>1
        <5> HIDE DEF m
        <5>3. {e} \X (1..b[e] \cup {m}) = ({e} \X (1..b[e])) \cup {<<e, m>>}
          OBVIOUS
        <5> QED
          BY <3>1, <4>2, <5>1, <5>2, <5>3, Zenon
    <3>2. CASE e \notin DOMAIN b
      BY <1>2, <2>1, <2>2, <3>2
    <3> QED
      BY <3>1, <3>2
  <2>6. <<e, m>> \notin J(b)
    <3>1. ASSUME NEW h \in DOMAIN b, <<e, m>> \in Copies(b)[h] PROVE FALSE
      <4>1. h = e /\ m \in 1..b[e]
        <5>1. Copies(b)[h] = {h} \X (1..b[h])
          BY <2>3
        <5> HIDE DEF m
        <5> QED
          BY <3>1, <5>1
      <4>2. b[e] \in Nat /\ m = b[e] + 1
        BY <2>1, <3>1, <4>1 DEF IsABag
      <4> QED
        BY <4>1, <4>2
    <3> QED
      BY <3>1 DEF Joined
  <2>7. J(c) = J(b) \cup {<<e, m>>}
    <3>1. \A h \in DOMAIN b : h # e => Copies(c)[h] = Copies(b)[h]
      BY <1>2, <2>2, <2>3, <2>4
    <3>2. DOMAIN c \cap S = (DOMAIN b \cap S) \cup {e}
      BY <1>2, <1>4
    <3> HIDE DEF m
    <3>3. ASSUME NEW z \in J(c) PROVE z \in J(b) \cup {<<e, m>>}
      <4>1. PICK h \in DOMAIN c \cap S : z \in Copies(c)[h]
        BY <3>3 DEF Joined
      <4>2. CASE h = e
        BY <1>4, <2>5, <4>1, <4>2 DEF Joined
      <4>3. CASE h # e
        BY <3>1, <3>2, <4>1, <4>3 DEF Joined
      <4> QED
        BY <4>2, <4>3
    <3>4. ASSUME NEW z \in J(b) \cup {<<e, m>>} PROVE z \in J(c)
      <4>1. CASE z = <<e, m>>
        BY <2>5, <3>2, <4>1 DEF Joined
      <4>2. CASE z \in J(b)
        <5>1. PICK h \in DOMAIN b \cap S : z \in Copies(b)[h]
          BY <4>2 DEF Joined
        <5>2. z \in Copies(c)[h] /\ h \in DOMAIN c \cap S
          BY <2>5, <3>1, <3>2, <5>1
        <5> QED
          BY <5>2 DEF Joined
      <4> QED
        BY <3>4, <4>1, <4>2
    <3> QED
      BY <3>3, <3>4
  <2>8. IsFiniteSet(J(b))
    BY TallyType
  <2> HIDE DEF J, m
  <2>9. Cardinality(J(c)) = Cardinality(J(b)) + 1
    BY <2>6, <2>7, <2>8, FS_AddElement
  <2> QED
    BY <2>9 DEF Tally, J
<1>5. Tally(b, S) \in Nat
  BY TallyType
<1> HIDE DEF J
<1> QED
  BY <1>3, <1>4, <1>5

-----------------------------------------------------------------------------
\* What was counted.

\* S and T, of which every request counted is in one if it is in U.
LEMMA MadeUnion ==
    ASSUME HitInv, NEW S, NEW T, NEW U, \A h \in Counted : h \in U => h \in S \/ h \in T
    PROVE  Made(U) <= Made(S) + Made(T)
<1>1. IsABag(hits) /\ IsFiniteSet(DOMAIN hits)
  BY DEF HitInv
<1>2. Tally(hits, U) <= Tally(hits, S) + Tally(hits, T)
  <2>1. \A h \in DOMAIN hits : h \in U => h \in S \/ h \in T
    BY DEF Counted
  <2> QED
    BY <1>1, <2>1, TallyUnion
<1>3. /\ Tally(hits, U) \in Nat /\ Tally(hits, S) \in Nat
      /\ Tally(hits, T) \in Nat
  BY <1>1, TallyType
<1>4. \A g \in Gates : Pending(g) => Due(g) \in Counted
  BY DEF Counted
<1> QED
  BY <1>2, <1>3, <1>4 DEF Made

\* The tally of what was counted is a number, no less than that of the hits.
LEMMA MadeType ==
    ASSUME HitInv, NEW S
    PROVE  Made(S) \in Nat /\ Tally(hits, S) \in Nat /\ Tally(hits, S) <= Made(S)
<1>1. Tally(hits, S) \in Nat
  BY TallyType DEF HitInv
<1> QED
  BY <1>1 DEF Made

\* Nothing of S was counted.
LEMMA MadeNone ==
    ASSUME NEW S, \A h \in Counted : h \notin S
    PROVE  Made(S) = 0
<1>1. Tally(hits, S) = 0
  <2>1. \A h \in DOMAIN hits : h \notin S
    BY DEF Counted
  <2> QED
    BY <2>1, TallyNone
<1>2. \A g \in Gates : Pending(g) => Due(g) \notin S
  BY DEF Counted
<1> QED
  BY <1>1, <1>2 DEF Made

\* All that was counted of S is in T.
LEMMA MadeMono ==
    ASSUME HitInv, NEW S, NEW T, \A h \in Counted : h \in S => h \in T
    PROVE  Made(S) <= Made(T)
<1>1. Made(S) <= Made(T) + Made({})
  BY MadeUnion
<1>2. Made({}) = 0
  BY MadeNone
<1>3. Made(S) \in Nat /\ Made(T) \in Nat
  BY MadeType
<1> QED
  BY <1>1, <1>2, <1>3

-----------------------------------------------------------------------------
\* What a step does to what was counted.

\* One request more was counted: e.
Adds(e) ==
    /\ Counted' = Counted \cup {e}
    /\ \A x \in Names : \A S \in SUBSET Named(x) :
           Made(S)' = Made(S) + (IF e \in S THEN 1 ELSE 0)

\* Nothing was, of the counters' name x.
Same(x) ==
    /\ \A h \in Named(x) : h \in Counted' <=> h \in Counted
    /\ \A S \in SUBSET Named(x) : Made(S)' = Made(S)

-----------------------------------------------------------------------------
\* Names and times.

\* The clock's units are numbers.
LEMMA Units ==
    /\ Minute \in Nat /\ Day \in Nat /\ Minute > 0 /\ Day > 0 /\ Minute <= Day
    /\ Offset \in Nat /\ Offset < Day /\ MaxTime \in Nat /\ Forever \in Nat
    /\ Forever > MaxTime + Day /\ IpLimit \in Nat /\ IpLimit > 0
    /\ Patience \in Nat /\ MaxRequests \in Nat /\ MaxFaults \in Nat
BY LimitAssumption, ProcessAssumption DEF Forever

\* A name tells its stage, and that of a rate its minute.
LEMMA NamesTell ==
    /\ \A x \in IpNames : x[1] = "ip" /\ x \in Names
    /\ \A x \in RateNames : x[1] = "rate" /\ x \in Names /\ x[3] \in 0..MaxTime
    /\ \A x \in QuotaNames : x[1] = "quota" /\ x \in Names
    /\ \A x \in Names : x \in IpNames \/ x \in RateNames \/ x \in QuotaNames
BY DEF IpNames, RateNames, QuotaNames, Names

\* Quotients: of a larger number no smaller, and a divisor's worth more for one
\* divisor more.
LEMMA Quotients ==
    ASSUME NEW a \in Nat, NEW b \in Nat, NEW d \in Nat, d > 0
    PROVE  /\ a \div d \in Nat /\ (a \div d) * d <= a /\ a < (a \div d + 1) * d
           /\ a <= b => a \div d <= b \div d
           /\ a + d <= b => a \div d < b \div d
           /\ b % d = 0 /\ a < b => a \div d < b \div d
<1>1. PICK q \in Nat : q = a \div d
  OBVIOUS
<1>2. PICK r \in Nat : r = b \div d
  OBVIOUS
<1>3. q * d <= a /\ a < q * d + d
  BY <1>1
<1>4. r * d <= b /\ b < r * d + d /\ (b % d = 0 => b = r * d)
  BY <1>2
<1>5. (q + 1) * d = q * d + d /\ (r + 1) * d = r * d + d
  OBVIOUS
<1>6. ASSUME a <= b PROVE q <= r
  <2>1. SUFFICES ASSUME r + 1 <= q PROVE FALSE
    OBVIOUS
  <2>2. (r + 1) * d <= q * d
    BY <2>1
  <2> QED
    BY <1>3, <1>4, <1>5, <1>6, <2>2
<1>7. ASSUME a + d <= b PROVE q < r
  <2>1. SUFFICES ASSUME r <= q PROVE FALSE
    OBVIOUS
  <2>2. r * d <= q * d
    BY <2>1
  <2> QED
    BY <1>3, <1>4, <1>5, <1>7, <2>2
<1>8. ASSUME b % d = 0, a < b PROVE q < r
  <2>1. SUFFICES ASSUME r <= q PROVE FALSE
    OBVIOUS
  <2>2. r * d <= q * d
    BY <2>1
  <2> QED
    BY <1>3, <1>4, <1>5, <1>8, <2>2
<1> QED
  BY <1>1, <1>2, <1>3, <1>5, <1>6, <1>7, <1>8

\* A stage's counter has a name of its stage; that of a rate, the minute.
LEMMA NameOfStage ==
    ASSUME NEW ip, NEW key \in Keys, NEW t \in 0..MaxTime
    PROVE  /\ CounterName("rate", ip, key, t) \in RateNames
           /\ CounterName("rate", ip, key, t)[3] = t \div Minute
           /\ CounterName("quota", ip, key, t) \in QuotaNames
<1>1. t \div Minute \in 0..MaxTime
  <2>1. t \in Nat /\ t \div Minute \in Nat /\ (t \div Minute) * Minute <= t
    BY Units, Quotients
  <2>2. PICK q \in Nat : q = t \div Minute
    BY <2>1
  <2>3. q * 1 <= q * Minute
    BY Units
  <2> QED
    BY <2>1, <2>2, <2>3, Units
<1>2. LocalDay(t) \in 0..(MaxTime + Day)
  <2>1. PICK q \in Nat : q = (t + Offset) \div Day /\ q * Day <= t + Offset
    BY Units, Quotients
  <2>2. q * 1 <= q * Day
    BY Units
  <2> QED
    BY <2>1, <2>2, Units DEF LocalDay
<1> QED
  BY <1>1, <1>2 DEF CounterName, RateNames, QuotaNames

\* The clock goes on, and the faults are within their bound.
LEMMA ProcessStep ==
    ASSUME IInv, Next
    PROVE  /\ ProcessTypeOK' /\ now' \in Nat /\ now \in Nat /\ now <= now' /\ now \in 0..MaxTime
           /\ faults \in Nat /\ faults' \in Nat /\ faults <= faults'
<1>1. ProcessTypeOK
  BY DEF IInv
<1> DEFINE Fault == faults' = faults \/ (faults < MaxFaults /\ faults' = faults + 1)
<1>2. ASSUME NEW g, NEW q, Count(g, q) PROVE Fault /\ phase' = phase /\ now' = now
  BY <1>2 DEF Count, Unanswered, Fail, Fine
<1>3. ASSUME NEW g, Arrive(g) \/ CountNext(g) PROVE Fault /\ phase' = phase /\ now' = now
  <2>1. CASE ArriveIp(g)
    BY <1>2, <2>1 DEF ArriveIp
  <2>2. CASE ArriveKey(g)
    BY <2>2 DEF ArriveKey, process
  <2>3. CASE CountNext(g)
    BY <1>2, <2>3 DEF CountNext
  <2> QED
    BY <1>3, <2>1, <2>2, <2>3 DEF Arrive
<1>4. ASSUME NEW g, Expire(g) PROVE Fault /\ phase' = phase /\ now' = now
  BY <1>4 DEF Expire, Fail, Fine
<1>5. ASSUME Crash PROVE Fault /\ phase' = phase /\ now' = now
  BY <1>5 DEF Crash, Fail
<1>6. ASSUME Wait PROVE Fault /\ phase' = phase /\ now < MaxTime /\ now' = now + 1
  BY <1>6 DEF Wait, Tick
<1>7. Fault /\ phase' = phase /\ (now' = now \/ (now < MaxTime /\ now' = now + 1))
  BY <1>3, <1>4, <1>5, <1>6 DEF Next
<1> QED
  BY <1>1, <1>7, Units DEF ProcessTypeOK

-----------------------------------------------------------------------------
\* The kinds of steps.

Moves(g, r) ==
    /\ g \in Gates /\ Fits(r)
    /\ gate' = [gate EXCEPT ![g] = r]

\* The stages still to be counted, and those counted k times more, are within
\* the bound of the requests and faults.
Pays(k) ==
    /\ requests' \in 0..MaxRequests /\ IsFiniteSet(Owed')
    /\ Cardinality(Owed') + requests + faults + k <= requests' + faults' + Cardinality(Owed)

\* g goes on, and no counter with it.
Skips(g, r) ==
    /\ ~Pending(g) /\ r.at # "expire" /\ Moves(g, r) /\ Pays(0)
    /\ UNCHANGED <<now, counter, hits, late>>

\* g's request r creates its counter.
Starts(g, r) ==
    /\ ~Pending(g) /\ r.at = "expire" /\ r.since = now /\ Moves(g, r) /\ Pays(1)
    /\ r.name \notin DOMAIN counter
    /\ counter' = With(counter, r.name, [n |-> 1, exp |-> Forever])
    /\ UNCHANGED <<now, hits, late>>

HitOf(q, n, t) == [name |-> q.name, key |-> q.key, at |-> t,
                   ok |-> Allowed(n, Limit(q.stage, q.key))]

\* g's request q is counted by the counter there is; r is what g goes on with.
Follow(g, q, r) ==
    /\ ~Pending(g) /\ r.at # "expire" /\ Moves(g, r) /\ Pays(1)
    /\ Fits(q) /\ q.at = "incr"
    /\ q.name \in DOMAIN counter
    /\ counter' = With(counter, q.name, [n |-> counter[q.name].n + 1,
                                         exp |-> counter[q.name].exp])
    /\ hits' = hits (+) SetToBag({HitOf(q, counter[q.name].n + 1, now)})
    /\ UNCHANGED <<now, late>>

\* g's request q is counted, but g gets no answer and goes on with r.
Misses(g, q, r) ==
    /\ ~Pending(g) /\ r.at # "expire" /\ Moves(g, r) /\ Pays(1)
    /\ Fits(q) /\ q.at = "incr" /\ Incr(q.name) /\ late' = late \cup {q.name}
    /\ UNCHANGED <<now, hits>>

\* g's EXPIRE was answered, in time or late, or failed.
Times(g, r) ==
    /\ Pending(g) /\ r.at # "expire" /\ Moves(g, r) /\ Pays(0)
    /\ \/ counter' = counter /\ late' = late \cup {gate[g].name}
       \/ /\ counter' = [counter EXCEPT ![gate[g].name].exp = Deadline(gate[g].stage, now)]
          /\ late' = IF gate[g].since = now THEN late ELSE late \cup {gate[g].name}
    /\ hits' = hits (+) SetToBag({Due(g)})
    /\ UNCHANGED now

\* What a gate that goes on owes is what it owed, less the stage it did, or more
\* by what a new request has to do.
LEMMA MovesDebt ==
    ASSUME gate \in [Gates -> Request], IsFiniteSet(Owed), NEW g, NEW r, Moves(g, r)
    PROVE  /\ Debt(r) \subseteq Debt(gate[g]) =>
                 IsFiniteSet(Owed') /\ Cardinality(Owed') <= Cardinality(Owed)
           /\ \A w \in Stages :
                 Debt(r) \subseteq Debt(gate[g]) \ {w} /\ w \in Debt(gate[g]) =>
                     IsFiniteSet(Owed') /\ Cardinality(Owed') + 1 <= Cardinality(Owed)
           /\ \A v \in Stages : Debt(gate[g]) = {} /\ Debt(r) \subseteq {v} =>
                 IsFiniteSet(Owed') /\ Cardinality(Owed') <= Cardinality(Owed) + 1
           /\ \A v, w \in Stages : Debt(gate[g]) = {} /\ Debt(r) \subseteq {v, w} =>
                 IsFiniteSet(Owed') /\ Cardinality(Owed') <= Cardinality(Owed) + 2
<1>1. g \in Gates /\ gate' = [gate EXCEPT ![g] = r]
  BY DEF Moves
<1>2. \A w : w \in Owed' <=> /\ w \in Gates \X Stages
                             /\ IF w[1] = g THEN w[2] \in Debt(r) ELSE w \in Owed
  BY <1>1 DEF Owed
<1>3. \A w \in Stages : <<g, w>> \in Owed <=> w \in Debt(gate[g])
  BY <1>1 DEF Owed
<1>4. Cardinality(Owed) \in Nat
  BY FS_CardinalityType
<1>5. ASSUME Debt(r) \subseteq Debt(gate[g])
      PROVE  IsFiniteSet(Owed') /\ Cardinality(Owed') <= Cardinality(Owed)
  <2>1. Owed' \subseteq Owed
    BY <1>2, <1>5 DEF Owed
  <2> QED
    BY <2>1, FS_Subset
<1>6. ASSUME NEW w \in Stages,
             Debt(r) \subseteq Debt(gate[g]) \ {w}, w \in Debt(gate[g])
      PROVE  IsFiniteSet(Owed') /\ Cardinality(Owed') + 1 <= Cardinality(Owed)
  <2>1. Owed' \subseteq Owed \ {<<g, w>>}
    BY <1>2, <1>6 DEF Owed
  <2>2. <<g, w>> \in Owed
    BY <1>3, <1>6
  <2>3. /\ IsFiniteSet(Owed \ {<<g, w>>})
        /\ Cardinality(Owed \ {<<g, w>>}) = Cardinality(Owed) - 1
    BY <2>2, FS_RemoveElement, Zenon
  <2>4. IsFiniteSet(Owed') /\ Cardinality(Owed') <= Cardinality(Owed \ {<<g, w>>})
    BY <2>1, <2>3, FS_Subset
  <2>5. Cardinality(Owed') \in Nat
    BY <2>4, FS_CardinalityType
  <2> QED
    BY <1>4, <2>3, <2>4, <2>5
<1>7. ASSUME NEW v \in Stages, NEW w \in Stages, Debt(gate[g]) = {}
      PROVE  /\ Debt(r) \subseteq {v} =>
                   IsFiniteSet(Owed') /\ Cardinality(Owed') <= Cardinality(Owed) + 1
             /\ Debt(r) \subseteq {v, w} =>
                   IsFiniteSet(Owed') /\ Cardinality(Owed') <= Cardinality(Owed) + 2
  <2> DEFINE A == Owed \cup {<<g, v>>}
             B == A \cup {<<g, w>>}
  <2>1. IsFiniteSet(A) /\ Cardinality(A) <= Cardinality(Owed) + 1
    <3>1. IsFiniteSet(A) /\ (Cardinality(A) = Cardinality(Owed)
                                \/ Cardinality(A) = Cardinality(Owed) + 1)
      BY FS_AddElement, Zenon
    <3> QED
      BY <1>4, <3>1
  <2>2. Cardinality(A) \in Nat
    BY <2>1, FS_CardinalityType
  <2>3. Debt(r) \subseteq {v} => Owed' \subseteq A
    BY <1>2
  <2>4. Debt(r) \subseteq {v, w} => Owed' \subseteq B
    BY <1>2
  <2> HIDE DEF A
  <2>5. IsFiniteSet(B) /\ Cardinality(B) <= Cardinality(A) + 1
    <3>1. IsFiniteSet(B) /\ (Cardinality(B) = Cardinality(A)
                                \/ Cardinality(B) = Cardinality(A) + 1)
      BY <2>1, FS_AddElement, Zenon
    <3> QED
      BY <2>2, <3>1
  <2> HIDE DEF B
  <2>6. ASSUME NEW C, IsFiniteSet(C), Owed' \subseteq C
        PROVE  /\ IsFiniteSet(Owed') /\ Cardinality(Owed') <= Cardinality(C)
               /\ Cardinality(Owed') \in Nat /\ Cardinality(C) \in Nat
    BY <2>6, FS_Subset, FS_CardinalityType
  <2>7. CASE Debt(r) \subseteq {v}
    <3>1. /\ IsFiniteSet(Owed') /\ Cardinality(Owed') <= Cardinality(A)
          /\ Cardinality(Owed') \in Nat
      BY <2>1, <2>3, <2>6, <2>7
    <3> QED
      BY <1>4, <2>1, <2>2, <3>1
  <2>8. CASE Debt(r) \subseteq {v, w}
    <3>1. /\ IsFiniteSet(Owed') /\ Cardinality(Owed') <= Cardinality(B)
          /\ Cardinality(Owed') \in Nat /\ Cardinality(B) \in Nat
      BY <2>4, <2>5, <2>6, <2>8
    <3>2. Cardinality(Owed') <= Cardinality(Owed) + 2
      BY <1>4, <2>1, <2>2, <2>5, <3>1
    <3> QED
      BY <2>7, <3>1, <3>2
  <2> QED
    BY <2>7, <2>8
<1> QED
  BY <1>5, <1>6, <1>7

\* An idle gate's record is a request's, of nothing.
LEMMA NoRequestFits == Fits(NoRequest) /\ NoRequest.at = "idle" /\ Debt(NoRequest) = {}
<1>1. NoRequest.ip \in Ips \cup {NoRequest.ip}
  OBVIOUS
<1>2. /\ NoRequest = [at |-> "idle", stage |-> "ip", name |-> <<>>, ip |-> NoRequest.ip,
                      key |-> NoKey, since |-> 0, ticks |-> 0]
      /\ 0 \in 0..MaxTime /\ 0 \in 0..Patience
  BY Units DEF NoRequest
<1>3. NoRequest.at = "idle" /\ NoRequest.stage = "ip"
  BY DEF NoRequest
<1> QED
  BY <1>1, <1>2, <1>3 DEF Fits, Request, Debt

\* A request at a stage that begins now has a name for its counter.
LEMMA StageFits ==
    ASSUME ProcessTypeOK, NEW ip \in Ips \cup {NoRequest.ip}, NEW ticks \in 0..Patience, NEW q
    PROVE  /\ \A k \in Keys, stage \in {"rate", "quota"} :
                 q = At(stage, ip, k, ticks) =>
                     Fits(q) /\ q.at = "incr" /\ q.stage = stage /\ q.key = k
           /\ ip \in Ips /\ q = At("ip", ip, NoKey, ticks) =>
                 Fits(q) /\ q.at = "incr" /\ q.stage = "ip" /\ q.key = NoKey
<1>1. now \in 0..MaxTime
  BY DEF ProcessTypeOK
<1>2. PICK t \in 0..MaxTime : t = now
  BY <1>1
<1>3. ASSUME NEW k \in Keys, NEW stage \in {"rate", "quota"}, q = At(stage, ip, k, ticks)
      PROVE  Fits(q) /\ q.at = "incr" /\ q.stage = stage /\ q.key = k
  <2>1. PICK x : x = CounterName(stage, ip, k, t)
    OBVIOUS
  <2>2. /\ x \in Names /\ x[1] = stage
        /\ x \in RateNames => x[3] <= t \div Minute
    <3>1. CASE stage = "rate"
      <4>1. x \in RateNames /\ x[3] = t \div Minute
        BY <2>1, <3>1, NameOfStage
      <4>2. t \div Minute \in Nat
        BY Units, Quotients
      <4> QED
        BY <3>1, <4>1, <4>2, NamesTell
    <3>2. CASE stage = "quota"
      <4>1. x \in QuotaNames
        BY <2>1, <3>2, NameOfStage
      <4> QED
        BY <3>2, <4>1, NamesTell
    <3> QED
      BY <3>1, <3>2
  <2>3. /\ q = [at |-> "incr", stage |-> stage, name |-> x, ip |-> ip, key |-> k,
                since |-> 0, ticks |-> ticks]
        /\ 0 \in 0..MaxTime
    BY <1>2, <1>3, <2>1, Units DEF At
  <2>4. q \in Request
    BY <2>2, <2>3 DEF Request
  <2> QED
    BY <1>2, <2>2, <2>3, <2>4 DEF Fits
<1>4. ASSUME ip \in Ips, q = At("ip", ip, NoKey, ticks)
      PROVE  Fits(q) /\ q.at = "incr" /\ q.stage = "ip" /\ q.key = NoKey
  <2>1. /\ q = [at |-> "incr", stage |-> "ip", name |-> <<"ip", ip>>, ip |-> ip,
                key |-> NoKey, since |-> 0, ticks |-> ticks]
        /\ 0 \in 0..MaxTime
    BY <1>4, Units DEF At, CounterName
  <2>2. PICK x : x = <<"ip", ip>>
    OBVIOUS
  <2>3. x \in IpNames /\ x[1] = "ip"
    BY <1>4, <2>2 DEF IpNames
  <2>4. x \in Names /\ x \notin RateNames
    BY <2>3, NamesTell
  <2>5. q \in Request /\ q.name = x
    BY <2>1, <2>2, <2>4 DEF Request
  <2> QED
    BY <2>1, <2>3, <2>4, <2>5 DEF Fits
<1> QED
  BY <1>3, <1>4

\* A request that passed or ended goes on with what it owes less that stage.
LEMMA GoesOn ==
    ASSUME ProcessTypeOK, NEW g \in Gates, NEW q, Fits(q), q.at # "idle",
           Pass(g, q) \/ Finish(g)
    PROVE  \E r : Moves(g, r) /\ r.at # "expire" /\ Debt(r) \subseteq Debt(q) \ {q.stage}
<1>1. CASE gate' = [gate EXCEPT ![g] = NoRequest]
  <2>1. Moves(g, NoRequest) /\ NoRequest.at # "expire"
    BY <1>1, NoRequestFits DEF Moves
  <2> QED
    BY <2>1, NoRequestFits
<1>2. CASE q.stage = "rate" /\ gate' = [gate EXCEPT ![g] = At("quota", q.ip, q.key, q.ticks)]
  <2>1. /\ q.key \in Keys /\ q.ip \in Ips \cup {NoRequest.ip} /\ q.ticks \in 0..Patience
        /\ q.at = "incr" \/ q.at = "expire"
    BY <1>2 DEF Fits, Request
  <2>2. PICK r : r = At("quota", q.ip, q.key, q.ticks)
    OBVIOUS
  <2>3. Fits(r) /\ r.at = "incr" /\ r.stage = "quota"
    BY <2>1, <2>2, StageFits
  <2>4. Moves(g, r)
    BY <1>2, <2>2, <2>3 DEF Moves
  <2>5. Debt(r) = {"quota"}
    BY <2>3 DEF Debt
  <2>6. "quota" \in Debt(q)
    BY <1>2, <2>1 DEF Debt
  <2> QED
    BY <1>2, <2>3, <2>4, <2>5, <2>6
<1> QED
  BY <1>1, <1>2 DEF Pass, Finish

\* Whoever pays for one INCR more can do without it.
LEMMA PaysLess ==
    ASSUME CountInv, Pays(1), faults \in Nat, faults' \in Nat
    PROVE  Pays(0)
<1>1. Cardinality(Owed) \in Nat /\ requests \in Nat /\ Cardinality(Owed') \in Nat
  BY Units, FS_CardinalityType DEF CountInv, Pays
<1> QED
  BY <1>1, Units DEF Pays

\* The counter's count: none without a counter.
LEMMA Counts ==
    ASSUME CountInv, NEW x
    PROVE  /\ CountOf(x) = 0 <=> x \notin DOMAIN counter
           /\ x \in DOMAIN counter => CountOf(x) = counter[x].n
BY DEF CountInv, CountOf

\* A stage counted, or let through where Redis failed.
LEMMA CountSteps ==
    ASSUME IInv, NEW g \in Gates, ~Pending(g), NEW q, Fits(q), q.at = "incr", Count(g, q),
           faults \in Nat, faults' \in Nat,
           \A r : Moves(g, r) /\ Debt(r) \subseteq Debt(q) \ {q.stage} => Pays(1),
           Moves(g, q) /\ faults' = faults + 1 => Pays(1)
    PROVE  \/ (\E r : Skips(g, r)) \/ (\E r : Starts(g, r))
           \/ (\E r : Follow(g, q, r)) \/ (\E r : Misses(g, q, r))
<1>1. ProcessTypeOK /\ GateInv /\ CountInv /\ now' = now
  BY DEF IInv, Count
<1>2. q.at # "idle"
  OBVIOUS
<1>3. ASSUME Pass(g, q), counter' = counter, hits' = hits, late' = late
      PROVE  \E r : Skips(g, r)
  <2>1. PICK r : Moves(g, r) /\ r.at # "expire" /\ Debt(r) \subseteq Debt(q) \ {q.stage}
    BY <1>1, <1>2, <1>3, GoesOn
  <2>2. Pays(0)
    BY <1>1, <2>1, PaysLess
  <2> QED
    BY <1>1, <1>3, <2>1, <2>2 DEF Skips
<1>4. ASSUME Incr(q.name), CountOf(q.name) = 0, hits' = hits, late' = late,
             gate' = [gate EXCEPT ![g] = [q EXCEPT !.at = "expire", !.since = now]]
      PROVE  \E r : Starts(g, r)
  <2>1. q \in Request /\ now \in 0..MaxTime
    BY <1>1 DEF Fits, ProcessTypeOK
  <2>2. PICK r : r = [q EXCEPT !.at = "expire", !.since = now]
    OBVIOUS
  <2>3. /\ r \in Request /\ r.at = "expire" /\ r.since = now
        /\ r.stage = q.stage /\ r.name = q.name /\ r.key = q.key
    BY <2>1, <2>2 DEF Request
  <2>4. Fits(r)
    BY <2>3 DEF Fits
  <2>5. Moves(g, r)
    BY <1>4, <2>2, <2>3, <2>4 DEF Moves
  <2>6. Debt(r) \subseteq Debt(q) \ {q.stage}
    BY <2>3 DEF Debt
  <2>7. q.name \notin DOMAIN counter
    BY <1>1, <1>4, Counts
  <2>8. counter' = With(counter, r.name, [n |-> 1, exp |-> Forever])
    BY <1>4, <2>3 DEF Incr
  <2> QED
    BY <1>1, <1>4, <2>3, <2>5, <2>6, <2>7, <2>8 DEF Starts
<1>5. ASSUME Incr(q.name), CountOf(q.name) # 0, late' = late,
             Decide(g, q, CountOf(q.name) + 1, now)
      PROVE  \E r : Follow(g, q, r)
  <2>1. q.name \in DOMAIN counter /\ CountOf(q.name) = counter[q.name].n
    BY <1>1, <1>5, Counts
  <2>2. Pass(g, q) \/ Finish(g)
    BY <1>5 DEF Decide
  <2>3. PICK r : Moves(g, r) /\ r.at # "expire" /\ Debt(r) \subseteq Debt(q) \ {q.stage}
    BY <1>1, <1>2, <2>2, GoesOn
  <2>4. counter' = With(counter, q.name, [n |-> counter[q.name].n + 1,
                                          exp |-> counter[q.name].exp])
    BY <1>5, <2>1 DEF Incr
  <2>5. hits' = hits (+) SetToBag({HitOf(q, counter[q.name].n + 1, now)})
    BY <1>5, <2>1, Zenon DEF Decide, HitOf
  <2> QED
    BY <1>1, <1>5, <2>1, <2>3, <2>4, <2>5 DEF Follow
<1>6. ASSUME Unanswered(g, q)
      PROVE  \E r : Misses(g, q, r)
  <2>1. /\ Incr(q.name) /\ hits' = hits /\ late' = late \cup {q.name}
        /\ gate' = [gate EXCEPT ![g] = q] \/ Pass(g, q)
        /\ faults' = faults + 1
    BY <1>6 DEF Unanswered, Fail
  <2>2. CASE gate' = [gate EXCEPT ![g] = q]
    <3>1. Moves(g, q)
      BY <2>2 DEF Moves
    <3>2. Pays(1)
      BY <2>1, <3>1
    <3> QED
      BY <1>1, <2>1, <3>1, <3>2 DEF Misses
  <2>3. CASE Pass(g, q)
    <3>1. PICK r : Moves(g, r) /\ r.at # "expire" /\ Debt(r) \subseteq Debt(q) \ {q.stage}
      BY <1>1, <1>2, <2>3, GoesOn
    <3>2. Pays(1)
      BY <3>1
    <3> QED
      BY <1>1, <2>1, <3>1, <3>2 DEF Misses
  <2> QED
    BY <2>1, <2>2, <2>3
<1> QED
  BY <1>3, <1>4, <1>5, <1>6 DEF Count

\* Every step is of one of the kinds.
LEMMA Steps ==
    ASSUME IInv, Next
    PROVE  \/ \E g, q, r : \/ Skips(g, r) \/ Starts(g, r) \/ Follow(g, q, r)
                          \/ Misses(g, q, r) \/ Times(g, r)
           \/ Crash /\ Pays(0)
           \/ Wait /\ Pays(0)
<1>1. /\ ProcessTypeOK /\ GateInv /\ CountInv /\ IsFiniteSet(Owed)
      /\ Cardinality(Owed) \in Nat /\ requests \in 0..MaxRequests /\ requests \in Nat
      /\ faults \in Nat /\ faults' \in Nat /\ faults <= faults'
  BY Units, FS_CardinalityType, ProcessStep DEF IInv, CountInv
<1>2. gate \in [Gates -> Request]
  BY <1>1 DEF GateInv
<1>3. ASSUME NEW g \in Gates, gate[g].at = "idle", requests' = requests + 1,
             requests' <= MaxRequests, ArriveIp(g)
      PROVE  \E q, r : Skips(g, r) \/ Starts(g, r) \/ Follow(g, q, r) \/ Misses(g, q, r)
  <2>1. PICK ip \in Ips : Count(g, At("ip", ip, NoKey, 0))
    BY <1>3 DEF ArriveIp
  <2>2. PICK q : q = At("ip", ip, NoKey, 0)
    OBVIOUS
  <2>3. Fits(q) /\ q.at = "incr" /\ q.stage = "ip"
    BY <1>1, <2>2, StageFits, Units
  <2>4. ASSUME NEW r, Moves(g, r), Debt(r) \subseteq Debt(q) \ {q.stage} PROVE Pays(1)
    <3>1. Debt(r) \subseteq Debt(gate[g])
      BY <2>3, <2>4 DEF Debt
    <3>2. IsFiniteSet(Owed') /\ Cardinality(Owed') <= Cardinality(Owed)
      BY <1>1, <1>2, <2>4, <3>1, MovesDebt
    <3>3. Cardinality(Owed') \in Nat
      BY <3>2, FS_CardinalityType
    <3> QED
      BY <1>1, <1>3, <3>2, <3>3, Units DEF Pays
  <2>5. ~Pending(g) /\ Count(g, q)
    BY <1>3, <2>1, <2>2 DEF Pending
  <2>6. ASSUME Moves(g, q), faults' = faults + 1 PROVE Pays(1)
    <3>1. Debt(gate[g]) = {} /\ Debt(q) \subseteq {"ip"} /\ "ip" \in Stages
      BY <1>3, <2>3 DEF Debt, Stages
    <3>2. IsFiniteSet(Owed') /\ Cardinality(Owed') <= Cardinality(Owed) + 1
      BY <1>1, <1>2, <2>6, <3>1, MovesDebt
    <3>3. Cardinality(Owed') \in Nat
      BY <3>2, FS_CardinalityType
    <3> QED
      BY <1>1, <1>3, <2>6, <3>2, <3>3, Units DEF Pays
  <2>7. \A r : Moves(g, r) /\ Debt(r) \subseteq Debt(q) \ {q.stage} => Pays(1)
    BY <2>4
  <2>8. Moves(g, q) /\ faults' = faults + 1 => Pays(1)
    BY <2>6
  <2> QED
    BY <1>1, <2>3, <2>5, <2>7, <2>8, CountSteps
<1>4. ASSUME NEW g \in Gates, gate[g].at = "idle", requests' = requests + 2,
             requests' <= MaxRequests, ArriveKey(g)
      PROVE  \E q, r : Skips(g, r)
  <2>1. PICK key \in Keys :
            gate' = [gate EXCEPT ![g] = At("rate", CHOOSE i \in Ips : TRUE, key, 0)]
    BY <1>4 DEF ArriveKey
  <2>2. PICK r : r = At("rate", NoRequest.ip, key, 0)
    OBVIOUS
  <2>3. Fits(r) /\ r.at = "incr" /\ r.stage = "rate"
    BY <1>1, <2>2, StageFits, Units
  <2>4. NoRequest.ip = CHOOSE i \in Ips : TRUE
    BY DEF NoRequest
  <2>5. Moves(g, r)
    BY <2>1, <2>2, <2>3, <2>4 DEF Moves
  <2>6. /\ Debt(gate[g]) = {} /\ Debt(r) \subseteq {"rate", "quota"}
        /\ "rate" \in Stages /\ "quota" \in Stages
    BY <1>4, <2>3 DEF Debt, Stages
  <2>7. IsFiniteSet(Owed') /\ Cardinality(Owed') <= Cardinality(Owed) + 2
    BY <1>1, <1>2, <2>5, <2>6, MovesDebt
  <2>8. Cardinality(Owed') \in Nat
    BY <2>7, FS_CardinalityType
  <2>9. Pays(0)
    BY <1>1, <1>4, <2>7, <2>8, Units DEF Pays
  <2> QED
    BY <1>4, <2>3, <2>5, <2>9 DEF Skips, ArriveKey, process, Pending
<1>5. ASSUME NEW g \in Gates, CountNext(g)
      PROVE  \E q, r : Skips(g, r) \/ Starts(g, r) \/ Follow(g, q, r) \/ Misses(g, q, r)
  <2>1. PICK q : q = gate[g]
    OBVIOUS
  <2>2. /\ q.at = "incr" /\ Fits(q) /\ q.stage \in Stages /\ Count(g, q)
        /\ requests' = requests /\ ~Pending(g)
    BY <1>1, <1>5, <2>1 DEF CountNext, GateInv, Fits, Request, Pending, Stages
  <2>3. q.stage \in Debt(q)
    BY <2>2 DEF Debt
  <2>4. ASSUME NEW r, Moves(g, r), Debt(r) \subseteq Debt(q) \ {q.stage} PROVE Pays(1)
    <3>1. IsFiniteSet(Owed') /\ Cardinality(Owed') + 1 <= Cardinality(Owed)
      BY <1>1, <1>2, <2>1, <2>2, <2>3, <2>4, MovesDebt
    <3>2. Cardinality(Owed') \in Nat
      BY <3>1, FS_CardinalityType
    <3> QED
      BY <1>1, <2>2, <3>1, <3>2, Units DEF Pays
  <2>5. ASSUME Moves(g, q), faults' = faults + 1 PROVE Pays(1)
    <3>1. Debt(q) \subseteq Debt(gate[g])
      BY <2>1
    <3>2. IsFiniteSet(Owed') /\ Cardinality(Owed') <= Cardinality(Owed)
      BY <1>1, <1>2, <2>5, <3>1, MovesDebt
    <3>3. Cardinality(Owed') \in Nat
      BY <3>2, FS_CardinalityType
    <3> QED
      BY <1>1, <2>2, <2>5, <3>2, <3>3, Units DEF Pays
  <2>6. \A r : Moves(g, r) /\ Debt(r) \subseteq Debt(q) \ {q.stage} => Pays(1)
    BY <2>4
  <2>7. Moves(g, q) /\ faults' = faults + 1 => Pays(1)
    BY <2>5
  <2> QED
    BY <1>1, <2>2, <2>6, <2>7, CountSteps
<1>6. ASSUME NEW g \in Gates, Expire(g)
      PROVE  \E q, r : Times(g, r)
  <2>1. PICK q : q = gate[g]
    OBVIOUS
  <2>2. /\ q.at = "expire" /\ Fits(q) /\ Pending(g) /\ Decide(g, q, 1, q.since)
        /\ now' = now /\ requests' = requests
    BY <1>1, <1>6, <2>1 DEF Expire, GateInv, Pending
  <2>3. q.at # "idle" /\ (Pass(g, q) \/ Finish(g))
    BY <2>2 DEF Decide
  <2>4. PICK r : Moves(g, r) /\ r.at # "expire" /\ Debt(r) \subseteq Debt(q) \ {q.stage}
    BY <1>1, <2>2, <2>3, GoesOn
  <2>5. IsFiniteSet(Owed') /\ Cardinality(Owed') <= Cardinality(Owed)
    BY <1>1, <1>2, <2>1, <2>4, MovesDebt
  <2>6. Cardinality(Owed') \in Nat
    BY <2>5, FS_CardinalityType
  <2>7. Pays(0)
    BY <1>1, <2>2, <2>5, <2>6, Units DEF Pays
  <2>8. hits' = hits (+) SetToBag({Due(g)})
    BY <2>1, <2>2, Zenon DEF Decide, Due
  <2>9. \/ counter' = counter /\ late' = late \cup {gate[g].name}
        \/ /\ counter' = [counter EXCEPT ![gate[g].name].exp = Deadline(gate[g].stage, now)]
           /\ late' = IF gate[g].since = now THEN late ELSE late \cup {gate[g].name}
    BY <1>6 DEF Expire
  <2> QED
    BY <2>2, <2>4, <2>7, <2>8, <2>9 DEF Times
<1>7. ASSUME Crash PROVE Pays(0)
  <2>1. Owed' = {} /\ requests' = requests
    BY <1>7, NoRequestFits DEF Crash, Owed
  <2>2. IsFiniteSet(Owed') /\ Cardinality(Owed') = 0
    BY <2>1, FS_EmptySet
  <2> QED
    BY <1>1, <2>1, <2>2, Units DEF Pays
<1>8. ASSUME Wait PROVE Pays(0)
  <2>1. requests' = requests /\ gate' = [g \in Gates |->
                IF gate[g].at = "idle" THEN gate[g] ELSE [gate[g] EXCEPT !.ticks = @ + 1]]
    BY <1>8 DEF Wait
  <2>2. ASSUME NEW g \in Gates PROVE Debt(gate[g])' = Debt(gate[g])
    <3>1. gate[g] \in Request
      BY <1>2
    <3>2. gate'[g].at = gate[g].at /\ gate'[g].stage = gate[g].stage
      BY <2>1, <3>1 DEF Request
    <3> QED
      BY <3>2 DEF Debt
  <2>3. Owed' = Owed
    BY <2>2 DEF Owed
  <2> QED
    BY <1>1, <2>1, <2>3, Units DEF Pays
<1> QED
  BY <1>3, <1>4, <1>5, <1>6, <1>7, <1>8 DEF Next, Arrive

-----------------------------------------------------------------------------
\* What each kind of step does to what is counted, and to what is pending.

Quiet(x) ==
    /\ PendingOn(x)' = PendingOn(x)
    /\ \A g \in PendingOn(x) : gate'[g].since = gate[g].since

\* Two hits of one name are not both due: who waits to send EXPIRE is alone.
LEMMA DueOnce ==
    ASSUME GateInv, NEW x, NEW S \in SUBSET Named(x),
           NEW g \in Gates, Pending(g), Due(g) \in S,
           NEW h \in Gates, Pending(h), Due(h) \in S
    PROVE  g = h
<1>1. Due(g).name = x /\ Due(h).name = x
  BY DEF Named
<1>2. gate[g].name = gate[h].name
  BY <1>1 DEF Due
<1> QED
  BY <1>2 DEF GateInv

\* Whoever creates a counter is the one who waits to send its EXPIRE.
LEMMA StartsAdds ==
    ASSUME IInv, NEW g, NEW r, Starts(g, r), NEW e, e = HitOf(r, 1, now)
    PROVE  /\ Adds(e) /\ PendingOn(r.name)' = {g} /\ gate'[g] = r
           /\ \A x : x # r.name => Quiet(x)
           /\ e \in Hit /\ hits' = hits
<1>1. GateInv /\ g \in Gates /\ gate \in [Gates -> Request] /\ ~Pending(g) /\ hits' = hits
  BY DEF IInv, GateInv, Starts, Moves
<1>2. gate' = [gate EXCEPT ![g] = r] /\ r.at = "expire" /\ r.since = now /\ Fits(r)
  BY DEF Starts, Moves
<1>3. gate'[g] = r /\ \A h \in Gates : h # g => gate'[h] = gate[h]
  BY <1>1, <1>2
<1>4. e \in Hit
  <2>1. now \in 0..MaxTime /\ r.name \in Names /\ r.key \in Keys \cup {NoKey}
    BY <1>2 DEF IInv, ProcessTypeOK, Fits, Request
  <2>2. e.ok \in BOOLEAN /\ e = [name |-> r.name, key |-> r.key, at |-> now, ok |-> e.ok]
    BY DEF HitOf, Allowed
  <2> QED
    BY <2>1, <2>2 DEF Hit
<1>5. ASSUME NEW h \in Gates
      PROVE  /\ Pending(h)' <=> (h = g \/ Pending(h))
             /\ h # g => Due(h)' = Due(h)
             /\ h = g => Due(h)' = e
  BY <1>1, <1>2, <1>3 DEF Pending, Due, HitOf
<1>6. Counted' = Counted \cup {e}
  BY <1>1, <1>5 DEF Counted
<1>7. ASSUME NEW h \in Gates, Pending(h) PROVE gate[h].name # r.name
  BY <1>1, <1>7 DEF GateInv, Starts
<1>8. ASSUME NEW x \in Names, NEW S \in SUBSET Named(x)
      PROVE  Made(S)' = Made(S) + (IF e \in S THEN 1 ELSE 0)
  <2>1. Tally(hits, S)' = Tally(hits, S) /\ Tally(hits, S) \in Nat
    BY <1>1, MadeType DEF IInv
  <2>2. CASE e \in S
    <3>1. e.name = x /\ x = r.name
      BY <2>2 DEF Named, HitOf
    <3>2. \A h \in Gates : Pending(h) => Due(h) \notin S
      <4>1. SUFFICES ASSUME NEW h \in Gates, Pending(h), Due(h) \in S PROVE FALSE
        OBVIOUS
      <4>2. Due(h).name = x
        BY <4>1 DEF Named
      <4> QED
        BY <1>7, <3>1, <4>1, <4>2 DEF Due
    <3> QED
      BY <1>1, <1>5, <2>1, <2>2, <3>2 DEF Made
  <2>3. CASE e \notin S
    <3>1. (\E h \in Gates : Pending(h) /\ Due(h) \in S)' <=>
              \E h \in Gates : Pending(h) /\ Due(h) \in S
      BY <1>1, <1>5, <2>3
    <3> QED
      BY <2>1, <2>3, <3>1 DEF Made
  <2> QED
    BY <2>2, <2>3
<1>9. PendingOn(r.name)' = {g}
  BY <1>1, <1>2, <1>3, <1>5, <1>7 DEF PendingOn
<1>10. ASSUME NEW x, x # r.name PROVE Quiet(x)
  BY <1>1, <1>2, <1>3, <1>5, <1>10 DEF PendingOn, Quiet
<1> QED
  BY <1>1, <1>3, <1>4, <1>6, <1>8, <1>9, <1>10 DEF Adds

\* A later request is counted, and nothing else about the gates that wait.
LEMMA FollowAdds ==
    ASSUME IInv, NEW g, NEW q, NEW r, Follow(g, q, r),
           NEW e, e = HitOf(q, counter[q.name].n + 1, now)
    PROVE  /\ Adds(e) /\ \A x : Quiet(x)
           /\ e \in Hit /\ IsABag(hits)' /\ IsFiniteSet(DOMAIN hits)'
<1>1. GateInv /\ HitInv /\ g \in Gates /\ gate \in [Gates -> Request] /\ ~Pending(g)
  BY DEF IInv, GateInv, Follow, Moves
<1>2. gate' = [gate EXCEPT ![g] = r] /\ r.at # "expire" /\ Fits(q) /\ q.at = "incr"
  BY DEF Follow, Moves
<1>3. \A h \in Gates : /\ Pending(h)' <=> Pending(h)
                       /\ Pending(h) => gate'[h] = gate[h] /\ Due(h)' = Due(h)
  BY <1>1, <1>2 DEF Pending, Due
<1>4. e \in Hit
  <2>1. now \in 0..MaxTime /\ q.name \in Names /\ q.key \in Keys \cup {NoKey}
    BY <1>2 DEF IInv, ProcessTypeOK, Fits, Request
  <2>2. e.ok \in BOOLEAN /\ e = [name |-> q.name, key |-> q.key, at |-> now, ok |-> e.ok]
    BY DEF HitOf, Allowed
  <2> QED
    BY <2>1, <2>2 DEF Hit
<1>5. PICK b : b = hits (+) SetToBag({e})
  OBVIOUS
<1>6. hits' = b
  BY <1>5 DEF Follow
<1>7. IsABag(hits) /\ IsFiniteSet(DOMAIN hits)
  BY <1>1 DEF HitInv
<1>8. /\ IsABag(b) /\ DOMAIN b = DOMAIN hits \cup {e} /\ IsFiniteSet(DOMAIN b)
      /\ \A S : Tally(b, S) = Tally(hits, S) + (IF e \in S THEN 1 ELSE 0)
  <2>1. IsABag(b) /\ DOMAIN b = DOMAIN hits \cup {e} /\ IsFiniteSet(DOMAIN b)
    BY <1>5, <1>7, BagAdd
  <2>2. \A S : Tally(b, S) = Tally(hits, S) + (IF e \in S THEN 1 ELSE 0)
    BY <1>5, <1>7, TallyAdd
  <2> QED
    BY <2>1, <2>2
<1>9. Counted' = Counted \cup {e}
  BY <1>3, <1>6, <1>8 DEF Counted
<1>10. ASSUME NEW S PROVE Made(S)' = Made(S) + (IF e \in S THEN 1 ELSE 0)
  <2>1. Tally(hits, S)' = Tally(b, S) /\ Tally(hits, S) \in Nat
    BY <1>1, <1>6, MadeType
  <2>2. (\E h \in Gates : Pending(h) /\ Due(h) \in S)' <=>
            \E h \in Gates : Pending(h) /\ Due(h) \in S
    BY <1>3
  <2> QED
    BY <1>8, <2>1, <2>2 DEF Made
<1>11. ASSUME NEW x PROVE Quiet(x)
  BY <1>3, <1>1, <1>2 DEF PendingOn, Quiet, Pending
<1> QED
  BY <1>4, <1>6, <1>8, <1>9, <1>10, <1>11 DEF Adds

\* Who sent EXPIRE has its hit; it was counted before.
LEMMA TimesSame ==
    ASSUME IInv, NEW g, NEW r, Times(g, r), NEW y, y = gate[g].name
    PROVE  /\ Counted' = Counted /\ \A x : Same(x)
           /\ y \in Names /\ PendingOn(y) = {g} /\ PendingOn(y)' = {}
           /\ \A x : x # y => Quiet(x)
           /\ IsABag(hits)' /\ IsFiniteSet(DOMAIN hits)'
<1>1. GateInv /\ HitInv /\ g \in Gates /\ gate \in [Gates -> Request] /\ Pending(g)
  BY DEF IInv, GateInv, Times, Moves
<1>2. gate' = [gate EXCEPT ![g] = r] /\ r.at # "expire"
  BY DEF Times, Moves
<1>3. ASSUME NEW h \in Gates
      PROVE  /\ Pending(h)' <=> Pending(h) /\ h # g
             /\ h # g => gate'[h] = gate[h] /\ Due(h)' = Due(h)
  BY <1>1, <1>2 DEF Pending, Due
<1>4. PICK e : e = Due(g)
  OBVIOUS
<1>5. PICK b : b = hits (+) SetToBag({e})
  OBVIOUS
<1>6. hits' = b
  BY <1>4, <1>5 DEF Times
<1>7. IsABag(hits) /\ IsFiniteSet(DOMAIN hits)
  BY <1>1 DEF HitInv
<1>8. /\ IsABag(b) /\ DOMAIN b = DOMAIN hits \cup {e} /\ IsFiniteSet(DOMAIN b)
      /\ \A S : Tally(b, S) = Tally(hits, S) + (IF e \in S THEN 1 ELSE 0)
  <2>1. IsABag(b) /\ DOMAIN b = DOMAIN hits \cup {e} /\ IsFiniteSet(DOMAIN b)
    BY <1>5, <1>7, BagAdd
  <2>2. \A S : Tally(b, S) = Tally(hits, S) + (IF e \in S THEN 1 ELSE 0)
    BY <1>5, <1>7, TallyAdd
  <2> QED
    BY <2>1, <2>2
<1>9. Counted' = Counted
  BY <1>1, <1>3, <1>4, <1>6, <1>8 DEF Counted
<1>10. ASSUME NEW x, NEW S \in SUBSET Named(x) PROVE Made(S)' = Made(S)
  <2>1. Tally(hits, S)' = Tally(b, S) /\ Tally(hits, S) \in Nat
    BY <1>1, <1>6, MadeType
  <2>2. CASE e \in S
    <3>1. \A h \in Gates : Pending(h) /\ Due(h) \in S => h = g
      BY <1>1, <1>4, <2>2, DueOnce
    <3>2. ~(\E h \in Gates : Pending(h) /\ Due(h) \in S)'
      BY <1>3, <3>1
    <3>3. \E h \in Gates : Pending(h) /\ Due(h) \in S
      BY <1>1, <1>4, <2>2
    <3> QED
      BY <1>8, <2>1, <2>2, <3>2, <3>3 DEF Made
  <2>3. CASE e \notin S
    <3>1. (\E h \in Gates : Pending(h) /\ Due(h) \in S)' <=>
              \E h \in Gates : Pending(h) /\ Due(h) \in S
      BY <1>3, <1>4, <2>3
    <3> QED
      BY <1>8, <2>1, <2>3, <3>1 DEF Made
  <2> QED
    BY <2>2, <2>3
<1>11. ASSUME NEW x, x # y PROVE Quiet(x)
  BY <1>3, <1>1, <1>2, <1>11 DEF PendingOn, Quiet
<1>12. PendingOn(y) = {g} /\ PendingOn(y)' = {}
  <2>1. PendingOn(y) = {g}
    BY <1>1 DEF PendingOn, GateInv
  <2>2. PendingOn(y)' = {}
    BY <1>1, <1>3 DEF PendingOn, GateInv
  <2> QED
    BY <2>1, <2>2
<1>13. y \in Names
  BY <1>1 DEF GateInv, Fits, Pending
<1> QED
  BY <1>6, <1>8, <1>9, <1>10, <1>11, <1>12, <1>13 DEF Same

-----------------------------------------------------------------------------
\* Names that a step leaves alone, or of which it forgets a request.

LEMMA SetsOfNames ==
    ASSUME NEW x, NEW s, NEW t, NEW k, NEW d
    PROVE  /\ From(x, s) \in SUBSET Named(x) /\ OkFrom(x, k, s) \in SUBSET Named(x)
           /\ OkBetween(x, s, t) \in SUBSET Named(x) /\ OkSince(x, s) \in SUBSET Named(x)
           /\ OkInMinute(x, k) \in SUBSET Named(x) /\ OkInDay(x, k, d) \in SUBSET Named(x)
           /\ Before(x, t) \in SUBSET Named(x)
BY DEF From, OkFrom, OkBetween, OkSince, OkInMinute, OkInDay, Before

\* Nothing new was counted of x, if anything less.
Shrinks(x) ==
    /\ \A h \in Counted' : h.name = x => h \in Counted
    /\ \A S \in SUBSET Named(x) : Made(S)' <= Made(S)
    /\ \A S : Made(S) \in Nat /\ Made(S)' \in Nat

\* Then what was apart remains so, and the bounds hold.
LEMMA Shrunk ==
    ASSUME NEW x \in Names, Shrinks(x), now \in Nat
    PROVE  /\ \A s \in Nat : Apart(x, s) => Apart(x, s)'
           /\ BoundOK(x) => BoundOK(x)'
           /\ Gone(x) /\ now' = now => Gone(x)'
<1>1. ASSUME NEW s \in Nat, Apart(x, s) PROVE Apart(x, s)'
  <2>1. ASSUME x \in RateNames
        PROVE  \A h \in Counted' : h.name = x /\ h.at < s /\ h.at \div Minute = x[3] =>
                                       x[3] < s \div Minute
    BY <1>1, <2>1 DEF Apart, Shrinks
  <2>2. ASSUME x \in QuotaNames
        PROVE  \A h \in Counted' : h.name = x /\ h.at < s => h.at \div Day < s \div Day
    BY <1>1, <2>2 DEF Apart, Shrinks
  <2>3. ASSUME x \in IpNames, NEW t \in 0..s, s < t + Minute
        PROVE  Made(OkBetween(x, t, s))' < IpLimit
    <3>1. Made(OkBetween(x, t, s)) < IpLimit
      BY <1>1, <2>3 DEF Apart
    <3>2. PICK S \in SUBSET Named(x) : S = OkBetween(x, t, s)
      BY SetsOfNames
    <3>3. Made(S)' <= Made(S) /\ Made(S) \in Nat /\ Made(S)' \in Nat
      BY DEF Shrinks
    <3> QED
      BY <3>1, <3>2, <3>3, Units
  <2> QED
    BY <2>1, <2>2, <2>3 DEF Apart
<1>2. ASSUME BoundOK(x) PROVE BoundOK(x)'
  <2>1. ASSUME NEW S \in SUBSET Named(x), NEW n \in Nat
        PROVE  /\ Made(S) <= n => Made(S)' <= n
               /\ Made(S) < n => Made(S)' < n
    BY DEF Shrinks
  <2>2. ASSUME x \in RateNames, NEW k \in Keys PROVE Made(OkInMinute(x, k))' <= RatePerMin[k]
    <3>1. RatePerMin[k] \in Nat /\ Made(OkInMinute(x, k)) <= RatePerMin[k]
      BY <1>2, <2>2, LimitAssumption DEF BoundOK
    <3> QED
      BY <2>1, <3>1, SetsOfNames
  <2>3. ASSUME x \in QuotaNames, NEW k \in Keys, NEW d \in 0..MaxTime
        PROVE  Made(OkInDay(x, k, d))' <= QuotaDaily[k]
    <3>1. QuotaDaily[k] \in Nat /\ Made(OkInDay(x, k, d)) <= QuotaDaily[k]
      BY <1>2, <2>3, LimitAssumption DEF BoundOK
    <3> QED
      BY <2>1, <3>1, SetsOfNames
  <2>4. ASSUME x \in IpNames, NEW t \in 0..MaxTime
        PROVE  Made(OkBetween(x, t, t + Minute))' < 2 * IpLimit
    <3>1. 2 * IpLimit \in Nat /\ Made(OkBetween(x, t, t + Minute)) < 2 * IpLimit
      BY <1>2, <2>4, Units DEF BoundOK
    <3> QED
      BY <2>1, <3>1, SetsOfNames
  <2> QED
    BY <2>2, <2>3, <2>4 DEF BoundOK
<1>3. ASSUME Gone(x), now' = now PROVE Gone(x)'
  <2>1. PICK t \in Nat : t = now
    OBVIOUS
  <2>2. Apart(x, t)'
    BY <1>1, <1>3, <2>1 DEF Gone
  <2>3. Apart(x, now)'
    BY <1>3, <2>1, <2>2
  <2>4. \A h \in Counted' : h.name = x => h.at < now'
    BY <1>3 DEF Gone, Shrinks
  <2> QED
    BY <2>3, <2>4 DEF Gone
<1> QED
  BY <1>1, <1>2, <1>3

\* A gate that goes on without an answer of its counter changes nothing of this.
LEMMA SkipsSame ==
    ASSUME IInv, NEW g, NEW r, Skips(g, r) \/ \E q : Misses(g, q, r)
    PROVE  Counted' = Counted /\ (\A x : Same(x) /\ Quiet(x)) /\ hits' = hits
<1>1. GateInv /\ HitInv /\ g \in Gates /\ gate \in [Gates -> Request] /\ ~Pending(g)
  BY DEF IInv, GateInv, Skips, Misses, Moves
<1>2. gate' = [gate EXCEPT ![g] = r] /\ r.at # "expire" /\ hits' = hits
  BY DEF Skips, Misses, Moves
<1>3. \A h \in Gates : /\ Pending(h)' <=> Pending(h)
                       /\ Pending(h) => gate'[h] = gate[h] /\ Due(h)' = Due(h)
  BY <1>1, <1>2 DEF Pending, Due
<1>4. Counted' = Counted
  BY <1>2, <1>3 DEF Counted
<1>5. ASSUME NEW S PROVE Made(S)' = Made(S)
  <2>1. Tally(hits, S)' = Tally(hits, S)
    BY <1>2
  <2>2. (\E h \in Gates : Pending(h) /\ Due(h) \in S)' <=>
            \E h \in Gates : Pending(h) /\ Due(h) \in S
    BY <1>3
  <2> QED
    BY <2>1, <2>2 DEF Made
<1>6. ASSUME NEW x PROVE Quiet(x)
  BY <1>1, <1>2, <1>3 DEF PendingOn, Quiet, Pending
<1> QED
  BY <1>2, <1>4, <1>5, <1>6 DEF Same

\* Nor does time.
LEMMA WaitSame ==
    ASSUME IInv, Wait
    PROVE  /\ Counted' = Counted /\ (\A x : Same(x) /\ Quiet(x)) /\ hits' = hits
           /\ gate' \in [Gates -> Request]
           /\ \A g \in Gates : /\ gate'[g].at = gate[g].at /\ gate'[g].stage = gate[g].stage
                               /\ gate'[g].name = gate[g].name /\ gate'[g].key = gate[g].key
                               /\ gate'[g].since = gate[g].since
<1>1. GateInv /\ HitInv /\ gate \in [Gates -> Request] /\ Patience \in Nat
  BY Units DEF IInv, GateInv
<1>2. /\ hits' = hits /\ \A g \in Gates : gate[g].ticks < Patience
      /\ gate' = [g \in Gates |-> IF gate[g].at = "idle" THEN gate[g]
                                  ELSE [gate[g] EXCEPT !.ticks = @ + 1]]
  BY DEF Wait
<1>3. ASSUME NEW g \in Gates
      PROVE  /\ gate'[g] \in Request
             /\ gate'[g].at = gate[g].at /\ gate'[g].stage = gate[g].stage
             /\ gate'[g].name = gate[g].name /\ gate'[g].key = gate[g].key
             /\ gate'[g].since = gate[g].since
  <2>1. gate[g] \in Request /\ gate[g].ticks + 1 \in 0..Patience
    BY <1>1, <1>2 DEF Request
  <2>2. gate'[g] = gate[g] \/ gate'[g] = [gate[g] EXCEPT !.ticks = gate[g].ticks + 1]
    BY <1>2
  <2> QED
    BY <2>1, <2>2 DEF Request
<1>4. \A h \in Gates : (Pending(h)' <=> Pending(h)) /\ Due(h)' = Due(h)
  BY <1>3 DEF Pending, Due
<1>5. Counted' = Counted
  BY <1>2, <1>4 DEF Counted
<1>6. ASSUME NEW S PROVE Made(S)' = Made(S)
  <2>1. Tally(hits, S)' = Tally(hits, S)
    BY <1>2
  <2>2. (\E h \in Gates : Pending(h) /\ Due(h) \in S)' <=>
            \E h \in Gates : Pending(h) /\ Due(h) \in S
    BY <1>4
  <2> QED
    BY <2>1, <2>2 DEF Made
<1>7. ASSUME NEW x PROVE Quiet(x)
  BY <1>3, <1>4 DEF PendingOn, Quiet
<1>8. gate' \in [Gates -> Request]
  BY <1>2, <1>3
<1> QED
  BY <1>2, <1>3, <1>5, <1>6, <1>7, <1>8 DEF Same

\* A crash forgets the hits that were due.
LEMMA CrashShrinks ==
    ASSUME IInv, Crash
    PROVE  /\ Counted' \subseteq Counted /\ hits' = hits
           /\ \A x : PendingOn(x)' = {}
           /\ \A S : Made(S)' <= Made(S) /\ Made(S)' \in Nat
           /\ \A x : PendingOn(x) = {} => Same(x)
           /\ \A g \in Gates : gate'[g] = NoRequest
<1>1. HitInv /\ hits' = hits /\ \A g \in Gates : gate'[g] = NoRequest
  BY DEF IInv, Crash
<1>2. \A g \in Gates : ~Pending(g)'
  BY <1>1, NoRequestFits DEF Pending
<1>3. Counted' = DOMAIN hits
  BY <1>1, <1>2 DEF Counted
<1>4. ASSUME NEW S
      PROVE  /\ Made(S)' = Tally(hits, S)
             /\ Tally(hits, S) \in Nat /\ Tally(hits, S) <= Made(S)
  <2>1. Tally(hits, S)' = Tally(hits, S) /\ Tally(hits, S) \in Nat
    BY <1>1, MadeType
  <2>2. Made(S)' = Tally(hits, S)
    BY <1>2, <2>1 DEF Made
  <2> QED
    BY <1>1, <2>1, <2>2, MadeType
<1>5. ASSUME NEW x, PendingOn(x) = {} PROVE Same(x)
  <2>1. \A g \in Gates : Pending(g) => Due(g) \notin Named(x)
    BY <1>5 DEF PendingOn, Named, Due
  <2>2. ASSUME NEW S \in SUBSET Named(x) PROVE Made(S)' = Made(S)
    <3>1. Made(S) = Tally(hits, S) + 0
      BY <2>1 DEF Made
    <3> QED
      BY <1>4, <3>1
  <2> QED
    BY <1>3, <2>1, <2>2 DEF Same, Counted
<1>6. \A x : PendingOn(x)' = {}
  BY <1>2 DEF PendingOn
<1> QED
  BY <1>1, <1>3, <1>4, <1>5, <1>6 DEF Counted

-----------------------------------------------------------------------------
\* The parts of the invariant, one by one.

\* What is counted are hits, until now.
LEMMA HitStep ==
    ASSUME IInv, Next
    PROVE  HitInv'
<1>1. HitInv /\ now <= now' /\ now \in Nat /\ now' \in Nat /\ now' \in 0..MaxTime
  BY ProcessStep DEF IInv, ProcessTypeOK
<1>2. IsABag(hits) /\ IsFiniteSet(DOMAIN hits) /\ \A h \in Counted : h \in Hit /\ h.at <= now
  BY <1>1 DEF HitInv
<1>3. \A h \in Counted : h.at <= now'
  <2>1. \A h \in Counted : h.at \in Nat
    BY <1>2 DEF Hit
  <2> QED
    BY <1>1, <1>2, <2>1
<1>4. ASSUME NEW g, NEW r, Skips(g, r) \/ \E q : Misses(g, q, r) PROVE HitInv'
  <2>1. Counted' = Counted /\ hits' = hits
    BY <1>4, SkipsSame
  <2> QED
    BY <1>2, <1>3, <2>1 DEF HitInv
<1>5. ASSUME NEW g, NEW r, Starts(g, r) PROVE HitInv'
  <2>1. PICK e : e = HitOf(r, 1, now)
    OBVIOUS
  <2>2. Counted' = Counted \cup {e} /\ e \in Hit /\ hits' = hits
    BY <1>5, <2>1, StartsAdds DEF Adds
  <2>3. e.at <= now'
    BY <1>1, <2>1 DEF HitOf
  <2> QED
    BY <1>2, <1>3, <2>2, <2>3 DEF HitInv
<1>6. ASSUME NEW g, NEW q, NEW r, Follow(g, q, r) PROVE HitInv'
  <2>1. PICK e : e = HitOf(q, counter[q.name].n + 1, now)
    OBVIOUS
  <2>2. Counted' = Counted \cup {e} /\ e \in Hit /\ IsABag(hits)' /\ IsFiniteSet(DOMAIN hits)'
    BY <1>6, <2>1, FollowAdds DEF Adds
  <2>3. e.at <= now'
    BY <1>1, <2>1 DEF HitOf
  <2> QED
    BY <1>2, <1>3, <2>2, <2>3 DEF HitInv
<1>7. ASSUME NEW g, NEW r, Times(g, r) PROVE HitInv'
  <2>1. Counted' = Counted /\ IsABag(hits)' /\ IsFiniteSet(DOMAIN hits)'
    BY <1>7, TimesSame
  <2> QED
    BY <1>2, <1>3, <2>1 DEF HitInv
<1>8. ASSUME Crash PROVE HitInv'
  <2>1. Counted' \subseteq Counted /\ hits' = hits
    BY <1>8, CrashShrinks
  <2> QED
    BY <1>2, <1>3, <2>1 DEF HitInv
<1>9. ASSUME Wait PROVE HitInv'
  <2>1. Counted' = Counted /\ hits' = hits
    BY <1>9, WaitSame
  <2> QED
    BY <1>2, <1>3, <2>1 DEF HitInv
<1> QED
  BY <1>4, <1>5, <1>6, <1>7, <1>8, <1>9, Steps

\* A request that fits still does later on.
LEMMA FitsOn ==
    ASSUME now \in Nat, now' \in Nat, now <= now', NEW r, Fits(r)
    PROVE  Fits(r)'
<1>1. /\ now \div Minute \in Nat /\ now' \div Minute \in Nat
      /\ now \div Minute <= now' \div Minute
  BY Units, Quotients
<1>2. PICK m \in Nat : m = now \div Minute
  BY <1>1
<1>3. PICK k \in Nat : k = now' \div Minute
  BY <1>1
<1>4. r.name \in RateNames => r.name[3] \in Nat
  BY NamesTell
<1> QED
  BY <1>1, <1>2, <1>3, <1>4 DEF Fits

\* The gates: only one waits to send the EXPIRE of a counter, and it exists.
LEMMA GateStep ==
    ASSUME IInv, Next
    PROVE  GateInv'
<1>1. /\ GateInv /\ gate \in [Gates -> Request] /\ LifeInv
      /\ now <= now' /\ now \in Nat /\ now' \in Nat /\ \A r : Fits(r) => Fits(r)'
  BY ProcessStep, FitsOn DEF IInv, GateInv
<1>2. ASSUME NEW g, NEW r, Moves(g, r), ~Pending(g) \/ r.at # "expire",
             DOMAIN counter \subseteq DOMAIN counter', now' = now,
             r.at = "expire" =>
                 r.since = now /\ r.name \notin DOMAIN counter /\ r.name \in DOMAIN counter'
      PROVE  GateInv'
  <2>1. /\ g \in Gates /\ gate' = [gate EXCEPT ![g] = r] /\ Fits(r) /\ r \in Request
    BY <1>2 DEF Moves, Fits
  <2>2. gate' \in [Gates -> Request] /\ gate'[g] = r /\ \A h \in Gates : h # g => gate'[h] = gate[h]
    BY <1>1, <2>1
  <2>3. ASSUME NEW h \in Gates
        PROVE  /\ Fits(gate[h])'
               /\ Pending(h)' => gate'[h].since \in 0..now' /\ gate'[h].name \in DOMAIN counter'
    <3>1. CASE h = g
      <4>1. PICK q : q = gate'[h]
        OBVIOUS
      <4>2. Fits(q)'
        BY <1>1, <2>1, <2>2, <3>1, <4>1
      <4>3. Fits(gate[h])'
        BY <4>1, <4>2
      <4> QED
        BY <1>1, <1>2, <2>1, <2>2, <3>1, <4>3 DEF Pending
    <3>2. CASE h # g
      <4>1. PICK q : q = gate[h]
        OBVIOUS
      <4>2. Fits(q)' /\ gate'[h] = q
        BY <1>1, <2>2, <3>2, <4>1 DEF GateInv
      <4>3. Fits(gate[h])'
        BY <4>2
      <4> QED
        BY <1>1, <1>2, <2>2, <3>2, <4>3 DEF Pending, GateInv
    <3> QED
      BY <3>1, <3>2
  <2>4. ASSUME NEW h \in Gates, NEW i \in Gates, Pending(h)', Pending(i)',
               gate'[h].name = gate'[i].name
        PROVE  h = i
    BY <1>1, <1>2, <2>2, <2>4 DEF Pending, GateInv
  <2> QED
    BY <2>2, <2>3, <2>4 DEF GateInv
<1>3. ASSUME NEW g, NEW r, Skips(g, r) PROVE GateInv'
  BY <1>2, <1>3 DEF Skips
<1>4. ASSUME NEW g, NEW r, Starts(g, r) PROVE GateInv'
  <2>1. DOMAIN counter' = DOMAIN counter \cup {r.name}
    BY <1>4 DEF Starts, With
  <2> QED
    BY <1>2, <1>4, <2>1 DEF Starts
<1>5. ASSUME NEW g, NEW q, NEW r, Follow(g, q, r) PROVE GateInv'
  <2>1. DOMAIN counter' = DOMAIN counter \cup {q.name}
    BY <1>5 DEF Follow, With
  <2> QED
    BY <1>2, <1>5, <2>1 DEF Follow
<1>9. ASSUME NEW g, NEW q, NEW r, Misses(g, q, r) PROVE GateInv'
  <2>1. DOMAIN counter' = DOMAIN counter \cup {q.name}
    BY <1>9 DEF Misses, Incr, With
  <2> QED
    BY <1>2, <1>9, <2>1 DEF Misses
<1>6. ASSUME NEW g, NEW r, Times(g, r) PROVE GateInv'
  <2>1. DOMAIN counter' = DOMAIN counter
    BY <1>6 DEF Times
  <2> QED
    BY <1>2, <1>6, <2>1 DEF Times
<1>7. ASSUME Crash PROVE GateInv'
  <2>1. gate' = [g \in Gates |-> NoRequest]
    BY <1>7 DEF Crash
  <2>2. Fits(NoRequest)' /\ NoRequest.at = "idle" /\ NoRequest \in Request
    BY <1>1, NoRequestFits DEF Fits
  <2>3. \A h \in Gates : Fits(gate[h])'
    BY <2>1, <2>2
  <2> QED
    BY <2>1, <2>2, <2>3 DEF GateInv, Pending
<1>8. ASSUME Wait PROVE GateInv'
  <2>1. /\ gate' \in [Gates -> Request]
        /\ \A g \in Gates : /\ gate'[g].at = gate[g].at /\ gate'[g].stage = gate[g].stage
                            /\ gate'[g].name = gate[g].name /\ gate'[g].key = gate[g].key
                            /\ gate'[g].since = gate[g].since
    BY <1>8, WaitSame
  <2>2. ASSUME NEW h \in Gates PROVE Fits(gate[h])'
    <3>1. PICK q : q = gate[h]
      OBVIOUS
    <3>2. Fits(q)'
      BY <1>1, <3>1 DEF GateInv
    <3>3. gate'[h] \in Request
      BY <2>1
    <3> QED
      BY <2>1, <3>1, <3>2, <3>3 DEF Fits
  <2>3. ASSUME NEW h \in Gates, Pending(h)
        PROVE  gate[h].since \in 0..now' /\ gate[h].name \in DOMAIN counter'
    <3>1. gate[h].since \in 0..now /\ gate[h].name \in DOMAIN counter
      BY <1>1, <2>3 DEF GateInv
    <3>2. PICK x : x = gate[h].name
      OBVIOUS
    <3>3. PICK s \in 0..now : Life(x, s)
      BY <1>1, <3>1, <3>2 DEF LifeInv
    <3>4. h \in PendingOn(x)
      BY <2>3, <3>2 DEF PendingOn
    <3>5. counter[x].exp = Forever
      BY <3>3, <3>4 DEF Life, Timed
    <3>6. now + 1 < Forever
      BY <1>8, <1>1, Units DEF Wait, Tick
    <3>7. x \in DOMAIN counter'
      BY <1>8, <3>1, <3>2, <3>5, <3>6 DEF Wait, Restrict
    <3> QED
      BY <1>1, <3>1, <3>2, <3>7
  <2>4. \A h \in Gates : Pending(h)' <=> Pending(h)
    BY <2>1 DEF Pending
  <2> QED
    BY <1>1, <2>1, <2>2, <2>3, <2>4 DEF GateInv
<1> QED
  BY <1>3, <1>4, <1>5, <1>6, <1>7, <1>8, <1>9, Steps

LEMMA SameShrinks ==
    ASSUME HitInv, HitInv', NEW x \in Names, Same(x)
    PROVE  Shrinks(x)
<1>1. \A S : Made(S) \in Nat
  BY MadeType
<1>2. ASSUME NEW S PROVE Made(S)' \in Nat
  <2>1. IsABag(hits)' /\ IsFiniteSet(DOMAIN hits)'
    BY DEF HitInv
  <2>2. Tally(hits, S)' \in Nat
    BY <2>1, TallyType
  <2> QED
    BY <2>2 DEF Made
<1>3. \A h \in Counted' : h.name = x => h \in Counted
  BY DEF Same, HitInv, Named
<1>4. \A S \in SUBSET Named(x) : Made(S)' <= Made(S)
  BY <1>1, <1>2 DEF Same
<1> QED
  BY <1>1, <1>2, <1>3, <1>4 DEF Shrinks

\* A counter that is no less, and of which no more was counted, tells what it did.
LEMMA TellsOn ==
    ASSUME NEW x \in Names, Shrinks(x), NEW s \in Nat, Tells(x, s),
           counter'[x].n \in Nat, counter[x].n <= counter'[x].n,
           x \notin late' => x \notin late /\ Same(x) /\ counter'[x].n = counter[x].n
    PROVE  Tells(x, s)'
<1>1. counter[x].n \in Nat /\ counter'[x].n \in Nat
  BY DEF Tells
<1>2. ASSUME NEW S \in SUBSET Named(x), NEW n \in Nat
      PROVE  /\ Made(S) <= n => Made(S)' <= n
             /\ Made(S) < n => Made(S)' < n
  BY DEF Shrinks
<1>3. /\ From(x, s) \in SUBSET Named(x) /\ From(x, s + 1) \in SUBSET Named(x)
      /\ OkSince(x, s) \in SUBSET Named(x) /\ OkSince(x, s + 1) \in SUBSET Named(x)
      /\ \A k \in Keys : OkFrom(x, k, s) \in SUBSET Named(x)
  BY SetsOfNames
<1>4. Made(From(x, s))' <= counter'[x].n
  <2>1. Made(From(x, s))' <= counter[x].n
    BY <1>1, <1>2, <1>3 DEF Tells
  <2>2. Made(From(x, s))' \in Nat
    BY DEF Shrinks
  <2> QED
    BY <1>1, <2>1, <2>2
<1>5. x \notin late' => Made(From(x, s))' = counter'[x].n
  BY <1>3 DEF Tells, Same
<1>6. ASSUME x \notin IpNames, NEW k \in Keys
      PROVE  Made(OkFrom(x, k, s))' <= Limit(x[1], k)
  <2>1. x \in RateNames \/ x \in QuotaNames
    BY <1>6, NamesTell
  <2>2. Limit(x[1], k) \in Nat
    BY <2>1, NamesTell, LimitAssumption DEF Limit
  <2> QED
    BY <1>2, <1>3, <1>6, <2>2 DEF Tells
<1>7. ASSUME x \in IpNames
      PROVE  /\ Made(OkSince(x, s))' <= IpLimit /\ Made(OkSince(x, s + 1))' < IpLimit
             /\ Made(From(x, s + 1))' < counter'[x].n
  <2>1. /\ Made(OkSince(x, s))' <= IpLimit /\ Made(OkSince(x, s + 1))' < IpLimit
        /\ Made(From(x, s + 1))' < counter[x].n
    BY <1>1, <1>2, <1>3, <1>7, Units DEF Tells
  <2>2. Made(From(x, s + 1))' \in Nat
    BY DEF Shrinks
  <2> QED
    BY <1>1, <2>1, <2>2
<1> QED
  BY <1>1, <1>4, <1>5, <1>6, <1>7 DEF Tells

\* A counter of which the step changes nothing.
LEMMA LifeOn ==
    ASSUME HitInv, HitInv', NEW x \in Names, Same(x), Quiet(x), now' = now, now \in Nat,
           x \in late' <=> x \in late, counter'[x] = counter[x],
           NEW s \in Nat, Life(x, s)
    PROVE  Life(x, s)'
<1>1. Shrinks(x)
  BY SameShrinks
<1>2. Tells(x, s)'
  <2>1. counter[x].n \in Nat /\ Tells(x, s) /\ counter'[x].n = counter[x].n
    BY DEF Life, Tells
  <2> QED
    BY <1>1, <2>1, TellsOn
<1>3. Apart(x, s)'
  BY <1>1, Shrunk DEF Life
<1>4. Timed(x, s)'
  BY DEF Life, Timed, Quiet
<1> QED
  BY <1>2, <1>3, <1>4 DEF Life

\* A counter that begins now tells the one request that created it.
LEMMA LifeStarts ==
    ASSUME IInv, HitInv', NEW g, NEW r, Starts(g, r), NEW x, x = r.name, NEW t, t = now
    PROVE  x \in Names /\ Life(x, t)'
<1>1. /\ HitInv /\ g \in Gates /\ Fits(r) /\ r.at = "expire" /\ r.since = t
      /\ x \notin DOMAIN counter /\ now' = now /\ late' = late /\ t \in 0..MaxTime
      /\ counter' = With(counter, x, [n |-> 1, exp |-> Forever])
  BY DEF IInv, Starts, Moves, ProcessTypeOK
<1>2. /\ x \in Names /\ t \in Nat /\ x[1] = r.stage /\ (x \in RateNames => x[3] <= t \div Minute)
      /\ r.stage # "ip" => r.key \in Keys
  BY <1>1, Units DEF Fits
<1>3. Gone(x)
  BY <1>1, <1>2 DEF IInv, LifeInv
<1>4. PICK e : e = HitOf(r, 1, now)
  OBVIOUS
<1>5. /\ Adds(e) /\ PendingOn(x)' = {g} /\ gate'[g] = r
      /\ e.name = x /\ e.at = t /\ e.key = r.key /\ (e.ok <=> 1 <= Limit(r.stage, r.key))
  BY <1>4, StartsAdds DEF HitOf, Allowed
<1>6. \A h \in Counted : h.name = x => h.at < t /\ h.at \in Nat
  BY <1>1, <1>3 DEF Gone, HitInv, Hit
<1>7. counter'[x] = [n |-> 1, exp |-> Forever]
  BY <1>1 DEF With
<1>8. ASSUME NEW S \in SUBSET Named(x), \A h \in S : h.at >= t
      PROVE  Made(S)' = IF e \in S THEN 1 ELSE 0
  <2>1. \A h \in Counted : h \notin S
    <3>1. SUFFICES ASSUME NEW h \in Counted, h \in S PROVE FALSE
      OBVIOUS
    <3>2. h.name = x
      BY <3>1 DEF Named
    <3> QED
      BY <1>2, <1>6, <1>8, <3>1, <3>2
  <2>2. Made(S) = 0
    BY <2>1, MadeNone
  <2> QED
    BY <1>2, <1>5, <2>2 DEF Adds
<1>9. Tells(x, t)'
  <2>1. /\ From(x, t) \in SUBSET Named(x) /\ From(x, t + 1) \in SUBSET Named(x)
        /\ OkSince(x, t) \in SUBSET Named(x) /\ OkSince(x, t + 1) \in SUBSET Named(x)
        /\ \A k \in Keys : OkFrom(x, k, t) \in SUBSET Named(x)
    BY SetsOfNames
  <2>2. Made(From(x, t))' = 1
    <3>1. \A h \in From(x, t) : h.at >= t
      BY DEF From
    <3>2. e \in From(x, t)
      BY <1>1, <1>4, <1>5, StartsAdds DEF From, Named
    <3> QED
      BY <1>8, <2>1, <3>1, <3>2
  <2>3. ASSUME x \notin IpNames, NEW k \in Keys
        PROVE  Made(OkFrom(x, k, t))' <= Limit(x[1], k)
    <3>1. \A h \in OkFrom(x, k, t) : h.at >= t
      BY DEF OkFrom
    <3>2. Made(OkFrom(x, k, t))' = IF e \in OkFrom(x, k, t) THEN 1 ELSE 0
      BY <1>8, <2>1, <3>1
    <3>3. Limit(x[1], k) \in Nat
      BY <1>2, <2>3, NamesTell, LimitAssumption DEF Limit
    <3>4. e \in OkFrom(x, k, t) => 1 <= Limit(x[1], k)
      BY <1>2, <1>5 DEF OkFrom
    <3> QED
      BY <3>2, <3>3, <3>4
  <2>4. Made(OkSince(x, t))' <= IpLimit
    <3>1. \A h \in OkSince(x, t) : h.at >= t
      BY DEF OkSince, OkBetween
    <3>2. Made(OkSince(x, t))' = IF e \in OkSince(x, t) THEN 1 ELSE 0
      BY <1>8, <2>1, <3>1
    <3> QED
      BY <3>2, Units
  <2>5. Made(OkSince(x, t + 1))' = 0
    <3>1. \A h \in OkSince(x, t + 1) : h.at >= t + 1 /\ h.at \in Nat
      BY DEF OkSince, OkBetween, Named, Hit
    <3>2. e \notin OkSince(x, t + 1) /\ \A h \in OkSince(x, t + 1) : h.at >= t
      BY <1>2, <1>5, <3>1
    <3> QED
      BY <1>8, <2>1, <3>2
  <2>6. Made(From(x, t + 1))' = 0
    <3>1. \A h \in From(x, t + 1) : h.at >= t + 1 /\ h.at \in Nat
      BY DEF From, Named, Hit
    <3>2. e \notin From(x, t + 1) /\ \A h \in From(x, t + 1) : h.at >= t
      BY <1>2, <1>5, <3>1
    <3> QED
      BY <1>8, <2>1, <3>2
  <2>7. counter'[x].n = 1 /\ IpLimit \in Nat /\ 0 < IpLimit
    BY <1>7, Units
  <2> QED
    BY <2>2, <2>3, <2>4, <2>5, <2>6, <2>7 DEF Tells
<1>10. Apart(x, t)'
  <2>1. \A h \in Counted' : h.name = x /\ h.at < t => h \in Counted
    BY <1>2, <1>5 DEF Adds
  <2>2. ASSUME x \in IpNames, NEW u \in 0..t, t < u + Minute
        PROVE  Made(OkBetween(x, u, t))' < IpLimit
    <3>1. Made(OkBetween(x, u, t)) < IpLimit
      BY <1>1, <1>3, <2>2 DEF Gone, Apart
    <3>2. e \notin OkBetween(x, u, t) /\ OkBetween(x, u, t) \in SUBSET Named(x)
      BY <1>2, <1>5, SetsOfNames DEF OkBetween
    <3>3. Made(OkBetween(x, u, t)) \in Nat
      BY <1>1, MadeType
    <3>4. Made(OkBetween(x, u, t))' = Made(OkBetween(x, u, t)) + 0
      BY <1>2, <1>5, <3>2 DEF Adds
    <3> QED
      BY <3>1, <3>3, <3>4
  <2>3. Apart(x, t)
    BY <1>3 DEF Gone
  <2> QED
    BY <2>1, <2>2, <2>3 DEF Apart
<1>11. Timed(x, t)'
  <2>1. now' < Forever /\ counter'[x].exp = Forever
    BY <1>1, <1>2, <1>7, Units
  <2> QED
    BY <1>1, <1>2, <1>5, <2>1 DEF Timed
<1> QED
  BY <1>2, <1>9, <1>10, <1>11 DEF Life

\* A counter that counts one request more tells it.
LEMMA LifeFollows ==
    ASSUME IInv, HitInv', NEW g, NEW q, NEW r, Follow(g, q, r), NEW x, x = q.name,
           NEW s \in 0..now, Life(x, s)
    PROVE  x \in Names /\ Life(x, s)'
<1>1. PICK t \in 0..MaxTime : t = now
  BY DEF IInv, ProcessTypeOK
<1>2. PICK n : n = counter[x].n
  OBVIOUS
<1>3. /\ HitInv /\ Fits(q) /\ q.at = "incr" /\ now' = t /\ late' = late
      /\ x \in DOMAIN counter
      /\ counter' = With(counter, x, [n |-> n + 1, exp |-> counter[x].exp])
  BY <1>1, <1>2 DEF IInv, Follow
<1>4. /\ x \in Names /\ t \in Nat /\ s \in Nat /\ s <= t /\ x[1] = q.stage
      /\ q.stage # "ip" => q.key \in Keys
  BY <1>1, <1>3, Units DEF Fits
<1>5. n \in Nat /\ Tells(x, s) /\ Timed(x, s) /\ Apart(x, s)
  BY <1>2 DEF Life, Tells
<1>6. counter'[x].n = n + 1 /\ counter'[x].exp = counter[x].exp
  BY <1>3 DEF With
<1>7. PICK e : e = HitOf(q, counter[q.name].n + 1, now)
  OBVIOUS
<1>8. /\ Adds(e) /\ Quiet(x) /\ e \in Hit
      /\ e.name = x /\ e.at = t /\ e.key = q.key /\ (e.ok <=> n + 1 <= Limit(q.stage, q.key))
  BY <1>1, <1>2, <1>7, FollowAdds DEF HitOf, Allowed
<1>9. ASSUME NEW S \in SUBSET Named(x)
      PROVE  Made(S)' = Made(S) + (IF e \in S THEN 1 ELSE 0) /\ Made(S) \in Nat
  BY <1>3, <1>4, <1>8, MadeType DEF Adds
<1>10. Tells(x, s)'
  <2>1. /\ From(x, s) \in SUBSET Named(x) /\ From(x, s + 1) \in SUBSET Named(x)
        /\ OkSince(x, s) \in SUBSET Named(x) /\ OkSince(x, s + 1) \in SUBSET Named(x)
        /\ \A k \in Keys : OkFrom(x, k, s) \in SUBSET Named(x)
    BY SetsOfNames
  <2>2. /\ Made(From(x, s))' <= n + 1
        /\ x \notin late' => Made(From(x, s))' = n + 1
    <3>1. e \in From(x, s)
      BY <1>4, <1>8 DEF From, Named
    <3>2. Made(From(x, s))' = Made(From(x, s)) + 1 /\ Made(From(x, s)) \in Nat
      BY <1>9, <2>1, <3>1
    <3> QED
      BY <1>2, <1>3, <1>5, <3>2 DEF Tells
  <2>3. ASSUME x \notin IpNames, NEW k \in Keys
        PROVE  Made(OkFrom(x, k, s))' <= Limit(x[1], k)
    <3>1. Limit(x[1], k) \in Nat
      BY <1>4, <2>3, NamesTell, LimitAssumption DEF Limit
    <3>2. Made(OkFrom(x, k, s)) <= Limit(x[1], k)
      BY <1>5, <2>3 DEF Tells
    <3>3. Made(OkFrom(x, k, s)) <= n
      <4>1. \A h \in Counted : h \in OkFrom(x, k, s) => h \in From(x, s)
        BY DEF OkFrom, From
      <4>2. Made(OkFrom(x, k, s)) <= Made(From(x, s))
        BY <1>3, <4>1, MadeMono
      <4>3. Made(From(x, s)) <= n
        BY <1>2, <1>5 DEF Tells
      <4> QED
        BY <1>5, <1>9, <2>1, <4>2, <4>3
    <3>4. e \in OkFrom(x, k, s) => n + 1 <= Limit(x[1], k)
      BY <1>4, <1>8 DEF OkFrom
    <3>5. /\ Made(OkFrom(x, k, s)) \in Nat
          /\ Made(OkFrom(x, k, s))' =
                 Made(OkFrom(x, k, s)) + (IF e \in OkFrom(x, k, s) THEN 1 ELSE 0)
      BY <1>9, <2>1
    <3> QED
      BY <1>5, <3>1, <3>2, <3>3, <3>4, <3>5
  <2>4. ASSUME x \in IpNames
        PROVE  /\ Made(OkSince(x, s))' <= IpLimit /\ Made(OkSince(x, s + 1))' < IpLimit
               /\ Made(From(x, s + 1))' < n + 1
    <3>1. IpLimit \in Nat /\ (e.ok => n + 1 <= IpLimit)
      BY <1>4, <1>8, <2>4, NamesTell, Units DEF Limit
    <3>2. /\ Made(OkSince(x, s)) <= IpLimit /\ Made(OkSince(x, s + 1)) < IpLimit
          /\ Made(From(x, s + 1)) < n /\ Made(From(x, s)) <= n
      BY <1>2, <1>5, <2>4 DEF Tells
    <3>3. Made(OkSince(x, s)) <= Made(From(x, s))
      <4>1. \A h \in Counted : h \in OkSince(x, s) => h \in From(x, s)
        BY DEF OkSince, OkBetween, From, Named, Hit
      <4> QED
        BY <1>3, <4>1, MadeMono
    <3>4. Made(OkSince(x, s + 1)) <= Made(From(x, s + 1))
      <4>1. \A h \in Counted : h \in OkSince(x, s + 1) => h \in From(x, s + 1)
        BY DEF OkSince, OkBetween, From, Named, Hit
      <4> QED
        BY <1>3, <4>1, MadeMono
    <3>5. /\ Made(OkSince(x, s)) \in Nat /\ Made(OkSince(x, s + 1)) \in Nat
          /\ Made(From(x, s + 1)) \in Nat /\ Made(From(x, s)) \in Nat
      BY <1>9, <2>1
    <3>6. e \in OkSince(x, s) \/ e \in OkSince(x, s + 1) => e.ok
      BY DEF OkSince, OkBetween
    <3>7. Made(OkSince(x, s))' <= IpLimit
      <4>1. Made(OkSince(x, s))' =
                Made(OkSince(x, s)) + (IF e \in OkSince(x, s) THEN 1 ELSE 0)
        BY <1>9, <2>1
      <4> QED
        BY <1>5, <3>1, <3>2, <3>3, <3>5, <3>6, <4>1
    <3>8. Made(OkSince(x, s + 1))' < IpLimit
      <4>1. Made(OkSince(x, s + 1))' =
                Made(OkSince(x, s + 1)) + (IF e \in OkSince(x, s + 1) THEN 1 ELSE 0)
        BY <1>9, <2>1
      <4> QED
        BY <1>5, <3>1, <3>2, <3>4, <3>5, <3>6, <4>1
    <3>9. Made(From(x, s + 1))' < n + 1
      <4>1. Made(From(x, s + 1))' =
                Made(From(x, s + 1)) + (IF e \in From(x, s + 1) THEN 1 ELSE 0)
        BY <1>9, <2>1
      <4> QED
        BY <1>5, <3>2, <3>5, <4>1
    <3> QED
      BY <3>7, <3>8, <3>9
  <2> QED
    BY <1>5, <1>6, <2>2, <2>3, <2>4 DEF Tells
<1>11. Apart(x, s)'
  <2>1. \A h \in Counted' : h.name = x /\ h.at < s => h \in Counted
    BY <1>4, <1>8 DEF Adds
  <2>2. ASSUME x \in IpNames, NEW u \in 0..s, s < u + Minute
        PROVE  Made(OkBetween(x, u, s))' < IpLimit
    <3>1. Made(OkBetween(x, u, s)) < IpLimit
      BY <1>5, <2>2 DEF Apart
    <3>2. e \notin OkBetween(x, u, s) /\ OkBetween(x, u, s) \in SUBSET Named(x)
      BY <1>4, <1>8, SetsOfNames DEF OkBetween
    <3>3. Made(OkBetween(x, u, s)) \in Nat
      BY <1>3, MadeType
    <3>4. Made(OkBetween(x, u, s))' = Made(OkBetween(x, u, s)) + 0
      BY <1>9, <3>2
    <3> QED
      BY <3>1, <3>3, <3>4
  <2> QED
    BY <1>5, <2>1, <2>2 DEF Apart
<1>12. Timed(x, s)'
  BY <1>1, <1>3, <1>5, <1>6, <1>8 DEF Timed, Quiet
<1> QED
  BY <1>4, <1>10, <1>11, <1>12 DEF Life

\* A counter that counts a request without an answer may be above what it tells.
LEMMA LifeMisses ==
    ASSUME IInv, HitInv', NEW g, NEW q, NEW r, Misses(g, q, r), NEW x, x = q.name,
           NEW s \in 0..now,
           IF x \in DOMAIN counter THEN Life(x, s) ELSE s = now
    PROVE  x \in Names /\ Life(x, s)'
<1>1. PICK t \in 0..MaxTime : t = now
  BY DEF IInv, ProcessTypeOK
<1>2. /\ HitInv /\ Fits(q) /\ q.at = "incr" /\ now' = t /\ late' = late \cup {x}
      /\ Counted' = Counted /\ Same(x) /\ Quiet(x)
  BY <1>1, SkipsSame DEF IInv, Misses
<1>3. /\ x \in Names /\ t \in Nat /\ s \in Nat /\ s <= t /\ now \in Nat
      /\ x \in RateNames => x[3] <= t \div Minute
  BY <1>1, <1>2, Units DEF Fits
<1>4. /\ DOMAIN counter' = DOMAIN counter \cup {x}
      /\ x \in DOMAIN counter => counter[x].n \in Nat \ {0}
      /\ counter'[x] = [n |-> CountOf(x) + 1,
                        exp |-> IF CountOf(x) = 0 THEN Forever ELSE counter[x].exp]
  <2>1. x \in DOMAIN counter => counter[x].n \in Nat
    BY DEF IInv, LifeInv
  <2>2. x \in DOMAIN counter => counter[x].n >= 1
    BY DEF IInv, CountInv
  <2> QED
    BY <2>1, <2>2 DEF Misses, Incr, With
<1>5. Shrinks(x)
  BY <1>2, <1>3, SameShrinks
<1>6. CASE x \in DOMAIN counter
  <2>1. Tells(x, s) /\ Timed(x, s) /\ Apart(x, s)
    BY <1>6 DEF Life
  <2>2. PICK n \in Nat : n = counter[x].n /\ n # 0
    BY <1>4, <1>6
  <2>3. counter'[x].n = n + 1 /\ counter'[x].exp = counter[x].exp
    BY <1>4, <1>6, <2>2 DEF CountOf
  <2>4. Tells(x, s)'
    BY <1>2, <1>3, <1>5, <2>1, <2>2, <2>3, TellsOn
  <2>5. Apart(x, s)'
    BY <1>2, <1>3, <1>5, <2>1, Shrunk
  <2>6. Timed(x, s)'
    BY <1>1, <1>2, <2>1, <2>3 DEF Timed, Quiet
  <2> QED
    BY <1>3, <2>4, <2>5, <2>6 DEF Life
<1>7. CASE x \notin DOMAIN counter
  <2>1. s = t /\ Gone(x)
    BY <1>1, <1>3, <1>7 DEF IInv, LifeInv
  <2>2. counter'[x].n = 1 /\ counter'[x].exp = Forever
    BY <1>4, <1>7 DEF CountOf
  <2>3. PendingOn(x) = {}
    BY <1>7 DEF PendingOn, IInv, GateInv
  <2>4. ASSUME NEW S \in SUBSET Named(x), \A h \in S : h.at >= t
        PROVE  Made(S)' = 0
    <3>1. \A h \in Counted : h \notin S
      <4>1. SUFFICES ASSUME NEW h \in Counted, h \in S PROVE FALSE
        OBVIOUS
      <4>2. h.name = x /\ h.at < now /\ h.at \in Nat
        BY <1>2, <2>1, <4>1 DEF Named, Gone, HitInv, Hit
      <4> QED
        BY <1>1, <1>3, <2>4, <4>1, <4>2
    <3>2. Made(S) = 0
      BY <3>1, MadeNone
    <3> QED
      BY <1>2, <3>2 DEF Same
  <2>5. Tells(x, s)'
    <3>1. /\ From(x, s) \in SUBSET Named(x) /\ From(x, s + 1) \in SUBSET Named(x)
          /\ OkSince(x, s) \in SUBSET Named(x) /\ OkSince(x, s + 1) \in SUBSET Named(x)
          /\ \A k \in Keys : OkFrom(x, k, s) \in SUBSET Named(x)
      BY SetsOfNames
    <3>2. /\ \A h \in From(x, s) : h.at >= t
          /\ \A h \in From(x, s + 1) : h.at >= t
          /\ \A h \in OkSince(x, s) : h.at >= t
          /\ \A h \in OkSince(x, s + 1) : h.at >= t
          /\ \A k \in Keys : \A h \in OkFrom(x, k, s) : h.at >= t
      <4>1. \A h \in Named(x) : h.at \in Nat
        BY DEF Named, Hit
      <4> QED
        BY <1>3, <2>1, <4>1 DEF From, OkSince, OkBetween, OkFrom
    <3>3. /\ Made(From(x, s))' = 0 /\ Made(From(x, s + 1))' = 0
          /\ Made(OkSince(x, s))' = 0 /\ Made(OkSince(x, s + 1))' = 0
          /\ \A k \in Keys : Made(OkFrom(x, k, s))' = 0
      BY <2>4, <3>1, <3>2
    <3>4. ASSUME x \notin IpNames, NEW k \in Keys PROVE 0 <= Limit(x[1], k)
      <4>1. x \in RateNames \/ x \in QuotaNames
        BY <1>3, <3>4, NamesTell
      <4> QED
        BY <4>1, NamesTell, LimitAssumption DEF Limit
    <3> QED
      BY <1>2, <2>2, <3>3, <3>4, Units DEF Tells
  <2>6. Apart(x, s)'
    BY <1>1, <1>3, <1>5, <2>1, Shrunk DEF Gone
  <2>7. Timed(x, s)'
    <3>1. now' < Forever /\ PendingOn(x)' = {}
      BY <1>1, <1>2, <1>3, <2>3, Units DEF Quiet
    <3> QED
      BY <1>2, <1>3, <2>1, <2>2, <3>1 DEF Timed
  <2> QED
    BY <1>3, <2>5, <2>6, <2>7 DEF Life
<1> QED
  BY <1>6, <1>7

\* A counter gets its deadline, or is to have none.
LEMMA LifeTimes ==
    ASSUME IInv, HitInv', NEW g, NEW r, Times(g, r), NEW y, y = gate[g].name,
           NEW s \in 0..now, Life(y, s)
    PROVE  y \in Names /\ Life(y, s)'
<1>1. PICK t \in 0..MaxTime : t = now
  BY DEF IInv, ProcessTypeOK
<1>2. /\ HitInv /\ now' = t /\ now \in Nat /\ s \in Nat /\ t \in Nat /\ s <= t
      /\ g \in Gates /\ Fits(gate[g]) /\ y \in DOMAIN counter /\ Pending(g)
  BY <1>1, Units DEF IInv, Times, Moves, GateInv
<1>3. /\ y \in Names /\ Same(y) /\ PendingOn(y) = {g} /\ PendingOn(y)' = {}
      /\ y[1] = gate[g].stage
  BY <1>2, TimesSame DEF Fits, Pending
<1>4. Shrinks(y)
  BY <1>2, <1>3, SameShrinks
<1>5. Tells(y, s) /\ Timed(y, s) /\ Apart(y, s)
  BY DEF Life
<1>6. gate[g].since = s /\ counter[y].exp = Forever
  BY <1>3, <1>5 DEF Timed
<1>7. counter'[y].n = counter[y].n /\ (y \notin late' => y \notin late)
  <2>1. CASE counter' = counter /\ late' = late \cup {y}
    BY <2>1
  <2>2. CASE /\ counter' = [counter EXCEPT ![y].exp = Deadline(gate[g].stage, now)]
             /\ late' = IF gate[g].since = now THEN late ELSE late \cup {y}
    BY <1>2, <2>2 DEF IInv, LifeInv
  <2> QED
    BY <2>1, <2>2 DEF Times
<1>8. Tells(y, s)'
  <2>1. counter[y].n \in Nat
    BY <1>5 DEF Tells
  <2> QED
    BY <1>2, <1>3, <1>4, <1>5, <1>7, <2>1, TellsOn
<1>9. Apart(y, s)'
  BY <1>2, <1>3, <1>4, <1>5, Shrunk
<1>10. Timed(y, s)'
  <2>1. CASE counter' = counter /\ late' = late \cup {y}
    BY <1>1, <1>2, <1>3, <1>5, <1>6, <2>1 DEF Timed
  <2>2. CASE /\ counter' = [counter EXCEPT ![y].exp = Deadline(gate[g].stage, now)]
             /\ late' = IF gate[g].since = now THEN late ELSE late \cup {y}
    <3>1. PICK d : d = Deadline(gate[g].stage, t)
      OBVIOUS
    <3>2. counter'[y].exp = d
      BY <1>1, <1>2, <2>2, <3>1 DEF IInv, LifeInv
    <3>3. /\ d \in (t + 1)..(t + Day)
          /\ y \in QuotaNames => d % Day = 0
          /\ y \notin QuotaNames => d = t + Minute
      <4>1. CASE y \in QuotaNames
        <5>1. d = (t \div Day + 1) * Day
          BY <1>3, <3>1, <4>1, NamesTell DEF Deadline
        <5>2. PICK m \in Nat : m = t \div Day /\ m * Day <= t /\ t < (m + 1) * Day
          BY <1>2, Units, Quotients
        <5>3. (m + 1) * Day = m * Day + Day
          BY Units
        <5>4. PICK k \in Nat : k = m + 1
          OBVIOUS
        <5>5. (k * Day) % Day = 0
          BY Units
        <5> QED
          BY <1>2, <4>1, <5>1, <5>2, <5>3, <5>4, <5>5, Units
      <4>2. CASE y \notin QuotaNames
        <5>1. y[1] # "quota"
          BY <1>3, <4>2, NamesTell
        <5>2. d = t + Minute
          BY <1>3, <3>1, <5>1 DEF Deadline
        <5> QED
          BY <1>2, <4>2, <5>2, Units
      <4> QED
        BY <4>1, <4>2
    <3>4. ASSUME y \notin late' PROVE s = t
      BY <1>1, <1>6, <2>2, <3>4
    <3>5. t < d
      BY <1>2, <3>3, Units
    <3>6. y \notin QuotaNames => d >= s + Minute
      BY <1>2, <3>3, Units
    <3>7. y \in IpNames => y \notin QuotaNames
      BY NamesTell
    <3> QED
      BY <1>2, <1>3, <1>5, <3>2, <3>3, <3>4, <3>5, <3>6, <3>7 DEF Timed
  <2> QED
    BY <2>1, <2>2 DEF Times
<1> QED
  BY <1>3, <1>8, <1>9, <1>10 DEF Life

\* A crash leaves the counters as they are, some of them without a deadline.
LEMMA LifeCrashes ==
    ASSUME IInv, HitInv', Crash, NEW x \in Names, NEW s \in 0..now, Life(x, s)
    PROVE  Life(x, s)'
<1>1. /\ HitInv /\ now' = now /\ now \in Nat /\ s \in Nat /\ counter' = counter
      /\ late' = late \cup {gate[g].name : g \in {h \in Gates : gate[h].at = "expire"}}
  BY Units DEF IInv, ProcessTypeOK, Crash
<1>2. /\ Counted' \subseteq Counted /\ PendingOn(x)' = {}
      /\ \A S : Made(S)' <= Made(S) /\ Made(S)' \in Nat
      /\ PendingOn(x) = {} => Same(x)
  BY CrashShrinks
<1>3. Shrinks(x)
  <2>1. \A S : Made(S) \in Nat
    BY <1>1, MadeType
  <2> QED
    BY <1>2, <2>1 DEF Shrinks
<1>4. x \in late' <=> x \in late \/ PendingOn(x) # {}
  BY <1>1 DEF PendingOn, Pending
<1>5. Tells(x, s)'
  <2>1. counter[x].n \in Nat /\ Tells(x, s) /\ counter'[x].n = counter[x].n
    BY <1>1 DEF Life, Tells
  <2> QED
    BY <1>1, <1>2, <1>3, <1>4, <2>1, TellsOn
<1>6. Apart(x, s)'
  BY <1>1, <1>3, Shrunk DEF Life
<1>7. Timed(x, s)'
  BY <1>1, <1>2, <1>4 DEF Life, Timed
<1> QED
  BY <1>5, <1>6, <1>7 DEF Life

\* Time passes: a counter goes on or comes to its end, apart from the next.
LEMMA LifeWaits ==
    ASSUME IInv, HitInv', Wait, NEW x \in DOMAIN counter, NEW s \in 0..now, Life(x, s)
    PROVE  /\ x \in DOMAIN counter' => counter'[x] = counter[x] /\ Life(x, s)'
           /\ x \notin DOMAIN counter' => Gone(x)'
<1>1. PICK t \in 0..MaxTime : t = now
  BY DEF IInv, ProcessTypeOK
<1>2. /\ HitInv /\ now' = t + 1 /\ t < MaxTime /\ s \in Nat /\ t \in Nat /\ s <= t /\ late' = late
      /\ counter' = Restrict(counter, {y \in DOMAIN counter : t + 1 < counter[y].exp})
      /\ x \in Names
  BY <1>1, Units DEF IInv, Wait, Tick, LifeInv
<1>3. Counted' = Counted /\ Same(x) /\ Quiet(x)
  BY WaitSame
<1>4. Shrinks(x)
  BY <1>2, <1>3, SameShrinks
<1>5. Tells(x, s) /\ Timed(x, s) /\ Apart(x, s)
  BY DEF Life
<1>6. \A h \in Counted : h.at \in Nat /\ h.at <= t
  BY <1>1, <1>2 DEF HitInv, Hit
<1>7. x \in DOMAIN counter' <=> t + 1 < counter[x].exp
  BY <1>2 DEF Restrict
<1>8. ASSUME x \in DOMAIN counter' PROVE counter'[x] = counter[x] /\ Life(x, s)'
  <2>1. counter'[x] = counter[x]
    BY <1>2, <1>8 DEF Restrict
  <2>2. Tells(x, s)'
    <3>1. counter[x].n \in Nat /\ counter'[x].n = counter[x].n
      BY <1>5, <2>1 DEF Tells
    <3> QED
      BY <1>2, <1>3, <1>4, <1>5, <3>1, TellsOn
  <2>3. Apart(x, s)'
    BY <1>1, <1>2, <1>4, <1>5, Shrunk
  <2>4. Timed(x, s)'
    <3>1. counter[x].exp \in (t + 1)..(t + Day) => counter[x].exp \in (t + 1 + 1)..(t + 1 + Day)
      BY <1>2, <1>7, <1>8, Units
    <3> QED
      BY <1>1, <1>2, <1>3, <1>5, <1>7, <1>8, <2>1, <3>1 DEF Timed, Quiet
  <2> QED
    BY <2>1, <2>2, <2>3, <2>4 DEF Life
<1>9. ASSUME x \notin DOMAIN counter' PROVE Gone(x)'
  <2>1. /\ counter[x].exp = t + 1
        /\ x \in QuotaNames => (t + 1) % Day = 0
        /\ x \notin QuotaNames => t + 1 >= s + Minute
        /\ x \in RateNames => x[3] <= s \div Minute
    <3>1. counter[x].exp # Forever
      BY <1>2, <1>7, <1>9, Units
    <3>2. counter[x].exp \in (t + 1)..(t + Day)
      BY <1>1, <1>5, <3>1 DEF Timed
    <3>3. counter[x].exp = t + 1
      BY <1>2, <1>7, <1>9, <3>2, Units
    <3> QED
      BY <1>5, <3>1, <3>3 DEF Timed
  <2>2. ASSUME x \in RateNames, NEW h \in Counted PROVE x[3] < (t + 1) \div Minute
    <3>1. x \notin QuotaNames /\ x[3] \in Nat
      BY <2>2, NamesTell
    <3>2. s \div Minute < (t + 1) \div Minute
      BY <1>2, <2>1, <3>1, Units, Quotients
    <3>3. PICK a \in Nat : a = s \div Minute
      BY <1>2, Units, Quotients
    <3>4. PICK b \in Nat : b = (t + 1) \div Minute
      BY <1>2, Units, Quotients
    <3> QED
      BY <2>1, <2>2, <3>1, <3>2, <3>3, <3>4
  <2>3. ASSUME x \in QuotaNames, NEW h \in Counted PROVE h.at \div Day < (t + 1) \div Day
    BY <1>2, <1>6, <2>1, <2>3, Units, Quotients
  <2>4. ASSUME x \in IpNames, NEW u \in 0..(t + 1), t + 1 < u + Minute
        PROVE  Made(OkBetween(x, u, t + 1))' < IpLimit
    <3>1. x \notin QuotaNames
      BY <2>4, NamesTell
    <3>2. u >= s + 1
      BY <1>2, <2>1, <2>4, <3>1, Units
    <3>3. \A h \in Counted : h \in OkBetween(x, u, t + 1) => h \in OkSince(x, s + 1)
      BY <1>2, <3>2, Units DEF OkBetween, OkSince, Named, Hit
    <3>4. Made(OkBetween(x, u, t + 1)) <= Made(OkSince(x, s + 1))
      BY <1>2, <3>3, MadeMono
    <3>5. Made(OkSince(x, s + 1)) < IpLimit
      BY <1>5, <2>4 DEF Tells
    <3>6. Made(OkBetween(x, u, t + 1))' = Made(OkBetween(x, u, t + 1))
      BY <1>3, SetsOfNames DEF Same
    <3>7. Made(OkBetween(x, u, t + 1)) \in Nat /\ Made(OkSince(x, s + 1)) \in Nat
      BY <1>2, MadeType
    <3> QED
      BY <3>4, <3>5, <3>6, <3>7, Units
  <2>5. Apart(x, t + 1)'
    BY <1>3, <2>2, <2>3, <2>4 DEF Apart
  <2>6. PICK v : v = t + 1
    OBVIOUS
  <2>7. Apart(x, v)' /\ now' = v
    BY <1>2, <2>5, <2>6
  <2>8. Apart(x, now)'
    BY <2>7
  <2>9. \A h \in Counted' : h.name = x => h.at < now'
    BY <1>2, <1>3, <1>6
  <2> QED
    BY <2>8, <2>9 DEF Gone
<1> QED
  BY <1>8, <1>9

\* And a counter that may begin now may begin later.
LEMMA GoneWaits ==
    ASSUME IInv, HitInv', Wait, NEW x \in Names, Gone(x)
    PROVE  Gone(x)'
<1>1. PICK t \in 0..MaxTime : t = now
  BY DEF IInv, ProcessTypeOK
<1>2. HitInv /\ now' = t + 1 /\ t \in Nat /\ t < MaxTime
  BY <1>1, Units DEF IInv, Wait, Tick
<1>3. Counted' = Counted /\ Same(x)
  BY WaitSame
<1>4. \A h \in Counted : h.name = x => h.at \in Nat /\ h.at < t
  BY <1>1, <1>2 DEF HitInv, Hit, Gone
<1>5. Apart(x, t)
  BY <1>1 DEF Gone
<1>6. ASSUME x \in RateNames, NEW h \in Counted, h.name = x, h.at \div Minute = x[3]
      PROVE  x[3] < (t + 1) \div Minute
  <2>1. x[3] < t \div Minute
    BY <1>4, <1>5, <1>6 DEF Apart
  <2>2. x[3] \in Nat /\ t \div Minute <= (t + 1) \div Minute
    BY <1>2, <1>6, NamesTell, Units, Quotients
  <2>3. PICK a \in Nat : a = t \div Minute
    BY <1>2, Units, Quotients
  <2>4. PICK b \in Nat : b = (t + 1) \div Minute
    BY <1>2, Units, Quotients
  <2> QED
    BY <2>1, <2>2, <2>3, <2>4
<1>7. ASSUME x \in QuotaNames, NEW h \in Counted, h.name = x
      PROVE  h.at \div Day < (t + 1) \div Day
  <2>1. h.at \div Day < t \div Day
    BY <1>4, <1>5, <1>7 DEF Apart
  <2>2. t \div Day <= (t + 1) \div Day
    BY <1>2, Units, Quotients
  <2>3. PICK a \in Nat : a = t \div Day
    BY <1>2, Units, Quotients
  <2>4. PICK b \in Nat : b = (t + 1) \div Day
    BY <1>2, Units, Quotients
  <2>5. PICK c \in Nat : c = h.at \div Day
    BY <1>4, <1>7, Units, Quotients
  <2> QED
    BY <2>1, <2>2, <2>3, <2>4, <2>5
<1>8. ASSUME x \in IpNames, NEW u \in 0..(t + 1), t + 1 < u + Minute
      PROVE  Made(OkBetween(x, u, t + 1))' < IpLimit
  <2>1. Made(OkBetween(x, u, t + 1))' = Made(OkBetween(x, u, t + 1))
    BY <1>3, SetsOfNames DEF Same
  <2>2. CASE u = t + 1
    <3>1. \A h \in Counted : h \notin OkBetween(x, u, t + 1)
      BY <1>2, <1>4, <2>2 DEF OkBetween, Named
    <3>2. Made(OkBetween(x, u, t + 1)) = 0
      BY <3>1, MadeNone
    <3> QED
      BY <2>1, <3>2, Units
  <2>3. CASE u \in 0..t
    <3>1. t < u + Minute
      BY <1>2, <1>8, <2>3, Units
    <3>2. Made(OkBetween(x, u, t)) < IpLimit
      BY <1>5, <1>8, <2>3, <3>1 DEF Apart
    <3>3. \A h \in Counted : h \in OkBetween(x, u, t + 1) => h \in OkBetween(x, u, t)
      BY <1>4 DEF OkBetween, Named
    <3>4. Made(OkBetween(x, u, t + 1)) <= Made(OkBetween(x, u, t))
      BY <1>2, <3>3, MadeMono
    <3>5. Made(OkBetween(x, u, t + 1)) \in Nat /\ Made(OkBetween(x, u, t)) \in Nat
      BY <1>2, MadeType
    <3> QED
      BY <2>1, <3>2, <3>4, <3>5, Units
  <2> QED
    BY <1>2, <1>8, <2>2, <2>3
<1>9. Apart(x, t + 1)'
  BY <1>3, <1>6, <1>7, <1>8 DEF Apart
<1>10. PICK v : v = t + 1
  OBVIOUS
<1>11. Apart(x, v)' /\ now' = v
  BY <1>2, <1>9, <1>10
<1>12. Apart(x, now)'
  BY <1>11
<1>13. \A h \in Counted' : h.name = x => h.at < now'
  BY <1>2, <1>3, <1>4
<1> QED
  BY <1>12, <1>13 DEF Gone

\* x has a life, or none.
Lives(x) == IF x \in DOMAIN counter THEN \E s \in 0..now : Life(x, s) ELSE Gone(x)

\* A request counted of one name is none of another.
LEMMA AddsSame ==
    ASSUME NEW e, Adds(e), NEW x \in Names, e.name # x, HitInv
    PROVE  Same(x)
<1>1. e \notin Named(x)
  BY DEF Named
<1>2. ASSUME NEW S \in SUBSET Named(x) PROVE Made(S)' = Made(S)
  <2>1. Made(S)' = Made(S) + 0
    BY <1>1 DEF Adds
  <2>2. Made(S) \in Nat
    BY MadeType
  <2> QED
    BY <2>1, <2>2
<1> QED
  BY <1>1, <1>2 DEF Adds, Same

\* The name that a step leaves alone lives on.
LEMMA LivesOn ==
    ASSUME IInv, HitInv', NEW x \in Names, Same(x), Quiet(x), now' = now,
           x \in late' <=> x \in late, x \in DOMAIN counter' <=> x \in DOMAIN counter,
           x \in DOMAIN counter => counter'[x] = counter[x]
    PROVE  Lives(x)'
<1>1. HitInv /\ now \in Nat /\ \A s \in 0..now : s \in Nat
  BY Units DEF IInv, ProcessTypeOK
<1>2. CASE x \in DOMAIN counter
  <2>1. PICK s \in 0..now : Life(x, s)
    BY <1>2 DEF IInv, LifeInv
  <2>2. Life(x, s)'
    BY <1>1, <1>2, <2>1, LifeOn
  <2> QED
    BY <1>2, <2>2 DEF Lives
<1>3. CASE x \notin DOMAIN counter
  <2>1. Gone(x)
    BY <1>3 DEF IInv, LifeInv
  <2>2. Shrinks(x)
    BY <1>1, SameShrinks
  <2>3. Gone(x)'
    BY <1>1, <2>1, <2>2, Shrunk
  <2> QED
    BY <1>3, <2>3 DEF Lives
<1> QED
  BY <1>2, <1>3

\* Every counter has begun at some time, and tells what was counted since.
LEMMA LifeStep ==
    ASSUME IInv, Next
    PROVE  LifeInv'
<1>1. /\ HitInv /\ HitInv' /\ LifeInv /\ now \in Nat /\ now \in 0..MaxTime
      /\ now <= now' /\ now' \in Nat
  BY ProcessStep, HitStep DEF IInv
<1>2. DOMAIN counter \subseteq Names /\ counter \in [DOMAIN counter -> [n : Nat, exp : Nat]]
  BY <1>1 DEF LifeInv
<1>3. PICK t \in 0..MaxTime : t = now
  BY <1>1
<1>4. t \in 0..now /\ \A s \in 0..now : s \in 0..now'
  BY <1>1, <1>3
<1> DEFINE Kept == DOMAIN counter' \subseteq Names
                   /\ counter' \in [DOMAIN counter' -> [n : Nat, exp : Nat]]
<1>5. ASSUME Kept, \A x \in Names : Lives(x)' PROVE LifeInv'
  BY <1>5 DEF LifeInv, Lives
<1>6. ASSUME NEW g, NEW r, Skips(g, r) PROVE LifeInv'
  <2>1. counter' = counter /\ now' = now /\ late' = late /\ \A x : Same(x) /\ Quiet(x)
    BY <1>6, SkipsSame DEF Skips
  <2>2. \A x \in Names : Lives(x)'
    BY <1>1, <2>1, LivesOn
  <2> QED
    BY <1>2, <1>5, <2>1, <2>2
<1>7. ASSUME NEW g, NEW r, Starts(g, r) PROVE LifeInv'
  <2>1. PICK e : e = HitOf(r, 1, now)
    OBVIOUS
  <2>2. Adds(e) /\ e.name = r.name /\ \A x : x # r.name => Quiet(x)
    BY <1>7, <2>1, StartsAdds DEF HitOf
  <2>3. PICK v : v = [n |-> 1, exp |-> Forever]
    OBVIOUS
  <2>4. counter' = With(counter, r.name, v) /\ now' = now /\ late' = late
    BY <1>7, <2>3 DEF Starts
  <2>5. r.name \in Names /\ Life(r.name, t)'
    BY <1>1, <1>3, <1>7, LifeStarts
  <2>6. v \in [n : Nat, exp : Nat]
    BY <2>3, Units
  <2>7. Kept
    BY <1>2, <2>4, <2>5, <2>6 DEF With
  <2>8. ASSUME NEW x \in Names PROVE Lives(x)'
    <3>1. CASE x = r.name
      <4>1. x \in DOMAIN counter'
        BY <2>4, <3>1 DEF With
      <4> QED
        BY <1>4, <2>5, <3>1, <4>1 DEF Lives
    <3>2. CASE x # r.name
      <4>1. Same(x)
        BY <1>1, <2>2, <3>2, AddsSame
      <4>2. /\ x \in DOMAIN counter' <=> x \in DOMAIN counter
            /\ x \in DOMAIN counter => counter'[x] = counter[x]
        BY <1>2, <2>4, <3>2 DEF With
      <4> QED
        BY <1>1, <2>2, <2>4, <3>2, <4>1, <4>2, LivesOn
    <3> QED
      BY <3>1, <3>2
  <2> QED
    BY <1>5, <2>7, <2>8
<1>8. ASSUME NEW g, NEW q, NEW r, Follow(g, q, r) PROVE LifeInv'
  <2>1. PICK e : e = HitOf(q, counter[q.name].n + 1, now)
    OBVIOUS
  <2>2. Adds(e) /\ e.name = q.name /\ \A x : Quiet(x)
    BY <1>8, <2>1, FollowAdds DEF HitOf
  <2>3. PICK v : v = [n |-> counter[q.name].n + 1, exp |-> counter[q.name].exp]
    OBVIOUS
  <2>4. /\ counter' = With(counter, q.name, v) /\ now' = now /\ late' = late
        /\ q.name \in DOMAIN counter
    BY <1>8, <2>3 DEF Follow
  <2>5. PICK s \in 0..now : Life(q.name, s)
    BY <1>1, <2>4 DEF LifeInv
  <2>6. q.name \in Names /\ Life(q.name, s)'
    BY <1>1, <1>8, <2>5, LifeFollows
  <2>7. v \in [n : Nat, exp : Nat]
    <3>1. counter[q.name] \in [n : Nat, exp : Nat]
      BY <1>2, <2>4
    <3> QED
      BY <2>3, <3>1
  <2>8. Kept
    BY <1>2, <2>4, <2>6, <2>7 DEF With
  <2>9. ASSUME NEW x \in Names PROVE Lives(x)'
    <3>1. CASE x = q.name
      <4>1. x \in DOMAIN counter'
        BY <2>4, <3>1 DEF With
      <4> QED
        BY <1>4, <2>6, <3>1, <4>1 DEF Lives
    <3>2. CASE x # q.name
      <4>1. Same(x)
        BY <1>1, <2>2, <3>2, AddsSame
      <4>2. /\ x \in DOMAIN counter' <=> x \in DOMAIN counter
            /\ x \in DOMAIN counter => counter'[x] = counter[x]
        BY <1>2, <2>4, <3>2 DEF With
      <4> QED
        BY <1>1, <2>2, <2>4, <3>2, <4>1, <4>2, LivesOn
    <3> QED
      BY <3>1, <3>2
  <2> QED
    BY <1>5, <2>8, <2>9
<1>12. ASSUME NEW g, NEW q, NEW r, Misses(g, q, r) PROVE LifeInv'
  <2>1. \A x : Same(x) /\ Quiet(x)
    BY <1>12, SkipsSame
  <2>2. PICK v : v = [n |-> CountOf(q.name) + 1,
                      exp |-> IF CountOf(q.name) = 0 THEN Forever ELSE counter[q.name].exp]
    OBVIOUS
  <2>3. counter' = With(counter, q.name, v) /\ now' = now /\ late' = late \cup {q.name}
    BY <1>12, <2>2 DEF Misses, Incr
  <2>4. PICK s \in 0..now : IF q.name \in DOMAIN counter THEN Life(q.name, s) ELSE s = now
    BY <1>1, <1>3, <1>4 DEF LifeInv
  <2>5. q.name \in Names /\ Life(q.name, s)'
    BY <1>1, <1>12, <2>4, LifeMisses
  <2>6. v \in [n : Nat, exp : Nat]
    <3>1. q.name \in DOMAIN counter => counter[q.name] \in [n : Nat, exp : Nat]
      BY <1>2
    <3>2. Forever \in Nat
      BY Units
    <3> QED
      BY <2>2, <3>1, <3>2 DEF CountOf
  <2>7. Kept
    BY <1>2, <2>3, <2>5, <2>6 DEF With
  <2>8. ASSUME NEW x \in Names PROVE Lives(x)'
    <3>1. CASE x = q.name
      <4>1. x \in DOMAIN counter'
        BY <2>3, <3>1 DEF With
      <4> QED
        BY <1>4, <2>5, <3>1, <4>1 DEF Lives
    <3>2. CASE x # q.name
      <4>1. /\ x \in DOMAIN counter' <=> x \in DOMAIN counter
            /\ x \in DOMAIN counter => counter'[x] = counter[x]
        BY <1>2, <2>3, <3>2 DEF With
      <4>2. x \in late' <=> x \in late
        BY <2>3, <3>2
      <4> QED
        BY <1>1, <2>1, <2>3, <3>2, <4>1, <4>2, LivesOn
    <3> QED
      BY <3>1, <3>2
  <2> QED
    BY <1>5, <2>7, <2>8
<1>9. ASSUME NEW g, NEW r, Times(g, r) PROVE LifeInv'
  <2>1. PICK y : y = gate[g].name
    OBVIOUS
  <2>2. /\ \A x : Same(x)
        /\ y \in Names /\ PendingOn(y) = {g} /\ \A x : x # y => Quiet(x)
    BY <1>9, <2>1, TimesSame
  <2>3. y \in DOMAIN counter /\ now' = now
    BY <1>9, <2>1 DEF IInv, GateInv, Times, Moves
  <2>4. PICK d : d = Deadline(gate[g].stage, now)
    OBVIOUS
  <2>5. /\ counter' = counter \/ counter' = [counter EXCEPT ![y].exp = d]
        /\ \A x : x # y => (x \in late' <=> x \in late)
    BY <1>9, <2>1, <2>4 DEF Times
  <2>6. PICK s \in 0..now : Life(y, s)
    BY <1>1, <2>3 DEF LifeInv
  <2>7. Life(y, s)'
    BY <1>1, <1>9, <2>1, <2>6, LifeTimes
  <2>8. d \in Nat
    <3>1. now + Minute \in Nat
      BY <1>1, Units
    <3>2. PICK m \in Nat : m = now \div Day
      BY <1>1, Units, Quotients
    <3>3. (m + 1) * Day \in Nat
      BY Units
    <3> QED
      BY <2>4, <3>1, <3>2, <3>3 DEF Deadline
  <2>9. Kept
    BY <1>2, <2>5, <2>8
  <2>10. ASSUME NEW x \in Names PROVE Lives(x)'
    <3>1. CASE x = y
      <4>1. x \in DOMAIN counter'
        BY <2>3, <2>5, <3>1
      <4> QED
        BY <1>4, <2>7, <3>1, <4>1 DEF Lives
    <3>2. CASE x # y
      <4>1. /\ x \in DOMAIN counter' <=> x \in DOMAIN counter
            /\ x \in DOMAIN counter => counter'[x] = counter[x]
        BY <2>5, <3>2
      <4> QED
        BY <1>1, <2>2, <2>3, <2>5, <3>2, <4>1, LivesOn
    <3> QED
      BY <3>1, <3>2
  <2> QED
    BY <1>5, <2>9, <2>10
<1>10. ASSUME Crash PROVE LifeInv'
  <2>1. counter' = counter /\ now' = now
    BY <1>10 DEF Crash
  <2>2. ASSUME NEW x \in Names PROVE Lives(x)'
    <3>1. CASE x \in DOMAIN counter
      <4>1. PICK s \in 0..now : Life(x, s)
        BY <1>1, <3>1 DEF LifeInv
      <4>2. Life(x, s)'
        BY <1>1, <1>10, <4>1, LifeCrashes
      <4> QED
        BY <2>1, <3>1, <4>2 DEF Lives
    <3>2. CASE x \notin DOMAIN counter
      <4>1. Gone(x)
        BY <1>1, <3>2 DEF LifeInv
      <4>2. \A S : Made(S) \in Nat
        BY <1>1, MadeType
      <4>3. Shrinks(x)
        BY <1>10, <4>2, CrashShrinks DEF Shrinks
      <4>4. Gone(x)'
        BY <1>1, <2>1, <4>1, <4>3, Shrunk
      <4> QED
        BY <2>1, <3>2, <4>4 DEF Lives
    <3> QED
      BY <3>1, <3>2
  <2> QED
    BY <1>2, <1>5, <2>1, <2>2
<1>11. ASSUME Wait PROVE LifeInv'
  <2>1. counter' = Restrict(counter, {x \in DOMAIN counter : now + 1 < counter[x].exp})
    BY <1>11 DEF Wait
  <2>2. DOMAIN counter' \subseteq DOMAIN counter /\ Kept
    BY <1>2, <2>1 DEF Restrict
  <2>3. ASSUME NEW x \in Names PROVE Lives(x)'
    <3>1. CASE x \in DOMAIN counter
      <4>1. PICK s \in 0..now : Life(x, s)
        BY <1>1, <3>1 DEF LifeInv
      <4>2. /\ x \in DOMAIN counter' => Life(x, s)'
            /\ x \notin DOMAIN counter' => Gone(x)'
        BY <1>1, <1>11, <3>1, <4>1, LifeWaits
      <4> QED
        BY <1>4, <4>2 DEF Lives
    <3>2. CASE x \notin DOMAIN counter
      <4>1. Gone(x)
        BY <1>1, <3>2 DEF LifeInv
      <4>2. Gone(x)'
        BY <1>1, <1>11, <4>1, GoneWaits
      <4> QED
        BY <2>2, <3>2, <4>2 DEF Lives
    <3> QED
      BY <3>1, <3>2
  <2> QED
    BY <1>5, <2>2, <2>3
<1> QED
  BY <1>6, <1>7, <1>8, <1>9, <1>10, <1>11, <1>12, Steps

\* One request more is within the bounds, if the counter that began at s tells so.
LEMMA BoundAdds ==
    ASSUME HitInv, NEW e \in Hit, Adds(e), NEW x \in Names, e.name = x, now \in Nat, e.at = now,
           NEW s \in 0..now, Life(x, s)', BoundOK(x)
    PROVE  BoundOK(x)'
<1>1. Tells(x, s)' /\ Timed(x, s)' /\ Apart(x, s)'
  BY DEF Life
<1>2. PICK t \in Nat : t = now
  OBVIOUS
<1>3. e.at = t /\ e.at \in 0..MaxTime /\ s \in Nat /\ s <= t
  BY <1>2 DEF Hit
<1>4. ASSUME NEW S \in SUBSET Named(x)
      PROVE  /\ Made(S) \in Nat /\ (e \in S => Made(S)' = Made(S) + 1)
             /\ e \notin S => Made(S)' = Made(S)
  BY MadeType DEF Adds
<1>5. \A h \in Counted : h.at \in Nat /\ h \in Counted' /\ h \in Hit
  BY DEF HitInv, Hit, Adds
<1>6. ASSUME NEW k \in Keys, x \notin IpNames, NEW S \in SUBSET Named(x), e \in S,
             e.ok, e.key = k, \A h \in Counted : h \in S => h \in OkFrom(x, k, s)
      PROVE  Made(S)' <= Limit(x[1], k)
  <2>1. Made(S) <= Made(OkFrom(x, k, s))
    BY <1>6, MadeMono
  <2>2. e \in OkFrom(x, k, s) /\ OkFrom(x, k, s) \in SUBSET Named(x)
    BY <1>3, <1>6, SetsOfNames DEF OkFrom, Named
  <2>3. Made(OkFrom(x, k, s))' <= Limit(x[1], k)
    BY <1>1, <1>6 DEF Tells
  <2>4. Limit(x[1], k) \in Nat
    BY <1>6, NamesTell, LimitAssumption DEF Limit
  <2>5. Made(OkFrom(x, k, s))' = Made(OkFrom(x, k, s)) + 1 /\ Made(OkFrom(x, k, s)) \in Nat
    BY <1>4, <2>2
  <2>6. Made(S)' = Made(S) + 1 /\ Made(S) \in Nat
    BY <1>4, <1>6
  <2> QED
    BY <2>1, <2>3, <2>4, <2>5, <2>6
<1>7. ASSUME x \in RateNames, NEW k \in Keys PROVE Made(OkInMinute(x, k))' <= RatePerMin[k]
  <2>1. OkInMinute(x, k) \in SUBSET Named(x) /\ x \notin IpNames /\ x[1] = "rate" /\ x[3] \in Nat
    <3>1. x \notin IpNames /\ x[1] = "rate" /\ x[3] \in Nat
      BY <1>7, NamesTell
    <3> QED
      BY <3>1, SetsOfNames
  <2>2. Limit(x[1], k) = RatePerMin[k]
    BY <2>1 DEF Limit
  <2>3. CASE e \in OkInMinute(x, k)
    <3>1. e.ok /\ e.key = k /\ t \div Minute = x[3]
      BY <1>3, <2>3 DEF OkInMinute
    <3>2. x[3] <= s \div Minute /\ s \div Minute <= t \div Minute
      BY <1>1, <1>3, <1>7, Units, Quotients DEF Timed
    <3>3. PICK a \in Nat : a = s \div Minute
      BY <1>3, Units, Quotients
    <3>4. a = x[3]
      BY <2>1, <3>1, <3>2, <3>3
    <3>5. ASSUME NEW h \in Counted, h \in OkInMinute(x, k) PROVE h \in OkFrom(x, k, s)
      <4>1. h.name = x /\ h.at \div Minute = x[3]
        BY <3>5 DEF OkInMinute, Named
      <4>2. ~(h.at < s)
        BY <1>1, <1>5, <1>7, <2>1, <3>3, <3>4, <4>1 DEF Apart
      <4> QED
        BY <1>3, <1>5, <3>5, <4>2 DEF OkInMinute, OkFrom
    <3> QED
      BY <1>6, <2>1, <2>2, <2>3, <3>1, <3>5
  <2>4. CASE e \notin OkInMinute(x, k)
    BY <1>4, <1>7, <2>1, <2>4 DEF BoundOK
  <2> QED
    BY <2>3, <2>4
<1>8. ASSUME x \in QuotaNames, NEW k \in Keys, NEW d \in 0..MaxTime
      PROVE  Made(OkInDay(x, k, d))' <= QuotaDaily[k]
  <2>1. OkInDay(x, k, d) \in SUBSET Named(x) /\ x \notin IpNames /\ x[1] = "quota"
    <3>1. x \notin IpNames /\ x[1] = "quota"
      BY <1>8, NamesTell
    <3> QED
      BY <3>1, SetsOfNames
  <2>2. Limit(x[1], k) = QuotaDaily[k]
    BY <2>1 DEF Limit
  <2>3. CASE e \in OkInDay(x, k, d)
    <3>1. e.ok /\ e.key = k /\ t \div Day = d
      BY <1>3, <2>3 DEF OkInDay
    <3>2. s \div Day <= t \div Day
      BY <1>3, Units, Quotients
    <3>3. PICK a \in Nat : a = s \div Day
      BY <1>3, Units, Quotients
    <3>4. ASSUME NEW h \in Counted, h \in OkInDay(x, k, d) PROVE h \in OkFrom(x, k, s)
      <4>1. h.name = x /\ h.at \div Day = d
        BY <3>4 DEF OkInDay, Named
      <4>2. ~(h.at < s)
        BY <1>1, <1>5, <1>8, <3>1, <3>2, <3>3, <4>1 DEF Apart
      <4> QED
        BY <1>3, <1>5, <3>4, <4>2 DEF OkInDay, OkFrom
    <3> QED
      BY <1>6, <2>1, <2>2, <2>3, <3>1, <3>4
  <2>4. CASE e \notin OkInDay(x, k, d)
    BY <1>4, <1>8, <2>1, <2>4 DEF BoundOK
  <2> QED
    BY <2>3, <2>4
<1>9. ASSUME x \in IpNames, NEW u \in 0..MaxTime
      PROVE  Made(OkBetween(x, u, u + Minute))' < 2 * IpLimit
  <2> DEFINE W == OkBetween(x, u, u + Minute)
  <2>1. /\ W \in SUBSET Named(x) /\ OkSince(x, s) \in SUBSET Named(x)
        /\ OkBetween(x, u, s) \in SUBSET Named(x)
    BY SetsOfNames
  <2>2. CASE e \in W
    <3>1. e.ok /\ u <= t /\ t < u + Minute
      BY <1>3, <2>2 DEF OkBetween
    <3>2. e \in OkSince(x, s) /\ e \notin OkBetween(x, u, s)
      BY <1>3, <3>1, Units DEF OkSince, OkBetween, Named
    <3>3. Made(OkSince(x, s)) + 1 <= IpLimit /\ Made(OkSince(x, s)) \in Nat
      <4>1. Made(OkSince(x, s))' <= IpLimit
        BY <1>1, <1>9 DEF Tells
      <4> QED
        BY <1>4, <2>1, <3>2, <4>1
    <3>4. Made(W)' = Made(W) + 1 /\ Made(W) \in Nat
      BY <1>4, <2>1, <2>2
    <3>5. CASE u >= s
      <4>1. \A h \in Counted : h \in W => h \in OkSince(x, s)
        BY <1>3, <1>5, <3>5, Units DEF OkSince, OkBetween, Hit
      <4>2. Made(W) <= Made(OkSince(x, s))
        BY <4>1, MadeMono
      <4> QED
        BY <3>3, <3>4, <4>2, Units
    <3>6. CASE u < s
      <4>1. u \in 0..s /\ s < u + Minute
        BY <1>3, <3>1, <3>6, Units
      <4>2. Made(OkBetween(x, u, s)) < IpLimit /\ Made(OkBetween(x, u, s)) \in Nat
        <5>1. Made(OkBetween(x, u, s))' < IpLimit
          BY <1>1, <1>9, <4>1 DEF Apart
        <5> QED
          BY <1>4, <2>1, <3>2, <5>1
      <4>3. \A h \in Counted : h \in W => h \in OkBetween(x, u, s) \/ h \in OkSince(x, s)
        BY <1>3, <1>5, Units DEF OkSince, OkBetween, Hit
      <4>4. Made(W) <= Made(OkBetween(x, u, s)) + Made(OkSince(x, s))
        BY <4>3, MadeUnion
      <4> QED
        BY <3>3, <3>4, <4>2, <4>4, Units
    <3> QED
      BY <1>3, <3>5, <3>6
  <2>3. CASE e \notin W
    BY <1>4, <1>9, <2>1, <2>3 DEF BoundOK
  <2> QED
    BY <2>2, <2>3
<1> QED
  BY <1>7, <1>8, <1>9 DEF BoundOK

\* The bounds hold of every name.
LEMMA BoundStep ==
    ASSUME IInv, Next
    PROVE  BoundInv'
<1>1. /\ HitInv /\ HitInv' /\ LifeInv /\ now \in Nat /\ \A x \in Names : BoundOK(x)
  BY ProcessStep, HitStep DEF IInv, BoundInv
<1>2. ASSUME NEW x \in Names, Same(x) PROVE BoundOK(x)'
  BY <1>1, <1>2, SameShrinks, Shrunk
<1>3. ASSUME NEW g, NEW r, Starts(g, r) PROVE BoundInv'
  <2>1. PICK e : e = HitOf(r, 1, now)
    OBVIOUS
  <2>2. Adds(e) /\ e \in Hit /\ e.name = r.name /\ e.at = now
    BY <1>3, <2>1, StartsAdds DEF HitOf
  <2>3. PICK t \in 0..now : t = now
    BY <1>1
  <2>4. r.name \in Names /\ Life(r.name, t)'
    BY <1>1, <1>3, <2>3, LifeStarts
  <2>5. BoundOK(r.name)'
    BY <1>1, <2>2, <2>4, BoundAdds
  <2>6. \A x \in Names : x # r.name => BoundOK(x)'
    BY <1>1, <1>2, <2>2, AddsSame
  <2> QED
    BY <2>5, <2>6 DEF BoundInv
<1>4. ASSUME NEW g, NEW q, NEW r, Follow(g, q, r) PROVE BoundInv'
  <2>1. PICK e : e = HitOf(q, counter[q.name].n + 1, now)
    OBVIOUS
  <2>2. Adds(e) /\ e \in Hit /\ e.name = q.name /\ e.at = now
    BY <1>4, <2>1, FollowAdds DEF HitOf
  <2>3. PICK s \in 0..now : Life(q.name, s)
    BY <1>1, <1>4 DEF LifeInv, Follow
  <2>4. q.name \in Names /\ Life(q.name, s)'
    BY <1>1, <1>4, <2>3, LifeFollows
  <2>5. BoundOK(q.name)'
    BY <1>1, <2>2, <2>4, BoundAdds
  <2>6. \A x \in Names : x # q.name => BoundOK(x)'
    BY <1>1, <1>2, <2>2, AddsSame
  <2> QED
    BY <2>5, <2>6 DEF BoundInv
<1>5. ASSUME NEW g, NEW r, Skips(g, r) \/ (\E q : Misses(g, q, r)) \/ Times(g, r)
      PROVE  BoundInv'
  <2>1. \A x \in Names : Same(x)
    BY <1>5, SkipsSame, TimesSame
  <2> QED
    BY <1>2, <2>1 DEF BoundInv
<1>6. ASSUME Crash PROVE BoundInv'
  <2>1. \A S : Made(S) \in Nat
    BY <1>1, MadeType
  <2>2. \A x : Shrinks(x)
    BY <1>6, <2>1, CrashShrinks DEF Shrinks
  <2> QED
    BY <1>1, <2>2, Shrunk DEF BoundInv
<1>7. ASSUME Wait PROVE BoundInv'
  BY <1>2, <1>7, WaitSame DEF BoundInv
<1> QED
  BY <1>3, <1>4, <1>5, <1>6, <1>7, Steps

\* A refusal had its cause.
LEMMA CauseStep ==
    ASSUME IInv, Next
    PROVE  CauseInv'
<1>1. /\ HitInv /\ HitInv' /\ LifeInv /\ CauseInv /\ now \in Nat /\ now' \in Nat /\ now <= now'
  BY ProcessStep, HitStep DEF IInv
<1>2. \A h \in Counted : h \in Hit /\ h.at \in Nat /\ h.at <= now /\ h.name \in Names
  BY <1>1 DEF HitInv, Hit
<1>3. ASSUME NEW c \in Counted, Caused(c), Same(c.name) \/ (\E e : Adds(e)),
             \A g \in PendingOn(c.name) :
                 g \in PendingOn(c.name)' /\ gate'[g].since = gate[g].since
      PROVE  Caused(c)'
  <2>1. CASE Made(Before(c.name, c.at)) > IpLimit
    <3>1. PICK S \in SUBSET Named(c.name) : S = Before(c.name, c.at)
      BY SetsOfNames
    <3>2. Made(S) \in Nat /\ c.name \in Names
      BY <1>1, <1>2, MadeType
    <3>3. Made(S)' = Made(S) \/ Made(S)' = Made(S) + 1
      BY <1>3, <3>2 DEF Same, Adds
    <3> QED
      BY <2>1, <3>1, <3>2, <3>3, Units DEF Caused
  <2>2. CASE \E g \in PendingOn(c.name) : gate[g].since < now
    <3>1. PICK g \in PendingOn(c.name) : gate[g].since < now
      BY <2>2
    <3>2. gate[g].since \in Nat
      BY <3>1, <1>1 DEF PendingOn, IInv, GateInv, Request
    <3>3. gate'[g].since < now'
      BY <1>1, <1>3, <3>1, <3>2
    <3> QED
      BY <1>3, <3>1, <3>3 DEF Caused
  <2> QED
    BY <1>3, <2>1, <2>2 DEF Caused
<1>4. ASSUME NEW g, NEW r, Skips(g, r) \/ (\E q : Misses(g, q, r)) \/ Wait PROVE CauseInv'
  <2>1. Counted' = Counted /\ late \subseteq late' /\ \A x : Same(x) /\ Quiet(x)
    BY <1>4, SkipsSame, WaitSame DEF Skips, Misses, Wait
  <2> QED
    BY <1>1, <1>3, <2>1 DEF CauseInv, Quiet
<1>5. ASSUME NEW g, NEW r, Starts(g, r) PROVE CauseInv'
  <2>1. PICK e : e = HitOf(r, 1, now)
    OBVIOUS
  <2>2. /\ Adds(e) /\ e.name = r.name /\ (e.ok <=> 1 <= Limit(r.stage, r.key))
        /\ \A x : x # r.name => Quiet(x)
    BY <1>5, <2>1, StartsAdds DEF HitOf, Allowed
  <2>3. late' = late /\ Counted' = Counted \cup {e}
    BY <1>5, <2>2 DEF Starts, Adds
  <2>4. e.name \in IpNames => e.ok
    <3>1. ASSUME r.name \in IpNames PROVE r.stage = "ip"
      BY <1>5, <3>1, NamesTell DEF Starts, Moves, Fits
    <3> QED
      BY <2>2, <3>1, Units DEF Limit
  <2>5. PendingOn(r.name) = {}
    BY <1>5 DEF Starts, PendingOn, IInv, GateInv
  <2>6. ASSUME NEW c \in Counted, Caused(c) PROVE Caused(c)'
    BY <1>3, <2>2, <2>5, <2>6 DEF Quiet
  <2> QED
    BY <1>1, <2>3, <2>4, <2>6 DEF CauseInv
<1>6. ASSUME NEW g, NEW q, NEW r, Follow(g, q, r) PROVE CauseInv'
  <2>1. PICK n : n = counter[q.name].n
    OBVIOUS
  <2>2. PICK e : e = HitOf(q, n + 1, now)
    OBVIOUS
  <2>3. /\ Adds(e) /\ e.name = q.name /\ e.at = now
        /\ e.ok <=> n + 1 <= Limit(q.stage, q.key)
        /\ \A x : Quiet(x)
    BY <1>6, <2>1, <2>2, FollowAdds DEF HitOf, Allowed
  <2>4. /\ late' = late /\ Counted' = Counted \cup {e} /\ now' = now
        /\ q.name \in DOMAIN counter /\ q.name \in Names /\ q.name[1] = q.stage
    BY <1>6, <2>3 DEF Follow, Adds, Fits
  <2>5. ASSUME NEW c \in Counted, Caused(c) PROVE Caused(c)'
    BY <1>3, <2>3, <2>5 DEF Quiet
  <2>6. ASSUME e.name \in IpNames, ~e.ok, e.name \notin late PROVE Caused(e)'
    <3>1. PICK x : x = q.name
      OBVIOUS
    <3>2. PICK t \in Nat : t = now
      BY <1>1
    <3>3. PICK s \in 0..now : Life(x, s)
      BY <1>1, <2>4, <3>1 DEF LifeInv
    <3>4. n \in Nat /\ Made(From(x, s)) = n /\ s \in Nat /\ s <= t
      BY <1>1, <2>1, <2>3, <2>6, <3>1, <3>2, <3>3 DEF Life, Tells
    <3>5. n + 1 > IpLimit
      <4>1. Limit(q.stage, q.key) = IpLimit
        BY <2>3, <2>4, <2>6, NamesTell DEF Limit
      <4> QED
        BY <2>3, <2>6, <3>4, <4>1, Units
    <3>6. CASE \E h \in PendingOn(x) : gate[h].since < now
      <4>1. PICK h \in PendingOn(x) : gate[h].since < now
        BY <3>6
      <4>2. h \in PendingOn(x)' /\ gate'[h].since = gate[h].since
        BY <2>3, <4>1 DEF Quiet
      <4>3. \E i \in PendingOn(x)' : gate'[i].since < now'
        BY <2>4, <4>1, <4>2
      <4> QED
        BY <2>3, <3>1, <4>3 DEF Caused
    <3>7. CASE \A h \in PendingOn(x) : ~(gate[h].since < now)
      <4>1. t < s + Minute
        <5>1. CASE PendingOn(x) = {}
          <6>1. counter[x].exp = s + Minute /\ now < counter[x].exp
            BY <2>3, <2>6, <3>1, <3>3, <5>1 DEF Life, Timed
          <6> QED
            BY <3>2, <6>1
        <5>2. CASE PendingOn(x) # {}
          <6>1. PICK h \in PendingOn(x) : gate[h].since = s
            BY <3>3, <5>2 DEF Life, Timed
          <6>2. ~(s < t)
            BY <3>2, <3>7, <6>1
          <6> QED
            BY <3>4, <6>2, Units
        <5> QED
          BY <5>1, <5>2
      <4>2. ASSUME NEW h \in Counted, h \in From(x, s) PROVE h \in Before(x, t)
        BY <1>2, <3>2, <3>4, <4>1, <4>2, Units DEF From, Before
      <4>3. Made(From(x, s)) <= Made(Before(x, t))
        BY <1>1, <4>2, MadeMono
      <4>4. e \in Before(x, t) /\ Before(x, t) \in SUBSET Named(x)
        <5>1. e \in Hit
          BY <1>1, <2>4 DEF HitInv
        <5> QED
          BY <2>3, <3>1, <3>2, <5>1, Units, SetsOfNames DEF Before, Named
      <4>5. Made(Before(x, t))' = Made(Before(x, t)) + 1 /\ Made(Before(x, t)) \in Nat
        BY <1>1, <2>3, <2>4, <3>1, <4>4, MadeType DEF Adds
      <4>6. Made(Before(x, t))' > IpLimit
        BY <3>4, <3>5, <4>3, <4>5, Units
      <4>7. e.name = x /\ e.at = t
        BY <2>3, <3>1, <3>2
      <4> QED
        BY <4>6, <4>7 DEF Caused
    <3> QED
      BY <3>6, <3>7
  <2> QED
    BY <1>1, <2>4, <2>5, <2>6 DEF CauseInv
<1>7. ASSUME NEW g, NEW r, Times(g, r) PROVE CauseInv'
  <2>1. PICK y : y = gate[g].name
    OBVIOUS
  <2>2. /\ \A x : Same(x)
        /\ Counted' = Counted /\ PendingOn(y) = {g} /\ \A x : x # y => Quiet(x)
    BY <1>7, <2>1, TimesSame
  <2>3. /\ \A x : x \notin late' => x \notin late
        /\ y \notin late' => gate[g].since = now
    BY <1>7, <2>1 DEF Times
  <2>4. ASSUME NEW c \in Counted, Caused(c), c.name # y PROVE Caused(c)'
    BY <1>3, <2>2, <2>4 DEF Quiet
  <2>5. ASSUME NEW c \in Counted, Caused(c), c.name = y, y \notin late' PROVE Caused(c)'
    <3>1. Made(Before(y, c.at)) > IpLimit
      BY <1>1, <2>2, <2>3, <2>5 DEF Caused
    <3>2. Made(Before(y, c.at))' = Made(Before(y, c.at))
      BY <2>2, SetsOfNames DEF Same
    <3> QED
      BY <2>5, <3>1, <3>2 DEF Caused
  <2> QED
    BY <1>1, <2>2, <2>3, <2>4, <2>5 DEF CauseInv
<1>8. ASSUME Crash PROVE CauseInv'
  <2>1. /\ Counted' \subseteq Counted /\ \A x : PendingOn(x) = {} => Same(x)
    BY <1>8, CrashShrinks
  <2>2. \A x : x \notin late' => x \notin late /\ PendingOn(x) = {}
    BY <1>8 DEF Crash, PendingOn, Pending
  <2>3. ASSUME NEW c \in Counted, Caused(c), c.name \notin late' PROVE Caused(c)'
    BY <1>3, <2>1, <2>2, <2>3
  <2> QED
    BY <1>1, <2>1, <2>2, <2>3 DEF CauseInv
<1> QED
  BY <1>4, <1>5, <1>6, <1>7, <1>8, Steps

\* No counter counts more than the stages begun and the INCRs sent again.
LEMMA CountStep ==
    ASSUME IInv, Next
    PROVE  CountInv'
<1>1. /\ CountInv /\ requests \in Nat /\ IsFiniteSet(Owed) /\ Cardinality(Owed) \in Nat
      /\ faults \in Nat /\ faults' \in Nat /\ faults <= faults'
      /\ Cardinality(Owed) <= requests + faults
      /\ \A x \in DOMAIN counter : counter[x].n \in Nat /\ counter[x].n >= 1
                                   /\ counter[x].n + Cardinality(Owed) <= requests + faults
  <2>1. CountInv /\ IsFiniteSet(Owed)
    BY DEF IInv, CountInv
  <2>2. \A x \in DOMAIN counter : counter[x].n \in Nat
    BY DEF IInv, LifeInv
  <2> QED
    BY <2>1, <2>2, ProcessStep, FS_CardinalityType, Units DEF CountInv
<1>2. ASSUME NEW k \in Nat, Pays(k)
      PROVE  /\ requests' \in 0..MaxRequests /\ IsFiniteSet(Owed') /\ Cardinality(Owed') \in Nat
             /\ Cardinality(Owed') + requests + faults + k
                    <= requests' + faults' + Cardinality(Owed)
             /\ requests' \in Nat
  BY <1>2, FS_CardinalityType, Units DEF Pays
<1>3. ASSUME Pays(0), \A x \in DOMAIN counter' :
                          x \in DOMAIN counter /\ counter'[x].n = counter[x].n
      PROVE  CountInv'
  <2>1. /\ requests' \in 0..MaxRequests /\ IsFiniteSet(Owed') /\ Cardinality(Owed') \in Nat
        /\ Cardinality(Owed') + requests + faults + 0 <= requests' + faults' + Cardinality(Owed)
        /\ requests' \in Nat
    BY <1>2, <1>3
  <2>2. Cardinality(Owed') <= requests' + faults'
    BY <1>1, <2>1
  <2>3. ASSUME NEW x \in DOMAIN counter'
        PROVE  counter'[x].n >= 1 /\ counter'[x].n + Cardinality(Owed') <= requests' + faults'
    BY <1>1, <1>3, <2>1
  <2> QED
    BY <2>1, <2>2, <2>3 DEF CountInv
<1>4. ASSUME Pays(1), NEW y, NEW v, counter' = With(counter, y, v),
             v.n = 1 \/ (y \in DOMAIN counter /\ v.n = counter[y].n + 1)
      PROVE  CountInv'
  <2>1. /\ requests' \in 0..MaxRequests /\ IsFiniteSet(Owed') /\ Cardinality(Owed') \in Nat
        /\ Cardinality(Owed') + requests + faults + 1 <= requests' + faults' + Cardinality(Owed)
        /\ requests' \in Nat
    BY <1>2, <1>4
  <2>2. /\ Cardinality(Owed') <= requests' + faults'
        /\ 1 + Cardinality(Owed') <= requests' + faults'
    BY <1>1, <2>1
  <2>3. ASSUME NEW x \in DOMAIN counter'
        PROVE  counter'[x].n >= 1 /\ counter'[x].n + Cardinality(Owed') <= requests' + faults'
    <3>1. CASE x = y
      <4>1. counter'[x] = v
        BY <1>4, <3>1 DEF With
      <4> QED
        BY <1>1, <1>4, <2>1, <2>2, <3>1, <4>1
    <3>2. CASE x # y
      <4>1. x \in DOMAIN counter /\ counter'[x] = counter[x]
        BY <1>4, <2>3, <3>2 DEF With
      <4> QED
        BY <1>1, <2>1, <4>1
    <3> QED
      BY <3>1, <3>2
  <2> QED
    BY <2>1, <2>2, <2>3 DEF CountInv
<1>5. ASSUME NEW g, NEW r, Skips(g, r) PROVE CountInv'
  BY <1>3, <1>5 DEF Skips
<1>6. ASSUME NEW g, NEW r, Starts(g, r) PROVE CountInv'
  BY <1>4, <1>6 DEF Starts
<1>7. ASSUME NEW g, NEW q, NEW r, Follow(g, q, r) PROVE CountInv'
  BY <1>4, <1>7 DEF Follow
<1>11. ASSUME NEW g, NEW q, NEW r, Misses(g, q, r) PROVE CountInv'
  <2>1. PICK v : v = [n |-> CountOf(q.name) + 1,
                      exp |-> IF CountOf(q.name) = 0 THEN Forever ELSE counter[q.name].exp]
    OBVIOUS
  <2>2. counter' = With(counter, q.name, v) /\ Pays(1)
    BY <1>11, <2>1 DEF Misses, Incr
  <2>3. v.n = 1 \/ (q.name \in DOMAIN counter /\ v.n = counter[q.name].n + 1)
    BY <2>1 DEF CountOf
  <2> QED
    BY <1>4, <2>2, <2>3
<1>8. ASSUME NEW g, NEW r, Times(g, r) PROVE CountInv'
  <2>1. ASSUME NEW x \in DOMAIN counter'
        PROVE  x \in DOMAIN counter /\ counter'[x].n = counter[x].n
    <3>1. PICK d : d = Deadline(gate[g].stage, now)
      OBVIOUS
    <3>2. PICK y : y = gate[g].name
      OBVIOUS
    <3>3. counter' = counter \/ counter' = [counter EXCEPT ![y].exp = d]
      BY <1>8, <3>1, <3>2 DEF Times
    <3>4. counter \in [DOMAIN counter -> [n : Nat, exp : Nat]]
      BY DEF IInv, LifeInv
    <3> QED
      BY <2>1, <3>3, <3>4
  <2> QED
    BY <1>3, <1>8, <2>1 DEF Times
<1>9. ASSUME Crash, Pays(0) PROVE CountInv'
  BY <1>3, <1>9 DEF Crash
<1>10. ASSUME Wait, Pays(0) PROVE CountInv'
  <2>1. \A x \in DOMAIN counter' : x \in DOMAIN counter /\ counter'[x] = counter[x]
    BY <1>10 DEF Wait, Restrict
  <2> QED
    BY <1>3, <1>10, <2>1
<1> QED
  BY <1>5, <1>6, <1>7, <1>8, <1>9, <1>10, <1>11, Steps

\* At the start nothing was counted.
LEMMA Begins ==
    ASSUME Init
    PROVE  IInv
<1>1. /\ now = 0 /\ counter = <<>> /\ requests = 0 /\ hits = EmptyBag /\ late = {}
      /\ gate = [g \in Gates |-> NoRequest] /\ phase = "serving" /\ faults = 0
  BY DEF Init, ProcessInit
<1>2. ProcessTypeOK
  BY <1>1, Units DEF ProcessTypeOK
<1>3. DOMAIN counter = {}
  BY <1>1
<1>4. \A g \in Gates : gate[g] = NoRequest /\ ~Pending(g)
  BY <1>1, NoRequestFits DEF Pending
<1>5. GateInv
  <2>1. gate \in [Gates -> Request]
    BY <1>1, NoRequestFits DEF Fits
  <2> QED
    BY <1>4, <2>1, NoRequestFits DEF GateInv
<1>6. DOMAIN hits = {} /\ IsABag(hits)
  BY <1>1 DEF EmptyBag, SetToBag, IsABag
<1>7. Counted = {}
  BY <1>4, <1>6 DEF Counted
<1>8. HitInv
  BY <1>6, <1>7, FS_EmptySet DEF HitInv
<1>9. \A S : Made(S) = 0
  BY <1>7, MadeNone
<1>10. LifeInv
  <2>1. ASSUME NEW x \in Names PROVE Gone(x)
    BY <1>7, <1>9, Units DEF Gone, Apart
  <2>2. counter \in [DOMAIN counter -> [n : Nat, exp : Nat]]
    BY <1>1, <1>3
  <2> QED
    BY <1>3, <2>1, <2>2 DEF LifeInv
<1>11. BoundInv
  <2>1. \A k \in Keys : 0 <= RatePerMin[k] /\ 0 <= QuotaDaily[k]
    BY LimitAssumption
  <2>2. 0 < 2 * IpLimit
    BY Units
  <2> QED
    BY <1>9, <2>1, <2>2 DEF BoundInv, BoundOK
<1>12. CauseInv
  BY <1>7 DEF CauseInv
<1>13. CountInv
  <2>1. Owed = {}
    BY <1>4, NoRequestFits DEF Owed
  <2>2. IsFiniteSet(Owed) /\ Cardinality(Owed) = 0
    BY <2>1, FS_EmptySet
  <2> QED
    BY <1>1, <1>3, <2>2, Units DEF CountInv
<1> QED
  BY <1>2, <1>5, <1>8, <1>10, <1>11, <1>12, <1>13 DEF IInv

-----------------------------------------------------------------------------
\* The theorems.

\* The invariant holds in every state: each counter that exists began at some
\* time, tells what was counted since, ends when its EXPIRE says or never, and is
\* apart from the counters of its name before it.
THEOREM Inductive == Spec => []IInv
<1>1. Init => IInv
  BY Begins
<1>2. IInv /\ [Next]_vars => IInv'
  <2>1. ASSUME IInv, Next PROVE IInv'
    BY <2>1, ProcessStep, GateStep, HitStep, LifeStep, BoundStep, CauseStep, CountStep DEF IInv
  <2>2. ASSUME IInv, UNCHANGED vars PROVE IInv'
    <3>1. UNCHANGED <<phase, now, faults, counter, gate, requests, hits, late>>
      BY <2>2 DEF vars, process
    <3>2. \A g : (Pending(g)' <=> Pending(g)) /\ Due(g)' = Due(g)
      BY <3>1 DEF Pending, Due
    <3>3. Counted' = Counted /\ (\A S : Made(S)' = Made(S)) /\ Owed' = Owed
      <4>1. \A S : Tally(hits, S)' = Tally(hits, S)
        BY <3>1
      <4> QED
        BY <3>1, <3>2, <4>1 DEF Counted, Made, Owed
    <3>4. \A x : PendingOn(x)' = PendingOn(x)
      BY <3>1, <3>2 DEF PendingOn
    <3>5. \A x, s : (Apart(x, s)' <=> Apart(x, s)) /\ (Timed(x, s)' <=> Timed(x, s))
                    /\ (Tells(x, s)' <=> Tells(x, s))
      BY <3>1, <3>3, <3>4 DEF Apart, Timed, Tells
    <3>6. LifeInv'
      BY <2>2, <3>1, <3>3, <3>5 DEF IInv, LifeInv, Life, Gone
    <3>7. BoundInv' /\ CauseInv' /\ CountInv'
      BY <2>2, <3>1, <3>3, <3>4 DEF IInv, BoundInv, BoundOK, CauseInv, Caused, CountInv
    <3>8. ProcessTypeOK' /\ GateInv' /\ HitInv'
      BY <2>2, <3>1, <3>2, <3>3 DEF IInv, ProcessTypeOK, GateInv, Fits, HitInv
    <3> QED
      BY <3>6, <3>7, <3>8 DEF IInv
  <2> QED
    BY <2>1, <2>2
<1> QED
  BY <1>1, <1>2, PTL DEF Spec

\* Type correctness; a counter that exists has its deadline ahead, or has none
\* because its EXPIRE is yet to come, failed, or was never sent; it has counted no
\* request twice but for an INCR that was sent again.
THEOREM LimitTypes == Spec => []TypeOK
<1>1. ASSUME IInv PROVE TypeOK
  <2>1. /\ ProcessTypeOK /\ GateInv /\ HitInv /\ LifeInv /\ CountInv
        /\ Cardinality(Owed) \in Nat /\ requests \in Nat /\ requests <= MaxRequests
        /\ faults \in Nat /\ faults <= MaxFaults /\ MaxFaults \in Nat
    BY <1>1, FS_CardinalityType, Units DEF IInv, CountInv, ProcessTypeOK
  <2>2. ASSUME NEW x \in DOMAIN counter
        PROVE  /\ counter[x].n \in 1..(MaxRequests + MaxFaults)
               /\ \/ counter[x].exp \in (now + 1)..(now + Day)
                  \/ counter[x].exp = Forever /\ Untimed(x)
    <3>1. PICK s \in 0..now : Life(x, s)
      BY <2>1 DEF LifeInv
    <3>2. counter[x].n \in Nat /\ counter[x].n >= 1
          /\ counter[x].n + Cardinality(Owed) <= requests + faults
      BY <2>1, <3>1 DEF Life, Tells, CountInv
    <3>3. x \in late \/ PendingOn(x) # {} => Untimed(x)
      BY DEF PendingOn, Pending, Untimed
    <3> QED
      BY <2>1, <3>1, <3>2, <3>3, Units DEF Life, Timed
  <2>3. ASSUME NEW g \in Gates
        PROVE  /\ gate[g].at \in {"idle", "incr", "expire"} /\ gate[g].ticks \in 0..Patience
               /\ gate[g].stage # "ip" => gate[g].key \in Keys
    BY <2>1 DEF GateInv, Fits, Request
  <2> QED
    BY <2>1, <2>2, <2>3 DEF TypeOK, HitInv, CountInv
<1> QED
  BY <1>1, Inductive, PTL

\* The number of the hits that satisfy a test, if S has just those.
LEMMA HitsOf ==
    ASSUME HitInv, NEW S, NEW D, D = DOMAIN hits \cap S
    PROVE  /\ BagCardinality(Restrict(hits, D)) \in Nat
           /\ BagCardinality(Restrict(hits, D)) = Tally(hits, S)
           /\ BagCardinality(Restrict(hits, D)) <= Made(S)
<1>1. BagCardinality(Restrict(hits, D)) = Tally(hits, S)
  BY TallyIsCardinality DEF HitInv
<1> QED
  BY <1>1, MadeType

\* No span of a minute lets 2 * IpLimit requests of an address through that Redis
\* counted (CheckRateLimit).
THEOREM BurstsAreBounded == Spec => []BurstBound
<1>1. ASSUME IInv PROVE BurstBound
  <2>1. SUFFICES ASSUME NEW ip \in Ips, NEW t \in 0..now
                 PROVE  Hits(LAMBDA h : h.name = <<"ip", ip>> /\ h.ok
                                        /\ h.at \in t..(t + Minute - 1)) < 2 * IpLimit
    BY DEF BurstBound
  <2>2. PICK x : x = <<"ip", ip>>
    OBVIOUS
  <2>3. x \in IpNames /\ x \in Names /\ t \in 0..MaxTime /\ HitInv
    BY <1>1, <2>2, NamesTell, Units DEF IpNames, IInv, ProcessTypeOK
  <2>4. Made(OkBetween(x, t, t + Minute)) < 2 * IpLimit
    BY <1>1, <2>3 DEF IInv, BoundInv, BoundOK
  <2>5. PICK D : D = {h \in DOMAIN hits : h.name = <<"ip", ip>> /\ h.ok
                                          /\ h.at \in t..(t + Minute - 1)}
    OBVIOUS
  <2>6. D = DOMAIN hits \cap OkBetween(x, t, t + Minute)
    <3>1. \A h \in DOMAIN hits : h \in Hit /\ h.at \in Nat
      BY <2>3 DEF HitInv, Counted, Hit
    <3> QED
      BY <2>2, <2>3, <2>5, <3>1, Units DEF OkBetween, Named
  <2>7. Hits(LAMBDA h : h.name = <<"ip", ip>> /\ h.ok
                        /\ h.at \in t..(t + Minute - 1)) = BagCardinality(Restrict(hits, D))
    BY <2>5, Zenon DEF Hits, RestrictDomain
  <2>8. /\ BagCardinality(Restrict(hits, D)) <= Made(OkBetween(x, t, t + Minute))
        /\ BagCardinality(Restrict(hits, D)) \in Nat
        /\ Made(OkBetween(x, t, t + Minute)) \in Nat
    BY <2>3, <2>6, HitsOf, MadeType
  <2> QED
    BY <2>4, <2>7, <2>8, Units
<1> QED
  BY <1>1, Inductive, PTL

\* No key has more than RatePerMin calls counted and passed within a minute of the
\* clock (CheckRateLimit of the API keys).
THEOREM MinutesAreBounded == Spec => []MinuteBound
<1>1. ASSUME IInv PROVE MinuteBound
  <2>1. SUFFICES ASSUME NEW key \in Keys, NEW t \in 0..now
                 PROVE  Passed("rate", key, LAMBDA u : u \div Minute, t) <= RatePerMin[key]
    BY DEF MinuteBound
  <2>2. PICK x : x = CounterName("rate", "", key, t)
    OBVIOUS
  <2>3. t \in 0..MaxTime /\ HitInv
    BY <1>1, Units DEF IInv, ProcessTypeOK
  <2>4. x \in RateNames /\ x[3] = t \div Minute /\ x \in Names
    BY <2>2, <2>3, NameOfStage, NamesTell
  <2>5. Made(OkInMinute(x, key)) <= RatePerMin[key]
    BY <1>1, <2>4 DEF IInv, BoundInv, BoundOK
  <2>6. PICK D : D = {h \in DOMAIN hits : /\ h.name = CounterName("rate", "", key, t)
                                          /\ h.key = key /\ h.ok
                                          /\ h.at \div Minute = t \div Minute}
    OBVIOUS
  <2>7. D = DOMAIN hits \cap OkInMinute(x, key)
    <3>1. \A h \in DOMAIN hits : h \in Hit
      BY <2>3 DEF HitInv, Counted
    <3> QED
      BY <2>2, <2>4, <2>6, <3>1 DEF OkInMinute, Named
  <2>8. Passed("rate", key, LAMBDA u : u \div Minute, t) = BagCardinality(Restrict(hits, D))
    BY <2>6, Zenon DEF Passed, Hits, RestrictDomain
  <2>9. /\ BagCardinality(Restrict(hits, D)) <= Made(OkInMinute(x, key))
        /\ BagCardinality(Restrict(hits, D)) \in Nat /\ Made(OkInMinute(x, key)) \in Nat
        /\ RatePerMin[key] \in Nat
    BY <2>3, <2>7, HitsOf, MadeType, LimitAssumption
  <2>10. BagCardinality(Restrict(hits, D)) <= RatePerMin[key]
    BY <2>5, <2>9
  <2> QED
    BY <2>8, <2>10, Zenon
<1> QED
  BY <1>1, Inductive, PTL

\* No key has more than its quota of calls counted and passed in what a local day
\* and a day of UTC have in common (CheckQuota).
THEOREM QuotasAreBounded == Spec => []QuotaBound
<1>1. ASSUME IInv PROVE QuotaBound
  <2>1. SUFFICES ASSUME NEW key \in Keys, NEW t \in 0..now
                 PROVE  Passed("quota", key, LAMBDA u : <<LocalDay(u), u \div Day>>, t)
                            <= QuotaDaily[key]
    BY DEF QuotaBound
  <2>2. PICK x : x = CounterName("quota", "", key, t)
    OBVIOUS
  <2>3. t \in 0..MaxTime /\ t \in Nat /\ HitInv
    BY <1>1, Units DEF IInv, ProcessTypeOK
  <2>4. x \in QuotaNames /\ x \in Names
    BY <2>2, <2>3, NameOfStage, NamesTell
  <2>5. PICK d : d = t \div Day
    OBVIOUS
  <2>6. d \in 0..MaxTime
    <3>1. d \in Nat /\ d * Day <= t
      BY <2>3, <2>5, Units, Quotients
    <3>2. d * 1 <= d * Day
      BY <3>1, Units
    <3> QED
      BY <2>3, <3>1, <3>2, Units
  <2>7. Made(OkInDay(x, key, d)) <= QuotaDaily[key]
    BY <1>1, <2>4, <2>6 DEF IInv, BoundInv, BoundOK
  <2>8. PICK D : D = {h \in DOMAIN hits : /\ h.name = CounterName("quota", "", key, t)
                                          /\ h.key = key /\ h.ok
                                          /\ <<LocalDay(h.at), h.at \div Day>> =
                                                 <<LocalDay(t), t \div Day>>}
    OBVIOUS
  <2>9. PICK E : E = D \cap OkInDay(x, key, d)
    OBVIOUS
  <2>10. D = DOMAIN hits \cap E
    <3>1. \A h \in DOMAIN hits : h \in Hit
      BY <2>3 DEF HitInv, Counted
    <3> QED
      BY <2>2, <2>5, <2>8, <2>9, <3>1 DEF OkInDay, Named
  <2>11. Passed("quota", key, LAMBDA u : <<LocalDay(u), u \div Day>>, t) =
             BagCardinality(Restrict(hits, D))
    BY <2>8, Zenon DEF Passed, Hits, RestrictDomain
  <2>12. Made(E) <= Made(OkInDay(x, key, d))
    BY <2>3, <2>9, MadeMono
  <2>13. /\ BagCardinality(Restrict(hits, D)) <= Made(E)
         /\ BagCardinality(Restrict(hits, D)) \in Nat /\ Made(E) \in Nat
         /\ Made(OkInDay(x, key, d)) \in Nat /\ QuotaDaily[key] \in Nat
    BY <2>3, <2>10, HitsOf, MadeType, LimitAssumption
  <2>14. BagCardinality(Restrict(hits, D)) <= QuotaDaily[key]
    BY <2>7, <2>12, <2>13
  <2> QED
    BY <2>11, <2>14, Zenon
<1> QED
  BY <1>1, Inductive, PTL

\* An address is refused only for more than IpLimit requests within the last
\* minute, unless the EXPIRE of its counter failed or was late, or one of its
\* INCRs took effect without an answer (CheckRateLimit).
THEOREM RefusalsHaveCause == Spec => []RefusedForCause
<1>1. ASSUME IInv PROVE RefusedForCause
  <2>1. SUFFICES ASSUME NEW r \in DOMAIN hits, r.name[1] = "ip", ~r.ok, ~Untimed(r.name)
                 PROVE  Hits(LAMBDA h : h.name = r.name /\ h.at <= r.at
                                        /\ r.at < h.at + Minute) > IpLimit
    BY DEF RefusedForCause
  <2>2. HitInv /\ r \in Counted /\ r \in Hit
    BY <1>1 DEF IInv, HitInv, Counted
  <2>3. r.name \in IpNames
    BY <2>1, <2>2, NamesTell DEF Hit
  <2>4. r.name \notin late /\ PendingOn(r.name) = {}
    BY <2>1 DEF Untimed, PendingOn, Pending
  <2>5. Made(Before(r.name, r.at)) > IpLimit
    BY <1>1, <2>1, <2>2, <2>3, <2>4 DEF IInv, CauseInv, Caused
  <2>6. PICK S : S = Before(r.name, r.at)
    OBVIOUS
  <2>7. PICK D : D = {h \in DOMAIN hits : h.name = r.name /\ h.at <= r.at
                                          /\ r.at < h.at + Minute}
    OBVIOUS
  <2>8. D = DOMAIN hits \cap S
    <3>1. \A h \in DOMAIN hits : h \in Hit
      BY <2>2 DEF HitInv, Counted
    <3> QED
      BY <2>6, <2>7, <3>1 DEF Before, Named
  <2>9. Hits(LAMBDA h : h.name = r.name /\ h.at <= r.at /\ r.at < h.at + Minute) =
            BagCardinality(Restrict(hits, D))
    BY <2>7, Zenon DEF Hits, RestrictDomain
  <2>10. BagCardinality(Restrict(hits, D)) = Tally(hits, S) /\ Tally(hits, S) \in Nat
    BY <2>2, <2>8, HitsOf, MadeType
  <2>11. Made(S) = Tally(hits, S) + 0
    <3>1. \A g \in Gates : Pending(g) => Due(g) \notin S
      BY <2>4, <2>6 DEF PendingOn, Before, Named, Due
    <3> QED
      BY <3>1 DEF Made
  <2> QED
    BY <2>5, <2>6, <2>9, <2>10, <2>11
<1> QED
  BY <1>1, Inductive, PTL

\* The usage that a key's owner is shown is no less than what the key, and others
\* with its prefix, used since the last midnight, of UTC or local (GetUsage).
THEOREM UsageIsTruthful == Spec => []UsageTruthful
<1>1. ASSUME IInv PROVE UsageTruthful
  <2>1. SUFFICES ASSUME NEW key \in Keys
                 PROVE  UsedToday(key) >=
                            Hits(LAMBDA h : /\ h.name = CounterName("quota", "", key, now)
                                            /\ h.ok /\ h.at \div Day = now \div Day)
    BY DEF UsageTruthful
  <2>2. PICK t \in 0..MaxTime : t = now
    BY <1>1 DEF IInv, ProcessTypeOK
  <2>3. PICK x : x = CounterName("quota", "", key, t)
    OBVIOUS
  <2>4. x = CounterName("quota", "", key, now)
    BY <2>2, <2>3
  <2>5. x \in QuotaNames /\ x \in Names /\ HitInv /\ t \in Nat
    <3>1. x \in QuotaNames
      BY <2>2, <2>3, NameOfStage
    <3>2. x \in Names
      BY <3>1, NamesTell, Zenon
    <3>3. HitInv
      BY <1>1 DEF IInv
    <3>4. t \in Nat
      BY <2>2, Units
    <3> QED
      BY <3>1, <3>2, <3>3, <3>4
  <2>6. PICK D : D = {h \in DOMAIN hits : /\ h.name = CounterName("quota", "", key, now)
                                          /\ h.ok /\ h.at \div Day = now \div Day}
    OBVIOUS
  <2>7. D = DOMAIN hits \cap D /\ \A h \in D : /\ h \in Counted /\ h \in Hit /\ h.name = x
                                               /\ h.at \div Day = t \div Day
    BY <2>2, <2>4, <2>5, <2>6 DEF HitInv, Counted
  <2>8. Hits(LAMBDA h : /\ h.name = CounterName("quota", "", key, now)
                        /\ h.ok /\ h.at \div Day = now \div Day) =
            BagCardinality(Restrict(hits, D))
    BY <2>6, Zenon DEF Hits, RestrictDomain
  <2>9. PICK q \in Nat : q = t \div Day
    BY <2>5, Units, Quotients
  <2>10. BagCardinality(Restrict(hits, D)) = Tally(hits, D) /\ Tally(hits, D) \in Nat
        /\ Tally(hits, D) <= Made(D) /\ Made(D) \in Nat
    BY <2>5, <2>7, HitsOf, MadeType
  <2>11. CASE x \in DOMAIN counter
    <3>1. PICK s \in 0..now : Life(x, s)
      BY <1>1, <2>11 DEF IInv, LifeInv
    <3>2. s \in Nat /\ s <= t
      BY <2>2, <3>1
    <3>3. PICK a \in Nat : a = s \div Day /\ a <= q
      BY <2>5, <2>9, <3>2, Units, Quotients
    <3>4. ASSUME NEW h \in D PROVE h \in From(x, s)
      <4>1. ~(h.at < s)
        <5>1. h.at < s => h.at \div Day < s \div Day
          BY <2>5, <2>7, <3>1 DEF Life, Apart
        <5> QED
          BY <2>7, <2>9, <3>3, <5>1
      <4> QED
        BY <2>7, <3>2, <4>1 DEF From, Named, Hit
    <3>5. Made(D) <= Made(From(x, s))
      BY <2>5, <3>4, MadeMono
    <3>6. Made(From(x, s)) <= counter[x].n /\ counter[x].n \in Nat
      BY <3>1 DEF Life, Tells
    <3>7. Made(From(x, s)) \in Nat
      BY <2>5, MadeType
    <3>8. UsedToday(key) = counter[x].n
      BY <2>4, <2>11 DEF UsedToday, CountOf
    <3>9. UsedToday(key) >= BagCardinality(Restrict(hits, D))
      BY <2>10, <3>5, <3>6, <3>7, <3>8
    <3> QED
      BY <2>8, <3>9, Zenon
  <2>12. CASE x \notin DOMAIN counter
    <3>1. Gone(x)
      BY <1>1, <2>5, <2>12 DEF IInv, LifeInv
    <3>2. D = {}
      <4>1. SUFFICES ASSUME NEW h \in D PROVE FALSE
        OBVIOUS
      <4>2. h.at < now /\ h.at \div Day < now \div Day
        BY <2>5, <2>7, <3>1 DEF Gone, Apart
      <4> QED
        BY <2>2, <2>7, <2>9, <4>2
    <3>3. Tally(hits, D) = 0
      BY <3>2, TallyNone
    <3>4. UsedToday(key) = 0
      BY <2>4, <2>12 DEF UsedToday, CountOf
    <3>5. UsedToday(key) >= BagCardinality(Restrict(hits, D))
      BY <2>10, <3>3, <3>4
    <3> QED
      BY <2>8, <3>5, Zenon
  <2> QED
    BY <2>11, <2>12
<1> QED
  BY <1>1, Inductive, PTL
=============================================================================
