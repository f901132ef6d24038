-------------------------- MODULE BatchJobsProofs --------------------------
(***************************************************************************)
(* Proofs about BatchJobs, for every set of users, codes, urls, callers    *)
(* and workers, every capacity and any number of faults.                   *)
(***************************************************************************)
EXTENDS BatchJobs, FiniteSetTheorems, SequenceTheorems, Recursion, TLAPS

-----------------------------------------------------------------------------
\* What the parser passes on.
Row == [url : Urls \cup {Blank}, code : Codes \cup {AnyCode}]
ItemRow == [url : Urls, code : Codes \cup {AnyCode}]

\* Rows that are passed over leave items.
LEMMA ParsedItems ==
    ASSUME NEW rows \in Seq(Row)
    PROVE  Parsed(rows) \in Seq(ItemRow)
<1> DEFINE n == Len(rows)
           step == [i \in Nat |-> [s \in Seq(ItemRow) |->
                        IF i \notin 1..n \/ rows[i].url = Blank THEN s ELSE Append(s, rows[i])]]
           kept == CHOOSE f : f = [i \in 0..n |->
                        IF i = 0 THEN <<>>
                        ELSE IF rows[i].url = Blank THEN f[i - 1] ELSE Append(f[i - 1], rows[i])]
<1>1. n \in Nat /\ \A i \in 1..n : rows[i] \in Row
  OBVIOUS
<1>2. \A i \in 1..n : rows[i].url # Blank => rows[i] \in ItemRow
  BY <1>1 DEF Row, ItemRow
<1>3. step \in [Nat -> [Seq(ItemRow) -> Seq(ItemRow)]]
  BY <1>2
<1>4. PICK g : Follows(g, n, Seq(ItemRow), <<>>, step)
  <2>1. <<>> \in Seq(ItemRow)
    OBVIOUS
  <2> HIDE DEF step, n
  <2> QED
    BY <1>1, <1>3, <2>1, RecursiveFunction
<1>5. g = [i \in 0..n |-> IF i = 0 THEN <<>>
             ELSE IF rows[i].url = Blank THEN g[i - 1] ELSE Append(g[i - 1], rows[i])]
  <2>1. ASSUME NEW i \in 1..n
        PROVE  g[i] = IF rows[i].url = Blank THEN g[i - 1] ELSE Append(g[i - 1], rows[i])
    <3>1. i \in Nat /\ i - 1 \in 0..n
      BY <1>1
    <3>2. g[i - 1] \in Seq(ItemRow) /\ g[i] = step[i][g[i - 1]]
      BY <1>4, <3>1 DEF Follows
    <3> HIDE DEF n
    <3> QED
      BY <3>1, <3>2
  <2>2. \A i \in 0..n : i = 0 \/ i \in 1..n
    BY <1>1
  <2> HIDE DEF n, step
  <2>3. \A i \in 0..n : g[i] = IF i = 0 THEN <<>>
             ELSE IF rows[i].url = Blank THEN g[i - 1] ELSE Append(g[i - 1], rows[i])
    BY <1>4, <2>1, <2>2 DEF Follows
  <2> QED
    BY <1>4, <2>3 DEF Follows
<1>6. kept = [i \in 0..n |-> IF i = 0 THEN <<>>
                ELSE IF rows[i].url = Blank THEN kept[i - 1] ELSE Append(kept[i - 1], rows[i])]
  BY <1>5, Zenon
<1>7. Parsed(rows) = kept[n]
  BY Zenon DEF Parsed
<1> HIDE DEF kept
<1> DEFINE T == {i \in Nat : i \in 0..n => kept[i] \in Seq(ItemRow)}
<1>8. 0 \in T
  BY <1>1, <1>6
<1>9. ASSUME NEW i \in Nat, i \in T PROVE i + 1 \in T
  <2>1. SUFFICES ASSUME i + 1 \in 0..n PROVE kept[i + 1] \in Seq(ItemRow)
    OBVIOUS
  <2>2. kept[i] \in Seq(ItemRow) /\ i + 1 \in 1..n
    BY <1>1, <1>9, <2>1
  <2>3. kept[i + 1] = IF rows[i + 1].url = Blank THEN kept[i] ELSE Append(kept[i], rows[i + 1])
    <3>1. i + 1 # 0 /\ (i + 1) - 1 = i
      OBVIOUS
    <3>2. kept[i + 1] = IF i + 1 = 0 THEN <<>>
                ELSE IF rows[i + 1].url = Blank THEN kept[(i + 1) - 1]
                     ELSE Append(kept[(i + 1) - 1], rows[i + 1])
      BY <1>6, <2>1, Zenon
    <3> QED
      BY <3>1, <3>2
  <2> QED
    BY <1>2, <2>2, <2>3
<1> HIDE DEF T
<1>10. Nat \subseteq T
  BY <1>8, <1>9, SetInduction
<1> QED
  BY <1>1, <1>7, <1>10 DEF T

-----------------------------------------------------------------------------
\* The rows of the tables, and what callers and workers hold.
Statuses == Final \cup {"pending", "running"}
Keys == {Key(u, b) : u \in Users, b \in Seq(ItemRow)}
JobRow == [user : Users, batch : Seq(ItemRow), key : Keys, status : Statuses, processed : Nat,
           success : Int, fail : Int]
LinkRow == [user : Users, code : Codes, job : Nat, item : Nat,
            state : {"live", "removed", "undone"}]
Submission == [at : {"idle", "insert", "refind", "send", "refuse", "answer"},
               user : Users \cup {Idle.user}, batch : Seq(ItemRow), job : Nat]
Work == [at : {"idle", "start", "items", "undo", "finish"}, job : Nat, made : Seq(Nat), bad : Nat]

Shape ==
    /\ jobs \in Seq(JobRow) /\ links \in Seq(LinkRow)
    /\ queue \in Seq(Nat) /\ Len(queue) <= QueueCap
    /\ life \in {"up", "closing", "down"}
    /\ caller \in [Callers -> Submission] /\ worker \in [Workers -> Work]
    /\ edit \in {0} \cup DOMAIN links
    /\ lost \subseteq DOMAIN jobs /\ spared \subseteq DOMAIN links

Sending(c) == caller[c].at \in {"send", "refuse"}
Working(w) == worker[w].at # "idle"

\* Somebody is going to run job j, or to mark it failed.
Held(j) ==
    \/ \E p \in DOMAIN queue : queue[p] = j
    \/ \E w \in Workers : Working(w) /\ worker[w].job = j
    \/ \E c \in Callers : Sending(c) /\ caller[c].job = j

\* Every item of job j has its one link; every link of it is gone.
Kept(j) ==
    /\ \A i \in LinksOf(j) : links[i].state # "undone"
    /\ \A n \in DOMAIN jobs[j].batch : \E i \in LinksOf(j) :
         links[i].item = n /\ \A k \in LinksOf(j) : links[k].item = n => k = i
Gone(j) == \A i \in LinksOf(j) : Live(i) => i \in spared

JobOK(j) ==
    LET r == jobs[j] IN
    /\ Len(r.batch) > 0 /\ r.key = Key(r.user, r.batch)
    /\ r.processed <= Len(r.batch) /\ r.success + r.fail = r.processed
    /\ r.status = "completed" => r.success = Len(r.batch) /\ Kept(j)
    /\ r.status = "failed" => r.success = 0 /\ Gone(j)
    /\ r.status \in Final \/ j \in lost \/ Held(j)

\* Nothing has been done for job j.
Fresh(j) ==
    /\ j \in DOMAIN jobs /\ LinksOf(j) = {}
    /\ jobs[j].status = "pending" /\ jobs[j].success = 0

CallerOK(c) ==
    /\ caller[c].at # "idle" => caller[c].user \in Users /\ Len(caller[c].batch) > 0
    /\ Sending(c) => Fresh(caller[c].job)
    /\ Sending(c) \/ caller[c].at = "answer" =>
         caller[c].job \in DOMAIN jobs /\ jobs[caller[c].job].key = CallKey(c)

\* A worker that has not begun its rollback knows the links of its job, one for
\* each item that did not fail, but for those of INSERTs it took for failed.
MadeFor(j, made, bad) ==
    /\ \A n \in DOMAIN made : made[n] # 0 =>
         made[n] \in LinksOf(j) /\ links[made[n]].item = n
    /\ \A i \in LinksOf(j) :
         /\ links[i].item \in DOMAIN made /\ links[i].state # "undone"
         /\ made[links[i].item] = i \/ (bad > 0 /\ i \in spared)
    /\ bad = 0 => \A n \in DOMAIN made : made[n] # 0
Tracked(w) == MadeFor(worker[w].job, worker[w].made, worker[w].bad)

\* One that has begun it has deleted the others.
Undoing(w) ==
    LET r == worker[w] IN
    /\ \A n \in DOMAIN r.made : r.made[n] # 0 => r.made[n] \in LinksOf(r.job)
    /\ \A i \in LinksOf(r.job) :
         (\E n \in DOMAIN r.made : r.made[n] = i) \/ (Live(i) => i \in spared)

WorkerOK(w) ==
    LET r == worker[w]
        b == jobs[r.job].batch IN
    /\ ~Working(w) => r.made = <<>>
    /\ Working(w) =>
        /\ r.job \in DOMAIN jobs /\ jobs[r.job].status \notin Final
        /\ Len(r.made) <= Len(b)
        /\ r.at = "start" => r.made = <<>> /\ r.bad = 0
        /\ r.at = "items" => Len(r.made) < Len(b)
        /\ r.at \in {"undo", "finish"} => Len(r.made) = Len(b)
        /\ r.at = "finish" => r.bad = 0 \/ \A n \in DOMAIN r.made : r.made[n] = 0
        /\ IF r.at = "undo" THEN r.bad > 0 /\ Undoing(w) ELSE Tracked(w)

\* A job is on one place: the channel, one worker, or the caller that is about
\* to send it or to mark it failed.
Apart ==
    /\ \A p, q \in DOMAIN queue : queue[p] = queue[q] => p = q
    /\ \A p \in DOMAIN queue :
         /\ \A w \in Workers : Working(w) => worker[w].job # queue[p]
         /\ \A c \in Callers : Sending(c) => caller[c].job # queue[p]
    /\ \A c, d \in Callers : Sending(c) /\ Sending(d) /\ caller[c].job = caller[d].job => c = d
    /\ \A w, v \in Workers : Working(w) /\ Working(v) /\ worker[w].job = worker[v].job => w = v
    /\ \A c \in Callers, w \in Workers :
         Sending(c) /\ Working(w) => caller[c].job # worker[w].job

LifeOK ==
    /\ life # "up" => \A c \in Callers : caller[c].at = "idle"
    /\ life = "down" => queue = <<>> /\ \A w \in Workers : worker[w].at = "idle"

\* One job to a key.
KeysUnique == \A i, j \in DOMAIN jobs : jobs[i].key = jobs[j].key => i = j
LinkJobs == \A i \in DOMAIN links : links[i].job \in {0} \cup DOMAIN jobs

IInv ==
    /\ Shape /\ KeysUnique /\ LinkJobs /\ Apart /\ LifeOK
    /\ \A j \in DOMAIN jobs : JobOK(j)
    /\ \A p \in DOMAIN queue : Fresh(queue[p])
    /\ \A c \in Callers : CallerOK(c)
    /\ \A w \in Workers : WorkerOK(w)

-----------------------------------------------------------------------------
\* What a step leaves as it was.

\* The links of job j are those they were; none is newly deleted by a rollback,
\* and one that lives again is counted.
Steady(j) ==
    /\ LinksOf(j)' = LinksOf(j)
    /\ \A i \in LinksOf(j) :
         /\ links'[i].item = links[i].item
         /\ links'[i].state = "undone" => links[i].state = "undone"
         /\ links'[i].state = "live" => links[i].state = "live" \/ i \in spared'

LEMMA JobKept ==
    ASSUME NEW j, JobOK(j), jobs'[j] = jobs[j], spared \subseteq spared',
           jobs[j].status \in Final => Steady(j),
           jobs[j].status \in Final \/ j \in lost' \/ Held(j)'
    PROVE  JobOK(j)'
<1>1. jobs[j].status = "completed" /\ Kept(j) => Kept(j)'
  BY DEF Kept, Steady, Final
<1>2. jobs[j].status = "failed" /\ Gone(j) => Gone(j)'
  BY DEF Gone, Steady, Final, Live
<1> QED
  BY <1>1, <1>2 DEF JobOK

LEMMA FreshKept ==
    ASSUME NEW j, Fresh(j), j \in DOMAIN jobs', jobs'[j] = jobs[j], LinksOf(j)' = LinksOf(j)
    PROVE  Fresh(j)'
BY DEF Fresh

LEMMA CallerKept ==
    ASSUME NEW c \in Callers, CallerOK(c), caller'[c] = caller[c],
           \A j \in DOMAIN jobs : j \in DOMAIN jobs' /\ jobs'[j].key = jobs[j].key,
           Sending(c) => Fresh(caller[c].job)'
    PROVE  CallerOK(c)'
BY DEF CallerOK, Sending, CallKey, Key, Fresh

LEMMA WorkerKept ==
    ASSUME NEW w \in Workers, WorkerOK(w), worker'[w] = worker[w], spared \subseteq spared',
           Working(w) =>
             /\ worker[w].job \in DOMAIN jobs' /\ Steady(worker[w].job)
             /\ jobs'[worker[w].job].batch = jobs[worker[w].job].batch
             /\ jobs'[worker[w].job].status \notin Final
    PROVE  WorkerOK(w)'
<1>1. CASE ~Working(w)
  BY <1>1 DEF WorkerOK, Working
<1>2. CASE Working(w)
  <2>1. Tracked(w) => Tracked(w)'
    BY <1>2 DEF Tracked, MadeFor, Steady
  <2>2. Undoing(w) => Undoing(w)'
    BY <1>2 DEF Undoing, Steady, Live
  <2> QED
    BY <1>2, <2>1, <2>2 DEF WorkerOK, Working
<1> QED
  BY <1>1, <1>2

\* A step that changes no link is steady for every job.
LEMMA LinksRest ==
    ASSUME UNCHANGED links, NEW j
    PROVE  Steady(j)
BY DEF Steady, LinksOf

\* A step that changes neither table.
LEMMA StoreRests ==
    ASSUME IInv, UNCHANGED <<jobs, links, spared>>, Shape', Apart', LifeOK', lost \subseteq lost',
           \A j \in DOMAIN jobs :
               Held(j) /\ jobs[j].status \notin Final => Held(j)' \/ j \in lost',
           \A p \in DOMAIN queue' : Fresh(queue'[p]),
           \A c \in Callers : CallerOK(c)',
           \A w \in Workers : WorkerOK(w)'
    PROVE  IInv'
<1>1. KeysUnique' /\ LinkJobs'
  BY DEF IInv, KeysUnique, LinkJobs
<1>2. ASSUME NEW j \in DOMAIN jobs' PROVE JobOK(j)'
  <2>1. JobOK(j) /\ Steady(j) /\ j \in DOMAIN jobs
    BY <1>2, LinksRest DEF IInv
  <2>2. jobs[j].status \in Final \/ j \in lost' \/ Held(j)'
    BY <2>1 DEF JobOK
  <2> QED
    BY <2>1, <2>2, JobKept
<1>3. ASSUME NEW p \in DOMAIN queue' PROVE Fresh(queue[p])'
  <2>1. PICK j : j = queue'[p] /\ Fresh(j)
    OBVIOUS
  <2>2. j \in DOMAIN jobs /\ LinksOf(j)' = LinksOf(j)
    BY <2>1 DEF Fresh, LinksOf
  <2> QED
    BY <2>1, <2>2, FreshKept
<1> QED
  BY <1>1, <1>2, <1>3 DEF IInv

-----------------------------------------------------------------------------
\* Submissions.

\* A step of caller c that changes neither table nor channel, begins no sending,
\* and gives up a job only as lost.
LEMMA CallerMoves ==
    ASSUME IInv, NEW c \in Callers,
           UNCHANGED <<jobs, links, spared, worker, queue, life, edit>>,
           lost \subseteq lost', lost' \subseteq DOMAIN jobs,
           caller' \in [Callers -> Submission],
           \A d \in Callers \ {c} : caller'[d] = caller[d],
           CallerOK(c)',
           Sending(c)' => Sending(c) /\ caller'[c].job = caller[c].job,
           Sending(c) /\ ~Sending(c)' => caller[c].job \in lost',
           caller[c].at # "idle" \/ life = "up"
    PROVE  IInv'
<1>1. Shape'
  BY DEF IInv, Shape
<1>2. \A d \in Callers : Sending(d)' => Sending(d) /\ caller'[d].job = caller[d].job
  BY DEF Sending
<1>3. Apart'
  BY <1>2 DEF IInv, Apart, Working
<1>4. LifeOK'
  BY DEF IInv, LifeOK
<1>5. \A d \in Callers : Sending(d) => Sending(d)' \/ caller[d].job \in lost'
  BY DEF Sending
<1>6. \A j \in DOMAIN jobs : Held(j) => Held(j)' \/ j \in lost'
  BY <1>2, <1>5 DEF Held, Working
<1>7. \A p \in DOMAIN queue' : Fresh(queue'[p])
  BY DEF IInv
<1>8. ASSUME NEW d \in Callers PROVE CallerOK(d)'
  <2>1. ASSUME d # c PROVE CallerOK(d)'
    <3>1. CallerOK(d) /\ caller'[d] = caller[d]
      BY <2>1 DEF IInv
    <3> QED
      BY <3>1, LinksRest DEF CallerOK, Sending, Fresh, LinksOf, CallKey, Key
  <2> QED
    BY <2>1
<1>9. ASSUME NEW w \in Workers PROVE WorkerOK(w)'
  <2>1. WorkerOK(w) /\ worker'[w] = worker[w] /\ Steady(worker[w].job)
    BY LinksRest DEF IInv
  <2> QED
    BY <2>1, WorkerKept DEF WorkerOK
<1> QED
  BY <1>1, <1>3, <1>4, <1>6, <1>7, <1>8, <1>9, StoreRests

\* What a caller's step leaves it with.
LEMMA CallerFields ==
    ASSUME Shape, NEW c \in Callers
    PROVE  /\ caller[c] \in Submission
           /\ \A label \in {"refind", "refuse"} : AtCaller(c, label) =>
                /\ caller' \in [Callers -> Submission]
                /\ \A d \in Callers \ {c} : caller'[d] = caller[d]
                /\ caller'[c].at = label /\ caller'[c].user = caller[c].user
                /\ caller'[c].batch = caller[c].batch /\ caller'[c].job = caller[c].job
           /\ Reply(c) =>
                /\ caller' \in [Callers -> Submission]
                /\ \A d \in Callers \ {c} : caller'[d] = caller[d]
                /\ caller'[c].at = "idle"
           /\ \A label \in {"send", "answer"} : \A j \in Nat :
                caller' = [caller EXCEPT ![c].at = label, ![c].job = j] =>
                  /\ caller' \in [Callers -> Submission]
                  /\ \A d \in Callers \ {c} : caller'[d] = caller[d]
                  /\ caller'[c].at = label /\ caller'[c].user = caller[c].user
                  /\ caller'[c].batch = caller[c].batch /\ caller'[c].job = j
<1>1. caller[c] \in Submission /\ Idle \in Submission /\ Idle.at = "idle"
  BY DEF Shape, Submission, Idle
<1>2. ASSUME NEW label \in {"refind", "refuse"}, AtCaller(c, label)
      PROVE  /\ caller' \in [Callers -> Submission]
             /\ \A d \in Callers \ {c} : caller'[d] = caller[d]
             /\ caller'[c].at = label /\ caller'[c].user = caller[c].user
             /\ caller'[c].batch = caller[c].batch /\ caller'[c].job = caller[c].job
  <2> DEFINE r == [caller[c] EXCEPT !.at = label]
  <2>1. r \in Submission /\ r.at = label /\ r.user = caller[c].user
        /\ r.batch = caller[c].batch /\ r.job = caller[c].job
    BY <1>1 DEF Submission
  <2>2. caller' = [caller EXCEPT ![c] = r]
    BY <1>2 DEF AtCaller
  <2> HIDE DEF r
  <2> QED
    BY <2>1, <2>2 DEF Shape
<1>3. Reply(c) =>
        /\ caller' \in [Callers -> Submission]
        /\ \A d \in Callers \ {c} : caller'[d] = caller[d]
        /\ caller'[c].at = "idle"
  BY <1>1 DEF Reply, Shape
<1>4. ASSUME NEW label \in {"send", "answer"}, NEW j \in Nat,
             caller' = [caller EXCEPT ![c].at = label, ![c].job = j]
      PROVE  /\ caller' \in [Callers -> Submission]
             /\ \A d \in Callers \ {c} : caller'[d] = caller[d]
             /\ caller'[c].at = label /\ caller'[c].user = caller[c].user
             /\ caller'[c].batch = caller[c].batch /\ caller'[c].job = j
  <2> DEFINE r == [caller[c] EXCEPT !.at = label, !.job = j]
  <2>1. r \in Submission /\ r.at = label /\ r.user = caller[c].user
        /\ r.batch = caller[c].batch /\ r.job = j
    BY <1>1 DEF Submission
  <2>2. caller' = [caller EXCEPT ![c] = r]
    BY <1>4
  <2> HIDE DEF r
  <2> QED
    BY <2>1, <2>2 DEF Shape
<1> QED
  BY <1>1, <1>2, <1>3, <1>4

LEMMA ReplyStep ==
    ASSUME IInv, NEW c \in Callers, Reply(c), caller[c].at # "idle",
           UNCHANGED <<jobs, links, spared, worker, queue, life, edit>>,
           lost \subseteq lost', lost' \subseteq DOMAIN jobs,
           Sending(c) => caller[c].job \in lost'
    PROVE  IInv'
<1>1. /\ caller' \in [Callers -> Submission]
      /\ \A d \in Callers \ {c} : caller'[d] = caller[d]
      /\ caller'[c].at = "idle"
  BY CallerFields DEF IInv
<1>2. CallerOK(c)' /\ ~Sending(c)'
  BY <1>1 DEF CallerOK, Sending
<1> QED
  BY <1>1, <1>2, CallerMoves

LEMMA KeyType ==
    ASSUME NEW u \in Users, NEW b \in Seq(ItemRow)
    PROVE  Key(u, b) \in Keys
BY DEF Keys

LEMMA SubmitStep ==
    ASSUME IInv, NEW c \in Callers, NEW u \in Users, NEW r \in Requests, Submit(c, u, r)
    PROVE  IInv'
<1> DEFINE b == Parsed(r)
           old == Under(Key(u, b))
           ready == {j \in old : jobs[j].status \in {"completed", "running"}}
<1>1. r \in Seq(Row)
  BY BatchAssumption DEF Row
<1>2. b \in Seq(ItemRow) /\ b # <<>>
  BY <1>1, ParsedItems DEF Submit
<1>3. PICK j \in ready \cup {0} :
        caller' = [caller EXCEPT ![c] =
            [at |-> IF j = 0 THEN "insert" ELSE "answer", user |-> u, batch |-> b, job |-> j]]
  BY DEF Submit
<1> HIDE DEF b
<1>4. j \in Nat /\ (j # 0 => j \in DOMAIN jobs /\ jobs[j].key = Key(u, b))
  BY DEF IInv, Shape, Under
<1> DEFINE s == [at |-> IF j = 0 THEN "insert" ELSE "answer", user |-> u, batch |-> b, job |-> j]
<1>5. s \in Submission /\ s.at = (IF j = 0 THEN "insert" ELSE "answer") /\ s.user = u
      /\ s.batch = b /\ s.job = j
  BY <1>2, <1>4 DEF Submission
<1> HIDE DEF s, ready
<1>6. /\ caller' \in [Callers -> Submission] /\ caller'[c] = s
      /\ \A d \in Callers \ {c} : caller'[d] = caller[d]
  BY <1>3, <1>5 DEF IInv, Shape, s
<1>7. /\ UNCHANGED <<jobs, links, spared, worker, queue, life, edit, lost>>
      /\ life = "up" /\ caller[c].at = "idle"
  BY DEF Submit, store, history
<1>8. CallerOK(c)' /\ ~Sending(c)' /\ ~Sending(c)
  <2>1. CallKey(c)' = Key(u, b)
    BY <1>5, <1>6 DEF CallKey, Key
  <2> QED
    BY <1>2, <1>4, <1>5, <1>6, <1>7, <2>1 DEF CallerOK, Sending
<1>9. lost \subseteq DOMAIN jobs
  BY DEF IInv, Shape
<1> QED
  BY <1>6, <1>7, <1>8, <1>9, CallerMoves

\* The INSERT appends a row under a new key; its job is sent, or lost with the
\* reply.
LEMMA RowInserted ==
    ASSUME IInv, NEW c \in Callers, caller[c].at = "insert",
           Under(CallKey(c)) = {},
           jobs' = Append(jobs, NewJob(caller[c].user, caller[c].batch)),
           UNCHANGED <<links, spared, worker, queue, life, edit>>,
           caller' \in [Callers -> Submission],
           \A d \in Callers \ {c} : caller'[d] = caller[d],
           \/ /\ caller'[c].at = "send" /\ caller'[c].job = Len(jobs) + 1 /\ lost' = lost
              /\ caller'[c].user = caller[c].user /\ caller'[c].batch = caller[c].batch
           \/ caller'[c].at = "idle" /\ lost' = lost \cup {Len(jobs) + 1}
    PROVE  IInv'
<1>0. PICK u, b, n, r :
        u = caller[c].user /\ b = caller[c].batch /\ n = Len(jobs) + 1 /\ r = NewJob(u, b)
  OBVIOUS
<1>1. u \in Users /\ b \in Seq(ItemRow) /\ Len(b) > 0 /\ CallKey(c) = Key(u, b)
  <2>1. CallerOK(c) /\ caller[c] \in Submission
    BY CallerFields DEF IInv
  <2> QED
    BY <1>0, <2>1 DEF CallerOK, CallKey, Submission
<1>2. Key(u, b) \in Keys
  BY <1>1, KeyType
<1>3. /\ r \in JobRow /\ r.user = u /\ r.batch = b /\ r.key = Key(u, b) /\ r.status = "pending"
      /\ r.processed = 0 /\ r.success = 0 /\ r.fail = 0
  <2> DEFINE k == Key(u, b)
  <2>1. k \in Keys
    BY <1>2
  <2> HIDE DEF k
  <2>2. r = [user |-> u, batch |-> b, key |-> k, status |-> "pending",
             processed |-> 0, success |-> 0, fail |-> 0]
    BY <1>0 DEF NewJob, k
  <2> QED
    BY <1>1, <2>1, <2>2 DEF JobRow, Statuses, k
<1>4. /\ jobs' \in Seq(JobRow) /\ DOMAIN jobs' = 1..n /\ DOMAIN jobs = 1..Len(jobs)
      /\ Len(jobs) \in Nat /\ n \notin DOMAIN jobs /\ n \in DOMAIN jobs' /\ jobs'[n] = r
      /\ \A j \in DOMAIN jobs : j \in DOMAIN jobs' /\ jobs'[j] = jobs[j]
      /\ \A j \in DOMAIN jobs' : j \in DOMAIN jobs \/ j = n
  BY <1>0, <1>3 DEF IInv, Shape
<1>5. LinksOf(n) = {} /\ \A j : LinksOf(j)' = LinksOf(j)
  BY <1>4 DEF IInv, LinkJobs, LinksOf
<1>6. Shape'
  BY <1>0, <1>4 DEF IInv, Shape
<1>7. KeysUnique'
  <2>1. \A j \in DOMAIN jobs : jobs[j].key # Key(u, b)
    BY <1>1 DEF Under
  <2> QED
    BY <1>3, <1>4, <2>1 DEF IInv, KeysUnique
<1>8. LinkJobs'
  BY <1>4 DEF IInv, LinkJobs
<1>9. Apart' /\ LifeOK'
  <2>1. /\ \A p \in DOMAIN queue : queue[p] # n
        /\ \A w \in Workers : Working(w) => worker[w].job # n
        /\ \A d \in Callers : Sending(d) => caller[d].job # n
    BY <1>4 DEF IInv, Fresh, CallerOK, WorkerOK
  <2>2. \A d \in Callers : Sending(d)' => IF d = c THEN caller'[d].job = n
                                          ELSE Sending(d) /\ caller'[d] = caller[d]
    BY <1>0 DEF Sending
  <2>3. \A w \in Workers : Working(w)' <=> Working(w)
    BY DEF Working
  <2>4. Apart'
    BY <2>1, <2>2, <2>3 DEF IInv, Apart
  <2>5. life = "up"
    BY DEF IInv, LifeOK, Shape
  <2> QED
    BY <2>4, <2>5 DEF LifeOK
<1>10. ASSUME NEW j \in DOMAIN jobs PROVE JobOK(j)'
  <2>1. Held(j) => Held(j)'
    BY DEF Held, Sending, Working
  <2>2. JobOK(j) /\ Steady(j) /\ jobs'[j] = jobs[j]
    BY <1>4, LinksRest DEF IInv
  <2>3. jobs[j].status \in Final \/ j \in lost' \/ Held(j)'
    BY <2>1, <2>2 DEF JobOK
  <2> QED
    BY <2>2, <2>3, JobKept
<1>11. JobOK(n)'
  <2>1. n \in lost' \/ Held(n)'
    BY <1>0 DEF Held, Sending
  <2> QED
    BY <1>1, <1>3, <1>4, <2>1 DEF JobOK, Final
<1>12. Fresh(n)'
  BY <1>3, <1>4, <1>5 DEF Fresh
<1>13. \A j : Fresh(j) => Fresh(j)'
  BY <1>4, <1>5 DEF Fresh
<1>14. ASSUME NEW d \in Callers PROVE CallerOK(d)'
  <2>1. CASE d = c
    <3>1. caller'[c].at = "send" => CallKey(c)' = Key(u, b)
      BY <1>0 DEF CallKey, Key
    <3> QED
      BY <1>0, <1>1, <1>3, <1>4, <1>12, <2>1, <3>1 DEF CallerOK, Sending
  <2>2. CASE d # c
    <3>1. CallerOK(d) /\ caller'[d] = caller[d]
      BY <2>2 DEF IInv
    <3> QED
      BY <1>4, <1>13, <3>1, CallerKept DEF CallerOK
  <2> QED
    BY <2>1, <2>2
<1>15. ASSUME NEW w \in Workers PROVE WorkerOK(w)'
  <2>1. WorkerOK(w) /\ worker'[w] = worker[w] /\ Steady(worker[w].job)
    BY LinksRest DEF IInv
  <2> QED
    BY <1>4, <2>1, WorkerKept DEF WorkerOK
<1>16. \A j \in DOMAIN jobs' : JobOK(j)'
  BY <1>4, <1>10, <1>11
<1>17. \A p \in DOMAIN queue' : Fresh(queue[p])'
  BY <1>13 DEF IInv, Fresh, LinksOf
<1> QED
  BY <1>6, <1>7, <1>8, <1>9, <1>14, <1>15, <1>16, <1>17 DEF IInv

LEMMA InsertStep ==
    ASSUME IInv, NEW c \in Callers, SubmitInsert(c)
    PROVE  IInv'
<1>1. /\ UNCHANGED <<links, spared, worker, queue, life, edit>> /\ caller[c].at = "insert"
      /\ ~Sending(c) /\ lost \subseteq DOMAIN jobs /\ Shape
  BY DEF SubmitInsert, Sending, IInv, Shape
<1>2. CASE AtCaller(c, "refind") /\ UNCHANGED <<jobs, lost>>
  <2>1. /\ caller' \in [Callers -> Submission]
        /\ \A d \in Callers \ {c} : caller'[d] = caller[d]
        /\ caller'[c].at = "refind" /\ caller'[c].user = caller[c].user
        /\ caller'[c].batch = caller[c].batch
    BY <1>1, <1>2, CallerFields
  <2>2. CallerOK(c)
    BY DEF IInv
  <2>3. CallerOK(c)' /\ ~Sending(c)'
    BY <1>1, <2>1, <2>2 DEF CallerOK, Sending
  <2> QED
    BY <1>1, <1>2, <2>1, <2>3, CallerMoves
<1>3. CASE Reply(c) /\ UNCHANGED <<jobs, lost>>
  BY <1>1, <1>3, ReplyStep
<1>4. ASSUME Under(CallKey(c)) = {},
             jobs' = Append(jobs, NewJob(caller[c].user, caller[c].batch)),
             \/ lost' = lost /\ caller' = [caller EXCEPT ![c].at = "send", ![c].job = Len(jobs')]
             \/ Cut(Len(jobs')) /\ Reply(c)
      PROVE  IInv'
  <2>1. Len(jobs') = Len(jobs) + 1 /\ Len(jobs) + 1 \in Nat
    BY <1>1, <1>4 DEF Shape
  <2>2. CASE lost' = lost /\ caller' = [caller EXCEPT ![c].at = "send", ![c].job = Len(jobs')]
    <3>1. /\ caller' \in [Callers -> Submission]
          /\ \A d \in Callers \ {c} : caller'[d] = caller[d]
          /\ caller'[c].at = "send" /\ caller'[c].user = caller[c].user
          /\ caller'[c].batch = caller[c].batch /\ caller'[c].job = Len(jobs) + 1
      BY <1>1, <2>1, <2>2, CallerFields
    <3> QED
      BY <1>1, <1>4, <2>2, <3>1, RowInserted
  <2>3. CASE Cut(Len(jobs')) /\ Reply(c)
    <3>1. /\ caller' \in [Callers -> Submission]
          /\ \A d \in Callers \ {c} : caller'[d] = caller[d]
          /\ caller'[c].at = "idle" /\ lost' = lost \cup {Len(jobs) + 1}
      BY <1>1, <2>1, <2>3, CallerFields DEF Cut
    <3> QED
      BY <1>1, <1>4, <3>1, RowInserted
  <2> QED
    BY <1>4, <2>2, <2>3
<1> QED
  BY <1>2, <1>3, <1>4 DEF SubmitInsert

LEMMA RefindStep ==
    ASSUME IInv, NEW c \in Callers, SubmitRefind(c)
    PROVE  IInv'
<1>1. /\ UNCHANGED <<jobs, links, spared, worker, queue, life, edit, lost>>
      /\ caller[c].at = "refind" /\ ~Sending(c) /\ lost \subseteq DOMAIN jobs /\ Shape
  BY DEF SubmitRefind, store, Sending, IInv, Shape
<1>2. CASE Reply(c)
  BY <1>1, <1>2, ReplyStep
<1>3. ASSUME NEW j \in Under(CallKey(c)), Accept(c, j) PROVE IInv'
  <2>1. j \in Nat /\ j \in DOMAIN jobs /\ jobs[j].key = CallKey(c)
    BY <1>1 DEF Under, Shape
  <2>2. /\ caller' \in [Callers -> Submission]
        /\ \A d \in Callers \ {c} : caller'[d] = caller[d]
        /\ caller'[c].at = "answer" /\ caller'[c].user = caller[c].user
        /\ caller'[c].batch = caller[c].batch /\ caller'[c].job = j
    BY <1>1, <1>3, <2>1, CallerFields DEF Accept
  <2>3. CallerOK(c) /\ CallKey(c)' = CallKey(c)
    BY <2>2 DEF IInv, CallKey
  <2>4. CallerOK(c)' /\ ~Sending(c)'
    BY <1>1, <2>1, <2>2, <2>3 DEF CallerOK, Sending
  <2> QED
    BY <1>1, <2>2, <2>4, CallerMoves
<1> QED
  BY <1>2, <1>3 DEF SubmitRefind

LEMMA AnswerStep ==
    ASSUME IInv, NEW c \in Callers, Answer(c)
    PROVE  IInv'
<1>1. /\ UNCHANGED <<jobs, links, spared, worker, queue, life, edit, lost>>
      /\ caller[c].at = "answer" /\ ~Sending(c) /\ lost \subseteq DOMAIN jobs /\ Reply(c)
  BY DEF Answer, store, history, Sending, IInv, Shape
<1> QED
  BY <1>1, ReplyStep

\* The job goes from its caller to the end of the channel.
LEMMA SendStep ==
    ASSUME IInv, NEW c \in Callers, SubmitSend(c)
    PROVE  IInv'
<1>1. /\ UNCHANGED <<jobs, links, spared, worker, life, edit, lost>>
      /\ caller[c].at = "send" /\ Sending(c) /\ lost \subseteq DOMAIN jobs /\ Shape /\ CallerOK(c)
  BY DEF SubmitSend, store, Sending, IInv, Shape
<1>2. CASE AtCaller(c, "refuse") /\ UNCHANGED queue
  <2>1. /\ caller' \in [Callers -> Submission]
        /\ \A d \in Callers \ {c} : caller'[d] = caller[d]
        /\ caller'[c].at = "refuse" /\ caller'[c].user = caller[c].user
        /\ caller'[c].batch = caller[c].batch /\ caller'[c].job = caller[c].job
    BY <1>1, <1>2, CallerFields
  <2>2. CallKey(c)' = CallKey(c) /\ Fresh(caller[c].job)'
    BY <1>1, <2>1 DEF CallKey, CallerOK, Fresh, LinksOf
  <2>3. CallerOK(c)' /\ Sending(c)'
    BY <1>1, <2>1, <2>2 DEF CallerOK, Sending
  <2> QED
    BY <1>1, <1>2, <2>1, <2>3, CallerMoves
<1>3. ASSUME Len(queue) < QueueCap, queue' = Append(queue, caller[c].job),
             Accept(c, caller[c].job)
      PROVE  IInv'
  <2>0. PICK j : j = caller[c].job
    OBVIOUS
  <2>1. j \in DOMAIN jobs /\ j \in Nat /\ Fresh(j) /\ jobs[j].key = CallKey(c)
    BY <1>1, <2>0 DEF CallerOK, Shape
  <2>2. /\ caller' \in [Callers -> Submission]
        /\ \A d \in Callers \ {c} : caller'[d] = caller[d]
        /\ caller'[c].at = "answer" /\ caller'[c].user = caller[c].user
        /\ caller'[c].batch = caller[c].batch /\ caller'[c].job = j
    BY <1>1, <1>3, <2>0, <2>1, CallerFields DEF Accept
  <2>3. /\ queue' \in Seq(Nat) /\ Len(queue') = Len(queue) + 1 /\ Len(queue) \in Nat
        /\ DOMAIN queue' = 1..(Len(queue) + 1) /\ DOMAIN queue = 1..Len(queue)
        /\ \A p \in DOMAIN queue : p \in DOMAIN queue' /\ queue'[p] = queue[p]
        /\ Len(queue) + 1 \in DOMAIN queue' /\ queue'[Len(queue) + 1] = j
        /\ \A p \in DOMAIN queue' : p \in DOMAIN queue \/ p = Len(queue) + 1
    BY <1>1, <1>3, <2>0, <2>1 DEF Shape
  <2>4. Shape'
    <3>1. Len(queue') <= QueueCap
      BY <1>3, <2>3, BatchAssumption
    <3> QED
      BY <1>1, <2>2, <2>3, <3>1 DEF Shape
  <2>5. \A d \in Callers : Sending(d)' => d # c /\ Sending(d) /\ caller'[d].job = caller[d].job
    BY <2>2 DEF Sending
  <2>6. Apart'
    <3>1. /\ \A p \in DOMAIN queue : queue[p] # j
          /\ \A w \in Workers : Working(w) => worker[w].job # j
          /\ \A d \in Callers : Sending(d) /\ d # c => caller[d].job # j
      BY <1>1, <2>0 DEF IInv, Apart
    <3>2. \A w \in Workers : Working(w)' <=> Working(w)
      BY <1>1 DEF Working
    <3> QED
      BY <1>1, <2>3, <2>5, <3>1, <3>2 DEF IInv, Apart
  <2>7. LifeOK'
    <3>1. life = "up"
      BY <1>1 DEF IInv, LifeOK
    <3> QED
      BY <1>1, <3>1 DEF LifeOK
  <2>8. ASSUME NEW i \in DOMAIN jobs, Held(i) PROVE Held(i)'
    <3>1. CASE \E p \in DOMAIN queue : queue[p] = i
      BY <2>3, <3>1 DEF Held
    <3>2. CASE \E w \in Workers : Working(w) /\ worker[w].job = i
      BY <1>1, <3>2 DEF Held, Working
    <3>3. CASE \E d \in Callers : Sending(d) /\ caller[d].job = i
      BY <2>0, <2>2, <2>3, <3>3 DEF Held, Sending
    <3> QED
      BY <2>8, <3>1, <3>2, <3>3 DEF Held
  <2>9. \A p \in DOMAIN queue' : Fresh(queue'[p])
    BY <2>1, <2>3 DEF IInv
  <2>10. ASSUME NEW d \in Callers PROVE CallerOK(d)'
    <3>1. CASE d = c
      <4>1. CallKey(c)' = CallKey(c)
        BY <2>2 DEF CallKey
      <4> QED
        BY <1>1, <2>1, <2>2, <3>1, <4>1 DEF CallerOK, Sending
    <3>2. CASE d # c
      <4>1. CallerOK(d) /\ caller'[d] = caller[d]
        BY <2>2, <3>2 DEF IInv
      <4> QED
        BY <1>1, <4>1, LinksRest DEF CallerOK, Sending, Fresh, LinksOf, CallKey
    <3> QED
      BY <3>1, <3>2
  <2>11. ASSUME NEW w \in Workers PROVE WorkerOK(w)'
    <3>1. WorkerOK(w) /\ worker'[w] = worker[w] /\ Steady(worker[w].job)
      BY <1>1, LinksRest DEF IInv
    <3> QED
      BY <1>1, <3>1, WorkerKept DEF WorkerOK
  <2> QED
    BY <1>1, <2>4, <2>6, <2>7, <2>8, <2>9, <2>10, <2>11, StoreRests
<1> QED
  BY <1>2, <1>3 DEF SubmitSend

\* The row of job j changes, but not whose it is.
RowChanges(j) ==
    /\ jobs' \in Seq(JobRow) /\ DOMAIN jobs' = DOMAIN jobs
    /\ \A i \in DOMAIN jobs : i # j => jobs'[i] = jobs[i]
    /\ jobs'[j].user = jobs[j].user /\ jobs'[j].batch = jobs[j].batch
    /\ jobs'[j].key = jobs[j].key

LEMMA RowSaved ==
    ASSUME Shape, NEW j \in DOMAIN jobs, NEW r \in JobRow, jobs' = [jobs EXCEPT ![j] = r],
           r.user = jobs[j].user, r.batch = jobs[j].batch, r.key = jobs[j].key
    PROVE  RowChanges(j) /\ jobs'[j] = r
BY DEF Shape, RowChanges

LEMMA RefuseStep ==
    ASSUME IInv, NEW c \in Callers, SubmitRefuse(c)
    PROVE  IInv'
<1>0. PICK j : j = caller[c].job
  OBVIOUS
<1>1. /\ UNCHANGED <<links, spared, worker, queue, life, edit>>
      /\ caller[c].at = "refuse" /\ Sending(c) /\ Shape /\ CallerOK(c) /\ Reply(c)
  BY DEF SubmitRefuse, Sending, IInv
<1>2. j \in DOMAIN jobs /\ Fresh(j) /\ JobOK(j) /\ jobs[j] \in JobRow
  BY <1>0, <1>1 DEF CallerOK, IInv, Shape
<1>3. CASE Cut(j) /\ UNCHANGED jobs
  BY <1>0, <1>1, <1>2, <1>3, ReplyStep DEF Cut, Shape
<1>4. ASSUME jobs' = [jobs EXCEPT ![j].status = "failed"], UNCHANGED lost PROVE IInv'
  <2> DEFINE r == [jobs[j] EXCEPT !.status = "failed"]
  <2>1. /\ r \in JobRow /\ r.user = jobs[j].user /\ r.batch = jobs[j].batch
        /\ r.key = jobs[j].key /\ r.status = "failed" /\ r.processed = jobs[j].processed
        /\ r.success = jobs[j].success /\ r.fail = jobs[j].fail
    BY <1>2 DEF JobRow, Statuses, Final
  <2>2. jobs' = [jobs EXCEPT ![j] = r]
    BY <1>4
  <2> HIDE DEF r
  <2>3. RowChanges(j) /\ jobs'[j] = r
    BY <1>1, <1>2, <2>1, <2>2, RowSaved
  <2>4. /\ caller' \in [Callers -> Submission]
        /\ \A d \in Callers \ {c} : caller'[d] = caller[d]
        /\ caller'[c].at = "idle"
    BY <1>1, CallerFields
  <2>5. Shape'
    BY <1>1, <1>4, <2>3, <2>4 DEF Shape, RowChanges
  <2>6. KeysUnique' /\ LinkJobs'
    BY <1>1, <2>3 DEF IInv, KeysUnique, LinkJobs, RowChanges
  <2>7. \A d \in Callers : Sending(d)' => d # c /\ Sending(d) /\ caller'[d] = caller[d]
    BY <2>4 DEF Sending
  <2>8. \A w \in Workers : Working(w)' <=> Working(w)
    BY <1>1 DEF Working
  <2>9. Apart' /\ LifeOK'
    <3>1. Apart'
      BY <1>1, <2>7, <2>8 DEF IInv, Apart
    <3>2. LifeOK'
      BY <1>1, <2>4 DEF IInv, LifeOK
    <3> QED
      BY <3>1, <3>2
  <2>10. /\ \A p \in DOMAIN queue : queue[p] # j
         /\ \A w \in Workers : Working(w) => worker[w].job # j
         /\ \A d \in Callers : Sending(d) /\ d # c => caller[d].job # j
    BY <1>0, <1>1 DEF IInv, Apart
  <2>11. \A i : i # j /\ Fresh(i) => Fresh(i)'
    BY <1>1, <2>3 DEF Fresh, LinksOf, RowChanges
  <2>12. ASSUME NEW i \in DOMAIN jobs' PROVE JobOK(i)'
    <3>1. CASE i = j
      <4>1. Gone(j)'
        BY <1>1, <1>2 DEF Gone, Fresh, LinksOf
      <4>2. JobOK(j)'
        BY <1>2, <2>1, <2>3, <4>1 DEF JobOK, Final, Fresh
      <4> QED
        BY <3>1, <4>2
    <3>2. CASE i # j
      <4>1. JobOK(i) /\ jobs'[i] = jobs[i] /\ Steady(i)
        BY <1>1, <2>3, <3>2, LinksRest DEF IInv, RowChanges
      <4>2. Held(i) => Held(i)'
        BY <1>0, <1>1, <2>4, <3>2 DEF Held, Sending, Working
      <4>3. jobs[i].status \in Final \/ i \in lost' \/ Held(i)'
        BY <1>4, <4>1, <4>2 DEF JobOK
      <4> QED
        BY <1>1, <4>1, <4>3, JobKept
    <3> QED
      BY <3>1, <3>2
  <2>13. ASSUME NEW d \in Callers PROVE CallerOK(d)'
    <3>1. CASE d = c
      BY <2>4, <3>1 DEF CallerOK, Sending
    <3>2. CASE d # c
      <4>1. CallerOK(d) /\ caller'[d] = caller[d]
        BY <2>4, <3>2 DEF IInv
      <4>2. \A i \in DOMAIN jobs : i \in DOMAIN jobs' /\ jobs'[i].key = jobs[i].key
        BY <2>3 DEF RowChanges
      <4>3. Sending(d) => Fresh(caller[d].job)'
        <5>1. PICK i : i = caller[d].job
          OBVIOUS
        <5>2. Sending(d) => Fresh(i)'
          BY <2>10, <2>11, <3>2, <4>1, <5>1 DEF CallerOK
        <5> QED
          BY <4>1, <5>1, <5>2
      <4> QED
        BY <4>1, <4>2, <4>3, CallerKept
    <3> QED
      BY <3>1, <3>2
  <2>14. ASSUME NEW w \in Workers PROVE WorkerOK(w)'
    <3>1. WorkerOK(w) /\ worker'[w] = worker[w] /\ Steady(worker[w].job)
      BY <1>1, LinksRest DEF IInv
    <3>2. Working(w) => /\ worker[w].job \in DOMAIN jobs'
                        /\ jobs'[worker[w].job] = jobs[worker[w].job]
      BY <2>3, <2>10, <3>1 DEF WorkerOK, RowChanges
    <3> QED
      BY <1>1, <3>1, <3>2, WorkerKept DEF WorkerOK
  <2>15. ASSUME NEW p \in DOMAIN queue' PROVE Fresh(queue[p])'
    <3>1. PICK i : i = queue[p] /\ queue' = queue
      BY <1>1
    <3>2. Fresh(i)'
      BY <2>10, <2>11, <3>1 DEF IInv
    <3> QED
      BY <3>1, <3>2
  <2> QED
    BY <2>5, <2>6, <2>9, <2>12, <2>13, <2>14, <2>15 DEF IInv
<1> QED
  BY <1>0, <1>3, <1>4 DEF SubmitRefuse

-----------------------------------------------------------------------------
\* Workers.

\* The head of the channel goes to worker w, or is lost.
LEMMA TakeStep ==
    ASSUME IInv, NEW w \in Workers, WorkerTake(w)
    PROVE  IInv'
<1>0. PICK j : j = Head(queue)
  OBVIOUS
<1>1. /\ UNCHANGED <<jobs, links, spared, caller, life, edit>> /\ Shape
      /\ life \in {"up", "closing"} /\ worker[w].at = "idle" /\ ~Working(w)
      /\ queue # <<>> /\ queue' = Tail(queue)
  BY DEF WorkerTake, store, Working, IInv
<1>2. /\ queue' \in Seq(Nat) /\ Len(queue') = Len(queue) - 1 /\ Len(queue) \in Nat \ {0}
      /\ DOMAIN queue = 1..Len(queue) /\ DOMAIN queue' = 1..(Len(queue) - 1)
      /\ \A p \in DOMAIN queue' : p + 1 \in DOMAIN queue /\ queue'[p] = queue[p + 1]
      /\ 1 \in DOMAIN queue /\ queue[1] = j
      /\ \A p \in DOMAIN queue : p = 1 \/ (p - 1 \in DOMAIN queue' /\ queue'[p - 1] = queue[p])
  BY <1>0, <1>1 DEF Shape
<1>3. Fresh(j) /\ j \in DOMAIN jobs /\ JobOK(j) /\ j \in Nat
  <2>1. Fresh(j)
    <3>1. \A p \in DOMAIN queue : Fresh(queue[p])
      BY DEF IInv
    <3> QED
      BY <3>1, <1>2
  <2>2. j \in DOMAIN jobs
    BY <2>1 DEF Fresh
  <2>3. JobOK(j)
    BY <2>2 DEF IInv
  <2>4. j \in Nat
    <3>1. jobs \in Seq(JobRow)
      BY <1>1 DEF Shape
    <3> QED
      BY <2>2, <3>1
  <2> QED
    BY <2>1, <2>2, <2>3, <2>4
<1>4. /\ \A p \in DOMAIN queue' : queue'[p] # j
      /\ \A v \in Workers : Working(v) => worker[v].job # j
      /\ \A c \in Callers : Sending(c) => caller[c].job # j
  BY <1>2 DEF IInv, Apart
<1>5. /\ \/ worker' = [worker EXCEPT ![w] = Begun(j)] /\ lost' = lost
         \/ worker' = worker /\ lost' = lost \cup {j}
  BY <1>0 DEF WorkerTake, Cut
<1>6. Begun(j) \in Work /\ Begun(j).at = "start" /\ Begun(j).job = j /\ Begun(j).made = <<>>
      /\ Begun(j).bad = 0
  BY <1>3 DEF Begun, Work
<1>7. /\ worker' \in [Workers -> Work] /\ \A v \in Workers \ {w} : worker'[v] = worker[v]
      /\ \/ worker'[w] = Begun(j) /\ lost' = lost
         \/ worker'[w] = worker[w] /\ lost' = lost \cup {j}
  BY <1>1, <1>5, <1>6 DEF Shape
<1>8. Shape'
  <2>1. Len(queue') <= QueueCap
    BY <1>1, <1>2, BatchAssumption DEF Shape
  <2> QED
    BY <1>1, <1>2, <1>3, <1>7, <2>1 DEF Shape
<1>9. \A v \in Workers : Working(v)' =>
        \/ v = w /\ worker'[v].job = j
        \/ Working(v) /\ worker'[v].job = worker[v].job
  BY <1>1, <1>6, <1>7 DEF Working
<1>10. \A c \in Callers : Sending(c)' <=> Sending(c)
  BY <1>1 DEF Sending
<1>11. Apart'
  <2>1. \A p, q \in DOMAIN queue' : queue'[p] = queue'[q] => p = q
    BY <1>2 DEF IInv, Apart
  <2>2. \A p \in DOMAIN queue' :
          /\ \A v \in Workers : Working(v)' => worker'[v].job # queue'[p]
          /\ \A c \in Callers : Sending(c)' => caller'[c].job # queue'[p]
    BY <1>1, <1>2, <1>4, <1>9, <1>10 DEF IInv, Apart
  <2>3. \A v, x \in Workers :
          Working(v)' /\ Working(x)' /\ worker'[v].job = worker'[x].job => v = x
    BY <1>4, <1>9, <1>1 DEF IInv, Apart
  <2> QED
    BY <1>1, <1>4, <1>9, <1>10, <2>1, <2>2, <2>3 DEF IInv, Apart
<1>12. LifeOK'
  BY <1>1 DEF IInv, LifeOK
<1>13. ASSUME NEW i \in DOMAIN jobs, Held(i) PROVE Held(i)' \/ i \in lost'
  <2>1. CASE \E p \in DOMAIN queue : queue[p] = i
    BY <1>2, <1>6, <1>7, <2>1 DEF Held, Working
  <2>2. CASE \E v \in Workers : Working(v) /\ worker[v].job = i
    BY <1>1, <1>7, <2>2 DEF Held, Working
  <2>3. CASE \E c \in Callers : Sending(c) /\ caller[c].job = i
    BY <1>1, <2>3 DEF Held, Sending
  <2> QED
    BY <1>13, <2>1, <2>2, <2>3 DEF Held
<1>14. \A p \in DOMAIN queue' : Fresh(queue'[p])
  BY <1>2 DEF IInv
<1>15. \A c \in Callers : CallerOK(c)'
  <2>1. \A i : Fresh(i)' <=> Fresh(i)
    BY <1>1 DEF Fresh, LinksOf
  <2> QED
    BY <1>1, <1>10, <2>1 DEF IInv, CallerOK, CallKey, Sending, Fresh, LinksOf
<1>16. ASSUME NEW v \in Workers PROVE WorkerOK(v)'
  <2>1. CASE worker'[v] = worker[v]
    <3>1. WorkerOK(v) /\ Steady(worker[v].job)
      BY <1>1, LinksRest DEF IInv
    <3> QED
      BY <1>1, <2>1, <3>1, WorkerKept DEF WorkerOK
  <2>2. CASE v = w /\ worker'[w] = Begun(j)
    <3>1. Tracked(w)'
      BY <1>1, <1>3, <1>6, <2>2 DEF Tracked, MadeFor, Fresh, LinksOf
    <3> QED
      BY <1>1, <1>3, <1>6, <2>2, <3>1 DEF WorkerOK, JobOK, Fresh, Final
  <2> QED
    BY <1>7, <2>1, <2>2
<1>17. lost \subseteq lost'
  BY <1>5
<1> QED
  BY <1>1, <1>8, <1>11, <1>12, <1>13, <1>14, <1>15, <1>16, <1>17, StoreRests

\* Links of other jobs stay as they are; rows that are added belong to job j.
LinksFor(j) ==
    /\ links' \in Seq(LinkRow)
    /\ \A i \in DOMAIN links : i \in DOMAIN links' /\ links'[i].job = links[i].job
    /\ \A i \in DOMAIN links : links[i].job # j => links'[i] = links[i]
    /\ \A i \in DOMAIN links' \ DOMAIN links : links'[i].job = j

LEMMA OthersSteady ==
    ASSUME NEW j, LinksFor(j), NEW i, i # j
    PROVE  Steady(i)
BY DEF LinksFor, Steady, LinksOf

\* A step of worker w that has job j, which it keeps or is done with.
LEMMA WorkerMoves ==
    ASSUME IInv, NEW w \in Workers, Working(w), NEW j, j = worker[w].job,
           UNCHANGED <<life, caller, queue, edit>>,
           RowChanges(j), LinksFor(j),
           worker' \in [Workers -> Work], \A v \in Workers \ {w} : worker'[v] = worker[v],
           Working(w)' => worker'[w].job = j,
           spared \subseteq spared', spared' \subseteq DOMAIN links',
           lost \subseteq lost', lost' \subseteq DOMAIN jobs,
           WorkerOK(w)', JobOK(j)'
    PROVE  IInv'
<1>1. j \in DOMAIN jobs /\ Shape
  BY DEF IInv, WorkerOK
<1>2. Shape'
  <2>1. edit' \in {0} \cup DOMAIN links'
    BY <1>1 DEF Shape, LinksFor
  <2> QED
    BY <1>1, <2>1 DEF Shape, RowChanges, LinksFor
<1>3. KeysUnique' /\ LinkJobs'
  <2>1. LinkJobs'
    BY <1>1 DEF IInv, LinkJobs, LinksFor, RowChanges
  <2> QED
    BY <2>1 DEF IInv, KeysUnique, RowChanges
<1>4. /\ \A v \in Workers : Working(v)' => Working(v) /\ worker'[v].job = worker[v].job
      /\ \A v \in Workers : Working(v) /\ v # w => Working(v)' /\ worker'[v].job = worker[v].job
      /\ \A c \in Callers : Sending(c)' <=> Sending(c)
  BY DEF Working, Sending
<1>5. Apart' /\ LifeOK'
  <2>1. Apart'
    BY <1>4 DEF IInv, Apart
  <2>2. life # "down"
    BY DEF IInv, LifeOK, Working
  <2>3. LifeOK'
    BY <2>2 DEF IInv, LifeOK
  <2> QED
    BY <2>1, <2>3
<1>6. /\ \A p \in DOMAIN queue : queue[p] # j
      /\ \A v \in Workers : Working(v) /\ v # w => worker[v].job # j
      /\ \A c \in Callers : Sending(c) => caller[c].job # j
  BY DEF IInv, Apart
<1>7. \A i : i # j /\ Fresh(i) => Fresh(i)'
  <2>1. \A i : i # j => LinksOf(i)' = LinksOf(i)
    BY OthersSteady DEF Steady
  <2> QED
    BY <2>1 DEF Fresh, RowChanges
<1>8. ASSUME NEW i \in DOMAIN jobs' PROVE JobOK(i)'
  <2>1. CASE i # j
    <3>1. JobOK(i) /\ jobs'[i] = jobs[i] /\ Steady(i)
      BY <2>1, OthersSteady DEF IInv, RowChanges
    <3>2. Held(i) => Held(i)'
      BY <1>4, <2>1 DEF Held
    <3>3. jobs[i].status \in Final \/ i \in lost' \/ Held(i)'
      BY <3>1, <3>2 DEF JobOK
    <3> QED
      BY <3>1, <3>3, JobKept
  <2> QED
    BY <2>1
<1>9. ASSUME NEW c \in Callers PROVE CallerOK(c)'
  <2>1. CallerOK(c) /\ caller'[c] = caller[c]
    BY DEF IInv
  <2>2. \A i \in DOMAIN jobs : i \in DOMAIN jobs' /\ jobs'[i].key = jobs[i].key
    BY <1>1 DEF RowChanges
  <2>3. Sending(c) => Fresh(caller[c].job)'
    <3>1. PICK i : i = caller[c].job
      OBVIOUS
    <3>2. Sending(c) => Fresh(i)'
      BY <1>6, <1>7, <2>1, <3>1 DEF CallerOK
    <3> QED
      BY <2>1, <3>1, <3>2
  <2> QED
    BY <2>1, <2>2, <2>3, CallerKept
<1>10. ASSUME NEW v \in Workers PROVE WorkerOK(v)'
  <2>1. CASE v # w
    <3>1. WorkerOK(v) /\ worker'[v] = worker[v]
      BY <2>1 DEF IInv
    <3>2. Working(v) => /\ worker[v].job \in DOMAIN jobs' /\ Steady(worker[v].job)
                        /\ jobs'[worker[v].job] = jobs[worker[v].job]
      BY <1>6, <2>1, <3>1, OthersSteady DEF WorkerOK, RowChanges
    <3> QED
      BY <3>1, <3>2, WorkerKept DEF WorkerOK
  <2> QED
    BY <2>1
<1>11. ASSUME NEW p \in DOMAIN queue' PROVE Fresh(queue[p])'
  <2>1. PICK i : i = queue[p] /\ queue' = queue
    OBVIOUS
  <2>2. Fresh(i)'
    BY <1>6, <1>7, <2>1 DEF IInv
  <2> QED
    BY <2>1, <2>2
<1> QED
  BY <1>2, <1>3, <1>5, <1>8, <1>9, <1>10, <1>11 DEF IInv

\* What a worker's step leaves it with.
LEMMA WorkerFields ==
    ASSUME Shape, NEW w \in Workers, NEW r \in Work, worker' = [worker EXCEPT ![w] = r]
    PROVE  /\ worker' \in [Workers -> Work] /\ worker'[w] = r
           /\ \A v \in Workers \ {w} : worker'[v] = worker[v]
BY DEF Shape

LEMMA StartStep ==
    ASSUME IInv, NEW w \in Workers, WorkerStart(w)
    PROVE  IInv'
<1>0. PICK j : j = worker[w].job
  OBVIOUS
<1>1. /\ UNCHANGED <<links, life, caller, queue, lost, spared, edit>> /\ Shape
      /\ worker[w].at = "start" /\ Working(w) /\ WorkerOK(w)
      /\ worker' = [worker EXCEPT ![w].at = "items"]
      /\ jobs' = [jobs EXCEPT ![j].status = "running"] \/ jobs' = jobs
  BY <1>0 DEF WorkerStart, Working, IInv
<1>2. j \in DOMAIN jobs /\ JobOK(j) /\ jobs[j] \in JobRow /\ worker[w] \in Work
  BY <1>0, <1>1 DEF WorkerOK, IInv, Shape
<1> DEFINE r == [jobs[j] EXCEPT !.status = "running"]
           s == [worker[w] EXCEPT !.at = "items"]
<1>3. /\ r \in JobRow /\ r.user = jobs[j].user /\ r.batch = jobs[j].batch /\ r.key = jobs[j].key
      /\ r.status = "running" /\ r.processed = jobs[j].processed
      /\ r.success = jobs[j].success /\ r.fail = jobs[j].fail
  BY <1>2 DEF JobRow, Statuses
<1>4. /\ s \in Work /\ s.at = "items" /\ s.job = j /\ s.made = worker[w].made
      /\ s.bad = worker[w].bad
  BY <1>0, <1>2 DEF Work
<1>5. jobs' = [jobs EXCEPT ![j] = r] \/ jobs' = jobs
  BY <1>1
<1>6. worker' = [worker EXCEPT ![w] = s]
  BY <1>1
<1> HIDE DEF r, s
<1>7. RowChanges(j) /\ (jobs'[j] = r \/ jobs'[j] = jobs[j])
  <2>1. CASE jobs' = [jobs EXCEPT ![j] = r]
    BY <1>1, <1>2, <1>3, <2>1, RowSaved
  <2>2. CASE jobs' = jobs
    BY <1>1, <2>2 DEF RowChanges, Shape
  <2> QED
    BY <1>5, <2>1, <2>2
<1>8. /\ worker' \in [Workers -> Work] /\ worker'[w] = s
      /\ \A v \in Workers \ {w} : worker'[v] = worker[v]
  BY <1>1, <1>4, <1>6, WorkerFields
<1>9. LinksFor(j)
  BY <1>1 DEF LinksFor, Shape
<1>10. WorkerOK(w)' /\ Working(w)'
  <2>1. Tracked(w)'
    BY <1>0, <1>1, <1>4, <1>8 DEF WorkerOK, Tracked, MadeFor, LinksOf
  <2> QED
    BY <1>0, <1>1, <1>2, <1>3, <1>4, <1>7, <1>8, <2>1
       DEF WorkerOK, Working, JobOK, RowChanges, Final
<1>11. JobOK(j)'
  <2>1. Held(j)'
    BY <1>4, <1>8, <1>10 DEF Held
  <2>2. jobs'[j].status \notin Final
    BY <1>0, <1>1, <1>3, <1>7 DEF WorkerOK, Final
  <2> QED
    BY <1>2, <1>3, <1>7, <2>1, <2>2 DEF JobOK, Final
<1> QED
  BY <1>0, <1>1, <1>4, <1>7, <1>8, <1>9, <1>10, <1>11, WorkerMoves DEF Shape

\* A worker goes on after an item, with the links it has made and what it counted.
LEMMA ItemDone ==
    ASSUME IInv, NEW w \in Workers, worker[w].at = "items", NEW j, j = worker[w].job,
           UNCHANGED <<life, caller, queue, lost, edit>>,
           spared \subseteq spared', spared' \subseteq DOMAIN links',
           LinksFor(j), RowChanges(j), jobs'[j].status = jobs[j].status,
           jobs'[j].processed <= Len(jobs[j].batch),
           jobs'[j].success + jobs'[j].fail = jobs'[j].processed,
           NEW made \in Seq(Nat), NEW bad \in Nat, Len(made) = Len(worker[w].made) + 1,
           NextItem(w, made, bad), MadeFor(j, made, bad)'
    PROVE  IInv'
<1>0. PICK b : b = jobs[j].batch
  OBVIOUS
<1>1. /\ Working(w) /\ WorkerOK(w) /\ Shape /\ worker[w] \in Work /\ j \in DOMAIN jobs
      /\ JobOK(j) /\ jobs[j] \in JobRow /\ jobs[j].status \notin Final
  BY DEF Working, IInv, WorkerOK, Shape
<1>2. /\ Len(worker[w].made) < Len(b) /\ Len(b) \in Nat /\ Len(made) \in Nat
      /\ Len(worker[w].made) \in Nat
  BY <1>0, <1>1 DEF WorkerOK, JobRow, Work
<1> DEFINE at == IF Len(made) < Len(b) THEN "items"
                 ELSE IF bad > 0 /\ Ids(made) # {} THEN "undo" ELSE "finish"
           r == [worker[w] EXCEPT !.made = made, !.bad = bad, !.at = at]
<1>3. r \in Work /\ r.at = at /\ r.job = j /\ r.made = made /\ r.bad = bad
  BY <1>1 DEF Work
<1>4. worker' = [worker EXCEPT ![w] = r]
  BY <1>0 DEF NextItem, Doing
<1> HIDE DEF r
<1>5. /\ worker' \in [Workers -> Work] /\ worker'[w] = r
      /\ \A v \in Workers \ {w} : worker'[v] = worker[v]
  BY <1>1, <1>3, <1>4, WorkerFields
<1>6. Working(w)' /\ worker'[w].job = j
  BY <1>3, <1>5 DEF Working
<1>7. /\ jobs'[j].batch = b /\ j \in DOMAIN jobs' /\ jobs'[j].status \notin Final
  BY <1>0, <1>1 DEF RowChanges
<1>8. Tracked(w)'
  BY <1>3, <1>5 DEF Tracked, MadeFor
<1>9. at = "undo" => bad > 0 /\ Undoing(w)'
  BY <1>3, <1>5 DEF Undoing, MadeFor
<1>10. at = "finish" => bad = 0 \/ \A n \in DOMAIN made : made[n] = 0
  <2>1. Ids(made) = {} => \A n \in DOMAIN made : made[n] = 0
    BY DEF Ids
  <2>2. bad > 0 \/ bad = 0
    OBVIOUS
  <2> QED
    BY <1>2, <2>1, <2>2
<1>11. WorkerOK(w)'
  <2>1. /\ Len(made) <= Len(b)
        /\ at = "items" => Len(made) < Len(b)
        /\ at \in {"undo", "finish"} => Len(made) = Len(b)
        /\ at \in {"items", "undo", "finish"}
    BY <1>2
  <2> HIDE DEF at
  <2> QED
    BY <1>3, <1>5, <1>7, <1>8, <1>9, <1>10, <2>1 DEF WorkerOK, Working
<1>12. JobOK(j)'
  <2>1. Held(j)'
    BY <1>6 DEF Held
  <2> QED
    BY <1>0, <1>1, <1>7, <2>1 DEF JobOK, RowChanges, Final
<1> QED
  BY <1>1, <1>5, <1>6, <1>7, <1>11, <1>12, WorkerMoves DEF Shape, LinksFor

\* The progress update writes counters that add up, or nothing.
LEMMA ProgressRow ==
    ASSUME Shape, NEW w \in Workers, NEW j \in DOMAIN jobs, j = worker[w].job, JobOK(j),
           NEW n \in Nat, NEW bad \in Nat, n <= Len(jobs[j].batch),
           Progress(w, n, bad) \/ jobs' = jobs
    PROVE  /\ RowChanges(j) /\ jobs'[j].status = jobs[j].status
           /\ jobs'[j].processed <= Len(jobs[j].batch)
           /\ jobs'[j].success + jobs'[j].fail = jobs'[j].processed
<1>0. PICK good : good = n - bad
  OBVIOUS
<1> DEFINE r == [jobs[j] EXCEPT !.processed = n, !.success = good, !.fail = bad]
<1>1. jobs[j] \in JobRow /\ good \in Int /\ bad \in Int /\ good + bad = n
  BY <1>0 DEF Shape
<1>2. /\ r \in JobRow /\ r.user = jobs[j].user /\ r.batch = jobs[j].batch /\ r.key = jobs[j].key
      /\ r.status = jobs[j].status /\ r.processed = n /\ r.success = good /\ r.fail = bad
  BY <1>1 DEF JobRow
<1>3. jobs' = [jobs EXCEPT ![j] = r] \/ jobs' = jobs
  BY <1>0 DEF Progress
<1>4. r.success + r.fail = r.processed
  BY <1>1, <1>2
<1> HIDE DEF r
<1>5. CASE jobs' = [jobs EXCEPT ![j] = r]
  BY <1>2, <1>4, <1>5, RowSaved
<1>6. CASE jobs' = jobs
  BY <1>6 DEF RowChanges, Shape, JobOK
<1> QED
  BY <1>3, <1>5, <1>6

\* The row of item n of job j has been appended, with id i.
NewLink(j, n, i) ==
    /\ links' \in Seq(LinkRow) /\ Len(links') = i /\ i \in Nat \ {0}
    /\ i \notin DOMAIN links /\ i \in DOMAIN links'
    /\ links'[i].job = j /\ links'[i].item = n /\ links'[i].state = "live"
    /\ \A x \in DOMAIN links : x \in DOMAIN links' /\ links'[x] = links[x]
    /\ \A x \in DOMAIN links' : x \in DOMAIN links \/ x = i

LEMMA ItemInserted ==
    ASSUME Shape, NEW w \in Workers, InsertItem(w),
           NEW j \in Nat, j = worker[w].job, jobs[j].user \in Users,
           NEW n \in Nat, n = Len(worker[w].made) + 1, jobs[j].batch[n] \in ItemRow
    PROVE  \E i : NewLink(j, n, i) /\ LinksFor(j) /\ LinksOf(j)' = LinksOf(j) \cup {i}
<1>1. ItemNo(w) = n /\ Doing(w) = jobs[j] /\ Item(w) = jobs[j].batch[n]
  BY DEF ItemNo, Doing, Item
<1>2. PICK k \in Free(w) :
        links' = Append(links, [user |-> jobs[j].user, code |-> k, job |-> j, item |-> n,
                                state |-> "live"])
  BY <1>1 DEF InsertItem
<1>3. k \in Codes
  BY <1>1, <1>2 DEF Free, ItemRow
<1> DEFINE l == [user |-> jobs[j].user, code |-> k, job |-> j, item |-> n, state |-> "live"]
<1>4. l \in LinkRow /\ l.job = j /\ l.item = n /\ l.state = "live"
  BY <1>3 DEF LinkRow
<1>5. links' = Append(links, l)
  BY <1>2
<1> HIDE DEF l
<1>6. PICK i : i = Len(links) + 1
  OBVIOUS
<1>7. NewLink(j, n, i)
  BY <1>4, <1>5, <1>6 DEF Shape, NewLink
<1>8. LinksFor(j) /\ LinksOf(j)' = LinksOf(j) \cup {i}
  BY <1>7 DEF NewLink, LinksFor, LinksOf
<1> QED
  BY <1>7, <1>8

LEMMA ItemStep ==
    ASSUME IInv, NEW w \in Workers, WorkerItem(w)
    PROVE  IInv'
<1>0. PICK j, made, bad, n :
        j = worker[w].job /\ made = worker[w].made /\ bad = worker[w].bad /\ n = Len(made) + 1
  OBVIOUS
<1>1. /\ UNCHANGED <<life, caller, queue, lost, edit>> /\ worker[w].at = "items"
      /\ Working(w) /\ WorkerOK(w) /\ Shape
  BY DEF WorkerItem, Working, IInv
<1>2. /\ j \in DOMAIN jobs /\ JobOK(j) /\ jobs[j] \in JobRow /\ worker[w] \in Work
      /\ Len(made) < Len(jobs[j].batch) /\ Tracked(w)
  BY <1>0, <1>1 DEF WorkerOK, IInv, Shape
<1>3. /\ made \in Seq(Nat) /\ bad \in Nat /\ Len(made) \in Nat /\ n \in Nat
      /\ n <= Len(jobs[j].batch) /\ jobs[j].batch[n] \in ItemRow /\ jobs[j].user \in Users
      /\ j \in Nat /\ DOMAIN made = 1..Len(made)
  <2>1. made \in Seq(Nat) /\ bad \in Nat
    BY <1>0, <1>2 DEF Work
  <2>2. jobs[j].user \in Users /\ jobs[j].batch \in Seq(ItemRow)
    BY <1>2 DEF JobRow
  <2>3. j \in Nat
    BY <1>1, <1>2 DEF Shape
  <2>4. PICK b : b = jobs[j].batch
    OBVIOUS
  <2>5. Len(made) \in Nat /\ n \in 1..Len(b) /\ n \in Nat /\ DOMAIN made = 1..Len(made)
    <3>1. Len(made) \in Nat /\ DOMAIN made = 1..Len(made)
      BY <2>1
    <3>2. b \in Seq(ItemRow)
      BY <2>2, <2>4
    <3>3. Len(b) \in Nat /\ Len(made) < Len(b)
      BY <1>2, <2>4, <3>2
    <3> QED
      BY <1>0, <3>1, <3>3
  <2>6. b \in Seq(ItemRow) => b[n] \in ItemRow
    BY <2>5
  <2> QED
    BY <1>0, <2>1, <2>2, <2>3, <2>4, <2>5, <2>6
<1>4. PICK worse : worse = bad + 1 /\ worse \in Nat /\ worse # 0
  BY <1>3
<1>5. \/ /\ InsertItem(w) /\ spared' = spared
         /\ NextItem(w, Append(made, Len(links')), bad)
         /\ Progress(w, n, bad) \/ jobs' = jobs
      \/ /\ InsertItem(w) /\ spared' = spared \cup {Len(links')}
         /\ NextItem(w, Append(made, 0), worse) /\ Progress(w, n, worse)
      \/ /\ UNCHANGED <<links, spared>>
         /\ NextItem(w, Append(made, 0), worse)
         /\ Progress(w, n, worse) \/ jobs' = jobs
  BY <1>0, <1>4 DEF WorkerItem, ItemFailed, ItemNo
<1>6. ASSUME InsertItem(w), spared' = spared,
             NextItem(w, Append(made, Len(links')), bad),
             Progress(w, n, bad) \/ jobs' = jobs
      PROVE  IInv'
  <2>1. PICK i : NewLink(j, n, i) /\ LinksFor(j) /\ LinksOf(j)' = LinksOf(j) \cup {i}
    BY <1>0, <1>1, <1>3, <1>6, ItemInserted
  <2>2. spared \subseteq spared' /\ spared' \subseteq DOMAIN links'
    BY <1>1, <1>6, <2>1 DEF Shape, NewLink
  <2>3. PICK more : more = Append(made, i)
    OBVIOUS
  <2>4. /\ more \in Seq(Nat) /\ Len(more) = Len(made) + 1 /\ DOMAIN more = 1..n
        /\ more[n] = i /\ \A x \in DOMAIN made : x \in DOMAIN more /\ more[x] = made[x]
        /\ \A x \in DOMAIN more : x \in DOMAIN made \/ x = n
        /\ n \in DOMAIN more
    BY <1>0, <1>3, <2>1, <2>3 DEF NewLink
  <2>5. \A x \in DOMAIN more : more[x] # 0 =>
          more[x] \in LinksOf(j)' /\ links'[more[x]].item = x
    <3>1. \A x \in DOMAIN made : made[x] # 0 => made[x] \in LinksOf(j) /\ links[made[x]].item = x
      BY <1>0, <1>2 DEF Tracked, MadeFor
    <3>2. \A x \in LinksOf(j) : links'[x] = links[x]
      BY <2>1 DEF LinksOf, NewLink
    <3> QED
      BY <2>1, <2>4, <3>1, <3>2 DEF NewLink
  <2>6. \A x \in LinksOf(j)' :
          /\ links'[x].item \in DOMAIN more /\ links'[x].state # "undone"
          /\ more[links'[x].item] = x \/ (bad > 0 /\ x \in spared')
    <3>1. \A x \in LinksOf(j) : /\ links'[x] = links[x]
                                /\ links[x].item \in DOMAIN made /\ links[x].state # "undone"
                                /\ made[links[x].item] = x \/ (bad > 0 /\ x \in spared')
      BY <1>0, <1>2, <2>1, <2>2 DEF LinksOf, NewLink, Tracked, MadeFor
    <3> QED
      BY <2>1, <2>4, <3>1 DEF NewLink
  <2>7. MadeFor(j, more, bad)'
    <3>1. bad = 0 => \A x \in DOMAIN more : more[x] # 0
      BY <1>0, <1>2, <2>1, <2>4 DEF Tracked, MadeFor, NewLink
    <3> QED
      BY <2>5, <2>6, <3>1 DEF MadeFor
  <2>8. /\ RowChanges(j) /\ jobs'[j].status = jobs[j].status
        /\ jobs'[j].processed <= Len(jobs[j].batch)
        /\ jobs'[j].success + jobs'[j].fail = jobs'[j].processed
    BY <1>0, <1>1, <1>2, <1>3, <1>6, ProgressRow
  <2>9. NextItem(w, more, bad)
    BY <1>6, <2>1, <2>3 DEF NewLink
  <2> QED
    BY <1>0, <1>1, <1>3, <2>1, <2>2, <2>4, <2>7, <2>8, <2>9, ItemDone
\* The item counts as failed; if it has a row all the same, the row is spared.
<1>7. ASSUME NextItem(w, Append(made, 0), worse),
             Progress(w, n, worse) \/ jobs' = jobs,
             spared \subseteq spared', spared' \subseteq DOMAIN links', LinksFor(j),
             \A x \in LinksOf(j) : x \in LinksOf(j)' /\ links'[x] = links[x],
             \A x \in LinksOf(j)' : \/ x \in LinksOf(j)
                                    \/ /\ x \in spared' /\ links'[x].item = n
                                       /\ links'[x].state # "undone"
      PROVE  IInv'
  <2>1. PICK more : more = Append(made, 0)
    OBVIOUS
  <2>2. /\ more \in Seq(Nat) /\ Len(more) = Len(made) + 1 /\ DOMAIN more = 1..n
        /\ more[n] = 0 /\ \A x \in DOMAIN made : x \in DOMAIN more /\ more[x] = made[x]
        /\ \A x \in DOMAIN more : x \in DOMAIN made \/ x = n
        /\ n \in DOMAIN more
    BY <1>0, <1>3, <2>1
  <2>3. \A x \in DOMAIN more : more[x] # 0 =>
          more[x] \in LinksOf(j)' /\ links'[more[x]].item = x
    <3>1. \A x \in DOMAIN made : made[x] # 0 => made[x] \in LinksOf(j) /\ links[made[x]].item = x
      BY <1>0, <1>2 DEF Tracked, MadeFor
    <3> QED
      BY <1>7, <2>2, <3>1
  <2>4. \A x \in LinksOf(j)' :
          /\ links'[x].item \in DOMAIN more /\ links'[x].state # "undone"
          /\ more[links'[x].item] = x \/ x \in spared'
    <3>1. \A x \in LinksOf(j) : /\ links'[x] = links[x]
                                /\ links[x].item \in DOMAIN made /\ links[x].state # "undone"
                                /\ made[links[x].item] = x \/ x \in spared'
      BY <1>0, <1>2, <1>7 DEF Tracked, MadeFor
    <3> QED
      BY <1>7, <2>2, <3>1
  <2>5. /\ RowChanges(j) /\ jobs'[j].status = jobs[j].status
        /\ jobs'[j].processed <= Len(jobs[j].batch)
        /\ jobs'[j].success + jobs'[j].fail = jobs'[j].processed
    BY <1>0, <1>1, <1>2, <1>3, <1>4, <1>7, ProgressRow
  <2>6. NextItem(w, more, worse)
    BY <1>7, <2>1
  <2>7. MadeFor(j, more, worse)'
    <3>1. worse > 0
      BY <1>4
    <3> QED
      BY <1>4, <2>3, <2>4, <3>1 DEF MadeFor
  <2> QED
    BY <1>0, <1>1, <1>3, <1>4, <1>7, <2>2, <2>5, <2>6, <2>7, ItemDone
<1>8. ASSUME InsertItem(w), spared' = spared \cup {Len(links')},
             NextItem(w, Append(made, 0), worse), Progress(w, n, worse)
      PROVE  IInv'
  <2>1. PICK i : NewLink(j, n, i) /\ LinksFor(j) /\ LinksOf(j)' = LinksOf(j) \cup {i}
    BY <1>0, <1>1, <1>3, <1>8, ItemInserted
  <2>2. spared \subseteq spared' /\ spared' \subseteq DOMAIN links'
    BY <1>1, <1>8, <2>1 DEF Shape, NewLink
  <2>3. \A x \in LinksOf(j) : x \in LinksOf(j)' /\ links'[x] = links[x]
    BY <2>1 DEF LinksOf, NewLink
  <2>4. i \in spared' /\ links'[i].item = n /\ links'[i].state # "undone"
    BY <1>8, <2>1 DEF NewLink
  <2> QED
    BY <1>7, <1>8, <2>1, <2>2, <2>3, <2>4
<1>9. ASSUME UNCHANGED <<links, spared>>, NextItem(w, Append(made, 0), worse),
             Progress(w, n, worse) \/ jobs' = jobs
      PROVE  IInv'
  <2>1. LinksFor(j) /\ LinksOf(j)' = LinksOf(j)
    BY <1>1, <1>9 DEF LinksFor, LinksOf, Shape
  <2> QED
    BY <1>1, <1>7, <1>9, <2>1 DEF Shape
<1> QED
  BY <1>5, <1>6, <1>8, <1>9

\* One deletion: the link with the least id is gone, or spared.
LEMMA UndoStep ==
    ASSUME IInv, NEW w \in Workers, WorkerUndo(w)
    PROVE  IInv'
<1>0. PICK j, made, i, b :
        /\ j = worker[w].job /\ made = worker[w].made /\ i = Min(Made(w)) /\ b = jobs[j].batch
  OBVIOUS
<1>1. /\ UNCHANGED <<jobs, life, caller, queue, lost, edit>> /\ worker[w].at = "undo"
      /\ Ids(made) # {} /\ Working(w) /\ WorkerOK(w) /\ Shape
  BY <1>0 DEF WorkerUndo, Working, IInv, Made
<1>2. /\ j \in DOMAIN jobs /\ JobOK(j) /\ jobs[j] \in JobRow /\ worker[w] \in Work
      /\ jobs[j].status \notin Final /\ worker[w].bad > 0 /\ Undoing(w) /\ Len(made) = Len(b)
  BY <1>0, <1>1 DEF WorkerOK, IInv, Shape
<1>3. made \in Seq(Nat) /\ Len(made) \in Nat /\ DOMAIN made = 1..Len(made)
  BY <1>0, <1>2 DEF Work
<1>4. i \in Ids(made)
  <2>1. Ids(made) \in SUBSET Nat
    BY <1>3 DEF Ids
  <2>2. \E x \in Ids(made) : \A y \in Ids(made) : x <= y
    BY <1>1, <2>1, LeastNumber
  <2> QED
    BY <1>0, <2>2 DEF Min, Made
<1>5. i \in LinksOf(j) /\ i \in DOMAIN links /\ links[i] \in LinkRow /\ i # 0
  BY <1>0, <1>1, <1>2, <1>4 DEF Undoing, LinksOf, Shape, Ids
<1>6. PICK rest : rest = [n \in DOMAIN made |-> IF made[n] = i THEN 0 ELSE made[n]]
  OBVIOUS
<1>7. /\ rest \in Seq(Nat) /\ DOMAIN rest = DOMAIN made /\ Len(rest) = Len(made)
      /\ \A n \in DOMAIN made : rest[n] = IF made[n] = i THEN 0 ELSE made[n]
  <2>1. rest \in [1..Len(made) -> Nat]
    BY <1>3, <1>6
  <2>2. rest \in Seq(Nat)
    BY <1>3, <2>1, SeqDef
  <2> QED
    BY <1>3, <1>6, <2>1, <2>2
<1> DEFINE s == [worker[w] EXCEPT !.made = rest]
<1>8. s \in Work /\ s.at = "undo" /\ s.job = j /\ s.made = rest /\ s.bad = worker[w].bad
  BY <1>0, <1>1, <1>2, <1>7 DEF Work
<1>9. worker' = [worker EXCEPT ![w] = s]
  <2>1. worker' = [worker EXCEPT ![w].made =
            [n \in DOMAIN @ |-> IF @[n] = i THEN 0 ELSE @[n]]]
    BY <1>0 DEF WorkerUndo
  <2> QED
    BY <1>0, <1>1, <1>6, <2>1 DEF Shape
<1> HIDE DEF s
<1>10. /\ worker' \in [Workers -> Work] /\ worker'[w] = s
       /\ \A v \in Workers \ {w} : worker'[v] = worker[v]
  BY <1>1, <1>8, <1>9, WorkerFields
<1>11. /\ links' = links \/ links' = [links EXCEPT ![i].state = "undone"]
       /\ spared' = spared \/ spared' = spared \cup {i}
       /\ (Live(i) => i \in spared)'
  <2>1. CASE Undo(i) /\ UNCHANGED spared
    BY <1>1, <1>5, <2>1 DEF Undo, Live, LinkRow, Shape
  <2>2. CASE spared' = spared \cup {i} /\ UNCHANGED links
    BY <2>2 DEF Live
  <2> QED
    BY <1>0, <2>1, <2>2 DEF WorkerUndo
<1>12. /\ links' \in Seq(LinkRow) /\ DOMAIN links' = DOMAIN links
       /\ \A n \in DOMAIN links : n # i => links'[n] = links[n]
       /\ links'[i].job = links[i].job /\ links'[i].item = links[i].item
  <2> DEFINE l == [links[i] EXCEPT !.state = "undone"]
  <2>1. l \in LinkRow /\ l.job = links[i].job /\ l.item = links[i].item
    BY <1>5 DEF LinkRow
  <2>2. links' = links \/ links' = [links EXCEPT ![i] = l]
    BY <1>11
  <2> HIDE DEF l
  <2>3. CASE links' = links
    BY <1>1, <2>3 DEF Shape
  <2>4. CASE links' = [links EXCEPT ![i] = l]
    BY <1>1, <1>5, <2>1, <2>4 DEF Shape
  <2> QED
    BY <2>2, <2>3, <2>4
<1>13. LinksFor(j) /\ LinksOf(j)' = LinksOf(j)
  BY <1>5, <1>12 DEF LinksFor, LinksOf
<1>14. spared \subseteq spared' /\ spared' \subseteq DOMAIN links'
  BY <1>1, <1>5, <1>11, <1>12 DEF Shape
<1>15. Undoing(w)'
  <2>1. \A n \in DOMAIN rest : rest[n] # 0 => rest[n] \in LinksOf(j)'
    BY <1>0, <1>2, <1>7, <1>13 DEF Undoing
  <2>2. ASSUME NEW x \in LinksOf(j)'
        PROVE  (\E n \in DOMAIN rest : rest[n] = x) \/ (Live(x) => x \in spared)'
    <3>1. CASE x = i
      BY <1>11, <3>1 DEF Live
    <3>2. CASE x # i
      <4>1. x \in DOMAIN links /\ x \in LinksOf(j) /\ links'[x] = links[x]
        BY <1>12, <1>13, <3>2 DEF LinksOf
      <4>2. CASE \E n \in DOMAIN made : made[n] = x
        BY <1>7, <3>2, <4>2
      <4>3. CASE Live(x) => x \in spared
        BY <1>14, <4>1, <4>3 DEF Live
      <4> QED
        BY <1>0, <1>2, <4>1, <4>2, <4>3 DEF Undoing
    <3> QED
      BY <3>1, <3>2
  <2> QED
    BY <1>8, <1>10, <2>1, <2>2 DEF Undoing
<1>16. RowChanges(j)
  BY <1>1 DEF RowChanges, Shape
<1>17. WorkerOK(w)' /\ Working(w)'
  BY <1>0, <1>1, <1>2, <1>3, <1>7, <1>8, <1>10, <1>15 DEF WorkerOK, Working
<1>18. JobOK(j)'
  <2>1. Held(j)'
    BY <1>8, <1>10, <1>17 DEF Held
  <2> QED
    BY <1>1, <1>2, <2>1 DEF JobOK, Final
<1>19. lost' = lost /\ lost' \subseteq DOMAIN jobs /\ worker'[w].job = j
  BY <1>1, <1>8, <1>10 DEF Shape
<1> QED
  BY <1>0, <1>1, <1>10, <1>13, <1>14, <1>16, <1>17, <1>18, <1>19, WorkerMoves

\* As many ids as items when none is 0 and each is its own.
LEMMA IdsCounted ==
    ASSUME NEW made \in Seq(Nat), \A n \in DOMAIN made : made[n] # 0,
           \A n, m \in DOMAIN made : made[n] = made[m] => n = m
    PROVE  Cardinality(Ids(made)) = Len(made)
<1>1. Len(made) \in Nat /\ DOMAIN made = 1..Len(made) /\ made \in [1..Len(made) -> Nat]
  OBVIOUS
<1>2. made \in Bijection(1..Len(made), Ids(made))
  BY <1>1 DEF Bijection, Injection, Surjection, IsInjective, Ids
<1>3. ExistsBijection(1..Len(made), Ids(made))
  BY <1>2 DEF ExistsBijection
<1>4. 1 \in Int /\ Len(made) \in Int
  BY <1>1
<1>5. /\ IsFiniteSet(1..Len(made))
      /\ Cardinality(1..Len(made)) = IF 1 > Len(made) THEN 0 ELSE Len(made) - 1 + 1
  BY <1>4, FS_Interval
<1>6. Cardinality(Ids(made)) = Cardinality(1..Len(made))
  BY <1>3, <1>5, FS_Bijection
<1> QED
  BY <1>1, <1>5, <1>6

\* The final Save: every item has its link, or none is left.
LEMMA FinishStep ==
    ASSUME IInv, NEW w \in Workers, WorkerFinish(w)
    PROVE  IInv'
<1>0. PICK j, made, b, good :
        /\ j = worker[w].job /\ made = worker[w].made /\ b = jobs[j].batch
        /\ good = Cardinality(Ids(made))
  OBVIOUS
<1>1. /\ UNCHANGED <<links, life, caller, queue, spared, edit>>
      /\ worker[w].at \in {"undo", "finish"}
      /\ worker[w].at = "undo" => Ids(made) = {}
      /\ worker' = [worker EXCEPT ![w] = Resting] /\ Working(w) /\ WorkerOK(w) /\ Shape
      /\ \/ jobs' = [jobs EXCEPT ![j] = Outcome(w)] /\ lost' = lost
         \/ jobs' = jobs /\ lost' = lost \cup {j}
  BY <1>0 DEF WorkerFinish, Working, IInv, Made, Cut
<1>2. /\ j \in DOMAIN jobs /\ JobOK(j) /\ jobs[j] \in JobRow /\ worker[w] \in Work
      /\ jobs[j].status \notin Final /\ Len(made) = Len(b)
      /\ worker[w].bad = 0 => worker[w].at = "finish" /\ Tracked(w)
      /\ worker[w].at = "finish" =>
           Tracked(w) /\ (worker[w].bad = 0 \/ \A n \in DOMAIN made : made[n] = 0)
      /\ worker[w].at = "undo" => Undoing(w)
  BY <1>0, <1>1 DEF WorkerOK, IInv, Shape
<1>3. /\ made \in Seq(Nat) /\ Len(made) \in Nat /\ DOMAIN made = 1..Len(made)
      /\ b \in Seq(ItemRow) /\ Len(b) \in Nat /\ DOMAIN b = 1..Len(b) /\ Len(b) > 0
  BY <1>0, <1>2 DEF Work, JobRow, JobOK
<1>4. ASSUME worker[w].bad = 0 PROVE good = Len(b) /\ Kept(j)
  <2>1. /\ \A n \in DOMAIN made : /\ made[n] # 0 /\ made[n] \in LinksOf(j)
                                  /\ links[made[n]].item = n
        /\ \A i \in LinksOf(j) :
             /\ links[i].item \in DOMAIN made /\ made[links[i].item] = i
             /\ links[i].state # "undone"
    BY <1>0, <1>2, <1>4 DEF Tracked, MadeFor
  <2>2. \A n, m \in DOMAIN made : made[n] = made[m] => n = m
    BY <2>1
  <2>3. Cardinality(Ids(made)) = Len(made)
    BY <1>3, <2>1, <2>2, IdsCounted
  <2> QED
    BY <1>0, <1>2, <1>3, <2>1, <2>3 DEF Kept
<1>5. ASSUME worker[w].bad # 0 PROVE good = 0 /\ Gone(j)
  <2>1. Ids(made) = {} => \A n \in DOMAIN made : made[n] = 0
    BY DEF Ids
  <2>2. \A n \in DOMAIN made : made[n] = 0
    BY <1>1, <1>2, <1>5, <2>1
  <2>3. \A i \in LinksOf(j) : i # 0
    BY <1>1 DEF LinksOf, Shape
  <2>4. Gone(j)
    BY <1>0, <1>1, <1>2, <2>2, <2>3 DEF Gone, Tracked, MadeFor, Undoing
  <2>5. Ids(made) = {}
    BY <2>2 DEF Ids
  <2> QED
    BY <1>0, <2>4, <2>5, FS_EmptySet
<1> DEFINE status == IF worker[w].bad = 0 THEN "completed" ELSE "failed"
<1>6. PICK rest : rest = Len(b) - good /\ good \in Nat /\ rest \in Int /\ good + rest = Len(b)
  BY <1>3, <1>4, <1>5
<1> DEFINE r == [jobs[j] EXCEPT !.status = status, !.processed = Len(b), !.success = good,
                                !.fail = rest]
<1>7. /\ r \in JobRow /\ r.user = jobs[j].user /\ r.batch = b /\ r.key = jobs[j].key
      /\ r.status = status /\ r.processed = Len(b) /\ r.success = good /\ r.fail = rest
  <2>1. status \in Statuses /\ good \in Int
    BY <1>6 DEF Statuses, Final
  <2> HIDE DEF status
  <2> QED
    BY <1>0, <1>2, <1>3, <1>6, <2>1 DEF JobRow
<1>8. Outcome(w) = r
  BY <1>0, <1>6 DEF Outcome, Doing, Made
<1> HIDE DEF r
<1>9. RowChanges(j) /\ (jobs'[j] = r \/ (jobs' = jobs /\ j \in lost'))
  <2>1. CASE jobs' = [jobs EXCEPT ![j] = r]
    <3>1. r.batch = jobs[j].batch
      BY <1>0, <1>7
    <3> QED
      BY <1>1, <1>2, <1>7, <2>1, <3>1, RowSaved
  <2>2. CASE jobs' = jobs /\ lost' = lost \cup {j}
    BY <1>1, <2>2 DEF RowChanges, Shape
  <2> QED
    BY <1>1, <1>8, <2>1, <2>2
<1>10. Resting \in Work /\ Resting.at = "idle" /\ Resting.made = <<>>
  BY DEF Resting, Work
<1>11. /\ worker' \in [Workers -> Work] /\ worker'[w] = Resting
       /\ \A v \in Workers \ {w} : worker'[v] = worker[v]
  BY <1>1, <1>10, WorkerFields
<1>12. LinksFor(j) /\ LinksOf(j)' = LinksOf(j)
  BY <1>1 DEF LinksFor, LinksOf, Shape
<1>13. WorkerOK(w)' /\ ~Working(w)'
  BY <1>10, <1>11 DEF WorkerOK, Working
<1>14. JobOK(j)'
  <2>1. (Kept(j) => Kept(j)') /\ (Gone(j) => Gone(j)')
    BY <1>1, <1>9, <1>12 DEF Kept, Gone, Live, RowChanges
  <2>2. CASE jobs'[j] = r
    <3>1. jobs'[j].key = Key(jobs'[j].user, jobs'[j].batch)
      BY <1>0, <1>2, <1>7, <2>2 DEF JobOK
    <3>2. /\ status \in Final
          /\ status = "completed" => good = Len(b) /\ Kept(j)'
          /\ status = "failed" => good = 0 /\ Gone(j)'
      BY <1>4, <1>5, <2>1 DEF Final
    <3> HIDE DEF status
    <3>3. PICK x : x = jobs'[j]
      OBVIOUS
    <3>4. /\ Len(x.batch) > 0 /\ x.processed <= Len(x.batch)
          /\ x.success + x.fail = x.processed
          /\ x.status \in Final
      <4>1. /\ x.batch = b /\ x.processed = Len(b) /\ x.success = good /\ x.fail = rest
            /\ x.status \in Final
        BY <1>7, <2>2, <3>2, <3>3
      <4> QED
        BY <1>3, <1>6, <4>1
    <3>5. /\ x.status = "completed" => x.success = Len(x.batch) /\ Kept(j)'
          /\ x.status = "failed" => x.success = 0 /\ Gone(j)'
      BY <1>7, <2>2, <3>2, <3>3
    <3> QED
      BY <3>1, <3>3, <3>4, <3>5, Zenon DEF JobOK
  <2>3. CASE jobs' = jobs /\ j \in lost'
    BY <1>2, <2>3 DEF JobOK, Final
  <2> QED
    BY <1>9, <2>2, <2>3
<1>15. spared' = spared /\ spared' \subseteq DOMAIN links' /\ lost \subseteq lost'
       /\ lost' \subseteq DOMAIN jobs
  BY <1>1, <1>2 DEF Shape
<1> QED
  BY <1>0, <1>1, <1>9, <1>11, <1>12, <1>13, <1>14, <1>15, WorkerMoves

-----------------------------------------------------------------------------
\* The process, and what else happens to links.

LEMMA LifeMoves ==
    ASSUME IInv, UNCHANGED <<jobs, links, queue, caller, worker, edit, lost, spared>>,
           life' \in {"up", "closing", "down"}, LifeOK'
    PROVE  IInv'
<1>1. Shape' /\ Apart'
  BY DEF IInv, Shape, Apart, Sending, Working
<1>2. \A j : Held(j) => Held(j)'
  BY DEF Held, Sending, Working
<1>3. \A p \in DOMAIN queue' : Fresh(queue'[p])
  BY DEF IInv
<1>4. ASSUME NEW c \in Callers PROVE CallerOK(c)'
  <2>1. CallerOK(c) /\ (Sending(c) => Fresh(caller[c].job)')
    BY DEF IInv, CallerOK, Fresh, LinksOf
  <2> QED
    BY <2>1, CallerKept
<1>5. ASSUME NEW w \in Workers PROVE WorkerOK(w)'
  <2>1. WorkerOK(w) /\ Steady(worker[w].job)
    BY LinksRest DEF IInv
  <2> QED
    BY <2>1, WorkerKept DEF WorkerOK
<1> QED
  BY <1>1, <1>2, <1>3, <1>4, <1>5, StoreRests

LEMMA ProcessStep ==
    ASSUME IInv, Shutdown \/ Exit \/ Start
    PROVE  IInv'
<1>1. UNCHANGED <<jobs, links, queue, caller, worker, edit, lost, spared>>
  BY DEF Shutdown, Exit, Start, store, history
<1>2. LifeOK' /\ life' \in {"up", "closing", "down"}
  BY DEF Shutdown, Exit, Start, LifeOK, store, IInv
<1> QED
  BY <1>1, <1>2, LifeMoves

LEMMA CrashStep ==
    ASSUME IInv, Crash
    PROVE  IInv'
<1>1. /\ UNCHANGED <<jobs, links, spared>> /\ life' = "down" /\ queue' = <<>> /\ edit' = 0
      /\ caller' = [c \in Callers |-> Idle] /\ worker' = [w \in Workers |-> Resting]
      /\ lost' = lost \cup {j \in DOMAIN jobs : jobs[j].status \notin Final} /\ Shape
  BY DEF Crash, store, IInv
<1>2. Idle \in Submission /\ Idle.at = "idle" /\ Resting \in Work /\ Resting.at = "idle" /\ Resting.made = <<>>
  BY DEF Idle, Resting, Submission, Work
<1>3. Shape'
  <2>1. queue' \in Seq(Nat) /\ Len(queue') <= QueueCap
    BY <1>1, BatchAssumption
  <2> QED
    BY <1>1, <1>2, <2>1 DEF Shape
<1>4. /\ \A c \in Callers : CallerOK(c)' /\ ~Sending(c)' /\ caller'[c].at = "idle"
      /\ \A w \in Workers : WorkerOK(w)' /\ ~Working(w)' /\ worker'[w].at = "idle"
  BY <1>1, <1>2 DEF CallerOK, WorkerOK, Sending, Working
<1>5. Apart' /\ LifeOK'
  BY <1>1, <1>4 DEF Apart, LifeOK
<1>6. /\ lost \subseteq lost' /\ \A p \in DOMAIN queue' : Fresh(queue'[p])
      /\ \A j \in DOMAIN jobs : jobs[j].status \notin Final => j \in lost'
  BY <1>1
<1> QED
  BY <1>1, <1>3, <1>4, <1>5, <1>6, StoreRests

\* A step that adds links of no job, or changes links as every job allows.
LEMMA LinkMoves ==
    ASSUME IInv, UNCHANGED <<jobs, life, caller, queue, worker, lost>>,
           links' \in Seq(LinkRow), edit' \in {0} \cup DOMAIN links',
           spared \subseteq spared', spared' \subseteq DOMAIN links', LinkJobs',
           \A j \in DOMAIN jobs : Steady(j)
    PROVE  IInv'
<1>1. Shape' /\ Apart' /\ LifeOK' /\ KeysUnique'
  BY DEF IInv, Shape, Apart, LifeOK, KeysUnique, Sending, Working
<1>2. \A j : Fresh(j) => Fresh(j)'
  BY DEF Fresh, Steady
<1>3. ASSUME NEW j \in DOMAIN jobs' PROVE JobOK(j)'
  <2>1. JobOK(j) /\ Steady(j) /\ (Held(j) => Held(j)')
    BY DEF IInv, Held, Sending, Working
  <2>2. jobs[j].status \in Final \/ j \in lost' \/ Held(j)'
    BY <2>1 DEF JobOK
  <2> QED
    BY <2>1, <2>2, JobKept
<1>4. ASSUME NEW p \in DOMAIN queue' PROVE Fresh(queue[p])'
  <2>1. PICK i : i = queue[p] /\ queue' = queue
    OBVIOUS
  <2>2. Fresh(i)'
    BY <1>2, <2>1 DEF IInv
  <2> QED
    BY <2>1, <2>2
<1>5. ASSUME NEW c \in Callers PROVE CallerOK(c)'
  <2>1. CallerOK(c) /\ caller'[c] = caller[c]
    BY DEF IInv
  <2>2. Sending(c) => Fresh(caller[c].job)'
    <3>1. PICK i : i = caller[c].job
      OBVIOUS
    <3>2. Sending(c) => Fresh(i)'
      BY <1>2, <2>1, <3>1 DEF CallerOK
    <3> QED
      BY <2>1, <3>1, <3>2
  <2> QED
    BY <2>1, <2>2, CallerKept
<1>6. ASSUME NEW w \in Workers PROVE WorkerOK(w)'
  <2>1. WorkerOK(w) /\ (Working(w) => Steady(worker[w].job))
    BY DEF IInv, WorkerOK
  <2> QED
    BY <2>1, WorkerKept DEF WorkerOK
<1> QED
  BY <1>1, <1>3, <1>4, <1>5, <1>6 DEF IInv

LEMMA SquatStep ==
    ASSUME IInv, NEW u \in Users, NEW k \in Codes, Squat(u, k)
    PROVE  IInv'
<1> DEFINE l == [user |-> u, code |-> k, job |-> 0, item |-> 0, state |-> "live"]
<1>1. l \in LinkRow /\ l.job = 0
  BY DEF LinkRow
<1>2. /\ UNCHANGED <<jobs, life, caller, queue, worker, lost, edit, spared>> /\ Shape
      /\ links' = Append(links, l)
  BY DEF Squat, Batches, IInv
<1> HIDE DEF l
<1>3. PICK i : i = Len(links) + 1
  OBVIOUS
<1>4. /\ links' \in Seq(LinkRow) /\ i \in DOMAIN links' /\ links'[i] = l
      /\ \A x \in DOMAIN links : x \in DOMAIN links' /\ links'[x] = links[x]
      /\ \A x \in DOMAIN links' : x \in DOMAIN links \/ x = i
  BY <1>1, <1>2, <1>3 DEF Shape
<1>5. LinkJobs'
  BY <1>1, <1>2, <1>4 DEF IInv, LinkJobs
<1>6. ASSUME NEW j \in DOMAIN jobs PROVE Steady(j)
  <2>1. j # 0
    BY <1>2 DEF Shape
  <2> QED
    BY <1>1, <1>4, <2>1 DEF Steady, LinksOf
<1>7. edit' \in {0} \cup DOMAIN links' /\ spared' \subseteq DOMAIN links'
  BY <1>2, <1>4 DEF Shape
<1> QED
  BY <1>2, <1>4, <1>5, <1>6, <1>7, LinkMoves

\* One entry of a sequence is replaced.
LEMMA EntryReplaced ==
    ASSUME NEW T, NEW s \in Seq(T), NEW i \in DOMAIN s, NEW e \in T,
           NEW t, t = [s EXCEPT ![i] = e]
    PROVE  /\ t \in Seq(T) /\ DOMAIN t = DOMAIN s /\ t[i] = e
           /\ \A x \in DOMAIN s : x # i => t[x] = s[x]
OBVIOUS

\* The link's state changes, to "live" only when that is counted.
LEMMA StateMoves ==
    ASSUME IInv, UNCHANGED <<jobs, life, caller, queue, worker, lost>>, NEW i \in DOMAIN links,
           NEW state \in {"live", "removed"}, links' = [links EXCEPT ![i].state = state],
           edit' \in {0} \cup DOMAIN links,
           spared \subseteq spared', spared' \subseteq DOMAIN links,
           state = "live" => i \in spared'
    PROVE  IInv'
<1> DEFINE l == [links[i] EXCEPT !.state = state]
<1>1. Shape /\ links[i] \in LinkRow
  BY DEF IInv, Shape
<1>2. /\ l \in LinkRow /\ l.job = links[i].job /\ l.item = links[i].item /\ l.state = state
  BY <1>1 DEF LinkRow
<1>3. links' = [links EXCEPT ![i] = l]
  OBVIOUS
<1> HIDE DEF l
<1>4. /\ links' \in Seq(LinkRow) /\ DOMAIN links' = DOMAIN links /\ links'[i] = l
      /\ \A x \in DOMAIN links : x # i => links'[x] = links[x]
  <2>1. links \in Seq(LinkRow)
    BY <1>1 DEF Shape
  <2> QED
    BY <1>2, <1>3, <2>1, EntryReplaced
<1>5. LinkJobs'
  BY <1>2, <1>4 DEF IInv, LinkJobs
<1>6. \A j : Steady(j)
  BY <1>2, <1>4 DEF Steady, LinksOf
<1> QED
  BY <1>4, <1>5, <1>6, LinkMoves

LEMMA OwnerStep ==
    ASSUME IInv, NEW i \in DOMAIN links, OwnerDelete(i) \/ EditFind(i)
    PROVE  IInv'
<1>1. UNCHANGED <<jobs, life, caller, queue, worker, lost, spared>> /\ Shape
  BY DEF OwnerDelete, EditFind, Batches, IInv
<1>2. CASE OwnerDelete(i)
  BY <1>1, <1>2, StateMoves DEF OwnerDelete, Shape
<1>3. CASE EditFind(i)
  <2>1. UNCHANGED links /\ edit' = i
    BY <1>3 DEF EditFind
  <2>2. LinkJobs' /\ \A j : Steady(j)
    BY <1>1, <2>1, LinksRest DEF IInv, LinkJobs
  <2> QED
    BY <1>1, <2>1, <2>2, LinkMoves DEF Shape
<1> QED
  BY <1>2, <1>3

LEMMA EditStep ==
    ASSUME IInv, EditSave
    PROVE  IInv'
<1>1. /\ UNCHANGED <<jobs, life, caller, queue, worker, lost>> /\ Shape
      /\ edit \in DOMAIN links /\ edit' = 0
  BY DEF EditSave, Batches, IInv, Shape
<1>2. CASE UNCHANGED <<links, spared>>
  <2>1. LinkJobs' /\ \A j : Steady(j)
    BY <1>1, <1>2, LinksRest DEF IInv, LinkJobs
  <2> QED
    BY <1>1, <1>2, <2>1, LinkMoves DEF Shape
<1>3. CASE links' = [links EXCEPT ![edit].state = "live"] /\ spared' = spared \cup {edit}
  BY <1>1, <1>3, StateMoves DEF Shape
<1> QED
  BY <1>2, <1>3 DEF EditSave

-----------------------------------------------------------------------------
\* The invariant.

LEMMA InitIInv == Init => IInv
<1> SUFFICES ASSUME Init PROVE IInv
  OBVIOUS
<1>1. Idle \in Submission /\ Idle.at = "idle" /\ Resting \in Work /\ Resting.at = "idle" /\ Resting.made = <<>>
  BY DEF Idle, Resting, Submission, Work
<1>2. Shape
  BY <1>1, BatchAssumption DEF Init, Shape
<1>3. /\ \A c \in Callers : CallerOK(c) /\ ~Sending(c)
      /\ \A w \in Workers : WorkerOK(w) /\ ~Working(w)
  BY <1>1 DEF Init, CallerOK, WorkerOK, Sending, Working
<1>4. KeysUnique /\ LinkJobs /\ Apart /\ LifeOK
  BY <1>3 DEF Init, KeysUnique, LinkJobs, Apart, LifeOK
<1> QED
  BY <1>2, <1>3, <1>4 DEF Init, IInv

LEMMA NextIInv == IInv /\ [Next]_vars => IInv'
<1> SUFFICES ASSUME IInv, [Next]_vars PROVE IInv'
  OBVIOUS
<1>1. ASSUME NEW c \in Callers, CallerStep(c) PROVE IInv'
  BY <1>1, InsertStep, RefindStep, SendStep, RefuseStep, AnswerStep DEF CallerStep
<1>2. ASSUME NEW c \in Callers, NEW u \in Users, NEW r \in Requests, Submit(c, u, r) PROVE IInv'
  BY <1>2, SubmitStep
<1>3. ASSUME NEW w \in Workers, WorkerStep(w) PROVE IInv'
  BY <1>3, TakeStep, StartStep, ItemStep, UndoStep, FinishStep DEF WorkerStep
<1>4. CASE Shutdown \/ Exit \/ Start
  BY <1>4, ProcessStep
<1>5. CASE Crash
  BY <1>5, CrashStep
<1>6. ASSUME NEW u \in Users, NEW k \in Codes, Squat(u, k) PROVE IInv'
  BY <1>6, SquatStep
<1>7. ASSUME NEW i \in DOMAIN links, OwnerDelete(i) \/ EditFind(i) PROVE IInv'
  BY <1>7, OwnerStep
<1>8. CASE EditSave
  BY <1>8, EditStep
<1>9. CASE UNCHANGED vars
  <2>1. UNCHANGED <<jobs, links, queue, caller, worker, edit, lost, spared, life>>
    BY <1>9 DEF vars, store, history
  <2>2. LifeOK' /\ life' \in {"up", "closing", "down"}
    BY <2>1 DEF IInv, Shape, LifeOK
  <2> QED
    BY <2>1, <2>2, LifeMoves
<1> QED
  BY <1>1, <1>2, <1>3, <1>4, <1>5, <1>6, <1>7, <1>8, <1>9 DEF Next

\* In every state the tables, the channel, the callers and the workers agree on
\* who has which job and what has been done for it.
THEOREM Inductive == Spec => []IInv
<1> QED
  BY InitIInv, NextIInv, PTL DEF Spec

\* Every variable keeps its type: TypeOK, of the submission handler, the workers
\* and the process (type correctness).
THEOREM BatchTypes == Spec => []TypeOK
<1>1. IInv => TypeOK
  <2> SUFFICES ASSUME IInv PROVE TypeOK
    OBVIOUS
  <2>1. Shape /\ \A j \in DOMAIN jobs : jobs[j] \in JobRow /\ JobOK(j)
    BY DEF IInv, Shape
  <2>2. \A j \in DOMAIN jobs :
          /\ jobs[j].user \in Users /\ jobs[j].status \in Final \cup {"pending", "running"}
          /\ jobs[j].processed \in 0..Len(jobs[j].batch)
    BY <2>1 DEF JobRow, Statuses, JobOK
  <2>3. \A i \in DOMAIN links :
          /\ links[i].user \in Users /\ links[i].code \in Codes
          /\ links[i].job \in {0} \cup DOMAIN jobs
          /\ links[i].state \in {"live", "removed", "undone"}
    <3>1. \A i \in DOMAIN links : links[i] \in LinkRow
      BY <2>1 DEF Shape
    <3> QED
      BY <3>1 DEF LinkRow, LinkJobs, IInv
  <2>4. Range(queue) \subseteq DOMAIN jobs
    BY DEF Range, IInv, Fresh
  <2>5. \A c \in Callers :
          /\ caller[c].at \in {"idle", "insert", "refind", "send", "refuse", "answer"}
          /\ caller[c].at \in {"send", "refuse", "answer"} => caller[c].job \in DOMAIN jobs
    BY <2>1 DEF IInv, Shape, Submission, CallerOK, Sending
  <2>6. ASSUME NEW w \in Workers
        PROVE  /\ worker[w].at \in {"idle", "start", "items", "undo", "finish"}
               /\ worker[w].at # "idle" => worker[w].job \in DOMAIN jobs
               /\ Made(w) \subseteq DOMAIN links
    <3>1. WorkerOK(w) /\ worker[w] \in Work
      BY <2>1 DEF IInv, Shape
    <3>2. \A n \in DOMAIN worker[w].made : worker[w].made[n] # 0 =>
            worker[w].made[n] \in LinksOf(worker[w].job)
      <4>1. CASE ~Working(w)
        BY <3>1, <4>1 DEF WorkerOK
      <4>2. CASE Working(w)
        BY <3>1, <4>2 DEF WorkerOK, Tracked, MadeFor, Undoing
      <4> QED
        BY <4>1, <4>2
    <3>3. Made(w) \subseteq DOMAIN links
      BY <3>2 DEF Made, Ids, LinksOf
    <3> QED
      BY <3>1, <3>3 DEF Work, WorkerOK, Working
  <2> QED
    BY <2>1, <2>2, <2>3, <2>4, <2>5, <2>6 DEF TypeOK, Shape
<1> QED
  BY <1>1, Inductive, PTL

\* A submission is answered with the one job of its user under the text of its
\* urls (SubmitAsync's look, its INSERT under the unique index, its second look).
THEOREM OneAnswer == Spec => []IdempotentAnswers
<1>1. IInv => IdempotentAnswers
  <2> SUFFICES ASSUME IInv, NEW c \in Callers, caller[c].at = "answer"
               PROVE  {j \in DOMAIN jobs : /\ jobs[j].user = caller[c].user
                                           /\ Text(jobs[j].batch) = Text(caller[c].batch)}
                        = {caller[c].job}
    BY DEF IdempotentAnswers
  <2>1. /\ caller[c].job \in DOMAIN jobs
        /\ jobs[caller[c].job].key = Key(caller[c].user, caller[c].batch)
    BY DEF IInv, CallerOK, CallKey
  <2>2. ASSUME NEW j \in DOMAIN jobs
        PROVE  jobs[j].key = Key(caller[c].user, caller[c].batch) <=>
                 /\ jobs[j].user = caller[c].user
                 /\ Text(jobs[j].batch) = Text(caller[c].batch)
    <3>1. jobs[j].key = Key(jobs[j].user, jobs[j].batch)
      BY DEF IInv, JobOK
    <3> QED
      BY <3>1 DEF Key
  <2>3. \A j \in DOMAIN jobs :
          jobs[j].key = Key(caller[c].user, caller[c].batch) <=> j = caller[c].job
    BY <2>1 DEF IInv, KeysUnique
  <2> QED
    BY <2>1, <2>2, <2>3
<1> QED
  BY <1>1, Inductive, PTL

\* A completed job made each link once and a failed one left none, except those
\* in `spared': rows of INSERTs reported failed, deletions that failed, and what
\* an edit put back (the workers' loop over the items and their rollback).
THEOREM CompletedOrUndone == Spec => []AllOrNothing
<1>1. IInv => AllOrNothing
  <2> SUFFICES ASSUME IInv, NEW j \in DOMAIN jobs
               PROVE  /\ jobs[j].status = "completed" =>
                           \A n \in DOMAIN jobs[j].batch :
                             /\ Cardinality({i \in LinksOf(j) : links[i].item = n}) = 1
                             /\ \A i \in LinksOf(j) : links[i].state # "undone"
                      /\ jobs[j].status = "failed" =>
                           \A i \in LinksOf(j) : Live(i) => i \in spared
    BY DEF AllOrNothing
  <2>1. JobOK(j)
    BY DEF IInv
  <2>2. ASSUME jobs[j].status = "completed", NEW n \in DOMAIN jobs[j].batch
        PROVE  Cardinality({i \in LinksOf(j) : links[i].item = n}) = 1
    <3>1. PICK x \in LinksOf(j) :
            links[x].item = n /\ \A k \in LinksOf(j) : links[k].item = n => k = x
      BY <2>1, <2>2 DEF JobOK, Kept
    <3>2. {i \in LinksOf(j) : links[i].item = n} = {x}
      BY <3>1
    <3> QED
      BY <3>2, FS_Singleton
  <2> QED
    BY <2>1, <2>2 DEF JobOK, Kept, Gone
<1> QED
  BY <1>1, Inductive, PTL

\* A poller's counters add up and, of a finished job, tell what was kept (the
\* progress updates and the final Save).
THEOREM CountersTellTruth == Spec => []CountersAgree
<1>1. IInv => CountersAgree
  BY DEF IInv, JobOK, CountersAgree
<1> QED
  BY <1>1, Inductive, PTL

\* A shutdown leaves undecided only what a failure cut off (BatchService.Shutdown
\* after the HTTP server's).
THEOREM CleanStop == Spec => []CleanStopSettles
<1>1. IInv => CleanStopSettles
  <2> SUFFICES ASSUME IInv, life = "down", NEW j \in DOMAIN jobs
               PROVE  jobs[j].status \in Final \/ j \in lost
    BY DEF CleanStopSettles
  <2>1. ~Held(j)
    BY DEF IInv, LifeOK, Held, Sending, Working
  <2> QED
    BY <2>1 DEF IInv, JobOK
<1> QED
  BY <1>1, Inductive, PTL

\* A rollback deletes links of its own job only, by their ids.
THEOREM RollbackKeepsToItsJob == Spec => RollbackSparesOthers
<1> DEFINE A == \A i \in DOMAIN links : Live(i) /\ links'[i].state = "undone" =>
                  \E w \in Workers : worker[w].at = "undo" /\ worker[w].job = links[i].job
<1>1. IInv /\ [Next]_vars => [A]_vars
  <2> SUFFICES ASSUME IInv, Next, NEW i \in DOMAIN links, Live(i), links'[i].state = "undone"
               PROVE  \E w \in Workers : worker[w].at = "undo" /\ worker[w].job = links[i].job
    OBVIOUS
  <2>1. Shape /\ links[i].state = "live" /\ links' # links
    BY DEF IInv, Live
  <2>2. ASSUME NEW l PROVE links' # Append(links, l)
    <3>1. PICK T : T = LinkRow \cup {l}
      OBVIOUS
    <3>2. links \in Seq(T) /\ l \in T
      BY <2>1, <3>1, SeqMonotonic DEF Shape
    <3> QED
      BY <2>1, <3>2
  <2>3. \A k, state : links' = [links EXCEPT ![k].state = state] /\ state # "undone" => FALSE
    <3>1. links[i] \in LinkRow
      BY <2>1 DEF Shape
    <3>2. \A state : [links[i] EXCEPT !.state = state].state = state
      BY <3>1 DEF LinkRow
    <3> QED
      BY <2>1, <3>2 DEF Shape
  <2>4. ASSUME NEW c \in Callers, CallerStep(c) PROVE FALSE
    BY <2>1, <2>4 DEF CallerStep, SubmitInsert, SubmitRefind, SubmitSend, SubmitRefuse, Answer,
                      store
  <2>5. ASSUME NEW c \in Callers, NEW u \in Users, NEW r \in Requests, Submit(c, u, r)
        PROVE  FALSE
    BY <2>1, <2>5 DEF Submit, store
  <2>6. ASSUME NEW w \in Workers, WorkerTake(w) \/ WorkerStart(w) \/ WorkerFinish(w)
        PROVE  FALSE
    BY <2>1, <2>6 DEF WorkerTake, WorkerStart, WorkerFinish, store
  <2>7. ASSUME NEW w \in Workers, WorkerItem(w) PROVE FALSE
    <3>1. InsertItem(w) \/ UNCHANGED links
      BY <2>7 DEF WorkerItem
    <3> QED
      BY <2>1, <2>2, <3>1, Zenon DEF InsertItem
  <2>8. ASSUME NEW w \in Workers, WorkerUndo(w)
        PROVE  worker[w].at = "undo" /\ worker[w].job = links[i].job
    <3>1. PICK x : x = Min(Made(w))
      OBVIOUS
    <3>2. x \in LinksOf(worker[w].job)
      <4>1. WorkerOK(w) /\ worker[w] \in Work /\ Made(w) # {} /\ worker[w].at = "undo"
        BY <2>8 DEF IInv, Shape, WorkerUndo
      <4>2. Made(w) \in SUBSET Nat
        BY <4>1 DEF Made, Ids, Work
      <4>3. \E n \in Made(w) : \A m \in Made(w) : n <= m
        BY <4>1, <4>2, LeastNumber
      <4>4. x \in Made(w)
        BY <3>1, <4>3 DEF Min
      <4> QED
        BY <4>1, <4>4 DEF WorkerOK, Working, Undoing, Made, Ids
    <3>3. links' = [links EXCEPT ![x].state = "undone"]
      BY <2>1, <2>8, <3>1 DEF WorkerUndo, Undo
    <3>4. i = x
      BY <2>1, <3>3 DEF Shape
    <3> QED
      BY <2>8, <3>2, <3>4 DEF LinksOf, WorkerUndo
  <2>9. CASE Shutdown \/ Exit \/ Crash \/ Start
    BY <2>1, <2>9 DEF Shutdown, Exit, Crash, Start, store
  <2>10. ASSUME NEW u \in Users, NEW k \in Codes, Squat(u, k) PROVE FALSE
    BY <2>2, <2>10 DEF Squat
  <2>11. ASSUME NEW k \in DOMAIN links, OwnerDelete(k) \/ EditFind(k) PROVE FALSE
    BY <2>1, <2>3, <2>11 DEF OwnerDelete, EditFind
  <2>12. CASE EditSave
    BY <2>1, <2>3, <2>12 DEF EditSave
  <2> QED
    BY <2>4, <2>5, <2>6, <2>7, <2>8, <2>9, <2>10, <2>11, <2>12 DEF Next, WorkerStep
<1> QED
  BY <1>1, Inductive, PTL DEF Spec, RollbackSparesOthers

\* A finished job's row is never written again: what a poller was told of it
\* stays true (GET /batch/:id).
THEOREM OutcomesStand == Spec => OutcomeFinal
<1> DEFINE A == \A u \in Users, j \in DOMAIN jobs :
                  JobSeenBy(u, j) \in Final => JobSeenBy(u, j)' = JobSeenBy(u, j)
<1>1. IInv /\ [Next]_vars => [A]_vars
  <2> SUFFICES ASSUME IInv, Next, NEW u \in Users, NEW j \in DOMAIN jobs,
                      JobSeenBy(u, j) \in Final
               PROVE  JobSeenBy(u, j)' = JobSeenBy(u, j)
    OBVIOUS
  <2>1. Shape /\ jobs[j].status \in Final
    BY DEF IInv, JobSeenBy, Final
  <2> SUFFICES j \in DOMAIN jobs' /\ jobs'[j] = jobs[j]
    BY DEF JobSeenBy
  <2>2. \A r : jobs' = Append(jobs, r) => j \in DOMAIN jobs' /\ jobs'[j] = jobs[j]
    BY <2>1 DEF Shape
  <2>3. \A c \in Callers : Sending(c) => caller[c].job # j
    BY <2>1 DEF IInv, CallerOK, Fresh, Final
  <2>4. \A w \in Workers : Working(w) => worker[w].job # j
    BY <2>1 DEF IInv, WorkerOK
  <2>5. ASSUME NEW c \in Callers, CallerStep(c) PROVE j \in DOMAIN jobs' /\ jobs'[j] = jobs[j]
    <3>1. CASE SubmitInsert(c)
      BY <2>2, <3>1 DEF SubmitInsert
    <3>2. CASE SubmitRefuse(c)
      BY <2>1, <2>3, <3>2 DEF SubmitRefuse, Sending, Shape
    <3>3. CASE SubmitRefind(c) \/ SubmitSend(c) \/ Answer(c)
      BY <3>3 DEF SubmitRefind, SubmitSend, Answer, store
    <3> QED
      BY <2>5, <3>1, <3>2, <3>3 DEF CallerStep
  <2>6. ASSUME NEW c \in Callers, NEW v \in Users, NEW r \in Requests, Submit(c, v, r)
        PROVE  j \in DOMAIN jobs' /\ jobs'[j] = jobs[j]
    BY <2>6 DEF Submit, store
  <2>7. ASSUME NEW w \in Workers, WorkerStep(w) PROVE j \in DOMAIN jobs' /\ jobs'[j] = jobs[j]
    <3>1. CASE WorkerStart(w)
      BY <2>1, <2>4, <3>1 DEF WorkerStart, Working, Shape
    <3>2. CASE WorkerItem(w)
      <4>1. worker[w].job # j
        BY <2>4, <3>2 DEF WorkerItem, Working
      <4>2. (\E n, bad : Progress(w, n, bad)) \/ jobs' = jobs
        BY <3>2, Zenon DEF WorkerItem
      <4> QED
        BY <2>1, <4>1, <4>2 DEF Progress, Shape
    <3>3. CASE WorkerFinish(w)
      BY <2>1, <2>4, <3>3 DEF WorkerFinish, Working, Shape
    <3>4. CASE WorkerTake(w) \/ WorkerUndo(w)
      BY <3>4 DEF WorkerTake, WorkerUndo, store
    <3> QED
      BY <2>7, <3>1, <3>2, <3>3, <3>4 DEF WorkerStep
  <2>8. CASE Shutdown \/ Exit \/ Crash \/ Start
    BY <2>8 DEF Shutdown, Exit, Crash, Start, store
  <2>9. CASE \/ \E v \in Users, k \in Codes : Squat(v, k)
             \/ \E i \in DOMAIN links : OwnerDelete(i) \/ EditFind(i)
             \/ EditSave
    BY <2>9 DEF Squat, OwnerDelete, EditFind, EditSave, Batches
  <2> QED
    BY <2>5, <2>6, <2>7, <2>8, <2>9 DEF Next
<1> QED
  BY <1>1, Inductive, PTL DEF Spec, OutcomeFinal
=============================================================================
