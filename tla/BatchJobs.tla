------------------------------ MODULE BatchJobs ------------------------------
(***************************************************************************)
(* The batch service: submissions under an idempotency key, the bounded    *)
(* job channel, the workers that create a job's links one by one and take  *)
(* them back when an item failed, graceful shutdown, crash and restart.    *)
(*                                                                         *)
(* Callers and workers make one remote call a step. An item's creation and *)
(* a rollback deletion are single steps here (LinkStore has their calls):  *)
(* a creation that loses the race for a code fails like one that finds it  *)
(* taken, and a deletion goes by id. A row id is a position in its table;  *)
(* a link that is no longer a row stays in the sequence with the word who  *)
(* deleted it. `lost' and `spared' are histories no action reads.          *)
(***************************************************************************)
EXTENDS Naturals, SequencesExt

CONSTANTS
    Users, Codes, Urls,
    BadUrls,    \* urls validateURL refuses
    Pieces,     \* url |-> what stands between the bars in it
    Rank,       \* url |-> its place in the order of sort.Strings
    AnyCode,    \* the code of an item without custom_code
    Requests,   \* the uploads a user may send: sequences of rows
    Blank,      \* the url of a csv row without one, or that cannot be read
    Callers, Workers,
    QueueCap,   \* capacity of jobChan
    MaxItems,   \* ten times MaxBatchSize
    Every,      \* items between two progress updates
    Faults,     \* subset of {"db", "lostReply", "crash"}
    MaxJobs, MaxTrouble   \* bounds of the model

ASSUME BatchAssumption ==
    /\ BadUrls \subseteq Urls /\ Blank \notin Urls /\ AnyCode \notin Codes
    /\ \A x \in Urls : Pieces[x] # <<>> /\ Rank[x] \in Nat
    /\ \A x, y \in Urls : x # y => Pieces[x] # Pieces[y] /\ Rank[x] # Rank[y]
    /\ \A r \in Requests :
           r \in Seq([url : Urls \cup {Blank}, code : Codes \cup {AnyCode}])
    /\ QueueCap \in Nat \ {0} /\ MaxItems \in Nat /\ Every \in Nat \ {0}

VARIABLES
    jobs,       \* batch_jobs
    links,      \* short_links
    queue,      \* jobChan
    life,       \* the process: "up", "closing", "down"
    caller,     \* the submission each caller's goroutine is handling
    worker,
    edit,       \* id of a link whose owner has read it and will save it, or 0
    lost,       \* history: jobs a failed statement or a crash cut off
    spared,     \* history: links a rollback left behind or knows nothing of,
                \* or an edit put back
    trouble     \* failed calls, crashes, shutdowns and what owners and others
                \* did to links so far, at most MaxTrouble together

store == <<jobs, links>>
history == <<lost, spared>>
vars == <<store, life, queue, caller, worker, edit, history, trouble>>

Final == {"completed", "failed"}

Idle == [at |-> "idle", user |-> CHOOSE u \in Users : TRUE, batch |-> <<>>, job |-> 0]
Resting == [at |-> "idle", job |-> 0, made |-> <<>>, bad |-> 0]

Init ==
    /\ jobs = <<>> /\ links = <<>> /\ queue = <<>>
    /\ life = "up"
    /\ caller = [c \in Callers |-> Idle]
    /\ worker = [w \in Workers |-> Resting]
    /\ edit = 0 /\ lost = {} /\ spared = {}
    /\ trouble = 0

-----------------------------------------------------------------------------
\* Helpers.

\* parseCSV: rows it cannot read or without a url are passed over.
Parsed(rows) ==
    LET kept[i \in 0..Len(rows)] ==
            IF i = 0 THEN <<>>
            ELSE IF rows[i].url = Blank THEN kept[i - 1] ELSE Append(kept[i - 1], rows[i])
    IN  kept[Len(rows)]

\* The sorted urls, joined by bars: a bar within a url is one like the others.
Text(b) ==
    LET sorted == SortSeq([i \in DOMAIN b |-> b[i].url], LAMBDA x, y : Rank[x] < Rank[y])
    IN  FlattenSeq([i \in DOMAIN b |-> Pieces[sorted[i]]])

\* computeIdempotencyKey: the user and that text, nothing else.
Key(u, b) == <<u, Text(b)>>

\* FindByIdempotencyKey: the ids of the rows with that key.
Under(k) == {j \in DOMAIN jobs : jobs[j].key = k}

NewJob(u, b) == [user |-> u, batch |-> b, key |-> Key(u, b), status |-> "pending",
                 processed |-> 0, success |-> 0, fail |-> 0]

Live(i) == links[i].state = "live"
Taken == {links[i].code : i \in {n \in DOMAIN links : Live(n)}}
LinksOf(j) == {i \in DOMAIN links : links[i].job = j}

\* A call fails in one of the ways the instance allows, or does not.
Fail(f) == f \in Faults /\ trouble < MaxTrouble /\ trouble' = trouble + 1
Fine == UNCHANGED trouble

\* What GET /batch/:id shows a user.
JobSeenBy(u, j) ==
    IF j \notin DOMAIN jobs THEN "not found"
    ELSE IF jobs[j].user # u THEN "forbidden" ELSE jobs[j].status

-----------------------------------------------------------------------------
\* Submission.

AtCaller(c, label) == caller' = [caller EXCEPT ![c].at = label]
Reply(c) == caller' = [caller EXCEPT ![c] = Idle]
Accept(c, j) == caller' = [caller EXCEPT ![c].at = "answer", ![c].job = j]
CallKey(c) == Key(caller[c].user, caller[c].batch)

\* A failed call leaves job j undecided for good.
Cut(j) == lost' = lost \cup {j}

\* SubmitAsync, or SubmitCSV when rows are passed over, up to its first look
\* for the key: too large, or empty, is refused before any call; a completed or
\* running job is the answer; an error of the look counts as no job.
Submit(c, u, r) ==
    LET b == Parsed(r)
        old == Under(Key(u, b))
        done == {j \in old : jobs[j].status \in {"completed", "running"}} IN
    /\ life = "up" /\ caller[c].at = "idle"
    /\ b # <<>> /\ Len(b) <= MaxItems
    /\ old = {} => Len(jobs) < MaxJobs
    /\ \E j \in done \cup {0} :
         /\ IF j = 0 /\ done # {} THEN Fail("db") ELSE Fine
         /\ caller' = [caller EXCEPT ![c] =
                [at |-> IF j = 0 THEN "insert" ELSE "answer", user |-> u, batch |-> b, job |-> j]]
    /\ UNCHANGED <<store, life, worker, queue, history, edit>>

\* Mutant: no unique index on idempotency_key.
InsertBesides(c) ==
    /\ caller[c].at = "insert" /\ Len(jobs) < MaxJobs
    /\ jobs' = Append(jobs, NewJob(caller[c].user, caller[c].batch))
    /\ caller' = [caller EXCEPT ![c].at = "send", ![c].job = Len(jobs')]
    /\ UNCHANGED <<links, life, worker, queue, history, edit, trouble>>

\* The INSERT, under the unique index; it may fail, with or without effect.
SubmitInsert(c) ==
    /\ caller[c].at = "insert"
    /\ IF Under(CallKey(c)) # {}
       THEN AtCaller(c, "refind") /\ Fine /\ UNCHANGED <<jobs, lost>>
       ELSE \/ /\ jobs' = Append(jobs, NewJob(caller[c].user, caller[c].batch))
               /\ \/ /\ Fine /\ UNCHANGED lost
                     /\ caller' = [caller EXCEPT ![c].at = "send", ![c].job = Len(jobs')]
                  \/ Fail("lostReply") /\ Cut(Len(jobs')) /\ Reply(c)
            \/ Fail("db") /\ Reply(c) /\ UNCHANGED <<jobs, lost>>
    /\ UNCHANGED <<links, life, worker, queue, spared, edit>>

\* Mutant: the second look puts a job that is not finished on the channel again.
RefindRequeues(c) ==
    /\ caller[c].at = "refind"
    /\ \E j \in Under(CallKey(c)) :
         /\ Accept(c, j)
         /\ queue' = IF jobs[j].status # "completed" /\ Len(queue) < QueueCap
                     THEN Append(queue, j) ELSE queue
    /\ UNCHANGED <<store, life, worker, lost, spared, edit, trouble>>

\* The second look, after a duplicate key: whatever job is there is the answer.
SubmitRefind(c) ==
    /\ caller[c].at = "refind"
    /\ \/ Fine /\ \E j \in Under(CallKey(c)) : Accept(c, j)
       \/ Fail("db") /\ Reply(c)
    /\ UNCHANGED <<store, life, worker, queue, lost, spared, edit>>

\* Mutant: the channel takes what it has no room for.
SendAnyway(c) ==
    /\ caller[c].at = "send"
    /\ queue' = Append(queue, caller[c].job) /\ Accept(c, caller[c].job)
    /\ UNCHANGED <<store, life, worker, lost, spared, edit, trouble>>

\* The send that never blocks.
SubmitSend(c) ==
    /\ caller[c].at = "send"
    /\ IF Len(queue) < QueueCap
       THEN queue' = Append(queue, caller[c].job) /\ Accept(c, caller[c].job)
       ELSE AtCaller(c, "refuse") /\ UNCHANGED queue
    /\ UNCHANGED <<store, life, worker, lost, spared, edit, trouble>>

\* Mutant: a full channel is reported, but the job stays as it is.
RefuseUnmarked(c) ==
    /\ caller[c].at = "refuse" /\ Reply(c)
    /\ UNCHANGED <<store, life, worker, queue, history, edit, trouble>>

\* A full channel: the job is marked failed, the caller is told an error.
SubmitRefuse(c) ==
    LET j == caller[c].job IN
    /\ caller[c].at = "refuse"
    /\ \/ Fine /\ jobs' = [jobs EXCEPT ![j].status = "failed"] /\ UNCHANGED lost
       \/ Fail("db") /\ Cut(j) /\ UNCHANGED jobs
    /\ Reply(c)
    /\ UNCHANGED <<links, life, worker, queue, spared, edit>>

\* The handler writes its 202 with the job, or its 500, and returns.
Answer(c) ==
    /\ caller[c].at = "answer" /\ Reply(c)
    /\ UNCHANGED <<store, life, worker, queue, history, edit, trouble>>

-----------------------------------------------------------------------------
\* Workers.

Doing(w) == jobs[worker[w].job]
Begun(j) == [at |-> "start", job |-> j, made |-> <<>>, bad |-> 0]

\* Take an id from the channel and read the job; an error drops it.
WorkerTake(w) ==
    /\ life \in {"up", "closing"} /\ worker[w].at = "idle" /\ queue # <<>>
    /\ queue' = Tail(queue)
    /\ \/ Fine /\ worker' = [worker EXCEPT ![w] = Begun(Head(queue))] /\ UNCHANGED lost
       \/ Fail("db") /\ Cut(Head(queue)) /\ UNCHANGED worker
    /\ UNCHANGED <<store, life, caller, spared, edit>>

\* Save with status running; its error is ignored.
WorkerStart(w) ==
    /\ worker[w].at = "start"
    /\ \/ Fine /\ jobs' = [jobs EXCEPT ![worker[w].job].status = "running"]
       \/ Fail("db") /\ UNCHANGED jobs
    /\ worker' = [worker EXCEPT ![w].at = "items"]
    /\ UNCHANGED <<links, life, caller, queue, lost, spared, edit>>

\* made holds one entry per item done: its link's id, or 0 when it failed.
Ids(made) == {made[i] : i \in DOMAIN made} \ {0}
Made(w) == Ids(worker[w].made)

\* Mutant: no rollback.
NextKept(w, made, bad) ==
    worker' = [worker EXCEPT ![w].made = made, ![w].bad = bad,
        ![w].at = IF Len(made) < Len(Doing(w).batch) THEN "items" ELSE "finish"]

\* On to the next item, to the rollback, or to the final Save.
NextItem(w, made, bad) ==
    worker' = [worker EXCEPT ![w].made = made, ![w].bad = bad,
        ![w].at = IF Len(made) < Len(Doing(w).batch) THEN "items"
                  ELSE IF bad > 0 /\ Ids(made) # {} THEN "undo" ELSE "finish"]

\* The progress update after every tenth item; its error is ignored.
Progress(w, n, bad) ==
    jobs' = IF n % Every # 0 THEN jobs
            ELSE [jobs EXCEPT ![worker[w].job].processed = n,
                              ![worker[w].job].success = n - bad,
                              ![worker[w].job].fail = bad]

ItemNo(w) == Len(worker[w].made) + 1
Item(w) == Doing(w).batch[ItemNo(w)]
Free(w) == (IF Item(w).code = AnyCode THEN Codes ELSE {Item(w).code}) \ Taken
Refused(w) == Item(w).url \in BadUrls \/ Free(w) = {}

\* The item's row.
InsertItem(w) ==
    /\ ~Refused(w)
    /\ \E k \in Free(w) :
         links' = Append(links, [user |-> Doing(w).user, code |-> k, job |-> worker[w].job,
                                 item |-> ItemNo(w), state |-> "live"])

ItemFailed(w) == NextItem(w, Append(worker[w].made, 0), worker[w].bad + 1)

\* CreateWithBatchID for the next item: a bad url, a taken code or a failed
\* statement is a failed item, and so is an INSERT that is reported failed
\* although it took effect: its id never gets into createdIDs.
WorkerItem(w) ==
    /\ worker[w].at = "items"
    /\ \/ /\ InsertItem(w) /\ UNCHANGED spared
          /\ NextItem(w, Append(worker[w].made, Len(links')), worker[w].bad)
          /\ \/ Fine /\ Progress(w, ItemNo(w), worker[w].bad)
             \/ Fail("db") /\ UNCHANGED jobs
       \/ /\ Fail("lostReply") /\ InsertItem(w) /\ spared' = spared \cup {Len(links')}
          /\ ItemFailed(w) /\ Progress(w, ItemNo(w), worker[w].bad + 1)
       \/ /\ ItemFailed(w)
          /\ \/ /\ IF Refused(w) THEN Fine ELSE Fail("db")
                /\ Progress(w, ItemNo(w), worker[w].bad + 1)
             \/ Refused(w) /\ Fail("db") /\ UNCHANGED jobs
          /\ UNCHANGED <<links, spared>>
    /\ UNCHANGED <<life, caller, queue, lost, edit>>

\* Mutant: the rollback goes by short code.
UndoByCode(i) ==
    links' = [n \in DOMAIN links |->
        IF links[n].code = links[i].code /\ Live(n)
        THEN [links[n] EXCEPT !.state = "undone"] ELSE links[n]]

\* ForceDelete by id; nothing happens when the owner was first.
Undo(i) ==
    links' = IF Live(i) THEN [links EXCEPT ![i].state = "undone"] ELSE links

\* One deletion of the rollback, in the order of creation; errors are ignored.
WorkerUndo(w) ==
    LET i == Min(Made(w)) IN
    /\ worker[w].at = "undo" /\ Made(w) # {}
    /\ worker' = [worker EXCEPT ![w].made = [n \in DOMAIN @ |-> IF @[n] = i THEN 0 ELSE @[n]]]
    /\ \/ Fine /\ Undo(i) /\ UNCHANGED spared
       \/ Fail("db") /\ spared' = spared \cup {i} /\ UNCHANGED links
    /\ UNCHANGED <<jobs, life, caller, queue, lost, edit>>

\* Mutant: fail counts the items that failed, not those rolled back.
OutcomeUnadjusted(w) ==
    [Doing(w) EXCEPT !.status = IF worker[w].bad = 0 THEN "completed" ELSE "failed",
                     !.processed = Len(Doing(w).batch),
                     !.success = Cardinality(Made(w)), !.fail = worker[w].bad]

\* The row the final Save writes.
Outcome(w) ==
    LET total == Len(Doing(w).batch)
        good == Cardinality(Made(w)) IN
    [Doing(w) EXCEPT !.status = IF worker[w].bad = 0 THEN "completed" ELSE "failed",
                     !.processed = total, !.success = good, !.fail = total - good]

\* The final Save; its error is ignored too.
WorkerFinish(w) ==
    /\ worker[w].at = "finish" \/ (worker[w].at = "undo" /\ Made(w) = {})
    /\ \/ Fine /\ jobs' = [jobs EXCEPT ![worker[w].job] = Outcome(w)] /\ UNCHANGED lost
       \/ Fail("db") /\ Cut(worker[w].job) /\ UNCHANGED jobs
    /\ worker' = [worker EXCEPT ![w] = Resting]
    /\ UNCHANGED <<links, life, caller, queue, spared, edit>>

-----------------------------------------------------------------------------
\* The process.

\* Shutdown, after the HTTP server has stopped: the channel is closed and the
\* workers run it empty, however long it takes.
Shutdown ==
    /\ life = "up" /\ trouble < MaxTrouble /\ trouble' = trouble + 1
    /\ edit = 0 /\ \A c \in Callers : caller[c].at = "idle"
    /\ life' = "closing"
    /\ UNCHANGED <<store, caller, worker, queue, history, edit>>

\* Mutant: Shutdown does not wait for its workers.
ExitAtOnce ==
    /\ life = "closing" /\ life' = "down"
    /\ queue' = <<>> /\ worker' = [w \in Workers |-> Resting]
    /\ UNCHANGED <<store, caller, history, edit, trouble>>

Exit ==
    /\ life = "closing" /\ queue = <<>>
    /\ \A w \in Workers : worker[w].at = "idle"
    /\ life' = "down"
    /\ UNCHANGED <<store, caller, worker, queue, history, edit, trouble>>

\* A crash, or log.Fatalf: what was in memory is gone.
Crash ==
    /\ life # "down" /\ Fail("crash")
    /\ life' = "down" /\ queue' = <<>> /\ edit' = 0
    /\ caller' = [c \in Callers |-> Idle]
    /\ worker' = [w \in Workers |-> Resting]
    /\ lost' = lost \cup {j \in DOMAIN jobs : jobs[j].status \notin Final}
    /\ UNCHANGED <<store, spared>>

\* Start: empty channel, idle workers; unfinished jobs are not looked for.
Start ==
    /\ life = "down" /\ life' = "up"
    /\ UNCHANGED <<store, caller, worker, queue, history, edit, trouble>>

-----------------------------------------------------------------------------
\* What else happens to links meanwhile.

Meddle == life = "up" /\ trouble < MaxTrouble /\ trouble' = trouble + 1
Batches == <<jobs, life, caller, worker, queue, lost>>

\* Somebody creates a single link.
Squat(u, k) ==
    /\ Meddle /\ k \notin Taken
    /\ links' = Append(links, [user |-> u, code |-> k, job |-> 0, item |-> 0, state |-> "live"])
    /\ UNCHANGED <<Batches, edit, spared>>

\* An owner deletes his link.
OwnerDelete(i) ==
    /\ Meddle /\ Live(i)
    /\ links' = [links EXCEPT ![i].state = "removed"]
    /\ UNCHANGED <<Batches, edit, spared>>

\* An owner's Update reads the row ...
EditFind(i) ==
    /\ Meddle /\ edit = 0 /\ Live(i)
    /\ edit' = i
    /\ UNCHANGED <<Batches, links, spared>>

\* ... and saves it, which inserts it again when it has been deleted meanwhile.
EditSave ==
    /\ edit # 0 /\ edit' = 0
    /\ IF Live(edit) \/ links[edit].code \in Taken
       THEN UNCHANGED <<links, spared>>
       ELSE /\ links' = [links EXCEPT ![edit].state = "live"]
            /\ spared' = spared \cup {edit}
    /\ UNCHANGED <<Batches, trouble>>

CallerStep(c) == SubmitInsert(c) \/ SubmitRefind(c)
                    \/ SubmitSend(c) \/ SubmitRefuse(c) \/ Answer(c)
WorkerStep(w) == WorkerTake(w) \/ WorkerStart(w) \/ WorkerItem(w)
                    \/ WorkerUndo(w) \/ WorkerFinish(w)

Next ==
    \/ \E c \in Callers : CallerStep(c) \/ \E u \in Users, r \in Requests : Submit(c, u, r)
    \/ \E w \in Workers : WorkerStep(w)
    \/ Shutdown \/ Exit \/ Crash \/ Start
    \/ \E u \in Users, k \in Codes : Squat(u, k)
    \/ \E i \in DOMAIN links : OwnerDelete(i) \/ EditFind(i)
    \/ EditSave

Fairness ==
    /\ \A c \in Callers : WF_vars(CallerStep(c))
    /\ \A w \in Workers : WF_vars(WorkerStep(w))

Spec == Init /\ [][Next]_vars
FairSpec == Spec /\ Fairness

-----------------------------------------------------------------------------
\* Properties.

\* Every variable has its type: rows, channel within its capacity, and what
\* each caller and worker holds.
TypeOK ==
    /\ \A j \in DOMAIN jobs :
         /\ jobs[j].user \in Users /\ jobs[j].status \in Final \cup {"pending", "running"}
         /\ jobs[j].processed \in 0..Len(jobs[j].batch)
    /\ \A i \in DOMAIN links :
         /\ links[i].user \in Users /\ links[i].code \in Codes
         /\ links[i].job \in {0} \cup DOMAIN jobs
         /\ links[i].state \in {"live", "removed", "undone"}
    /\ Len(queue) <= QueueCap /\ Range(queue) \subseteq DOMAIN jobs
    /\ life \in {"up", "closing", "down"}
    /\ \A c \in Callers :
         /\ caller[c].at \in {"idle", "insert", "refind", "send", "refuse", "answer"}
         /\ caller[c].at \in {"send", "refuse", "answer"} => caller[c].job \in DOMAIN jobs
    /\ \A w \in Workers :
         /\ worker[w].at \in {"idle", "start", "items", "undo", "finish"}
         /\ worker[w].at # "idle" => worker[w].job \in DOMAIN jobs
         /\ Made(w) \subseteq DOMAIN links
    /\ edit \in {0} \cup DOMAIN links
    /\ lost \subseteq DOMAIN jobs /\ spared \subseteq DOMAIN links

\* A submission is answered with the one job this user has under the text of its
\* sorted urls, whatever races, retries and restarts lie between (SubmitAsync's
\* idempotency key). That is all it says of the job: other codes, or other urls
\* whose bars make up the same text, are answered with it too.
IdempotentAnswers ==
    \A c \in Callers : caller[c].at = "answer" =>
        {j \in DOMAIN jobs : /\ jobs[j].user = caller[c].user
                            /\ Text(jobs[j].batch) = Text(caller[c].batch)} = {caller[c].job}

\* A job reported completed created each of its items exactly once, and only
\* their owners deleted them since; a job reported failed has left no link,
\* except one whose INSERT took effect although it was reported failed, whose
\* rollback deletion failed, or which an owner's edit put back.
AllOrNothing ==
    \A j \in DOMAIN jobs :
        /\ jobs[j].status = "completed" =>
             \A n \in DOMAIN jobs[j].batch :
                 /\ Cardinality({i \in LinksOf(j) : links[i].item = n}) = 1
                 /\ \A i \in LinksOf(j) : links[i].state # "undone"
        /\ jobs[j].status = "failed" => \A i \in LinksOf(j) : Live(i) => i \in spared

\* The counters a poller sees always add up, and tell of a finished job what
\* was kept: every item of a completed one, none of a failed one.
CountersAgree ==
    \A j \in DOMAIN jobs :
        /\ jobs[j].success + jobs[j].fail = jobs[j].processed
        /\ jobs[j].status = "completed" => jobs[j].success = Len(jobs[j].batch)
        /\ jobs[j].status = "failed" => jobs[j].success = 0

\* A rollback deletes links of the job it rolls back and no other, even when
\* the owner was faster and somebody else has the code by now.
RollbackSparesOthers ==
    [][\A i \in DOMAIN links : Live(i) /\ links'[i].state = "undone" =>
           \E w \in Workers : worker[w].at = "undo" /\ worker[w].job = links[i].job]_vars

\* What a poller was told of a finished job stays true.
OutcomeFinal ==
    [][\A u \in Users, j \in DOMAIN jobs :
           JobSeenBy(u, j) \in Final => JobSeenBy(u, j)' = JobSeenBy(u, j)]_vars

\* A graceful shutdown leaves no job undecided, except one a failed statement
\* or an earlier crash had cut off (Shutdown closes the channel and waits).
CleanStopSettles ==
    life = "down" => \A j \in DOMAIN jobs : jobs[j].status \in Final \/ j \in lost

\* Every job that was inserted is decided, unless it was cut off.
JobsSettle ==
    \A j \in 1..MaxJobs :
        j \in DOMAIN jobs ~> (j \in lost \/ (j \in DOMAIN jobs /\ jobs[j].status \in Final))

\* What `job queue full, try again later' and the 202 `batch job submitted'
\* say: a job named in an answer has been, is being or is going to be run.
SubmittedJobsRun ==
    \A c \in Callers : caller[c].at = "answer" =>
        LET j == caller[c].job IN
        \/ jobs[j].processed > 0
        \/ j \in Range(queue)
        \/ \E w \in Workers : worker[w].job = j
        \/ \E d \in Callers : caller[d].at = "send" /\ caller[d].job = j
=============================================================================
