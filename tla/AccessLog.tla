------------------------------ MODULE AccessLog ------------------------------
(***************************************************************************)
(* The access-log pipeline of LinkService, from the redirect handler that  *)
(* records an entry to the row or the fallback line it ends as, with the   *)
(* graceful shutdown main runs around it.                                  *)
(*                                                                         *)
(* A visit is the entry it records. The channel and the workers' batches   *)
(* are sets: with several workers taking from the channel nothing here     *)
(* depends on the order of entries. Enrichment, de-duplication and the     *)
(* realtime counters, which flush runs on its copy before the write, decide *)
(* nothing about delivery. The pause between two attempts is the time a    *)
(* worker spends at "write" with tries > 0.                                *)
(***************************************************************************)
EXTENDS Naturals, FiniteSets

CONSTANTS
    Entries,
    Workers,    \* the log workers
    ChanCap,    \* capacity of logChan
    BatchCap,   \* entries that make a batch flush at once
    MaxTries,   \* attempts of writeBatchWithRetry: maxRetries + 1
    Faults      \* what may go wrong: subset of {"db", "lostReply", "disk", "kill"}

ASSUME LogAssumption ==
    /\ IsFiniteSet(Entries) /\ Workers # {}
    /\ ChanCap \in Nat \ {0} /\ BatchCap \in Nat \ {0} /\ MaxTries \in Nat \ {0}
    /\ Faults \subseteq {"db", "lostReply", "disk", "kill"}

VARIABLES
    main,       \* what main is doing
    timedOut,   \* LinkService.Shutdown gave up waiting for its workers
    hasFile,    \* the fallback file could be opened at start
    waiting,    \* visits not made yet
    handling,   \* visits a handler is serving
    logChan, refused,
    wpc, batch, back, tries,
    rows,       \* entry |-> number of its rows in access_logs
    fileLines, stderrLines,
    doubted     \* history: entries of a committed write that was reported failed

server == <<main, timedOut, hasFile>>
intake == <<waiting, handling, logChan, refused>>
worker == <<wpc, batch, back, tries>>
output == <<rows, fileLines, stderrLines, doubted>>
vars == <<server, intake, worker, output>>

Init ==
    /\ main = "serving" /\ timedOut = FALSE /\ hasFile \in BOOLEAN
    /\ waiting = Entries /\ handling = {} /\ logChan = {} /\ refused = {}
    /\ wpc = [w \in Workers |-> "select"]
    /\ batch = [w \in Workers |-> {}]
    /\ back = [w \in Workers |-> "select"]
    /\ tries = [w \in Workers |-> 0]
    /\ rows = [e \in Entries |-> 0]
    /\ fileLines = {} /\ stderrLines = {} /\ doubted = {}

Up == main \in {"serving", "closing", "stopping", "flushed"}
StopClosed == main \in {"stopping", "flushed"}

-----------------------------------------------------------------------------
\* Redirect handlers.

Arrive(e) ==
    /\ main = "serving" /\ e \in waiting
    /\ waiting' = waiting \ {e}
    /\ handling' = handling \cup {e}
    /\ UNCHANGED <<server, logChan, refused, worker, output>>

\* RecordAccess: a send that never blocks; a full channel drops the entry.
RecordAccess(e) ==
    /\ Up /\ e \in handling
    /\ handling' = handling \ {e}
    /\ IF Cardinality(logChan) < ChanCap
       THEN logChan' = logChan \cup {e} /\ UNCHANGED refused
       ELSE refused' = refused \cup {e} /\ UNCHANGED logChan
    /\ UNCHANGED <<server, waiting, worker, output>>

-----------------------------------------------------------------------------
\* Log workers.

\* flush of a batch, after which the worker goes on at label.
Flush(w, label) ==
    /\ wpc' = [wpc EXCEPT ![w] = "write"]
    /\ back' = [back EXCEPT ![w] = label]
    /\ UNCHANGED tries

Take(w) ==
    /\ Up /\ wpc[w] \in {"select", "drain"}
    /\ \E e \in logChan :
        /\ logChan' = logChan \ {e}
        /\ batch' = [batch EXCEPT ![w] = @ \cup {e}]
    /\ IF Cardinality(batch'[w]) >= BatchCap
       THEN Flush(w, wpc[w])
       ELSE UNCHANGED <<wpc, back, tries>>
    /\ UNCHANGED <<server, waiting, handling, refused, output>>

\* Mutant: the ticker flushes full batches only.
TickFlushFull(w) ==
    /\ Up /\ wpc[w] = "select" /\ Cardinality(batch[w]) >= BatchCap
    /\ Flush(w, "select")
    /\ UNCHANGED <<server, intake, batch, output>>

\* The ticker; an empty batch is not flushed.
TickFlush(w) ==
    /\ Up /\ wpc[w] = "select" /\ batch[w] # {}
    /\ Flush(w, "select")
    /\ UNCHANGED <<server, intake, batch, output>>

SeeStop(w) ==
    /\ Up /\ StopClosed /\ wpc[w] = "select"
    /\ wpc' = [wpc EXCEPT ![w] = "drain"]
    /\ UNCHANGED <<server, intake, batch, back, tries, output>>

\* Mutant: the drain loop returns without its last flush.
DrainEndUnflushed(w) ==
    /\ Up /\ wpc[w] = "drain" /\ logChan = {}
    /\ wpc' = [wpc EXCEPT ![w] = "done"]
    /\ UNCHANGED <<server, intake, batch, back, tries, output>>

\* The drain loop finds the channel empty: last flush, then the worker returns.
DrainEnd(w) ==
    /\ Up /\ wpc[w] = "drain" /\ logChan = {}
    /\ IF batch[w] = {}
       THEN wpc' = [wpc EXCEPT ![w] = "done"] /\ UNCHANGED <<back, tries>>
       ELSE Flush(w, "done")
    /\ UNCHANGED <<server, intake, batch, output>>

AddRows(S) == rows' = [e \in Entries |-> IF e \in S THEN rows[e] + 1 ELSE rows[e]]

\* Mutant: the batch is not reset once its copy is written.
WriteOkKeepsBatch(w) ==
    /\ AddRows(batch[w])
    /\ wpc' = [wpc EXCEPT ![w] = back[w]]
    /\ tries' = [tries EXCEPT ![w] = 0]
    /\ UNCHANGED <<batch, back, doubted>>

\* One attempt of writeBatchWithRetry: a single INSERT of the whole batch.
WriteOk(w) ==
    /\ AddRows(batch[w])
    /\ batch' = [batch EXCEPT ![w] = {}]
    /\ wpc' = [wpc EXCEPT ![w] = back[w]]
    /\ tries' = [tries EXCEPT ![w] = 0]
    /\ UNCHANGED <<back, doubted>>

\* Mutant: attempts are counted one too far.
WriteFailedExtraTry(w) ==
    /\ UNCHANGED <<rows, doubted>>
    /\ tries' = [tries EXCEPT ![w] = @ + 1]
    /\ wpc' = [wpc EXCEPT ![w] = IF tries[w] < MaxTries THEN "write" ELSE "spill"]
    /\ UNCHANGED <<batch, back>>

\* Mutant: the batch is given up after its last attempt.
WriteFailedDrops(w) ==
    /\ tries' = [tries EXCEPT ![w] = (@ + 1) % MaxTries]
    /\ IF tries[w] + 1 < MaxTries
       THEN UNCHANGED <<wpc, batch>>
       ELSE /\ batch' = [batch EXCEPT ![w] = {}]
            /\ wpc' = [wpc EXCEPT ![w] = back[w]]
    /\ UNCHANGED <<rows, doubted, back>>

\* It may have committed and only the reply be lost.
WriteFailed(w) ==
    /\ \/ "db" \in Faults /\ UNCHANGED <<rows, doubted>>
       \/ "lostReply" \in Faults /\ AddRows(batch[w]) /\ doubted' = doubted \cup batch[w]
    /\ tries' = [tries EXCEPT ![w] = @ + 1]
    /\ wpc' = [wpc EXCEPT ![w] = IF tries[w] + 1 < MaxTries THEN "write" ELSE "spill"]
    /\ UNCHANGED <<batch, back>>

Write(w) ==
    /\ Up /\ wpc[w] = "write"
    /\ WriteOk(w) \/ WriteFailed(w)
    /\ UNCHANGED <<server, intake, fileLines, stderrLines>>

\* writeToFallback, one record a step: to the file if it is there (an error, as
\* after its Close, is ignored), and always to stderr.
FileOpen == hasFile /\ main # "flushed"

Emit(e) ==
    /\ \/ FileOpen /\ fileLines' = fileLines \cup {e}
       \/ (FileOpen => "disk" \in Faults) /\ UNCHANGED fileLines
    /\ stderrLines' = stderrLines \cup {e}

Spill(w) ==
    /\ Up /\ wpc[w] = "spill"
    /\ \E e \in batch[w] : Emit(e) /\ batch' = [batch EXCEPT ![w] = @ \ {e}]
    /\ IF batch'[w] = {}
       THEN /\ wpc' = [wpc EXCEPT ![w] = back[w]]
            /\ tries' = [tries EXCEPT ![w] = 0]
       ELSE UNCHANGED <<wpc, tries>>
    /\ UNCHANGED <<server, intake, back, rows, doubted>>

-----------------------------------------------------------------------------
\* main: SIGTERM, srv.Shutdown, linkSvc.Shutdown, the other services, exit.

Sigterm ==
    /\ main = "serving"
    /\ main' = "closing"
    /\ UNCHANGED <<timedOut, hasFile, intake, worker, output>>

\* Mutant: the log workers are stopped without waiting for the handlers.
ServerClosedEarly ==
    /\ main = "closing"
    /\ main' = "stopping"
    /\ UNCHANGED <<timedOut, hasFile, intake, worker, output>>

\* srv.Shutdown returns once no handler is at work, and linkSvc.Shutdown closes
\* stopCh. After 10s with a handler still at work, of a visit or of any other
\* request, log.Fatalf ends the process.
ServerClosed ==
    /\ main = "closing"
    /\ \/ handling = {} /\ main' = "stopping"
       \/ main' = "fatal"
    /\ UNCHANGED <<timedOut, hasFile, intake, worker, output>>

AllDone == \A w \in Workers : wpc[w] = "done"

\* Mutant: the fallback file is closed with the process's stop signal, before the
\* workers have returned, and nobody notices.
WorkersAwaitedNot ==
    /\ main = "stopping"
    /\ main' = "flushed"
    /\ UNCHANGED <<timedOut, hasFile, intake, worker, output>>

\* linkSvc.Shutdown closes the fallback file when all workers have returned, or
\* after 5s whatever they are doing.
WorkersAwaited ==
    /\ main = "stopping"
    /\ timedOut' = ~AllDone
    /\ main' = "flushed"
    /\ UNCHANGED <<hasFile, intake, worker, output>>

Exit ==
    /\ main = "flushed"
    /\ main' = "exited"
    /\ UNCHANGED <<timedOut, hasFile, intake, worker, output>>

Kill ==
    /\ "kill" \in Faults /\ Up
    /\ main' = "killed"
    /\ UNCHANGED <<timedOut, hasFile, intake, worker, output>>

Work(w) ==
    Take(w) \/ TickFlush(w) \/ SeeStop(w) \/ DrainEnd(w) \/ Write(w) \/ Spill(w)

Next ==
    \/ \E e \in Entries : Arrive(e) \/ RecordAccess(e)
    \/ \E w \in Workers : Work(w)
    \/ Sigterm \/ ServerClosed \/ WorkersAwaited \/ Exit \/ Kill

Spec == Init /\ [][Next]_vars

\* The Go scheduler runs every goroutine that can run, every statement returns or
\* fails, and the waits of a shutdown have timeouts. Nothing makes a visitor come,
\* a signal arrive, or a kill.
Fairness ==
    /\ \A e \in Entries : WF_vars(RecordAccess(e))
    /\ \A w \in Workers : WF_vars(Work(w))
    /\ WF_vars(ServerClosed) /\ WF_vars(WorkersAwaited) /\ WF_vars(Exit)

FairSpec == Spec /\ Fairness

-----------------------------------------------------------------------------
InBatch(e) == \E w \in Workers : e \in batch[w]
Kept(e) == rows[e] > 0 \/ e \in stderrLines
Pending(e) == (e \in logChan \/ InBatch(e)) /\ ~Kept(e)

TypeOK ==
    /\ main \in {"serving", "closing", "stopping", "flushed", "exited", "fatal", "killed"}
    /\ timedOut \in BOOLEAN /\ hasFile \in BOOLEAN
    /\ waiting \subseteq Entries /\ handling \subseteq Entries
    /\ logChan \subseteq Entries /\ refused \subseteq Entries
    /\ wpc \in [Workers -> {"select", "drain", "write", "spill", "done"}]
    /\ batch \in [Workers -> SUBSET Entries]
    /\ back \in [Workers -> {"select", "drain", "done"}]
    /\ tries \in [Workers -> 0..MaxTries]
    /\ \A w \in Workers :
        /\ wpc[w] = "write" => tries[w] < MaxTries
        /\ wpc[w] \in {"select", "drain", "done"} => tries[w] = 0
    /\ rows \in [Entries -> Nat]
    /\ fileLines \subseteq Entries /\ stderrLines \subseteq Entries
    /\ doubted \subseteq Entries
    /\ Cardinality(logChan) <= ChanCap

\* An entry is in one place at a time: not seen yet, with its handler, refused,
\* in the channel, in one worker's batch, or in none of these and then kept. No
\* race between handlers, workers and shutdown duplicates or mislays one.
OnePlace ==
    /\ \A e \in Entries :
        e \in waiting \cup handling \cup refused \cup logChan \/ InBatch(e) \/ Kept(e)
    /\ \A e \in waiting \cup handling \cup refused \cup logChan : ~InBatch(e) /\ ~Kept(e)
    /\ waiting \cap (handling \cup refused \cup logChan) = {}
    /\ handling \cap (refused \cup logChan) = {} /\ refused \cap logChan = {}
    /\ \A v, w \in Workers : v # w => batch[v] \cap batch[w] = {}
    /\ \A e \in stderrLines : ~InBatch(e)

\* The workers return only when the channel is empty for good: after stopCh is
\* closed no handler is left that could still send.
NoneStranded == (\E w \in Workers : wpc[w] = "done") => logChan \cup handling = {}

\* An entry has two rows, or a row and a fallback line, only if a write that had
\* committed was reported failed and therefore tried again.
OnceUnlessDoubted ==
    \A e \in Entries : rows[e] > 1 \/ (rows[e] = 1 /\ e \in stderrLines) => e \in doubted

\* README.md:182: what the retries could not store is in the fallback file too,
\* unless there is none, its disk is full, or Shutdown timed out and closed it.
FallbackComplete ==
    hasFile /\ ~timedOut /\ "disk" \notin Faults => stderrLines \subseteq fileLines

Fate(e) ==
    IF e \in refused THEN "refused"
    ELSE IF Kept(e) THEN "kept"
    ELSE IF Pending(e) THEN "pending"
    ELSE "none"

Ending == IF Up THEN "up" ELSE IF main = "exited" /\ ~timedOut THEN "clean" ELSE "lossy"

Delivery == INSTANCE LogDelivery WITH
    fate <- [e \in Entries |-> Fate(e)], ending <- Ending

\* The pipeline implements LogDelivery; in particular a shutdown in which no wait
\* timed out leaves nothing pending.
DeliversLog == Delivery!Spec

\* Every entry taken is kept in the end, as long as the process lives.
EntriesSettle == \A e \in Entries : Pending(e) ~> Kept(e) \/ ~Up

\* README.md:183: a SIGTERM shutdown drains all buffered entries before the
\* process ends. The losses README.md:186-191 admits are excepted: a kill and
\* the timeout of LinkService.Shutdown.
SigtermDrains == ~Up /\ main # "killed" /\ ~timedOut => \A e \in Entries : ~Pending(e)
=============================================================================
