----------------------------- MODULE AuditTrail -----------------------------
(***************************************************************************)
(* The audit service: entries sent without blocking on a bounded channel,  *)
(* workers that write them in batches once and for all, and a shutdown     *)
(* that waits for the workers as long as it takes.                         *)
(*                                                                         *)
(* done is a history of the operations the handlers carried out; an entry  *)
(* is the number of its operation. A flush takes the batch and writes it   *)
(* in one step, since nobody else sees the batch.                          *)
(***************************************************************************)
EXTENDS Process, FiniteSets, Sequences, Bags

CONSTANTS
    Auditors,   \* audit workers
    AuditCap,   \* capacity of logChan
    AuditBatch  \* entries that make a batch flush at once

ASSUME AuditAssumption ==
    Auditors # {} /\ AuditCap \in Nat \ {0} /\ AuditBatch \in Nat \ {0}

VARIABLES
    done,       \* history: operations carried out
    auditChan, auditor, auditRows,
    auditLost   \* history: entries dropped, or in a batch whose write failed

audit == <<done, auditChan, auditor, auditRows, auditLost>>

AuditInit ==
    /\ done = <<>> /\ auditChan = {} /\ auditRows = EmptyBag /\ auditLost = {}
    /\ auditor = [w \in Auditors |-> [at |-> "select", batch |-> {}]]

AuditTypeOK ==
    /\ auditChan \subseteq DOMAIN done /\ Cardinality(auditChan) <= AuditCap
    /\ auditor \in [Auditors -> [at : {"select", "drain", "done"}, batch : SUBSET DOMAIN done]]
    /\ BagToSet(auditRows) \subseteq DOMAIN done /\ auditLost \subseteq DOMAIN done

\* A handler carries out op, and goes on to record it.
Perform(op) == done' = Append(done, op)

\* Mutant: the channel takes what it has no room for.
RecordAnyway(n) ==
    /\ auditChan' = auditChan \cup {n}
    /\ UNCHANGED <<done, auditor, auditRows, auditLost>>

\* Record: a full channel drops the entry.
Record(n) ==
    /\ IF Cardinality(auditChan) < AuditCap
       THEN auditChan' = auditChan \cup {n} /\ UNCHANGED auditLost
       ELSE auditLost' = auditLost \cup {n} /\ UNCHANGED auditChan
    /\ UNCHANGED <<done, auditor, auditRows>>

\* Mutant: the batch is kept after its write.
WriteKeepsBatch(w, S, at) ==
    /\ \/ Fine /\ auditRows' = auditRows (+) SetToBag(S) /\ UNCHANGED auditLost
       \/ Fail("db") /\ auditLost' = auditLost \cup S /\ UNCHANGED auditRows
    /\ auditor' = [auditor EXCEPT ![w] = [at |-> at, batch |-> S]]

\* flush of batch S, after which the worker is at `at': one INSERT, no retry.
WriteAudit(w, S, at) ==
    /\ \/ Fine /\ auditRows' = auditRows (+) SetToBag(S) /\ UNCHANGED auditLost
       \/ Fail("db") /\ auditLost' = auditLost \cup S /\ UNCHANGED auditRows
    /\ auditor' = [auditor EXCEPT ![w] = [at |-> at, batch |-> {}]]

AuditTake(w) ==
    /\ ~Ended /\ auditor[w].at \in {"select", "drain"}
    /\ \E n \in auditChan :
         LET S == auditor[w].batch \cup {n} IN
         /\ auditChan' = auditChan \ {n}
         /\ IF Cardinality(S) >= AuditBatch
            THEN WriteAudit(w, S, auditor[w].at)
            ELSE /\ auditor' = [auditor EXCEPT ![w].batch = S]
                 /\ Fine /\ UNCHANGED <<auditRows, auditLost>>
    /\ UNCHANGED <<phase, now, done>>

AuditTicker(w) ==
    /\ ~Ended /\ auditor[w].at = "select" /\ auditor[w].batch # {}
    /\ WriteAudit(w, auditor[w].batch, "select")
    /\ UNCHANGED <<phase, now, done, auditChan>>

\* The worker sees stopCh closed ...
AuditSeeStop(w) ==
    /\ phase = "draining" /\ auditor[w].at = "select"
    /\ auditor' = [auditor EXCEPT ![w].at = "drain"]
    /\ UNCHANGED <<process, done, auditChan, auditRows, auditLost>>

\* Mutant: the worker returns with its last batch unwritten.
DrainedUnwritten(w) ==
    /\ phase = "draining" /\ auditor[w].at = "drain" /\ auditChan = {}
    /\ auditor' = [auditor EXCEPT ![w].at = "done"]
    /\ UNCHANGED <<process, done, auditChan, auditRows, auditLost>>

\* ... and returns when it finds the channel empty, after a last flush.
AuditDrained(w) ==
    /\ phase = "draining" /\ auditor[w].at = "drain" /\ auditChan = {}
    /\ WriteAudit(w, auditor[w].batch, "done")
    /\ UNCHANGED <<phase, now, done, auditChan>>

\* Shutdown: stopCh is closed, the HTTP server having stopped ...
AuditStop ==
    /\ Serving /\ phase' = "draining"
    /\ UNCHANGED <<now, faults, audit>>

\* ... and main goes on to its end when every worker has returned.
AuditExit ==
    /\ phase = "draining" /\ \A w \in Auditors : auditor[w].at = "done"
    /\ phase' = "exited"
    /\ UNCHANGED <<now, faults, audit>>

\* The rows of operation n.
RowsOf(n) == IF BagIn(n, auditRows) THEN auditRows[n] ELSE 0

AuditStep(w) == AuditTake(w) \/ AuditTicker(w) \/ AuditSeeStop(w) \/ AuditDrained(w)

-----------------------------------------------------------------------------
\* Properties.

\* No operation is in the trail twice, and none is both in the trail and on its
\* way there (worker's flush takes a copy and empties the batch).
AuditedOnce ==
    \A n \in DOMAIN done :
        RowsOf(n) + Cardinality({w \in Auditors : n \in auditor[w].batch})
            + Cardinality({n} \cap auditChan) <= 1

\* After a shutdown that came to its end, every operation a handler carried out
\* is in the trail, unless its entry was dropped or the write of its batch failed
\* (main stops the HTTP server before AuditService.Shutdown).
AuditDrains ==
    phase = "exited" => \A n \in DOMAIN done : BagIn(n, auditRows) \/ n \in auditLost
=============================================================================
