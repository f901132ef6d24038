--------------------------- MODULE AccessLogProofs ---------------------------
(***************************************************************************)
(* Proofs about AccessLog, for every finite set of entries, every set of   *)
(* workers, and every capacity and number of attempts.                     *)
(***************************************************************************)
EXTENDS AccessLog, FiniteSetTheorems, TLAPS

LEMMA Bounds == ChanCap \in Nat /\ MaxTries \in Nat /\ MaxTries > 0 /\ 0 \in 0..MaxTries
BY LogAssumption

LEMMA AddRowsType ==
    ASSUME NEW S, rows \in [Entries -> Nat], AddRows(S)
    PROVE  rows' \in [Entries -> Nat]
BY DEF AddRows

\* Sending to a channel that is not full, and taking from it, keep it in bounds.
LEMMA SendInBounds ==
    ASSUME TypeOK, NEW e \in Entries, Cardinality(logChan) < ChanCap
    PROVE  Cardinality(logChan \cup {e}) <= ChanCap
<1>1. IsFiniteSet(logChan)
  BY LogAssumption, FS_Subset DEF TypeOK
<1>2. Cardinality(logChan) \in Nat
  BY <1>1, FS_CardinalityType
<1> QED
  <2>1. \/ Cardinality(logChan \cup {e}) = Cardinality(logChan)
        \/ Cardinality(logChan \cup {e}) = Cardinality(logChan) + 1
    BY <1>1, FS_AddElement
  <2> QED
    BY <2>1, <1>2, LogAssumption

LEMMA TakeInBounds ==
    ASSUME TypeOK, NEW e \in logChan
    PROVE  Cardinality(logChan \ {e}) <= ChanCap
<1>1. IsFiniteSet(logChan)
  BY LogAssumption, FS_Subset DEF TypeOK
<1>2. Cardinality(logChan) \in Nat
  BY <1>1, FS_CardinalityType
<1> QED
  <2>1. Cardinality(logChan \ {e}) = Cardinality(logChan) - 1
    BY <1>1, FS_RemoveElement
  <2> QED
    BY <2>1, <1>2, LogAssumption DEF TypeOK

-----------------------------------------------------------------------------
\* Type correctness: in particular the channel never exceeds its capacity and no
\* batch is tried more often than writeBatchWithRetry allows.
THEOREM LogTypeCorrect == Spec => []TypeOK
<1>1. Init => TypeOK
  <2>1. Cardinality({}) <= ChanCap
    BY FS_EmptySet, Bounds
  <2>2. Init => timedOut \in BOOLEAN
    BY Zenon DEF Init
  <2> QED
    BY <2>1, <2>2, Bounds DEF Init, TypeOK
<1>2. TypeOK /\ [Next]_vars => TypeOK'
  <2> SUFFICES ASSUME TypeOK, [Next]_vars PROVE TypeOK'
    OBVIOUS
  <2> USE DEF server, intake, worker, output
  <2>1. ASSUME NEW e \in Entries, Arrive(e) PROVE TypeOK'
    BY <2>1 DEF Arrive, TypeOK
  <2>2. ASSUME NEW e \in Entries, RecordAccess(e) PROVE TypeOK'
    BY <2>2, SendInBounds DEF RecordAccess, TypeOK
  <2>3. ASSUME NEW w \in Workers, Take(w) PROVE TypeOK'
    <3>1. PICK e \in logChan : /\ logChan' = logChan \ {e}
                               /\ batch' = [batch EXCEPT ![w] = @ \cup {e}]
      BY <2>3 DEF Take
    <3>2. Cardinality(logChan') <= ChanCap
      BY <3>1, TakeInBounds
    <3> QED
      BY <2>3, <3>1, <3>2, Bounds DEF Take, Flush, TypeOK
  <2>4. ASSUME NEW w \in Workers, TickFlush(w) PROVE TypeOK'
    BY <2>4, Bounds DEF TickFlush, Flush, TypeOK
  <2>5. ASSUME NEW w \in Workers, SeeStop(w) PROVE TypeOK'
    BY <2>5 DEF SeeStop, TypeOK
  <2>6. ASSUME NEW w \in Workers, DrainEnd(w) PROVE TypeOK'
    BY <2>6, Bounds DEF DrainEnd, Flush, TypeOK
  <2>7. ASSUME NEW w \in Workers, Write(w) PROVE TypeOK'
    <3>1. UNCHANGED <<server, intake, fileLines, stderrLines>> /\ wpc[w] = "write"
      BY <2>7 DEF Write
    <3>2. CASE WriteOk(w)
      <4>1. rows' \in [Entries -> Nat] /\ doubted' \subseteq Entries
        BY <3>2, AddRowsType DEF WriteOk, TypeOK
      <4>2. /\ batch' = [batch EXCEPT ![w] = {}] /\ back' = back
            /\ wpc' = [wpc EXCEPT ![w] = back[w]] /\ tries' = [tries EXCEPT ![w] = 0]
        BY <3>2 DEF WriteOk
      <4>3. back[w] \in {"select", "drain", "done"}
        BY DEF TypeOK
      <4> QED
        BY <3>1, <4>1, <4>2, <4>3, Bounds DEF TypeOK
    <3>3. CASE WriteFailed(w)
      <4>1. rows' \in [Entries -> Nat] /\ doubted' \subseteq Entries
        BY <3>3, AddRowsType DEF WriteFailed, TypeOK
      <4>2. /\ UNCHANGED <<batch, back>> /\ tries' = [tries EXCEPT ![w] = @ + 1]
            /\ wpc' = [wpc EXCEPT ![w] = IF tries[w] + 1 < MaxTries THEN "write" ELSE "spill"]
        BY <3>3 DEF WriteFailed
      <4>3. tries[w] \in Nat /\ tries[w] < MaxTries
        BY <3>1 DEF TypeOK
      <4>4. tries[w] + 1 \in 0..MaxTries
        BY <4>3, Bounds
      <4> QED
        BY <3>1, <4>1, <4>2, <4>3, <4>4, Bounds DEF TypeOK
    <3> QED
      BY <2>7, <3>2, <3>3 DEF Write
  <2>8. ASSUME NEW w \in Workers, Spill(w) PROVE TypeOK'
    <3>1. PICK e \in batch[w] : Emit(e) /\ batch' = [batch EXCEPT ![w] = @ \ {e}]
      BY <2>8 DEF Spill
    <3>2. back[w] \in {"select", "drain", "done"} /\ e \in Entries
      BY DEF TypeOK
    <3>3. /\ fileLines' \subseteq Entries /\ stderrLines' \subseteq Entries
          /\ batch' \in [Workers -> SUBSET Entries]
      BY <3>1, <3>2 DEF Emit, TypeOK
    <3>4. \/ UNCHANGED <<wpc, tries>>
          \/ /\ wpc' = [wpc EXCEPT ![w] = back[w]]
             /\ tries' = [tries EXCEPT ![w] = 0]
      BY <2>8 DEF Spill
    <3>5. UNCHANGED <<server, intake, back, rows, doubted>>
      BY <2>8 DEF Spill
    <3> QED
      BY <3>2, <3>3, <3>4, <3>5, Bounds DEF TypeOK
  <2>9. CASE Sigterm \/ ServerClosed \/ WorkersAwaited \/ Exit \/ Kill
    BY <2>9 DEF Sigterm, ServerClosed, WorkersAwaited, Exit, Kill, TypeOK
  <2>10. CASE UNCHANGED vars
    BY <2>10 DEF vars, TypeOK
  <2> QED
    BY <2>1, <2>2, <2>3, <2>4, <2>5, <2>6, <2>7, <2>8, <2>9, <2>10 DEF Next, Work
<1> QED
  BY <1>1, <1>2, PTL DEF Spec

-----------------------------------------------------------------------------
\* No entry is lost or in two places while it travels: the moves of handlers and
\* workers each take it out of one place and put it in one other.
THEOREM EntriesInOnePlace == Spec => []OnePlace
<1>1. Init => OnePlace
  BY DEF Init, OnePlace, InBatch, Kept
<1>2. TypeOK /\ OnePlace /\ [Next]_vars => OnePlace'
  <2> SUFFICES ASSUME TypeOK, OnePlace, [Next]_vars PROVE OnePlace'
    OBVIOUS
  <2> USE DEF server, intake, worker, output, OnePlace, InBatch, Kept
  <2>1. ASSUME NEW e \in Entries, Arrive(e) PROVE OnePlace'
    BY <2>1 DEF Arrive
  <2>2. ASSUME NEW e \in Entries, RecordAccess(e) PROVE OnePlace'
    BY <2>2 DEF RecordAccess
  <2>3. ASSUME NEW w \in Workers, Take(w) PROVE OnePlace'
    <3>1. PICK e \in logChan : /\ logChan' = logChan \ {e}
                               /\ batch' = [batch EXCEPT ![w] = @ \cup {e}]
      BY <2>3 DEF Take
    <3> QED
      BY <2>3, <3>1 DEF Take, TypeOK
  <2>4. ASSUME NEW w \in Workers, TickFlush(w) \/ SeeStop(w) \/ DrainEnd(w) PROVE OnePlace'
    BY <2>4 DEF TickFlush, SeeStop, DrainEnd
  <2>5. ASSUME NEW w \in Workers, Write(w) PROVE OnePlace'
    <3>1. CASE WriteOk(w)
      BY <2>5, <3>1 DEF Write, WriteOk, AddRows, TypeOK
    <3>2. CASE WriteFailed(w)
      BY <2>5, <3>2 DEF Write, WriteFailed, AddRows, TypeOK
    <3> QED
      BY <2>5, <3>1, <3>2 DEF Write
  <2>6. ASSUME NEW w \in Workers, Spill(w) PROVE OnePlace'
    <3>1. PICK e \in batch[w] : Emit(e) /\ batch' = [batch EXCEPT ![w] = @ \ {e}]
      BY <2>6 DEF Spill
    <3> QED
      BY <2>6, <3>1 DEF Spill, Emit, TypeOK
  <2>7. CASE Sigterm \/ ServerClosed \/ WorkersAwaited \/ Exit \/ Kill
    BY <2>7 DEF Sigterm, ServerClosed, WorkersAwaited, Exit, Kill
  <2>8. CASE UNCHANGED vars
    BY <2>8 DEF vars
  <2> QED
    BY <2>1, <2>2, <2>3, <2>4, <2>5, <2>6, <2>7, <2>8 DEF Next, Work
<1> QED
  BY <1>1, <1>2, LogTypeCorrect, PTL DEF Spec

-----------------------------------------------------------------------------
\* What a shutdown has established by the time a worker drains or returns. That
\* no handler is left (main closed the server first) is what makes an empty
\* channel empty for good.
StopInv ==
    /\ main \in {"stopping", "flushed", "exited"} => handling = {}
    /\ \A w \in Workers :
        /\ wpc[w] \in {"drain", "done"} \/ back[w] \in {"drain", "done"} =>
              handling = {} /\ main \notin {"serving", "closing", "fatal"}
        /\ wpc[w] = "done" \/ (wpc[w] \in {"write", "spill"} /\ back[w] = "done") =>
              logChan = {}
        /\ wpc[w] = "done" => batch[w] = {}
    /\ main \in {"flushed", "exited"} /\ ~timedOut => AllDone

THEOREM StopInvariant == Spec => []StopInv
<1>1. Init => StopInv
  BY DEF Init, StopInv
<1>2. TypeOK /\ StopInv /\ [Next]_vars => StopInv'
  <2> SUFFICES ASSUME TypeOK, StopInv, [Next]_vars PROVE StopInv'
    OBVIOUS
  <2> USE DEF server, intake, worker, output, StopInv, TypeOK, AllDone
  <2>1. ASSUME NEW e \in Entries, Arrive(e) PROVE StopInv'
    BY <2>1 DEF Arrive
  <2>2. ASSUME NEW e \in Entries, RecordAccess(e) PROVE StopInv'
    BY <2>2 DEF RecordAccess
  <2>3. ASSUME NEW w \in Workers, Take(w) PROVE StopInv'
    BY <2>3 DEF Take, Flush
  <2>4. ASSUME NEW w \in Workers, TickFlush(w) PROVE StopInv'
    BY <2>4 DEF TickFlush, Flush
  <2>5. ASSUME NEW w \in Workers, SeeStop(w) PROVE StopInv'
    BY <2>5 DEF SeeStop, StopClosed
  <2>6. ASSUME NEW w \in Workers, DrainEnd(w) PROVE StopInv'
    BY <2>6 DEF DrainEnd, Flush
  <2>7. ASSUME NEW w \in Workers, Write(w) PROVE StopInv'
    BY <2>7 DEF Write, WriteOk, WriteFailed
  <2>8. ASSUME NEW w \in Workers, Spill(w) PROVE StopInv'
    BY <2>8 DEF Spill
  <2>9. CASE Sigterm \/ ServerClosed \/ WorkersAwaited \/ Exit \/ Kill
    BY <2>9 DEF Sigterm, ServerClosed, WorkersAwaited, Exit, Kill, Up
  <2>10. CASE UNCHANGED vars
    BY <2>10 DEF vars
  <2> QED
    BY <2>1, <2>2, <2>3, <2>4, <2>5, <2>6, <2>7, <2>8, <2>9, <2>10 DEF Next, Work
<1> QED
  BY <1>1, <1>2, LogTypeCorrect, PTL DEF Spec

\* When a worker has returned, the channel is empty and no handler can fill it.
THEOREM NoEntryStranded == Spec => []NoneStranded
<1>1. StopInv => NoneStranded
  BY DEF StopInv, NoneStranded
<1> QED
  BY <1>1, StopInvariant, PTL

-----------------------------------------------------------------------------
\* An entry is stored or spilled a second time only after a write that committed
\* was reported failed: an entry of a batch has a row only then.
DoubtInv == \A e \in Entries : InBatch(e) /\ rows[e] > 0 => e \in doubted

THEOREM KeptOnceUnlessDoubted == Spec => []OnceUnlessDoubted
<1> DEFINE Inv == DoubtInv /\ OnceUnlessDoubted
<1>1. Init => Inv
  BY DEF Init, DoubtInv, OnceUnlessDoubted
<1>2. TypeOK /\ OnePlace /\ Inv /\ [Next]_vars => Inv'
  <2> SUFFICES ASSUME TypeOK, OnePlace, Inv, [Next]_vars PROVE Inv'
    OBVIOUS
  <2> USE DEF output, DoubtInv, OnceUnlessDoubted, InBatch, Kept
  <2>1. ASSUME NEW w \in Workers, Take(w) PROVE Inv'
    <3>1. PICK e \in logChan : batch' = [batch EXCEPT ![w] = @ \cup {e}]
      BY <2>1 DEF Take
    <3>2. rows[e] = 0
      BY DEF OnePlace, TypeOK
    <3> QED
      BY <2>1, <3>1, <3>2 DEF Take, TypeOK
  <2>2. ASSUME NEW w \in Workers, Write(w) PROVE Inv'
    <3>1. \A e \in Entries : e \in batch[w] => e \notin stderrLines
      BY DEF OnePlace
    <3>2. CASE WriteOk(w)
      <4>1. \A v \in Workers : batch'[v] \cap batch[w] = {} /\ batch'[v] \subseteq batch[v]
        BY <3>2 DEF WriteOk, OnePlace, TypeOK
      <4>2. \A e \in Entries :
              rows'[e] = IF e \in batch[w] THEN rows[e] + 1 ELSE rows[e]
        BY <3>2 DEF WriteOk, AddRows
      <4>3. doubted' = doubted /\ stderrLines' = stderrLines
        BY <2>2, <3>2 DEF Write, WriteOk
      <4>4. \A e \in Entries : rows[e] \in Nat
        BY DEF TypeOK
      <4> QED
        BY <3>1, <4>1, <4>2, <4>3, <4>4
    <3>3. CASE WriteFailed(w)
      BY <2>2, <3>3 DEF Write, WriteFailed, AddRows, TypeOK
    <3> QED
      BY <2>2, <3>2, <3>3 DEF Write
  <2>3. ASSUME NEW w \in Workers, Spill(w) PROVE Inv'
    <3>1. PICK e \in batch[w] : Emit(e) /\ batch' = [batch EXCEPT ![w] = @ \ {e}]
      BY <2>3 DEF Spill
    <3> QED
      BY <2>3, <3>1 DEF Spill, Emit, TypeOK
  <2>4. CASE UNCHANGED <<batch, output>>
    BY <2>4
  <2> QED
    BY <2>1, <2>2, <2>3, <2>4
       DEF Next, Work, Arrive, RecordAccess, TickFlush, SeeStop, DrainEnd, Sigterm,
           ServerClosed, WorkersAwaited, Exit, Kill, vars, worker
<1> QED
  BY <1>1, <1>2, LogTypeCorrect, EntriesInOnePlace, PTL DEF Spec

-----------------------------------------------------------------------------
\* Until Shutdown has stopped waiting, it has not timed out.
NotYet == timedOut => main \notin {"serving", "closing", "stopping"}

LEMMA NotYetTimedOut == Spec => []NotYet
<1>1. Init => NotYet
  <2>1. Init => ~timedOut
    BY Zenon DEF Init
  <2> QED
    BY <2>1 DEF NotYet
<1>2. NotYet /\ [Next]_vars => NotYet'
  <2>1. ASSUME WorkersAwaited PROVE NotYet'
    BY <2>1 DEF WorkersAwaited, NotYet
  <2>2. ASSUME NotYet, timedOut' = timedOut,
               \/ main' = main
               \/ main' \notin {"serving", "closing", "stopping"}
               \/ main \in {"serving", "closing"}
        PROVE  NotYet'
    BY <2>2 DEF NotYet
  <2> QED
    BY <2>1, <2>2
       DEF Next, Work, Arrive, RecordAccess, Take, TickFlush, SeeStop, DrainEnd, Write,
           WriteOk, WriteFailed, Spill, Sigterm, ServerClosed, Exit, Kill, vars, server
<1> QED
  BY <1>1, <1>2, PTL DEF Spec

-----------------------------------------------------------------------------
\* The fallback file holds every record given up on, if it could be opened, its
\* disk is not full and the shutdown did not time out before the workers ended.
THEOREM FallbackIsComplete == Spec => []FallbackComplete
<1>1. Init => FallbackComplete
  BY DEF Init, FallbackComplete
<1>2. TypeOK /\ StopInv /\ NotYet /\ FallbackComplete /\ [Next]_vars => FallbackComplete'
  <2> SUFFICES ASSUME TypeOK, StopInv, NotYet, FallbackComplete, [Next]_vars
               PROVE  FallbackComplete'
    OBVIOUS
  <2>1. ASSUME NEW w \in Workers, Spill(w) PROVE FallbackComplete'
    <3>1. main = "flushed" => timedOut
      BY <2>1 DEF Spill, StopInv, AllDone
    <3>2. hasFile /\ ~timedOut => FileOpen
      BY <3>1 DEF FileOpen
    <3> QED
      BY <2>1, <3>2 DEF Spill, Emit, FallbackComplete, server
  <2>2. ASSUME WorkersAwaited PROVE FallbackComplete'
    BY <2>2 DEF WorkersAwaited, FallbackComplete, NotYet, output
  <2>3. CASE UNCHANGED <<hasFile, timedOut, fileLines, stderrLines>>
    BY <2>3 DEF FallbackComplete
  <2> QED
    BY <2>1, <2>2, <2>3
       DEF Next, Work, Arrive, RecordAccess, Take, TickFlush, SeeStop, DrainEnd, Write,
           WriteOk, WriteFailed, Sigterm, ServerClosed, Exit, Kill, vars, server, output
<1> QED
  BY <1>1, <1>2, LogTypeCorrect, StopInvariant, NotYetTimedOut, PTL DEF Spec

-----------------------------------------------------------------------------
\* Refinement. What a step does to the fates of all entries and to the ending.

\* A move between waiting, handling, channel and batches changes no fate.
LEMMA MovesKeepFates ==
    ASSUME UNCHANGED <<refused, rows, stderrLines>>,
           \A e \in Entries : (e \in logChan \/ InBatch(e)) <=> (e \in logChan' \/ InBatch(e)')
    PROVE  \A e \in Entries : Fate(e)' = Fate(e)
BY DEF Fate, Kept, Pending

\* A worker's write or spill keeps some pending entries and changes no other fate.
LEMMA KeepingStep ==
    ASSUME OnePlace, UNCHANGED <<refused, logChan>>,
           \A e \in Entries : Kept(e) => Kept(e)',
           \A e \in Entries : InBatch(e)' => InBatch(e),
           \A e \in Entries : InBatch(e) /\ ~InBatch(e)' => Kept(e)',
           \A e \in Entries : Kept(e)' => Kept(e) \/ InBatch(e)
    PROVE  \E S \in SUBSET {e \in Entries : Fate(e) = "pending"} :
              \A e \in Entries : Fate(e)' = IF e \in S THEN "kept" ELSE Fate(e)
<1> DEFINE S == {e \in Entries : Fate(e) = "pending" /\ Kept(e)'}
<1>1. \A e \in Entries : e \in refused => ~InBatch(e) /\ ~Kept(e)
  BY DEF OnePlace
<1>2. ASSUME NEW e \in Entries PROVE Fate(e)' = IF e \in S THEN "kept" ELSE Fate(e)
  <2>1. CASE e \in refused
    BY <2>1 DEF Fate
  <2>2. CASE e \notin refused /\ Kept(e)
    BY <2>2 DEF Fate
  <2>3. CASE e \notin refused /\ ~Kept(e) /\ Pending(e) /\ Kept(e)'
    BY <2>3 DEF Fate
  <2>4. CASE e \notin refused /\ ~Kept(e) /\ ~Kept(e)'
    BY <2>4 DEF Fate, Pending
  <2>5. CASE e \notin refused /\ ~Kept(e) /\ ~Pending(e) /\ Kept(e)'
    BY <2>5 DEF Pending
  <2> QED
    BY <2>1, <2>2, <2>3, <2>4, <2>5
<1> QED
  BY <1>2

\* A step that changes neither a fate nor the ending stutters in LogDelivery.
LEMMA Stutters ==
    ASSUME \A e \in Entries : Fate(e)' = Fate(e), Ending' = Ending
    PROVE  UNCHANGED Delivery!dvars
BY DEF Delivery!dvars

LEMMA Keeps ==
    ASSUME NEW S \in SUBSET {e \in Entries : Fate(e) = "pending"},
           \A e \in Entries : Fate(e)' = IF e \in S THEN "kept" ELSE Fate(e),
           Ending = "up", Ending' = "up"
    PROVE  Delivery!Keep
BY DEF Delivery!Keep

LEMMA Ends ==
    ASSUME \A e \in Entries : Fate(e)' = Fate(e), Ending = "up",
           \/ Ending' = "lossy"
           \/ Ending' = "clean" /\ \A e \in Entries : Fate(e) # "pending"
    PROVE  Delivery!End
BY DEF Delivery!End

LEMMA Offers ==
    ASSUME NEW e \in Entries, Fate(e) = "none", Fate(e)' \in {"pending", "refused"},
           \A d \in Entries \ {e} : Fate(d)' = Fate(d),
           Ending = "up", Ending' = "up"
    PROVE  Delivery!Offer(e)
BY DEF Delivery!Offer

\* While main stays up the process has not ended.
LEMMA StaysUp ==
    ASSUME Up, UNCHANGED server
    PROVE  Ending = "up" /\ Ending' = "up"
BY DEF Up, server, Ending

\* Every step of the pipeline is a step of LogDelivery or leaves its variables alone.
LEMMA StepDelivers ==
    ASSUME TypeOK, OnePlace, StopInv, [Next]_vars
    PROVE  [Delivery!Next]_(Delivery!dvars)
<1> USE DEF Delivery!Next
<1>1. ASSUME NEW e \in Entries, Arrive(e) PROVE UNCHANGED Delivery!dvars
  <2>1. \A d \in Entries : Fate(d)' = Fate(d)
    BY <1>1, MovesKeepFates DEF Arrive, worker, output, InBatch
  <2>2. Ending' = Ending
    BY <1>1 DEF Arrive, server, Ending, Up
  <2> QED
    BY <2>1, <2>2, Stutters
<1>2. ASSUME NEW e \in Entries, RecordAccess(e) PROVE Delivery!Offer(e)
  <2>1. Ending = "up" /\ Ending' = "up"
    BY <1>2, StaysUp DEF RecordAccess
  <2>2. e \notin refused \cup logChan /\ ~InBatch(e) /\ ~Kept(e)
    BY <1>2 DEF RecordAccess, OnePlace
  <2>3. UNCHANGED <<batch, rows, stderrLines>>
    BY <1>2 DEF RecordAccess, worker, output
  <2>4. \/ logChan' = logChan \cup {e} /\ refused' = refused
        \/ refused' = refused \cup {e} /\ logChan' = logChan
    BY <1>2 DEF RecordAccess
  <2>5. Fate(e) = "none" /\ Fate(e)' \in {"pending", "refused"}
    BY <2>2, <2>3, <2>4 DEF Fate, Pending, Kept, InBatch
  <2>6. \A d \in Entries \ {e} : Fate(d)' = Fate(d)
    BY <2>3, <2>4 DEF Fate, Pending, Kept, InBatch
  <2> QED
    BY <2>1, <2>5, <2>6, Offers
<1>3. ASSUME NEW w \in Workers, Take(w) \/ TickFlush(w) \/ SeeStop(w) \/ DrainEnd(w)
      PROVE  UNCHANGED Delivery!dvars
  <2>1. UNCHANGED server /\ UNCHANGED <<refused, rows, stderrLines>>
    BY <1>3 DEF Take, TickFlush, SeeStop, DrainEnd, intake, output
  <2>2. \A d \in Entries : (d \in logChan \/ InBatch(d)) <=> (d \in logChan' \/ InBatch(d)')
    <3>1. CASE Take(w)
      <4>1. PICK e \in logChan : /\ logChan' = logChan \ {e}
                                 /\ batch' = [batch EXCEPT ![w] = @ \cup {e}]
        BY <3>1 DEF Take
      <4> QED
        BY <4>1 DEF InBatch, TypeOK
    <3>2. CASE UNCHANGED <<logChan, batch>>
      BY <3>2 DEF InBatch
    <3> QED
      BY <1>3, <3>1, <3>2 DEF TickFlush, SeeStop, DrainEnd, intake
  <2>3. Ending' = Ending
    BY <2>1 DEF server, Ending, Up
  <2> QED
    BY <2>1, <2>2, <2>3, MovesKeepFates, Stutters
<1>4. ASSUME NEW w \in Workers, Write(w) \/ Spill(w) PROVE Delivery!Keep
  <2>1. Ending = "up" /\ Ending' = "up"
    BY <1>4, StaysUp DEF Write, Spill
  <2>2. UNCHANGED <<refused, logChan>>
    BY <1>4 DEF Write, Spill, intake
  <2>3. CASE Write(w)
    <3>1. stderrLines' = stderrLines
      BY <2>3 DEF Write
    <3>2. \/ /\ \A e \in Entries : rows'[e] = IF e \in batch[w] THEN rows[e] + 1 ELSE rows[e]
             /\ batch' = batch \/ batch' = [batch EXCEPT ![w] = {}]
          \/ rows' = rows /\ batch' = batch
      BY <2>3 DEF Write, WriteOk, WriteFailed, AddRows
    <3>3. \A e \in Entries : rows[e] \in Nat
      BY DEF TypeOK
    <3>4. /\ \A e \in Entries : Kept(e) => Kept(e)'
          /\ \A e \in Entries : Kept(e)' => Kept(e) \/ InBatch(e)
      BY <3>1, <3>2, <3>3 DEF Kept, InBatch
    <3>5. /\ \A e \in Entries : InBatch(e)' => InBatch(e)
          /\ \A e \in Entries : InBatch(e) /\ ~InBatch(e)' => Kept(e)'
      BY <3>1, <3>2, <3>3 DEF Kept, InBatch, TypeOK
    <3> QED
      BY <2>1, <2>2, <3>4, <3>5, KeepingStep, Keeps
  <2>4. CASE Spill(w)
    <3>1. PICK e \in batch[w] : Emit(e) /\ batch' = [batch EXCEPT ![w] = @ \ {e}]
      BY <2>4 DEF Spill
    <3>2. rows' = rows /\ stderrLines' = stderrLines \cup {e}
      BY <2>4, <3>1 DEF Spill, Emit
    <3>3. /\ \A d \in Entries : Kept(d) => Kept(d)'
          /\ \A d \in Entries : InBatch(d)' => InBatch(d)
          /\ \A d \in Entries : InBatch(d) /\ ~InBatch(d)' => Kept(d)'
          /\ \A d \in Entries : Kept(d)' => Kept(d) \/ InBatch(d)
      BY <3>1, <3>2 DEF Kept, InBatch, TypeOK
    <3> QED
      BY <2>1, <2>2, <3>3, KeepingStep, Keeps
  <2> QED
    BY <1>4, <2>3, <2>4
<1>5. ASSUME Sigterm \/ ServerClosed \/ WorkersAwaited \/ Exit \/ Kill
      PROVE  UNCHANGED Delivery!dvars \/ Delivery!End
  <2>1. \A e \in Entries : Fate(e)' = Fate(e)
    BY <1>5 DEF Sigterm, ServerClosed, WorkersAwaited, Exit, Kill, intake, worker, output,
                Fate, Kept, Pending, InBatch
  <2>2. Ending = "up"
    BY <1>5 DEF Sigterm, ServerClosed, WorkersAwaited, Exit, Kill, Ending, Up
  <2>3. CASE Up'
    <3>1. Ending' = "up"
      BY <2>3 DEF Ending
    <3> QED
      BY <2>1, <2>2, <3>1, Stutters
  <2>4. CASE ~Up' /\ ~(main' = "exited" /\ ~timedOut')
    <3>1. Ending' = "lossy"
      BY <2>4 DEF Ending
    <3> QED
      BY <2>1, <2>2, <3>1, Ends
  <2>5. CASE ~Up' /\ main' = "exited" /\ ~timedOut'
    <3>1. Ending' = "clean"
      BY <2>5 DEF Ending
    <3>2. main = "flushed" /\ timedOut' = timedOut
      BY <1>5, <2>5 DEF Sigterm, ServerClosed, WorkersAwaited, Exit, Kill
    <3>3. AllDone
      BY <2>5, <3>2 DEF StopInv
    <3>4. logChan = {} /\ \A w \in Workers : batch[w] = {}
      BY <3>3, LogAssumption DEF StopInv, AllDone
    <3>5. \A e \in Entries : Fate(e) # "pending"
      BY <3>4 DEF Fate, Pending, InBatch
    <3> QED
      BY <2>1, <2>2, <3>1, <3>5, Ends
  <2> QED
    BY <2>3, <2>4, <2>5
<1>6. CASE UNCHANGED vars
  <2>1. \A e \in Entries : Fate(e)' = Fate(e)
    BY <1>6 DEF vars, server, intake, worker, output, Fate, Kept, Pending, InBatch
  <2>2. Ending' = Ending
    BY <1>6 DEF vars, server, Ending, Up
  <2> QED
    BY <2>1, <2>2, Stutters
<1> QED
  BY <1>1, <1>2, <1>3, <1>4, <1>5, <1>6 DEF Next, Work

\* The pipeline implements LogDelivery: entries are refused or taken, kept for
\* good, and a shutdown in which no wait timed out leaves nothing pending.
THEOREM PipelineDelivers == Spec => DeliversLog
<1>1. Init => Delivery!Init
  <2>1. Init => Ending = "up"
    BY DEF Init, Ending, Up
  <2>2. Init => \A e \in Entries : Fate(e) = "none"
    BY DEF Init, Fate, Kept, Pending, InBatch
  <2> QED
    BY <2>1, <2>2 DEF Delivery!Init
<1> QED
  BY <1>1, StepDelivers, LogTypeCorrect, EntriesInOnePlace, StopInvariant, PTL
     DEF Spec, DeliversLog, Delivery!Spec
=============================================================================
