------------------------------ MODULE Process ------------------------------
(***************************************************************************)
(* What the services of one process share: whether it serves, the clock,   *)
(* and remote calls that may fail.                                         *)
(***************************************************************************)
EXTENDS Naturals

CONSTANTS
    Faults,     \* subset of {"db", "redis", "lostReply", "kill"}
    MaxFaults,  \* calls that fail, and kills, in one behaviour
    MaxTime     \* bound of the clock

ASSUME ProcessAssumption == MaxFaults \in Nat /\ MaxTime \in Nat

VARIABLES phase, now, faults

process == <<phase, now, faults>>

ProcessInit == phase = "serving" /\ now = 0 /\ faults = 0

ProcessTypeOK ==
    /\ phase \in {"serving", "draining", "exited", "killed"}
    /\ now \in 0..MaxTime /\ faults \in 0..MaxFaults

Fail(f) == f \in Faults /\ faults < MaxFaults /\ faults' = faults + 1
Fine == UNCHANGED faults
Serving == phase = "serving"
Ended == phase \in {"exited", "killed"}

Tick ==
    /\ Serving /\ now < MaxTime /\ now' = now + 1
    /\ UNCHANGED <<phase, faults>>

\* f, with the value v at k: SET in Redis, for one.
With(f, k, v) == [x \in DOMAIN f \cup {k} |-> IF x = k THEN v ELSE f[x]]

\* SIGKILL, a crash, or main's log.Fatalf.
Kill ==
    /\ ~Ended /\ Fail("kill") /\ phase' = "killed"
    /\ UNCHANGED now
=============================================================================
