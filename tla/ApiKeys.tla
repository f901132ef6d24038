------------------------------ MODULE ApiKeys ------------------------------
(***************************************************************************)
(* API keys: creation, validation with its negative cache, revocation, and *)
(* the audit entries of the operations done with and to keys.              *)
(*                                                                         *)
(* A key is its row: nobody guesses a raw key, so only keys handed out are *)
(* presented. hash[:16] is taken to tell keys apart. The rate and quota    *)
(* counters a valid key passes next are module Limits. last_used_at, which *)
(* a goroutine of its own writes, decides nothing.                         *)
(***************************************************************************)
EXTENDS AuditTrail

CONSTANTS
    Callers,    \* goroutines serving requests about keys
    KeyLife,    \* the lifetimes a creation may ask for
    NoExpiry,   \* ... or none
    Lapse,      \* time to live of a negative cache entry: 5 minutes
    MaxKeys

ASSUME KeyAssumption ==
    /\ KeyLife \subseteq Nat /\ NoExpiry \notin Nat /\ Lapse \in Nat \ {0}
    /\ MaxKeys \in Nat

VARIABLES
    keys,       \* api_keys, by id
    denied,     \* Redis: key id |-> deadline of its "invalid" entry (0: none)
    call        \* the request each caller serves

keyVars == <<keys, denied, call>>

NoCall == [at |-> "idle", user |-> 0, key |-> 0, late |-> FALSE, op |-> 0]

KeyInit == keys = <<>> /\ denied = <<>> /\ call = [c \in Callers |-> NoCall]

KeyTypeOK ==
    /\ Len(keys) <= MaxKeys /\ DOMAIN denied = DOMAIN keys
    /\ \A k \in DOMAIN keys : keys[k].status \in {"active", "inactive"} /\ denied[k] \in Nat
    /\ \A c \in Callers :
         /\ call[c].at \in {"idle", "insert", "record", "find", "deny", "act",
                            "revokeFind", "unblock", "revoke"}
         /\ call[c].key \in {0} \cup DOMAIN keys /\ call[c].op \in {0} \cup DOMAIN done

At(c, label) == call' = [call EXCEPT ![c].at = label]
Return(c) == call' = [call EXCEPT ![c] = NoCall]
Begin(c, label, u, k) ==
    /\ Serving /\ call[c].at = "idle"
    /\ call' = [call EXCEPT ![c] =
           [at |-> label, user |-> u, key |-> k, op |-> 0,
            late |-> k # 0 /\ keys[k].told]]

\* The operation is done; recording it in the audit trail is the next step.
Act(c, what, k) ==
    /\ Perform([what |-> what, user |-> call[c].user, key |-> k])
    /\ call' = [call EXCEPT ![c].at = "record", ![c].key = k, ![c].op = Len(done')]
Unrecorded == <<auditChan, auditor, auditRows, auditLost>>

\* audit, or auditSvc.Record: the last thing a successful handler does to the
\* program's state.
RecordCall(c) ==
    /\ ~Ended /\ call[c].at = "record" /\ Record(call[c].op) /\ Return(c)
    /\ UNCHANGED <<process, keys, denied>>

-----------------------------------------------------------------------------
\* POST /api-keys and DELETE /api-keys/:id.

AskKey(c, u) == Begin(c, "insert", u, 0) /\ UNCHANGED <<process, audit, keys, denied>>

\* The row, and with it the raw key handed to its owner.
InsertKey(c) ==
    /\ ~Ended /\ call[c].at = "insert"
    /\ \/ /\ Fine /\ Len(keys) < MaxKeys
          /\ \E life \in KeyLife \cup {NoExpiry} :
               keys' = Append(keys, [user |-> call[c].user, status |-> "active", told |-> FALSE,
                                     expires |-> IF life = NoExpiry THEN life ELSE now + life])
          /\ denied' = Append(denied, 0)
          /\ Act(c, "create_key", Len(keys'))
       \/ /\ IF Len(keys) = MaxKeys THEN Fine ELSE Fail("db")
          /\ Return(c) /\ UNCHANGED <<keys, denied, done>>
    /\ UNCHANGED <<phase, now, Unrecorded>>

AskRevoke(c, u, k) == Begin(c, "revokeFind", u, k) /\ UNCHANGED <<process, audit, keys, denied>>

\* Mutant: whoever asks goes on.
RevokeFindAnyone(c) ==
    /\ ~Ended /\ call[c].at = "revokeFind" /\ At(c, "unblock")
    /\ UNCHANGED <<process, audit, keys, denied>>

\* Revoke reads the row: only its owner goes on ...
RevokeFind(c) ==
    /\ ~Ended /\ call[c].at = "revokeFind"
    /\ \/ Fine /\ IF keys[call[c].key].user = call[c].user THEN At(c, "unblock") ELSE Return(c)
       \/ Fail("db") /\ Return(c)
    /\ UNCHANGED <<phase, now, audit, keys, denied>>

\* ... drops the negative entry, if Redis answers ...
RevokeUnblock(c) ==
    LET k == call[c].key IN
    /\ ~Ended /\ call[c].at = "unblock"
    /\ \/ Fine /\ denied' = [denied EXCEPT ![k] = 0]
       \/ Fail("redis") /\ UNCHANGED denied
    /\ At(c, "revoke")
    /\ UNCHANGED <<phase, now, audit, keys>>

\* Mutant: an error of the update is ignored.
RevokeUnchecked(c) ==
    LET k == call[c].key IN
    /\ ~Ended /\ call[c].at = "revoke"
    /\ \/ Fine /\ keys' = [keys EXCEPT ![k].status = "inactive", ![k].told = TRUE]
       \/ Fail("db") /\ keys' = [keys EXCEPT ![k].told = TRUE]
    /\ Act(c, "revoke_key", k)
    /\ UNCHANGED <<phase, now, Unrecorded, denied>>

\* ... and marks the row; told says that the owner will be answered 200.
RevokeUpdate(c) ==
    LET k == call[c].key IN
    /\ ~Ended /\ call[c].at = "revoke"
    /\ \/ /\ Fine /\ keys' = [keys EXCEPT ![k].status = "inactive", ![k].told = TRUE]
          /\ Act(c, "revoke_key", k)
       \/ Fail("db") /\ Return(c) /\ UNCHANGED <<keys, done>>
    /\ UNCHANGED <<phase, now, Unrecorded, denied>>

-----------------------------------------------------------------------------
\* A request that carries X-API-Key.

\* CombinedAuthMiddleware calls Validate: an "invalid" entry of the negative
\* cache is the answer, an error counts as no entry.
Present(c, k) ==
    /\ IF denied[k] > now THEN Fail("redis") ELSE Fine
    /\ Begin(c, "find", keys[k].user, k)
    /\ UNCHANGED <<phase, now, audit, keys, denied>>

\* Mutant: any error of the lookup is remembered as an invalid key.
FindOrDeny(c) ==
    LET k == keys[call[c].key] IN
    /\ ~Ended /\ call[c].at = "find"
    /\ \/ Fine /\ IF k.status = "inactive" THEN At(c, "deny")
                  ELSE IF k.expires # NoExpiry /\ k.expires < now THEN Return(c)
                  ELSE At(c, "act")
       \/ Fail("db") /\ At(c, "deny")
    /\ UNCHANGED <<phase, now, audit, keys, denied>>

\* FindByHash sees active rows only, so a revoked key is an unknown one; a
\* failed lookup and an expired key are refused without a trace.
FindKey(c) ==
    LET k == keys[call[c].key] IN
    /\ ~Ended /\ call[c].at = "find"
    /\ \/ Fine /\ IF k.status = "inactive" THEN At(c, "deny")
                  ELSE IF k.expires # NoExpiry /\ k.expires < now THEN Return(c)
                  ELSE At(c, "act")
       \/ Fail("db") /\ Return(c)
    /\ UNCHANGED <<phase, now, audit, keys, denied>>

\* The unknown key is remembered as invalid, if Redis answers.
DenyKey(c) ==
    /\ ~Ended /\ call[c].at = "deny"
    /\ \/ Fine /\ denied' = [denied EXCEPT ![call[c].key] = now + Lapse]
       \/ Fail("redis") /\ UNCHANGED denied
    /\ Return(c)
    /\ UNCHANGED <<phase, now, audit, keys>>

\* The handler behind the middleware creates a link, say, for the key's owner.
UseKey(c) ==
    /\ ~Ended /\ call[c].at = "act"
    /\ \/ Fine /\ Act(c, "create_link", call[c].key)
       \/ Fail("db") /\ Return(c) /\ UNCHANGED done
    /\ UNCHANGED <<phase, now, Unrecorded, keys, denied>>

KeyStep(c) ==
    \/ InsertKey(c) \/ RevokeFind(c) \/ RevokeUnblock(c) \/ RevokeUpdate(c)
    \/ FindKey(c) \/ DenyKey(c) \/ UseKey(c) \/ RecordCall(c)

-----------------------------------------------------------------------------
\* Properties.

\* A key that its owner was told is revoked does nothing for a request that
\* arrives afterwards, whatever fails meanwhile (Revoke, Validate).
RevocationHolds == \A c \in Callers : call[c].late => call[c].at # "act"

\* The negative cache never shuts out a key that is good: a failing database or
\* a race with creation or revocation leaves no "invalid" entry for an active key.
DeniedOnlyIfRevoked ==
    \A k \in DOMAIN keys : denied[k] > now => keys[k].status = "inactive"

\* What the trail will say is what happened: a key in it as revoked is inactive,
\* and was created earlier, for the one who revoked it and for whom it acted.
AuditTruthful ==
    \A n \in DOMAIN done :
        LET e == done[n] IN
        /\ e.what = "revoke_key" => keys[e.key].status = "inactive"
        /\ e.what # "create_key" =>
             \A m \in DOMAIN done :
                done[m].what = "create_key" /\ done[m].key = e.key =>
                    m < n /\ done[m].user = e.user
=============================================================================
