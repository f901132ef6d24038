----------------------------- MODULE Backoffice -----------------------------
(***************************************************************************)
(* Accounts, API keys and the audit trail in one process. Requests about   *)
(* keys come with a token (those that come with a key are left out: what a *)
(* key is used for here is a link); what they and the keys do is audited;  *)
(* the HTTP server stops before the audit service does.                    *)
(***************************************************************************)
EXTENDS Accounts, ApiKeys

CONSTANT MaxRequests    \* bound of the model

VARIABLE requests

vars == <<process, accountVars, audit, keyVars, requests>>

Init == ProcessInit /\ AccountInit /\ AuditInit /\ KeyInit /\ requests = 0

Request == requests < MaxRequests /\ requests' = requests + 1

\* The groups and handlers of the router that change state.
Arrive ==
    \/ /\ \/ \E g \in Guests : AskAccount(g)
          \/ \E u \in DOMAIN users : Login(u) \/ Promote(u) \/ Demote(u)
       /\ UNCHANGED <<audit, keyVars>>
    \/ /\ \E c \in Callers, u \in DOMAIN users :
            /\ Acts(u)
            /\ AskKey(c, u) \/ \E k \in DOMAIN keys : AskRevoke(c, u, k)
       /\ UNCHANGED accountVars
    \/ /\ \E c \in Callers, k \in DOMAIN keys : Present(c, k)
       /\ UNCHANGED accountVars

Registering == \E g \in Guests : RegisterName(g) \/ RegisterMail(g) \/ RegisterInsert(g)

\* main: srv.Shutdown waits for the handlers.
HandlersIdle ==
    /\ \A g \in Guests : form[g].at = "idle"
    /\ \A c \in Callers : call[c].at = "idle"

Work ==
    \/ \E c \in Callers : KeyStep(c)
    \/ \E w \in Auditors : AuditStep(w) /\ UNCHANGED keyVars
    \/ HandlersIdle /\ AuditStop /\ UNCHANGED keyVars
    \/ AuditExit /\ UNCHANGED keyVars
    \/ (Tick \/ Kill) /\ UNCHANGED <<audit, keyVars>>

Next ==
    \/ Request /\ Arrive
    \/ Registering /\ UNCHANGED <<audit, keyVars, requests>>
    \/ Work /\ UNCHANGED <<accountVars, requests>>

Spec == Init /\ [][Next]_vars

-----------------------------------------------------------------------------
\* Properties.

\* Every variable has its type.
TypeOK == ProcessTypeOK /\ AccountTypeOK /\ AuditTypeOK /\ KeyTypeOK
=============================================================================
