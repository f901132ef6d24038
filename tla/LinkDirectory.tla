---------------------------- MODULE LinkDirectory ----------------------------
(***************************************************************************)
(* What the link service promises, with no cache and no intermediate       *)
(* steps: an authoritative directory of links that changes one link at a   *)
(* time and never holds a code twice, and visits, each answered with one   *)
(* verdict that was true of the directory at an instant between the        *)
(* visitor's request and its answer.                                       *)
(*                                                                         *)
(* What is NOT promised is which url a redirect carries: it is some url    *)
(* once registered under the code asked for, not always the present one,   *)
(* and a redirect attributed to no link (id 0) may be given for a code     *)
(* that no longer has a link.                                              *)
(***************************************************************************)
EXTENDS LinkTypes

CONSTANTS Procs, NoCode

VARIABLES
    links,      \* the rows that exist
    issued,     \* the keys of all links ever registered
    now,        \* the clock
    asked,      \* the code a visitor waits an answer for, NoCode if none
    decided,    \* the verdict reached and not yet delivered, Silent if none
    reply       \* the last verdict delivered to a visitor

dvars == <<links, issued, now, asked, decided, reply>>
tables == <<links, issued>>

Init ==
    /\ links = {}
    /\ issued = {}
    /\ now = 0
    /\ asked = [p \in Procs |-> NoCode]
    /\ decided = [p \in Procs |-> Silent]
    /\ reply = [p \in Procs |-> Silent]

Free(c) == \A l \in links : l.code # c

\* A new link under a fresh id and a free code.
Register(l) ==
    /\ Free(l.code)
    /\ \A k \in issued : k.id # l.id
    /\ links' = links \cup {l}
    /\ issued' = issued \cup {KeyOf(l)}

\* The owner's changes to a link keep its key.
Amend(l, m) ==
    /\ KeyOf(m) = KeyOf(l) /\ m.user = l.user
    /\ links' = (links \ {l}) \cup {m}
    /\ UNCHANGED issued

Withdraw(l) ==
    /\ links' = links \ {l}
    /\ UNCHANGED issued

\* A withdrawn link may come back (an update that overlaps its deletion), but
\* only under its own key and only while its code is free.
Reinstate(m) ==
    /\ KeyOf(m) \in issued
    /\ Free(m.code)
    /\ links' = links \cup {m}
    /\ UNCHANGED issued

ChangeLinks ==
    /\ \/ \E l \in links' : Register(l) \/ Reinstate(l)
       \/ \E l \in links, m \in links' : Amend(l, m)
       \/ \E l \in links : Withdraw(l)
    /\ UNCHANGED <<now, asked, decided, reply>>

\* The verdicts on code c that are true at this instant.
UrlsOf(c) == {k.url : k \in {i \in issued : i.code = c}}

TrueOf(c, v) ==
    \/ v = Say("error")
    \/ v = Say("notFound") /\ Free(c)
    \/ /\ v.kind = "redirect" /\ v.id = 0 /\ v.url \in UrlsOf(c)
    \/ \E l \in links :
        /\ l.code = c
        /\ \/ v = Say("inactive") /\ l.status = "inactive"
           \/ v = Say("expired") /\ Lapsed(l, now)
           \/ /\ v.kind = "redirect" /\ v.id = l.id /\ v.url \in UrlsOf(c)
              /\ Servable(l, now)

Ask(p, c) ==
    /\ asked[p] = NoCode
    /\ asked' = [asked EXCEPT ![p] = c]
    /\ reply' = [reply EXCEPT ![p] = Silent]
    /\ UNCHANGED <<tables, now, decided>>

Decide(p) ==
    /\ asked[p] # NoCode /\ decided[p] = Silent
    /\ decided' = [decided EXCEPT ![p] = decided'[p]]
    /\ TrueOf(asked[p], decided'[p])
    /\ UNCHANGED <<tables, now, asked, reply>>

Deliver(p) ==
    /\ decided[p] # Silent
    /\ reply' = [reply EXCEPT ![p] = decided[p]]
    /\ decided' = [decided EXCEPT ![p] = Silent]
    /\ asked' = [asked EXCEPT ![p] = NoCode]
    /\ UNCHANGED <<tables, now>>

AnswerAtOnce(p) ==
    /\ asked[p] # NoCode /\ decided[p] = Silent
    /\ reply' = [reply EXCEPT ![p] = reply'[p]]
    /\ TrueOf(asked[p], reply'[p])
    /\ asked' = [asked EXCEPT ![p] = NoCode]
    /\ UNCHANGED <<tables, now, decided>>

\* The client turns to something else, or the server goes down with its visits.
Clear(p) ==
    /\ asked[p] = NoCode
    /\ reply' = [reply EXCEPT ![p] = Silent]
    /\ UNCHANGED <<tables, now, asked, decided>>

GoDown ==
    /\ asked' = [p \in Procs |-> NoCode]
    /\ decided' = [p \in Procs |-> Silent]
    /\ reply' = [p \in Procs |-> Silent]
    /\ UNCHANGED <<tables, now>>

Tick ==
    /\ now' = now + 1
    /\ UNCHANGED <<tables, asked, decided, reply>>

Next ==
    \/ ChangeLinks \/ Tick \/ GoDown
    \/ \E p \in Procs :
        \/ \E c \in Codes : Ask(p, c)
        \/ Decide(p) \/ Deliver(p) \/ AnswerAtOnce(p) \/ Clear(p)

Spec == Init /\ [][Next]_dvars
=============================================================================
