------------------------------ MODULE LinkTypes ------------------------------
(***************************************************************************)
(* What the link modules share: the rows of the short_links table, what it *)
(* means for a row to be servable, and the answers a visitor can get.      *)
(* Titles, click counts and batch ids are columns no decision here reads.  *)
(***************************************************************************)
EXTENDS Naturals

CONSTANTS
    Users,      \* accounts that own links
    Codes,      \* short codes
    Urls,       \* target urls that pass validateURL
    Expiries,   \* the expiry instants a request may name
    Never,      \* the expiry of a link whose ExpiresAt is nil
    NoUrl       \* the url of an answer that is not a redirect

ASSUME LinkAssumption ==
    /\ Expiries \subseteq Nat
    /\ Never \notin Nat
    /\ NoUrl \notin Urls

Statuses == {"active", "inactive"}

\* A ShortLink struct; id is 0 until the row is inserted.
Row == [id : Nat, user : Users, code : Codes, url : Urls,
        status : Statuses, expires : Expiries \cup {Never}]

\* Link.ExpiresAt.Before(time.Now())
Lapsed(l, t) == l.expires # Never /\ l.expires < t

Servable(l, t) == l.status = "active" /\ ~Lapsed(l, t)

\* Identity of a link: what never changes while it lives.
Key == [id : Nat, code : Codes, url : Urls]
KeyOf(l) == [id |-> l.id, code |-> l.code, url |-> l.url]

\* Redirect(u, i): 301 to u, attributed to link i, or to no link when i = 0.
Redirect(u, i) == [kind |-> "redirect", url |-> u, id |-> i]
Say(k) == [kind |-> k, url |-> NoUrl, id |-> 0]
Silent == Say("none")

\* "ok" and "failed" answer an owner's request, the others a visit.
VisitKinds == {"redirect", "notFound", "inactive", "expired", "error"}
Reply == [kind : VisitKinds \cup {"none", "ok", "failed"},
          url : Urls \cup {NoUrl}, id : Nat]
=============================================================================
