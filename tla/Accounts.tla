------------------------------ MODULE Accounts ------------------------------
(***************************************************************************)
(* Registration as three database calls under two unique indexes, login,   *)
(* and the JWTs that carry a role from login to expiry. An account's id is *)
(* its position in users. Hashing and signing are the libraries' work: a   *)
(* password either is the one registered or is not, a token is not forged. *)
(***************************************************************************)
EXTENDS Process, Sequences, FiniteSets

CONSTANTS
    Guests,     \* goroutines serving registrations
    Names, Mails,
    Before,     \* the accounts a database may hold at the start, as sequences
                \* of <<name, mail>>
    Life,       \* lifetime of a token: ExpireHour
    MaxUsers

ASSUME AccountAssumption ==
    /\ Life \in Nat /\ Names # {} /\ Mails # {}
    /\ \A b \in Before :
         /\ b \in Seq(Names \X Mails)
         /\ \A i, j \in DOMAIN b : b[i][1] = b[j][1] \/ b[i][2] = b[j][2] => i = j

VARIABLES
    users,      \* the users table
    tokens,     \* the JWTs handed out
    form        \* the registration each guest's goroutine serves

accountVars == <<users, tokens, form>>

NoForm == [at |-> "idle", name |-> CHOOSE n \in Names : TRUE, mail |-> CHOOSE m \in Mails : TRUE]

\* dismissed is a history: the times the account lost its admin role.
NewUser(n, m) == [name |-> n, mail |-> m, role |-> "user", dismissed |-> {}]

AccountInit ==
    /\ \E b \in Before : users = [i \in DOMAIN b |-> NewUser(b[i][1], b[i][2])]
    /\ tokens = {}
    /\ form = [g \in Guests |-> NoForm]

AccountTypeOK ==
    /\ \A u \in DOMAIN users : users[u].name \in Names /\ users[u].mail \in Mails
                               /\ users[u].role \in {"user", "admin"}
    /\ \A t \in tokens : t.user \in DOMAIN users
    /\ \A g \in Guests : form[g].at \in {"idle", "name", "mail", "insert"}

Close(g) == form' = [form EXCEPT ![g] = NoForm]

AskAccount(g) ==
    /\ Serving /\ form[g].at = "idle"
    /\ \E n \in Names, m \in Mails :
         form' = [form EXCEPT ![g] = [at |-> "name", name |-> n, mail |-> m]]
    /\ UNCHANGED <<process, users, tokens>>

\* One of the two looks, whose error counts as `does not exist'.
Look(g, label, exists) ==
    /\ \/ Fine /\ IF exists THEN Close(g) ELSE form' = [form EXCEPT ![g].at = label]
       \/ exists /\ Fail("db") /\ form' = [form EXCEPT ![g].at = label]
    /\ UNCHANGED <<phase, now, users, tokens>>

NameTaken(n) == \E u \in DOMAIN users : users[u].name = n
MailTaken(m) == \E u \in DOMAIN users : users[u].mail = m

RegisterName(g) == ~Ended /\ form[g].at = "name" /\ Look(g, "mail", NameTaken(form[g].name))
RegisterMail(g) == ~Ended /\ form[g].at = "mail" /\ Look(g, "insert", MailTaken(form[g].mail))

\* Mutant: the looks are trusted, there is no unique index.
InsertUser(g) ==
    /\ ~Ended /\ form[g].at = "insert" /\ Close(g)
    /\ users' = Append(users, NewUser(form[g].name, form[g].mail))
    /\ UNCHANGED <<process, tokens>>

\* The INSERT under both unique indexes; the loser of a race gets a 500.
RegisterInsert(g) ==
    /\ ~Ended /\ form[g].at = "insert" /\ Close(g)
    /\ \/ /\ Fine /\ Len(users) < MaxUsers
          /\ ~NameTaken(form[g].name) /\ ~MailTaken(form[g].mail)
          /\ users' = Append(users, NewUser(form[g].name, form[g].mail))
       \/ /\ UNCHANGED users
          /\ IF NameTaken(form[g].name) \/ MailTaken(form[g].mail) \/ Len(users) = MaxUsers
             THEN Fine ELSE Fail("db")
    /\ UNCHANGED <<phase, now, tokens>>

-----------------------------------------------------------------------------
\* Sessions.

\* Login with the right password; a failed lookup is answered 401.
Login(u) ==
    /\ Serving /\ u \in DOMAIN users
    /\ tokens' = tokens \cup {[user |-> u, role |-> users[u].role, exp |-> now + Life]}
    /\ UNCHANGED <<process, users, form>>

\* Mutant: a signature is enough.
SignedToken(t) == TRUE

\* jwt.Parse accepts the signature and the expiry. Logging out only clears the
\* cookie: a token lives until it expires.
ValidToken(t) == now < t.exp

\* The middlewares: whom a request may act for, and whether it may administer.
Acts(u) == \E t \in tokens : t.user = u /\ ValidToken(t)
Administers(u) == \E t \in tokens : t.user = u /\ t.role = "admin" /\ ValidToken(t)

\* The role column is changed by hand.
Promote(u) ==
    /\ users[u].role = "user"
    /\ users' = [users EXCEPT ![u].role = "admin"]
    /\ UNCHANGED <<process, tokens, form>>

Demote(u) ==
    /\ users[u].role = "admin"
    /\ users' = [users EXCEPT ![u].role = "user", ![u].dismissed = @ \cup {now}]
    /\ UNCHANGED <<process, tokens, form>>

-----------------------------------------------------------------------------
\* Properties.

\* A name and an address belong to one account each, although registration
\* checks first and inserts later, and takes a failed check for a free name.
OneAccountEach ==
    \A u, v \in DOMAIN users :
        users[u].name = users[v].name \/ users[u].mail = users[v].mail => u = v

\* The role in a token is that of login time, so a dismissed admin keeps his
\* rights, but not longer than a token lives (generateToken, the middlewares).
AdminRightsEnd ==
    \A u \in DOMAIN users : Administers(u) =>
        users[u].role = "admin" \/ \E d \in users[u].dismissed : now < d + Life
=============================================================================
