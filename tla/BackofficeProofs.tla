-------------------------- MODULE BackofficeProofs --------------------------
(***************************************************************************)
(* Proofs about Backoffice, for every set of guests, callers and audit     *)
(* workers, every capacity, lifetime and bound.                            *)
(***************************************************************************)
EXTENDS Backoffice, FiniteSetTheorems, SequenceTheorems, TLAPS

-----------------------------------------------------------------------------
\* The rows, tokens and requests the three services keep.
User == [name : Names, mail : Mails, role : {"user", "admin"}, dismissed : SUBSET Nat]
Form == [at : {"idle", "name", "mail", "insert"}, name : Names, mail : Mails]
Token == [user : Nat, role : {"user", "admin"}, exp : Nat]

\* What a token's role is worth: it ends a token's life after its account's
\* dismissal at the latest.
Backed(t) ==
    \/ users[t.user].role = "admin"
    \/ \E d \in users[t.user].dismissed : t.exp <= d + Life

AccountShape ==
    /\ users \in Seq(User) /\ form \in [Guests -> Form] /\ tokens \subseteq Token
    /\ \A t \in tokens : t.user \in DOMAIN users

AccountInv ==
    /\ AccountShape
    /\ OneAccountEach
    /\ \A t \in tokens : t.exp <= now + Life /\ (t.role = "admin" => Backed(t))

LEMMA NoFormType == NoForm \in Form
BY AccountAssumption DEF NoForm, Form

\* A row appended to users keeps what the rows before it say, and the indexes,
\* if its name and address are new.
LEMMA NewAccount ==
    ASSUME AccountInv, NEW n \in Names, NEW m \in Mails,
           ~NameTaken(n), ~MailTaken(m),
           users' = Append(users, NewUser(n, m)),
           tokens' = tokens, now' = now, form' \in [Guests -> Form]
    PROVE  AccountInv'
<1>1. NewUser(n, m) \in User /\ NewUser(n, m).name = n /\ NewUser(n, m).mail = m
  BY DEF NewUser, User
<1>2. /\ users' \in Seq(User) /\ DOMAIN users' = 1..(Len(users) + 1)
      /\ DOMAIN users = 1..Len(users) /\ Len(users) \in Nat
      /\ \A u \in DOMAIN users : users'[u] = users[u]
      /\ users'[Len(users) + 1] = NewUser(n, m)
  BY <1>1 DEF AccountInv, AccountShape
<1>3. OneAccountEach'
  BY <1>1, <1>2 DEF AccountInv, OneAccountEach, NameTaken, MailTaken
<1>4. AccountShape' /\ \A t \in tokens : Backed(t)' <=> Backed(t)
  BY <1>2 DEF AccountInv, AccountShape, Backed
<1> QED
  BY <1>3, <1>4 DEF AccountInv

\* A change of an account's role that notes the time of a dismissal keeps every
\* token backed.
LEMMA RoleChange ==
    ASSUME AccountInv, now \in Nat, NEW u \in DOMAIN users,
           NEW r \in User, r.name = users[u].name, r.mail = users[u].mail,
           users[u].dismissed \subseteq r.dismissed,
           r.role = "admin" \/ now \in r.dismissed \/ users[u].role = "user",
           users' = [users EXCEPT ![u] = r],
           tokens' = tokens, form' = form, now' = now
    PROVE  AccountInv'
<1>1. /\ users' \in Seq(User) /\ DOMAIN users' = DOMAIN users
      /\ \A v \in DOMAIN users : users'[v] = IF v = u THEN r ELSE users[v]
  BY DEF AccountInv, AccountShape
<1>2. AccountShape' /\ OneAccountEach'
  BY <1>1 DEF AccountInv, AccountShape, OneAccountEach
<1>3. ASSUME NEW t \in tokens, t.role = "admin" PROVE Backed(t)'
  <2>1. t.exp <= now + Life /\ Backed(t) /\ t.user \in DOMAIN users
    BY <1>3 DEF AccountInv, AccountShape
  <2> QED
    BY <1>1, <2>1 DEF Backed
<1> QED
  BY <1>2, <1>3 DEF AccountInv

\* Work of keys and auditors moves the clock by one tick at most.
LEMMA WorkClock ==
    ASSUME Work
    PROVE  now' = now \/ now' = now + 1
BY DEF Work, KeyStep, InsertKey, RevokeFind, RevokeUnblock, RevokeUpdate, FindKey, DenyKey,
       UseKey, RecordCall, AuditStep, AuditTake, AuditTicker, AuditSeeStop, AuditDrained,
       AuditStop, AuditExit, Tick, Kill, process

LEMMA AccountStep ==
    ASSUME AccountInv, ProcessTypeOK, [Next]_vars
    PROVE  AccountInv'
<1> USE NoFormType
<1>1. now \in Nat /\ Life \in Nat
  BY ProcessAssumption, AccountAssumption DEF ProcessTypeOK
<1>2. \A g \in Guests : form[g] \in Form
  BY DEF AccountInv, AccountShape
<1>3. ASSUME NEW f \in [Guests -> Form], form' = f, UNCHANGED <<now, users, tokens>>
      PROVE  AccountInv'
  BY <1>3 DEF AccountInv, AccountShape, OneAccountEach, Backed
<1>4. ASSUME NEW g \in Guests, AskAccount(g) PROVE AccountInv'
  <2>1. PICK n \in Names, m \in Mails :
          form' = [form EXCEPT ![g] = [at |-> "name", name |-> n, mail |-> m]]
    BY <1>4 DEF AskAccount
  <2>2. [at |-> "name", name |-> n, mail |-> m] \in Form
    BY DEF Form
  <2>3. form' \in [Guests -> Form]
    BY <2>1, <2>2 DEF AccountInv, AccountShape
  <2> QED
    BY <1>3, <1>4, <2>3 DEF AskAccount, process
<1>5. ASSUME NEW g \in Guests, RegisterName(g) \/ RegisterMail(g) PROVE AccountInv'
  <2>1. form' = [form EXCEPT ![g].at = "mail"] \/ form' = [form EXCEPT ![g].at = "insert"]
          \/ form' = [form EXCEPT ![g] = NoForm]
    BY <1>5 DEF RegisterName, RegisterMail, Look, Close
  <2>2. form' \in [Guests -> Form]
    BY <2>1, <1>2 DEF AccountInv, AccountShape, Form
  <2> QED
    BY <1>3, <1>5, <2>2 DEF RegisterName, RegisterMail, Look
<1>6. ASSUME NEW g \in Guests, RegisterInsert(g) PROVE AccountInv'
  <2>1. form' \in [Guests -> Form]
    BY <1>6 DEF RegisterInsert, Close, AccountInv, AccountShape
  <2>2. CASE users' = users
    BY <1>3, <1>6, <2>1, <2>2 DEF RegisterInsert
  <2>3. CASE /\ ~NameTaken(form[g].name) /\ ~MailTaken(form[g].mail)
             /\ users' = Append(users, NewUser(form[g].name, form[g].mail))
    <3>1. form[g].name \in Names /\ form[g].mail \in Mails
      BY <1>2 DEF Form
    <3> QED
      BY <1>6, <2>1, <2>3, <3>1, NewAccount DEF RegisterInsert
  <2> QED
    BY <1>6, <2>2, <2>3 DEF RegisterInsert
<1>7. ASSUME NEW u \in DOMAIN users, Login(u) PROVE AccountInv'
  <2> DEFINE t == [user |-> u, role |-> users[u].role, exp |-> now + Life]
  <2>1. users[u] \in User /\ u \in Nat
    BY DEF AccountInv, AccountShape
  <2>2. t \in Token /\ t.user = u /\ t.exp = now + Life /\ t.role = users[u].role
    BY <1>1, <2>1 DEF Token, User
  <2>3. tokens' = tokens \cup {t} /\ UNCHANGED <<now, users, form>>
    BY <1>7 DEF Login, process
  <2> HIDE DEF t
  <2>4. AccountShape' /\ OneAccountEach'
    BY <2>2, <2>3 DEF AccountInv, AccountShape, OneAccountEach
  <2>5. \A s \in tokens' : s.exp <= now + Life /\ (s.role = "admin" => Backed(s)')
    BY <1>1, <2>2, <2>3 DEF AccountInv, Backed
  <2> QED
    BY <2>3, <2>4, <2>5 DEF AccountInv
<1>8. ASSUME NEW u \in DOMAIN users, Promote(u) PROVE AccountInv'
  <2> DEFINE r == [users[u] EXCEPT !.role = "admin"]
  <2>1. users[u] \in User
    BY DEF AccountInv, AccountShape
  <2>2. /\ r \in User /\ r.name = users[u].name /\ r.mail = users[u].mail
        /\ r.role = "admin" /\ r.dismissed = users[u].dismissed
    BY <2>1 DEF User
  <2>3. users' = [users EXCEPT ![u] = r] /\ UNCHANGED <<now, tokens, form>>
    BY <1>8 DEF Promote, process
  <2> HIDE DEF r
  <2> QED
    BY <1>1, <2>2, <2>3, RoleChange
<1>9. ASSUME NEW u \in DOMAIN users, Demote(u) PROVE AccountInv'
  <2> DEFINE r == [users[u] EXCEPT !.role = "user", !.dismissed = @ \cup {now}]
  <2>1. users[u] \in User
    BY DEF AccountInv, AccountShape
  <2>2. /\ r \in User /\ r.name = users[u].name /\ r.mail = users[u].mail
        /\ r.dismissed = users[u].dismissed \cup {now}
    BY <1>1, <2>1 DEF User
  <2>3. users' = [users EXCEPT ![u] = r] /\ UNCHANGED <<now, tokens, form>>
    BY <1>9 DEF Demote, process
  <2> HIDE DEF r
  <2> QED
    BY <1>1, <2>2, <2>3, RoleChange
<1>10. ASSUME UNCHANGED accountVars, now' = now \/ now' = now + 1 PROVE AccountInv'
  <2>1. \A t \in tokens : t.exp \in Nat
    BY DEF AccountInv, AccountShape, Token
  <2> QED
    BY <1>1, <1>10, <2>1
       DEF accountVars, AccountInv, AccountShape, OneAccountEach, Backed
<1> QED
  <2>1. CASE Arrive
    BY <2>1, <1>4, <1>7, <1>8, <1>9, <1>10 DEF Arrive, AskKey, AskRevoke, Present, process
  <2>2. CASE Registering
    BY <2>2, <1>5, <1>6 DEF Registering
  <2>3. CASE Work /\ UNCHANGED accountVars
    BY <2>3, <1>10, WorkClock
  <2>4. CASE UNCHANGED vars
    BY <2>4, <1>10 DEF vars, process
  <2> QED
    BY <2>1, <2>2, <2>3, <2>4 DEF Next

-----------------------------------------------------------------------------
\* Keys, and the requests made with and about them.
KeyRow == [user : Nat, status : {"active", "inactive"}, told : BOOLEAN,
           expires : Nat \cup {NoExpiry}]
Labels == {"idle", "insert", "record", "find", "deny", "act", "revokeFind", "unblock", "revoke"}
Call == [at : Labels, user : Nat, key : Nat, late : BOOLEAN, op : Nat]
Operation == [what : {"create_key", "revoke_key", "create_link"}, user : Nat, key : Nat]

\* What is known of the key a request is about: it exists once the request has
\* one; a late request's owner had been told; a key to be denied is revoked; a
\* key acts for its owner, and he alone gets as far as revoking it.
CallOK(c) ==
    LET r == call[c]
        k == keys[r.key] IN
    /\ r.op \in {0} \cup DOMAIN done
    /\ r.at = "record" => r.op \in DOMAIN done
    /\ r.at = "insert" => r.key = 0 /\ ~r.late
    /\ r.at = "idle" => r.key = 0 /\ ~r.late
    /\ r.at \notin {"idle", "insert"} => r.key \in DOMAIN keys
    /\ r.late => k.told
    /\ r.at = "act" => ~r.late
    /\ r.at = "deny" => k.status = "inactive"
    /\ r.at \in {"find", "deny", "act", "unblock", "revoke"} => r.user = k.user

KeyShape ==
    /\ keys \in Seq(KeyRow) /\ Len(keys) <= MaxKeys
    /\ denied \in Seq(Nat) /\ Len(denied) = Len(keys)
    /\ call \in [Callers -> Call]
    /\ done \in Seq(Operation)

\* Keys are not brought back to life, and only revoked ones are refused.
KeyOK(k) ==
    /\ keys[k].told => keys[k].status = "inactive"
    /\ denied[k] > now => keys[k].status = "inactive"

\* An operation of the trail names a key there is, for the key's owner.
OpOK(n) ==
    /\ done[n].key \in DOMAIN keys /\ done[n].user = keys[done[n].key].user
    /\ done[n].what = "revoke_key" => keys[done[n].key].status = "inactive"
    /\ done[n].what # "create_key" =>
         \A m \in DOMAIN done :
            done[m].what = "create_key" /\ done[m].key = done[n].key => m < n

KeyInv ==
    /\ KeyShape
    /\ \A k \in DOMAIN keys : KeyOK(k)
    /\ \A c \in Callers : CallOK(c)
    /\ \A n \in DOMAIN done : OpOK(n)

\* What no step undoes: keys keep their owner, and what was said of them.
KeysGrow ==
    /\ DOMAIN done \subseteq DOMAIN done'
    /\ \A k \in DOMAIN keys :
         /\ k \in DOMAIN keys' /\ keys'[k].user = keys[k].user
         /\ keys[k].told => keys'[k].told
         /\ keys[k].status = "inactive" => keys'[k].status = "inactive"

LEMMA CallKept ==
    ASSUME KeyShape, KeysGrow, NEW c \in Callers, call'[c] = call[c], CallOK(c)
    PROVE  CallOK(c)'
<1>1. call[c] \in Call
  BY DEF KeyShape
<1> QED
  BY <1>1 DEF CallOK, KeysGrow, Call

LEMMA OpKept ==
    ASSUME KeyShape, KeysGrow, done' = done, NEW n \in DOMAIN done, OpOK(n)
    PROVE  OpOK(n)'
BY DEF OpOK, KeysGrow

\* A step of one caller that appends no operation: it is enough to look at the
\* caller's own request and at the keys.
LEMMA CallerMoves ==
    ASSUME KeyInv, KeyShape', KeysGrow, done' = done, NEW c \in Callers, CallOK(c)',
           \A d \in Callers \ {c} : call'[d] = call[d],
           \A k \in DOMAIN keys' : KeyOK(k)'
    PROVE  KeyInv'
BY CallKept, OpKept DEF KeyInv

\* A step of one caller that appends one.
LEMMA CallerActs ==
    ASSUME KeyInv, KeyShape', KeysGrow, NEW c \in Callers, CallOK(c)',
           NEW e \in Operation, done' = Append(done, e),
           e.key \in DOMAIN keys', e.user = keys'[e.key].user,
           e.what = "revoke_key" => keys'[e.key].status = "inactive",
           e.what = "create_key" => e.key \notin DOMAIN keys,
           \A d \in Callers \ {c} : call'[d] = call[d],
           \A k \in DOMAIN keys' : KeyOK(k)'
    PROVE  KeyInv'
<1>1. /\ DOMAIN done' = 1..(Len(done) + 1) /\ DOMAIN done = 1..Len(done) /\ Len(done) \in Nat
      /\ \A n \in DOMAIN done : done'[n] = done[n]
      /\ done'[Len(done) + 1] = e
  BY DEF KeyInv, KeyShape
<1>2. ASSUME NEW n \in DOMAIN done PROVE OpOK(n)'
  <2>1. OpOK(n)
    BY DEF KeyInv
  <2> QED
    BY <1>1, <2>1 DEF OpOK, KeysGrow
<1>3. ASSUME NEW n \in DOMAIN done', n = Len(done) + 1 PROVE OpOK(n)'
  BY <1>1, <1>3 DEF OpOK
<1>4. \A n \in DOMAIN done' : n \in DOMAIN done \/ n = Len(done) + 1
  BY <1>1
<1> QED
  BY <1>2, <1>3, <1>4, CallKept DEF KeyInv

-----------------------------------------------------------------------------
\* The steps of requests about keys.

\* What a request looks like after its caller went on, returned or began.
LEMMA CallFields ==
    ASSUME KeyShape, NEW c \in Callers
    PROVE  /\ call[c] \in Call
           /\ \A label \in Labels : At(c, label) =>
                /\ call' \in [Callers -> Call]
                /\ \A d \in Callers \ {c} : call'[d] = call[d]
                /\ call'[c].at = label /\ call'[c].user = call[c].user
                /\ call'[c].key = call[c].key /\ call'[c].late = call[c].late
                /\ call'[c].op = call[c].op
           /\ Return(c) =>
                /\ call' \in [Callers -> Call]
                /\ \A d \in Callers \ {c} : call'[d] = call[d]
                /\ call'[c] = NoCall
<1>1. call[c] \in Call /\ NoCall \in Call
  BY DEF KeyShape, NoCall, Call, Labels
<1>2. ASSUME NEW label \in Labels, At(c, label)
      PROVE  /\ call' \in [Callers -> Call]
             /\ \A d \in Callers \ {c} : call'[d] = call[d]
             /\ call'[c].at = label /\ call'[c].user = call[c].user
             /\ call'[c].key = call[c].key /\ call'[c].late = call[c].late
             /\ call'[c].op = call[c].op
  <2> DEFINE r == [call[c] EXCEPT !.at = label]
  <2>1. r \in Call /\ r.at = label /\ r.user = call[c].user /\ r.key = call[c].key
        /\ r.late = call[c].late /\ r.op = call[c].op
    BY <1>1 DEF Call
  <2>2. call' = [call EXCEPT ![c] = r]
    BY <1>2 DEF At
  <2> HIDE DEF r
  <2> QED
    BY <2>1, <2>2 DEF KeyShape
<1>3. Return(c) =>
        /\ call' \in [Callers -> Call]
        /\ \A d \in Callers \ {c} : call'[d] = call[d]
        /\ call'[c] = NoCall
  BY <1>1 DEF Return, KeyShape
<1> QED
  BY <1>1, <1>2, <1>3

\* A request that returned claims nothing.
LEMMA ReturnedOK ==
    ASSUME NEW c \in Callers, call'[c] = NoCall
    PROVE  CallOK(c)'
BY DEF CallOK, NoCall

\* A step that changes neither keys nor operations.
LEMMA RequestMoves ==
    ASSUME KeyInv, NEW c \in Callers, UNCHANGED <<keys, denied, done>>, now' = now,
           call' \in [Callers -> Call], \A d \in Callers \ {c} : call'[d] = call[d],
           CallOK(c)'
    PROVE  KeyInv'
<1>1. KeyShape' /\ KeysGrow /\ \A k \in DOMAIN keys' : KeyOK(k)'
  BY DEF KeyInv, KeyShape, KeysGrow, KeyOK
<1> QED
  BY <1>1, CallerMoves

LEMMA Begins ==
    ASSUME KeyInv, NEW c \in Callers, NEW u \in Nat, NEW k \in {0} \cup DOMAIN keys,
           NEW label \in {"insert", "revokeFind", "find"},
           k = 0 <=> label = "insert", label = "find" => u = keys[k].user,
           Begin(c, label, u, k), UNCHANGED <<keys, denied, done>>, now' = now
    PROVE  KeyInv'
<1> DEFINE r == [at |-> label, user |-> u, key |-> k, op |-> 0, late |-> k # 0 /\ keys[k].told]
<1>1. k \in Nat
  BY DEF KeyInv, KeyShape
<1>2. r \in Call /\ call' = [call EXCEPT ![c] = r]
  BY <1>1 DEF Call, Labels, Begin
<1>3. /\ r.at = label /\ r.user = u /\ r.key = k /\ r.op = 0
      /\ r.late = (k # 0 /\ keys[k].told)
  OBVIOUS
<1> HIDE DEF r
<1>4. /\ call' \in [Callers -> Call] /\ call'[c] = r
      /\ \A d \in Callers \ {c} : call'[d] = call[d]
  BY <1>2 DEF KeyInv, KeyShape
<1>5. CallOK(c)'
  BY <1>3, <1>4 DEF CallOK
<1> QED
  BY <1>4, <1>5, RequestMoves

\* What carrying out an operation does to the request and to the history.
LEMMA ActFields ==
    ASSUME KeyShape, NEW c \in Callers, NEW k \in Nat,
           NEW what \in {"create_key", "revoke_key", "create_link"}, Act(c, what, k)
    PROVE  /\ done' = Append(done, [what |-> what, user |-> call[c].user, key |-> k])
           /\ [what |-> what, user |-> call[c].user, key |-> k] \in Operation
           /\ done' \in Seq(Operation)
           /\ DOMAIN done \subseteq DOMAIN done' /\ call'[c].op \in DOMAIN done'
           /\ call' \in [Callers -> Call]
           /\ \A d \in Callers \ {c} : call'[d] = call[d]
           /\ call'[c].at = "record" /\ call'[c].key = k /\ call'[c].late = call[c].late
           /\ call'[c].op = Len(done) + 1
<1> DEFINE e == [what |-> what, user |-> call[c].user, key |-> k]
           r == [call[c] EXCEPT !.at = "record", !.key = k, !.op = Len(done')]
<1>1. call[c] \in Call
  BY DEF KeyShape
<1>2. e \in Operation
  BY <1>1 DEF Operation, Call
<1>3. done' = Append(done, e) /\ call' = [call EXCEPT ![c] = r]
  BY DEF Act, Perform
<1> HIDE DEF e
<1>4. /\ done' \in Seq(Operation) /\ Len(done') = Len(done) + 1 /\ Len(done) \in Nat
      /\ DOMAIN done' = 1..(Len(done) + 1) /\ DOMAIN done = 1..Len(done)
  BY <1>2, <1>3 DEF KeyShape
<1>5. r \in Call /\ r.at = "record" /\ r.key = k /\ r.late = call[c].late /\ r.op = Len(done')
  <2>1. Len(done') \in Nat
    BY <1>4
  <2> QED
    BY <1>1, <2>1 DEF Call, Labels
<1> HIDE DEF r
<1>6. /\ call' \in [Callers -> Call] /\ \A d \in Callers \ {c} : call'[d] = call[d]
      /\ call'[c] = r
  BY <1>3, <1>5 DEF KeyShape
<1> QED
  BY <1>2, <1>3, <1>4, <1>5, <1>6 DEF e

LEMMA InsertKeyStep ==
    ASSUME KeyInv, ProcessTypeOK, NEW c \in Callers, InsertKey(c)
    PROVE  KeyInv'
<1>1. now \in Nat /\ KeyShape /\ call[c] \in Call /\ call[c].at = "insert" /\ now' = now
  BY ProcessAssumption DEF ProcessTypeOK, KeyInv, KeyShape, InsertKey
<1>2. CASE Return(c) /\ UNCHANGED <<keys, denied, done>>
  BY <1>1, <1>2, CallFields, ReturnedOK, RequestMoves
<1>3. ASSUME Len(keys) < MaxKeys, Act(c, "create_key", Len(keys')), denied' = Append(denied, 0),
             NEW row \in KeyRow, row.user = call[c].user, row.status = "active",
             row.told = FALSE, keys' = Append(keys, row)
      PROVE  KeyInv'
  <2>1. /\ keys' \in Seq(KeyRow) /\ Len(keys') = Len(keys) + 1 /\ Len(keys) \in Nat
        /\ DOMAIN keys' = 1..(Len(keys) + 1) /\ DOMAIN keys = 1..Len(keys)
        /\ \A k \in DOMAIN keys : keys'[k] = keys[k]
        /\ keys'[Len(keys) + 1] = row
    BY <1>1, <1>3 DEF KeyShape
  <2>2. /\ denied' \in Seq(Nat) /\ Len(denied') = Len(keys) + 1
        /\ \A k \in DOMAIN keys : denied'[k] = denied[k]
        /\ denied'[Len(keys) + 1] = 0
    BY <1>1, <1>3 DEF KeyShape
  <2> DEFINE e == [what |-> "create_key", user |-> call[c].user, key |-> Len(keys')]
  <2>3. /\ e \in Operation /\ done' = Append(done, e) /\ done' \in Seq(Operation)
        /\ DOMAIN done \subseteq DOMAIN done' /\ call' \in [Callers -> Call]
        /\ \A d \in Callers \ {c} : call'[d] = call[d]
        /\ call'[c].at = "record" /\ call'[c].key = Len(keys) + 1
        /\ call'[c].late = call[c].late /\ call'[c].op \in DOMAIN done'
    <3>1. Len(keys') \in Nat
      BY <2>1
    <3> QED
      BY <1>1, <1>3, <2>1, <3>1, ActFields
  <2>4. /\ e.key \in DOMAIN keys' /\ e.user = keys'[e.key].user /\ e.what = "create_key"
        /\ e.key \notin DOMAIN keys
    BY <1>3, <2>1
  <2> HIDE DEF e
  <2>5. KeyShape'
    <3>1. Len(keys') <= MaxKeys
      BY <1>3, <2>1, KeyAssumption
    <3> QED
      BY <2>1, <2>2, <2>3, <3>1 DEF KeyShape
  <2>6. KeysGrow
    BY <2>1, <2>3 DEF KeysGrow
  <2>7. ASSUME NEW k \in DOMAIN keys' PROVE KeyOK(k)'
    BY <1>1, <1>3, <2>1, <2>2, <2>7 DEF KeyInv, KeyOK
  <2>8. CallOK(c)'
    <3>1. ~call[c].late
      BY <1>1 DEF KeyInv, CallOK
    <3> QED
      BY <2>1, <2>3, <3>1 DEF CallOK
  <2> QED
    BY <2>3, <2>4, <2>5, <2>6, <2>7, <2>8, CallerActs
<1>4. ASSUME NEW life \in KeyLife \cup {NoExpiry}
      PROVE  [user |-> call[c].user, status |-> "active", told |-> FALSE,
              expires |-> IF life = NoExpiry THEN life ELSE now + life] \in KeyRow
  BY <1>1, KeyAssumption DEF KeyRow, Call
<1> QED
  BY <1>2, <1>3, <1>4 DEF InsertKey

\* Moving on leaves the request as it was, except for where it is.
LEMMA Moves ==
    ASSUME KeyInv, NEW c \in Callers, NEW label \in Labels \ {"idle", "insert", "record"},
           At(c, label), UNCHANGED <<keys, denied, done>>, now' = now,
           call[c].at \notin {"idle", "insert"}, label = "act" => ~call[c].late,
           label = "deny" => keys[call[c].key].status = "inactive",
           label \in {"find", "deny", "act", "unblock", "revoke"} =>
               call[c].user = keys[call[c].key].user
    PROVE  KeyInv'
<1>1. /\ call' \in [Callers -> Call]
      /\ \A d \in Callers \ {c} : call'[d] = call[d]
      /\ call'[c].at = label /\ call'[c].user = call[c].user
      /\ call'[c].key = call[c].key /\ call'[c].late = call[c].late
      /\ call'[c].op = call[c].op
  BY CallFields DEF KeyInv
<1>2. CallOK(c)'
  BY <1>1 DEF KeyInv, CallOK
<1> QED
  BY <1>1, <1>2, RequestMoves

LEMMA Returns ==
    ASSUME KeyInv, NEW c \in Callers, Return(c), UNCHANGED <<keys, denied, done>>, now' = now
    PROVE  KeyInv'
BY CallFields, ReturnedOK, RequestMoves DEF KeyInv

LEMMA RevokeFindStep ==
    ASSUME KeyInv, NEW c \in Callers, RevokeFind(c)
    PROVE  KeyInv'
BY Moves, Returns DEF RevokeFind, audit, Labels

\* A late request is about a key its owner was told is revoked, so the lookup
\* does not find it; what is remembered as invalid is revoked.
LEMMA FindKeyStep ==
    ASSUME KeyInv, NEW c \in Callers, FindKey(c)
    PROVE  KeyInv'
<1>1. /\ UNCHANGED <<keys, denied, done>> /\ now' = now /\ call[c].at = "find"
      /\ \/ At(c, "deny") /\ keys[call[c].key].status = "inactive"
         \/ At(c, "act") /\ keys[call[c].key].status # "inactive"
         \/ Return(c)
  BY DEF FindKey, audit
<1>2. CallOK(c) /\ call[c].key \in DOMAIN keys
  BY <1>1 DEF KeyInv, CallOK
<1>3. keys[call[c].key].status # "inactive" => ~call[c].late
  BY <1>2 DEF KeyInv, KeyOK, CallOK
<1>4. call[c].user = keys[call[c].key].user
  BY <1>1, <1>2 DEF CallOK
<1> QED
  BY <1>1, <1>3, <1>4, Moves, Returns DEF Labels

\* A change of the negative cache alone.
LEMMA DeniedChanges ==
    ASSUME KeyInv, NEW c \in Callers, NEW k \in DOMAIN keys, NEW t \in Nat,
           denied' = denied \/ denied' = [denied EXCEPT ![k] = t],
           t > now => keys[k].status = "inactive", UNCHANGED <<keys, done>>, now' = now,
           call' \in [Callers -> Call], \A d \in Callers \ {c} : call'[d] = call[d],
           CallOK(c)'
    PROVE  KeyInv'
<1>1. /\ denied' \in Seq(Nat) /\ Len(denied') = Len(denied)
      /\ \A i \in DOMAIN keys : denied'[i] = denied[i] \/ (i = k /\ denied'[i] = t)
  BY DEF KeyInv, KeyShape
<1>2. KeyShape' /\ KeysGrow
  BY <1>1 DEF KeyInv, KeyShape, KeysGrow
<1>3. \A i \in DOMAIN keys' : KeyOK(i)'
  BY <1>1 DEF KeyInv, KeyOK
<1> QED
  BY <1>2, <1>3, CallerMoves

LEMMA RevokeUnblockStep ==
    ASSUME KeyInv, ProcessTypeOK, NEW c \in Callers, RevokeUnblock(c)
    PROVE  KeyInv'
<1>1. /\ call[c].at = "unblock" /\ At(c, "revoke") /\ UNCHANGED <<keys, done>> /\ now' = now
      /\ denied' = denied \/ denied' = [denied EXCEPT ![call[c].key] = 0]
  BY DEF RevokeUnblock, audit
<1>2. CallOK(c) /\ call[c].key \in DOMAIN keys /\ now \in Nat /\ KeyShape
  BY <1>1, ProcessAssumption DEF KeyInv, CallOK, ProcessTypeOK
<1>3. /\ call' \in [Callers -> Call]
      /\ \A d \in Callers \ {c} : call'[d] = call[d]
      /\ call'[c].at = "revoke" /\ call'[c].user = call[c].user
      /\ call'[c].key = call[c].key /\ call'[c].late = call[c].late
      /\ call'[c].op = call[c].op
  BY <1>1, <1>2, CallFields DEF Labels
<1>4. CallOK(c)'
  BY <1>1, <1>2, <1>3 DEF CallOK
<1> QED
  BY <1>1, <1>2, <1>3, <1>4, DeniedChanges

LEMMA DenyKeyStep ==
    ASSUME KeyInv, ProcessTypeOK, NEW c \in Callers, DenyKey(c)
    PROVE  KeyInv'
<1>1. /\ call[c].at = "deny" /\ Return(c) /\ UNCHANGED <<keys, done>> /\ now' = now
      /\ denied' = denied \/ denied' = [denied EXCEPT ![call[c].key] = now + Lapse]
  BY DEF DenyKey, audit
<1>2. CallOK(c) /\ call[c].key \in DOMAIN keys /\ now + Lapse \in Nat /\ KeyShape
      /\ keys[call[c].key].status = "inactive"
  BY <1>1, ProcessAssumption, KeyAssumption DEF KeyInv, CallOK, ProcessTypeOK
<1>3. /\ call' \in [Callers -> Call]
      /\ \A d \in Callers \ {c} : call'[d] = call[d]
      /\ CallOK(c)'
  BY <1>1, <1>2, CallFields, ReturnedOK
<1> QED
  BY <1>1, <1>2, <1>3, DeniedChanges

\* The row is marked, its owner told, the operation noted: for a key that is
\* the caller's.
LEMMA RevokeUpdateStep ==
    ASSUME KeyInv, NEW c \in Callers, RevokeUpdate(c)
    PROVE  KeyInv'
<1> DEFINE k == call[c].key
<1>1. /\ call[c].at = "revoke" /\ denied' = denied /\ now' = now
      /\ \/ /\ keys' = [keys EXCEPT ![k].status = "inactive", ![k].told = TRUE]
            /\ Act(c, "revoke_key", k)
         \/ Return(c) /\ UNCHANGED <<keys, done>>
  BY DEF RevokeUpdate
<1>2. CallOK(c) /\ k \in DOMAIN keys /\ KeyShape /\ k \in Nat /\ call[c].user = keys[k].user
  BY <1>1 DEF KeyInv, CallOK, KeyShape
<1>3. ASSUME keys' = [keys EXCEPT ![k].status = "inactive", ![k].told = TRUE],
             Act(c, "revoke_key", k)
      PROVE  KeyInv'
  <2> DEFINE row == [keys[k] EXCEPT !.status = "inactive", !.told = TRUE]
             e == [what |-> "revoke_key", user |-> call[c].user, key |-> k]
  <2>1. keys[k] \in KeyRow
    BY <1>2 DEF KeyShape
  <2>2. row \in KeyRow /\ row.user = keys[k].user /\ row.status = "inactive" /\ row.told
    BY <2>1 DEF KeyRow
  <2>3. keys' = [keys EXCEPT ![k] = row]
    BY <1>3
  <2>4. /\ e \in Operation /\ done' = Append(done, e) /\ done' \in Seq(Operation)
        /\ DOMAIN done \subseteq DOMAIN done' /\ call' \in [Callers -> Call]
        /\ \A d \in Callers \ {c} : call'[d] = call[d]
        /\ call'[c].at = "record" /\ call'[c].key = k
        /\ call'[c].late = call[c].late /\ call'[c].op \in DOMAIN done'
    BY <1>2, <1>3, ActFields
  <2>5. e.key = k /\ e.user = call[c].user /\ e.what = "revoke_key"
    OBVIOUS
  <2> HIDE DEF row, e, k
  <2>6. /\ keys' \in Seq(KeyRow) /\ Len(keys') = Len(keys) /\ DOMAIN keys' = DOMAIN keys
        /\ \A i \in DOMAIN keys : keys'[i] = IF i = k THEN row ELSE keys[i]
    BY <1>2, <2>2, <2>3 DEF KeyShape
  <2>7. KeyShape' /\ KeysGrow
    BY <1>1, <1>2, <2>2, <2>4, <2>6 DEF KeyShape, KeysGrow
  <2>8. \A i \in DOMAIN keys' : KeyOK(i)'
    BY <1>1, <2>2, <2>6 DEF KeyInv, KeyOK
  <2>9. CallOK(c)'
    BY <1>1, <1>2, <2>2, <2>4, <2>6 DEF CallOK
  <2> QED
    BY <1>2, <2>2, <2>4, <2>5, <2>6, <2>7, <2>8, <2>9, CallerActs
<1> QED
  BY <1>1, <1>3, Returns

LEMMA UseKeyStep ==
    ASSUME KeyInv, NEW c \in Callers, UseKey(c)
    PROVE  KeyInv'
<1>1. /\ call[c].at = "act" /\ UNCHANGED <<keys, denied>> /\ now' = now
      /\ Act(c, "create_link", call[c].key) \/ (Return(c) /\ UNCHANGED done)
  BY DEF UseKey
<1>2. CallOK(c) /\ call[c].key \in DOMAIN keys /\ KeyShape /\ call[c].key \in Nat
      /\ call[c].user = keys[call[c].key].user
  BY <1>1 DEF KeyInv, CallOK, KeyShape
<1>3. ASSUME Act(c, "create_link", call[c].key) PROVE KeyInv'
  <2> DEFINE e == [what |-> "create_link", user |-> call[c].user, key |-> call[c].key]
  <2>1. /\ e \in Operation /\ done' = Append(done, e) /\ done' \in Seq(Operation)
        /\ DOMAIN done \subseteq DOMAIN done' /\ call' \in [Callers -> Call]
        /\ \A d \in Callers \ {c} : call'[d] = call[d]
        /\ call'[c].at = "record" /\ call'[c].key = call[c].key
        /\ call'[c].late = call[c].late /\ call'[c].op \in DOMAIN done'
    BY <1>2, <1>3, ActFields
  <2>2. e.key = call[c].key /\ e.user = call[c].user /\ e.what = "create_link"
    OBVIOUS
  <2> HIDE DEF e
  <2>3. KeyShape' /\ KeysGrow /\ \A k \in DOMAIN keys' : KeyOK(k)'
    BY <1>1, <2>1 DEF KeyInv, KeyShape, KeysGrow, KeyOK
  <2>4. CallOK(c)'
    BY <1>1, <1>2, <2>1 DEF CallOK
  <2> QED
    BY <1>1, <1>2, <2>1, <2>2, <2>3, <2>4, CallerActs
<1> QED
  BY <1>1, <1>3, Returns

\* Every step keeps what is known of keys, requests and operations.
LEMMA KeyInvStep ==
    ASSUME KeyInv, AccountInv, ProcessTypeOK, [Next]_vars
    PROVE  KeyInv'
<1>1. now \in Nat
  BY ProcessAssumption DEF ProcessTypeOK
<1>2. ASSUME UNCHANGED keyVars, done' = done, now' = now \/ now' = now + 1 PROVE KeyInv'
  <2>1. KeyShape' /\ \A c \in Callers : CallOK(c)'
    BY <1>2 DEF keyVars, KeyInv, KeyShape, CallOK
  <2>2. ASSUME NEW k \in DOMAIN keys' PROVE KeyOK(k)'
    <3>1. denied[k] \in Nat /\ KeyOK(k) /\ keys' = keys /\ denied' = denied
      BY <1>2 DEF keyVars, KeyInv, KeyShape
    <3> QED
      BY <1>1, <1>2, <3>1 DEF KeyOK
  <2>3. \A n \in DOMAIN done' : OpOK(n)'
    BY <1>2 DEF keyVars, KeyInv, OpOK
  <2> QED
    BY <2>1, <2>2, <2>3 DEF KeyInv
<1>3. ASSUME NEW c \in Callers, RecordCall(c) PROVE KeyInv'
  BY <1>3, Returns DEF RecordCall, Record, process
<1>4. ASSUME NEW c \in Callers, NEW u \in DOMAIN users,
             AskKey(c, u) \/ \E k \in DOMAIN keys : AskRevoke(c, u, k)
      PROVE  KeyInv'
  <2>1. u \in Nat /\ 0 \notin DOMAIN keys
    BY DEF AccountInv, AccountShape, KeyInv, KeyShape
  <2> QED
    BY <1>4, <2>1, Begins DEF AskKey, AskRevoke, audit, process
<1>5. ASSUME NEW c \in Callers, NEW k \in DOMAIN keys, Present(c, k) PROVE KeyInv'
  <2>1. keys[k] \in KeyRow /\ k # 0
    BY DEF KeyInv, KeyShape
  <2>2. keys[k].user \in Nat
    BY <2>1 DEF KeyRow
  <2> QED
    BY <1>5, <2>1, <2>2, Begins DEF Present, audit
<1>6. ASSUME NEW c \in Callers, KeyStep(c) PROVE KeyInv'
  BY <1>3, <1>6, InsertKeyStep, RevokeFindStep, RevokeUnblockStep, RevokeUpdateStep,
     FindKeyStep, DenyKeyStep, UseKeyStep DEF KeyStep
<1>7. ASSUME NEW w \in Auditors, AuditStep(w), UNCHANGED keyVars PROVE KeyInv'
  BY <1>2, <1>7 DEF AuditStep, AuditTake, AuditTicker, AuditSeeStop, AuditDrained, process
<1>8. CASE (AuditStop \/ AuditExit \/ ((Tick \/ Kill) /\ UNCHANGED audit)) /\ UNCHANGED keyVars
  BY <1>2, <1>8 DEF AuditStop, AuditExit, Tick, Kill, audit
<1>9. CASE Arrive
  <2>1. CASE UNCHANGED <<audit, keyVars>> /\ now' = now
    BY <1>2, <2>1 DEF audit
  <2> QED
    BY <1>4, <1>5, <1>9, <2>1 DEF Arrive, AskAccount, Login, Promote, Demote, process
<1>10. CASE Registering /\ UNCHANGED <<audit, keyVars>>
  BY <1>2, <1>10 DEF Registering, RegisterName, RegisterMail, RegisterInsert, Look, audit
<1>11. CASE UNCHANGED vars
  BY <1>2, <1>11 DEF vars, process, audit
<1> QED
  BY <1>6, <1>7, <1>8, <1>9, <1>10, <1>11 DEF Next, Work, audit

-----------------------------------------------------------------------------
\* The trail. An entry is on one place of its way only: with the caller that is
\* about to record it, in the channel, in one worker's batch, or in the table.
Recording(c) == call[c].at = "record"

OnOnePlace ==
    /\ \A n \in auditChan : n \notin DOMAIN auditRows
    /\ \A w \in Auditors : \A n \in auditor[w].batch :
         /\ n \notin DOMAIN auditRows /\ n \notin auditChan
         /\ \A v \in Auditors \ {w} : n \notin auditor[v].batch
    /\ \A c \in Callers : Recording(c) =>
         /\ call[c].op \notin auditChan /\ call[c].op \notin DOMAIN auditRows
         /\ \A w \in Auditors : call[c].op \notin auditor[w].batch
         /\ \A d \in Callers \ {c} : Recording(d) => call[d].op # call[c].op
    /\ \A n \in DOMAIN auditRows : auditRows[n] = 1

\* No operation is forgotten.
Accounted(n) ==
    \/ n \in auditChan \/ n \in DOMAIN auditRows \/ n \in auditLost
    \/ \E w \in Auditors : n \in auditor[w].batch
    \/ \E c \in Callers : Recording(c) /\ call[c].op = n

\* When workers stop, nobody records any more, and the last one to look at the
\* channel has found it empty.
StopOK ==
    /\ phase \in {"draining", "exited"} => \A c \in Callers : call[c].at = "idle"
    /\ \A w \in Auditors :
         /\ auditor[w].at # "select" => phase # "serving"
         /\ auditor[w].at = "done" => auditor[w].batch = {} /\ auditChan = {}
    /\ phase = "exited" => \A w \in Auditors : auditor[w].at = "done"

AuditInv ==
    /\ AuditTypeOK
    /\ OnOnePlace
    /\ \A n \in DOMAIN done : Accounted(n)
    /\ StopOK

\* A step that leaves the trail alone and starts no recording.
LEMMA TrailRests ==
    ASSUME AuditInv, UNCHANGED audit,
           \A c \in Callers : Recording(c)' <=> Recording(c),
           \A c \in Callers : Recording(c) => call'[c].op = call[c].op,
           phase' = phase \/ phase' = "killed",
           phase \in {"draining", "exited"} => call' = call
    PROVE  AuditInv'
<1>1. AuditTypeOK' /\ OnOnePlace' /\ StopOK'
  BY DEF audit, AuditInv, AuditTypeOK, OnOnePlace, StopOK, Recording
<1>2. \A n \in DOMAIN done' : Accounted(n)'
  BY DEF audit, AuditInv, Accounted
<1> QED
  BY <1>1, <1>2 DEF AuditInv

\* A caller carries out an operation and is about to record it.
LEMMA TrailWaits ==
    ASSUME AuditInv, KeyInv, UNCHANGED Unrecorded, phase' = phase,
           phase \notin {"draining", "exited"},
           NEW c \in Callers, ~Recording(c), Recording(c)', NEW e \in Operation,
           done' = Append(done, e), call'[c].op = Len(done) + 1,
           \A d \in Callers \ {c} : call'[d] = call[d]
    PROVE  AuditInv'
<1>1. /\ DOMAIN done' = 1..(Len(done) + 1) /\ DOMAIN done = 1..Len(done) /\ Len(done) \in Nat
      /\ DOMAIN done \subseteq DOMAIN done' /\ Len(done) + 1 \notin DOMAIN done
  BY DEF KeyInv, KeyShape
<1>2. AuditTypeOK'
  BY <1>1 DEF Unrecorded, AuditInv, AuditTypeOK, BagToSet
<1>3. \A d \in Callers : Recording(d) => call[d].op \in DOMAIN done
  BY DEF KeyInv, CallOK, Recording
<1>4. OnOnePlace'
  BY <1>1, <1>3 DEF Unrecorded, AuditInv, AuditTypeOK, OnOnePlace, Recording, BagToSet
<1>5. ASSUME NEW n \in DOMAIN done' PROVE Accounted(n)'
  <2>1. CASE n \in DOMAIN done
    BY <2>1 DEF Unrecorded, AuditInv, Accounted, Recording
  <2>2. CASE n = Len(done) + 1
    BY <2>2 DEF Accounted
  <2> QED
    BY <1>1, <2>1, <2>2
<1>6. StopOK'
  BY DEF Unrecorded, AuditInv, StopOK
<1> QED
  BY <1>2, <1>4, <1>5, <1>6 DEF AuditInv

\* The channel is finite, and stays within its capacity.
LEMMA ChanBounds ==
    ASSUME AuditTypeOK, KeyShape
    PROVE  /\ IsFiniteSet(auditChan)
           /\ \A n : Cardinality(auditChan) < AuditCap =>
                        Cardinality(auditChan \cup {n}) <= AuditCap
           /\ \A n : Cardinality(auditChan \ {n}) <= AuditCap
<1>1. DOMAIN done = 1..Len(done) /\ Len(done) \in Nat
  BY DEF KeyShape
<1>2. IsFiniteSet(auditChan)
  <2>1. IsFiniteSet(1..Len(done))
    <3>1. Len(done) \in Int /\ 1 \in Int
      BY <1>1
    <3> QED
      BY <3>1, FS_Interval
  <2>2. auditChan \subseteq 1..Len(done)
    BY <1>1 DEF AuditTypeOK
  <2> QED
    BY <2>1, <2>2, FS_Subset
<1>3. Cardinality(auditChan) \in Nat /\ AuditCap \in Nat
  BY <1>2, FS_CardinalityType, AuditAssumption
<1>4. ASSUME NEW n
      PROVE  /\ Cardinality(auditChan) < AuditCap => Cardinality(auditChan \cup {n}) <= AuditCap
             /\ Cardinality(auditChan \ {n}) <= AuditCap
  <2>1. /\ \/ Cardinality(auditChan \cup {n}) = Cardinality(auditChan)
           \/ Cardinality(auditChan \cup {n}) = Cardinality(auditChan) + 1
        /\ \/ Cardinality(auditChan \ {n}) = Cardinality(auditChan)
           \/ Cardinality(auditChan \ {n}) = Cardinality(auditChan) - 1
    BY <1>2, FS_AddElement, FS_RemoveElement
  <2>2. Cardinality(auditChan) <= AuditCap
    BY DEF AuditTypeOK
  <2> QED
    BY <1>3, <2>1, <2>2
<1> QED
  BY <1>2, <1>4

LEMMA RecordStep ==
    ASSUME AuditInv, KeyInv, ProcessTypeOK, NEW c \in Callers, RecordCall(c)
    PROVE  AuditInv'
<1> DEFINE n == call[c].op
<1>1. /\ Recording(c) /\ phase \notin {"exited", "killed"} /\ UNCHANGED <<process, done, auditor, auditRows>>
      /\ \/ auditChan' = auditChan \cup {n} /\ auditLost' = auditLost
            /\ Cardinality(auditChan) < AuditCap
         \/ auditLost' = auditLost \cup {n} /\ auditChan' = auditChan
  BY DEF RecordCall, Record, Ended, Recording
<1>2. KeyShape /\ AuditTypeOK /\ n \in DOMAIN done
  BY <1>1 DEF KeyInv, CallOK, AuditInv, Recording
<1>3. /\ \A d \in Callers \ {c} : call'[d] = call[d]
      /\ call'[c].at = "idle"
  <2>1. call'[c] = NoCall /\ \A d \in Callers \ {c} : call'[d] = call[d]
    BY <1>2, CallFields DEF RecordCall
  <2> QED
    BY <2>1 DEF NoCall
<1>4. AuditTypeOK'
  BY <1>1, <1>2, ChanBounds DEF AuditTypeOK, BagToSet
<1>5. OnOnePlace'
  BY <1>1, <1>3 DEF AuditInv, OnOnePlace, Recording
<1>6. ASSUME NEW m \in DOMAIN done' PROVE Accounted(m)'
  <2>1. Accounted(m)
    BY <1>1 DEF AuditInv
  <2>2. CASE \E d \in Callers : Recording(d) /\ call[d].op = m
    BY <1>1, <1>3, <2>2 DEF Accounted, Recording
  <2> QED
    BY <1>1, <2>1, <2>2 DEF Accounted
<1>7. StopOK'
  <2>1. phase = "serving"
    BY <1>1 DEF AuditInv, StopOK, Recording, ProcessTypeOK
  <2>2. \A w \in Auditors : auditor[w].at # "done"
    BY <2>1 DEF AuditInv, StopOK
  <2> QED
    BY <1>1, <2>1, <2>2 DEF AuditInv, StopOK, process
<1> QED
  BY <1>4, <1>5, <1>6, <1>7 DEF AuditInv

-----------------------------------------------------------------------------
\* The steps of audit workers.
LEMMA RowsAdded ==
    ASSUME NEW S, \A n \in DOMAIN auditRows : auditRows[n] = 1, S \cap DOMAIN auditRows = {},
           auditRows' = auditRows (+) SetToBag(S)
    PROVE  /\ DOMAIN auditRows' = DOMAIN auditRows \cup S
           /\ \A n \in DOMAIN auditRows' : auditRows'[n] = 1
BY DEF (+), SetToBag

\* A worker writes the batch S, its own entries with those it has just taken,
\* and is left without.
LEMMA TrailWritten ==
    ASSUME AuditInv, KeyInv, NEW w \in Auditors, NEW S \in SUBSET DOMAIN done,
           NEW at \in {"select", "drain", "done"}, WriteAudit(w, S, at),
           UNCHANGED <<phase, done, keyVars>>,
           auditor[w].batch \subseteq S, S \subseteq auditor[w].batch \cup auditChan,
           auditChan' = auditChan \ S, Cardinality(auditChan') <= AuditCap,
           at = auditor[w].at \/ (at = "done" /\ auditChan = {} /\ phase = "draining"),
           auditor[w].at = "done" => at = "done"
    PROVE  AuditInv'
<1> DEFINE r == [at |-> at, batch |-> {}]
<1>1. \A n \in S : /\ n \notin DOMAIN auditRows
                   /\ \A v \in Auditors \ {w} : n \notin auditor[v].batch
                   /\ \A c \in Callers : Recording(c) => call[c].op # n
  BY DEF AuditInv, OnOnePlace
<1>2. \A n \in DOMAIN auditRows : auditRows[n] = 1
  BY DEF AuditInv, OnOnePlace
<1>3. \/ DOMAIN auditRows' = DOMAIN auditRows \cup S /\ auditLost' = auditLost
      \/ auditRows' = auditRows /\ auditLost' = auditLost \cup S
  BY <1>1, <1>2, RowsAdded DEF WriteAudit
<1>4. \A n \in DOMAIN auditRows' : auditRows'[n] = 1
  BY <1>1, <1>2, RowsAdded DEF WriteAudit
<1>5. r \in [at : {"select", "drain", "done"}, batch : SUBSET DOMAIN done]
      /\ r.at = at /\ r.batch = {} /\ auditor' = [auditor EXCEPT ![w] = r]
  BY DEF WriteAudit
<1> HIDE DEF r
<1>6. /\ auditor' \in [Auditors -> [at : {"select", "drain", "done"}, batch : SUBSET DOMAIN done]]
      /\ auditor'[w] = r /\ \A v \in Auditors \ {w} : auditor'[v] = auditor[v]
  BY <1>5 DEF AuditInv, AuditTypeOK
<1>7. AuditTypeOK'
  BY <1>3, <1>6 DEF AuditInv, AuditTypeOK, BagToSet
<1>8. UNCHANGED call
  BY DEF keyVars
<1>9. OnOnePlace'
  <2>1. \A v \in Auditors : auditor'[v].batch \subseteq auditor[v].batch
                            /\ auditor'[v].batch \cap S = {}
    BY <1>1, <1>5, <1>6
  <2>2. \A n \in DOMAIN auditRows' : n \in DOMAIN auditRows \/ n \in S
    BY <1>3
  <2>3. \A n \in auditChan' : n \in auditChan /\ n \notin S
    OBVIOUS
  <2> QED
    BY <1>1, <1>4, <1>8, <2>1, <2>2, <2>3 DEF AuditInv, OnOnePlace, Recording
<1>10. ASSUME NEW n \in DOMAIN done' PROVE Accounted(n)'
  <2>1. Accounted(n)
    BY DEF AuditInv
  <2>2. CASE n \in S
    BY <1>3, <2>2 DEF Accounted
  <2>3. CASE n \notin S
    BY <1>3, <1>6, <1>8, <2>1, <2>3 DEF Accounted, Recording
  <2> QED
    BY <2>2, <2>3
<1>11. StopOK'
  BY <1>5, <1>6, <1>8 DEF AuditInv, StopOK
<1> QED
  BY <1>7, <1>9, <1>10, <1>11 DEF AuditInv

LEMMA TakeStep ==
    ASSUME AuditInv, KeyInv, NEW w \in Auditors, AuditTake(w), UNCHANGED keyVars
    PROVE  AuditInv'
<1>1. PICK n \in auditChan :
        LET S == auditor[w].batch \cup {n} IN
        /\ auditChan' = auditChan \ {n}
        /\ \/ WriteAudit(w, S, auditor[w].at)
           \/ /\ auditor' = [auditor EXCEPT ![w].batch = S]
              /\ UNCHANGED <<auditRows, auditLost>>
  BY DEF AuditTake
<1> DEFINE S == auditor[w].batch \cup {n}
<1>2. /\ auditor[w] \in [at : {"select", "drain", "done"}, batch : SUBSET DOMAIN done]
      /\ n \in DOMAIN done
  BY DEF AuditInv, AuditTypeOK
<1>3. /\ S \in SUBSET DOMAIN done /\ auditor[w].batch \subseteq S /\ n \in S
      /\ S \subseteq auditor[w].batch \cup auditChan /\ auditor[w].at \in {"select", "drain"}
      /\ UNCHANGED <<phase, done>>
  BY <1>2 DEF AuditTake
<1>4. Cardinality(auditChan \ {n}) <= AuditCap
  BY ChanBounds DEF AuditInv, KeyInv
<1>5. \A m \in auditor[w].batch : m \notin auditChan
  BY DEF AuditInv, OnOnePlace
<1>6. auditChan' = auditChan \ S
  BY <1>1, <1>5
<1>7. CASE WriteAudit(w, S, auditor[w].at)
  <2> DEFINE at == auditor[w].at
  <2>1. at \in {"select", "drain", "done"} /\ WriteAudit(w, S, at) /\ at = auditor[w].at
        /\ (auditor[w].at = "done" => at = "done")
    BY <1>3, <1>7
  <2> HIDE DEF at
  <2> QED
    BY <1>1, <1>3, <1>4, <1>6, <2>1, TrailWritten
<1>8. CASE /\ auditor' = [auditor EXCEPT ![w].batch = S]
           /\ UNCHANGED <<auditRows, auditLost>>
  <2> DEFINE r == [auditor[w] EXCEPT !.batch = S]
  <2>1. r \in [at : {"select", "drain", "done"}, batch : SUBSET DOMAIN done]
        /\ r.at = auditor[w].at /\ r.batch = S
    BY <1>2, <1>3
  <2>2. auditor' = [auditor EXCEPT ![w] = r]
    BY <1>8
  <2> HIDE DEF r
  <2>3. /\ auditor' \in [Auditors -> [at : {"select", "drain", "done"}, batch : SUBSET DOMAIN done]]
        /\ auditor'[w] = r /\ \A v \in Auditors \ {w} : auditor'[v] = auditor[v]
    BY <2>1, <2>2 DEF AuditInv, AuditTypeOK
  <2>4. AuditTypeOK'
    BY <1>1, <1>3, <1>4, <1>8, <2>3 DEF AuditInv, AuditTypeOK
  <2>5. UNCHANGED call
    BY DEF keyVars
  <2>6. OnOnePlace'
    <3>1. /\ n \notin DOMAIN auditRows /\ \A v \in Auditors : n \notin auditor[v].batch
          /\ \A c \in Callers : Recording(c) => call[c].op # n
      BY <1>1 DEF AuditInv, OnOnePlace
    <3>2. \A v \in Auditors : \A m \in auditor'[v].batch : m \in auditor[v].batch \/ (v = w /\ m = n)
      BY <2>1, <2>3
    <3>3. \A m \in auditChan' : m \in auditChan /\ m # n
      BY <1>1
    <3> QED
      BY <1>1, <1>8, <2>5, <3>1, <3>2, <3>3 DEF AuditInv, OnOnePlace, Recording
  <2>7. ASSUME NEW m \in DOMAIN done' PROVE Accounted(m)'
    <3>1. Accounted(m)
      BY <1>3, <2>7 DEF AuditInv
    <3>2. \A v \in Auditors : auditor[v].batch \subseteq auditor'[v].batch
      BY <1>3, <2>1, <2>3
    <3>3. m \in auditChan => m \in auditChan' \/ m \in auditor'[w].batch
      BY <1>1, <1>3, <2>1, <2>3
    <3> QED
      BY <1>8, <2>5, <3>1, <3>2, <3>3 DEF Accounted, Recording
  <2>8. StopOK'
    BY <1>1, <1>3, <2>1, <2>3, <2>5 DEF AuditInv, StopOK
  <2> QED
    BY <2>4, <2>6, <2>7, <2>8 DEF AuditInv
<1> QED
  BY <1>1, <1>7, <1>8

LEMMA TickerStep ==
    ASSUME AuditInv, KeyInv, NEW w \in Auditors, AuditTicker(w) \/ AuditDrained(w),
           UNCHANGED keyVars
    PROVE  AuditInv'
<1> DEFINE S == auditor[w].batch
<1>1. /\ S \in SUBSET DOMAIN done /\ Cardinality(auditChan) <= AuditCap
  BY DEF AuditInv, AuditTypeOK
<1>2. auditChan' = auditChan \ S
  BY DEF AuditTicker, AuditDrained, AuditInv, OnOnePlace
<1>3. UNCHANGED <<phase, done, auditChan>>
  BY DEF AuditTicker, AuditDrained
<1>4. CASE AuditTicker(w)
  <2>1. WriteAudit(w, S, "select") /\ auditor[w].at = "select"
    BY <1>4 DEF AuditTicker
  <2> HIDE DEF S
  <2> QED
    BY <1>1, <1>2, <1>3, <2>1, TrailWritten DEF S
<1>5. CASE AuditDrained(w)
  <2>1. WriteAudit(w, S, "done") /\ auditChan = {} /\ phase = "draining"
    BY <1>5 DEF AuditDrained
  <2> HIDE DEF S
  <2> QED
    BY <1>1, <1>2, <1>3, <2>1, TrailWritten DEF S
<1> QED
  BY <1>4, <1>5

LEMMA SeeStopStep ==
    ASSUME AuditInv, NEW w \in Auditors, AuditSeeStop(w), UNCHANGED keyVars
    PROVE  AuditInv'
<1> DEFINE r == [auditor[w] EXCEPT !.at = "drain"]
<1>1. auditor[w] \in [at : {"select", "drain", "done"}, batch : SUBSET DOMAIN done]
  BY DEF AuditInv, AuditTypeOK
<1>2. r \in [at : {"select", "drain", "done"}, batch : SUBSET DOMAIN done]
      /\ r.at = "drain" /\ r.batch = auditor[w].batch
  BY <1>1
<1>3. auditor' = [auditor EXCEPT ![w] = r]
  BY DEF AuditSeeStop
<1> HIDE DEF r
<1>4. /\ auditor' \in [Auditors -> [at : {"select", "drain", "done"}, batch : SUBSET DOMAIN done]]
      /\ auditor'[w] = r /\ \A v \in Auditors \ {w} : auditor'[v] = auditor[v]
  BY <1>2, <1>3 DEF AuditInv, AuditTypeOK
<1>5. /\ \A v \in Auditors : auditor'[v].batch = auditor[v].batch
      /\ UNCHANGED <<phase, done, auditChan, auditRows, auditLost, call>>
      /\ phase = "draining" /\ auditor[w].at = "select"
  BY <1>2, <1>4 DEF AuditSeeStop, process, keyVars
<1>6. AuditTypeOK' /\ OnOnePlace'
  BY <1>4, <1>5 DEF AuditInv, AuditTypeOK, OnOnePlace, Recording
<1>7. \A n \in DOMAIN done' : Accounted(n)'
  BY <1>5 DEF AuditInv, Accounted, Recording
<1>8. StopOK'
  BY <1>2, <1>4, <1>5 DEF AuditInv, StopOK
<1> QED
  BY <1>6, <1>7, <1>8 DEF AuditInv

LEMMA PhaseStep ==
    ASSUME AuditInv, (HandlersIdle /\ AuditStop) \/ AuditExit, UNCHANGED keyVars
    PROVE  AuditInv'
<1>1. UNCHANGED audit /\ UNCHANGED call
  BY DEF AuditStop, AuditExit, keyVars
<1>2. AuditTypeOK' /\ OnOnePlace'
  BY <1>1 DEF audit, AuditInv, AuditTypeOK, OnOnePlace, Recording
<1>3. \A n \in DOMAIN done' : Accounted(n)'
  BY <1>1 DEF audit, AuditInv, Accounted, Recording
<1>4. StopOK'
  BY <1>1 DEF audit, AuditInv, StopOK, HandlersIdle, AuditStop, AuditExit, Serving
<1> QED
  BY <1>2, <1>3, <1>4 DEF AuditInv

\* A request that carries out its operation.
LEMMA ActStep ==
    ASSUME AuditInv, KeyInv, NEW c \in Callers, NEW what, NEW k,
           what \in {"create_key", "revoke_key", "create_link"}, k \in Nat,
           call[c].at # "idle", ~Recording(c), Act(c, what, k),
           UNCHANGED Unrecorded, phase' = phase
    PROVE  AuditInv'
<1> DEFINE e == [what |-> what, user |-> call[c].user, key |-> k]
<1>1. KeyShape /\ phase \notin {"draining", "exited"}
  BY DEF KeyInv, AuditInv, StopOK
<1>2. /\ e \in Operation /\ done' = Append(done, e)
      /\ \A d \in Callers \ {c} : call'[d] = call[d]
      /\ call'[c].at = "record" /\ call'[c].op = Len(done) + 1
  BY <1>1, ActFields
<1> HIDE DEF e
<1> QED
  BY <1>1, <1>2, TrailWaits DEF Recording

\* A request that neither carries one out nor records one.
LEMMA RestStep ==
    ASSUME AuditInv, KeyInv, NEW c \in Callers, call[c].at # "idle" \/ phase = "serving",
           ~Recording(c), ~Recording(c)',
           \A d \in Callers \ {c} : call'[d] = call[d],
           UNCHANGED audit, phase' = phase
    PROVE  AuditInv'
<1>1. phase \notin {"draining", "exited"}
  BY DEF AuditInv, StopOK
<1>2. \A d \in Callers : Recording(d) => call'[d] = call[d]
  BY DEF Recording
<1>3. \A d \in Callers : Recording(d)' <=> Recording(d)
  BY DEF Recording
<1> QED
  BY <1>1, <1>2, <1>3, TrailRests

LEMMA KeyStepTrail ==
    ASSUME AuditInv, KeyInv, ProcessTypeOK, NEW c \in Callers, KeyStep(c)
    PROVE  AuditInv'
<1> DEFINE k == call[c].key
<1>1. KeyShape /\ call[c] \in Call /\ k \in Nat
  BY CallFields DEF KeyInv, Call
<1>2. ASSUME NEW label \in Labels \ {"record"}, At(c, label) \/ Return(c),
             call[c].at \notin {"idle", "record"}, UNCHANGED audit, phase' = phase
      PROVE  AuditInv'
  <2>1. ~Recording(c) /\ ~Recording(c)' /\ \A d \in Callers \ {c} : call'[d] = call[d]
    BY <1>1, <1>2, CallFields DEF Recording, NoCall
  <2> QED
    BY <1>2, <2>1, RestStep
<1>3. Labels \ {"record"} = {"idle", "insert", "find", "deny", "act", "revokeFind", "unblock", "revoke"}
  BY DEF Labels
<1>4. CASE InsertKey(c)
  <2>1. CASE Act(c, "create_key", Len(keys'))
    <3>1. Len(keys') \in Nat
      BY <1>4, InsertKeyStep DEF KeyInv, KeyShape
    <3> QED
      BY <1>4, <2>1, <3>1, ActStep DEF InsertKey, Recording
  <2>2. CASE Return(c) /\ UNCHANGED done
    BY <1>2, <1>3, <1>4, <2>2 DEF InsertKey, Unrecorded, audit
  <2> QED
    BY <1>4, <2>1, <2>2 DEF InsertKey
<1>5. CASE RevokeFind(c) \/ RevokeUnblock(c) \/ FindKey(c) \/ DenyKey(c)
  BY <1>2, <1>3, <1>5 DEF RevokeFind, RevokeUnblock, FindKey, DenyKey
<1>6. CASE RevokeUpdate(c)
  <2>1. CASE Act(c, "revoke_key", k)
    BY <1>1, <1>6, <2>1, ActStep DEF RevokeUpdate, Recording
  <2>2. CASE Return(c) /\ UNCHANGED done
    BY <1>2, <1>3, <1>6, <2>2 DEF RevokeUpdate, Unrecorded, audit
  <2> QED
    BY <1>6, <2>1, <2>2 DEF RevokeUpdate
<1>7. CASE UseKey(c)
  <2>1. CASE Act(c, "create_link", k)
    BY <1>1, <1>7, <2>1, ActStep DEF UseKey, Recording
  <2>2. CASE Return(c) /\ UNCHANGED done
    BY <1>2, <1>3, <1>7, <2>2 DEF UseKey, Unrecorded, audit
  <2> QED
    BY <1>7, <2>1, <2>2 DEF UseKey
<1> QED
  BY <1>4, <1>5, <1>6, <1>7, RecordStep DEF KeyStep

\* Every step keeps each entry on its way.
LEMMA AuditInvStep ==
    ASSUME AuditInv, KeyInv, ProcessTypeOK, [Next]_vars
    PROVE  AuditInv'
<1>1. ASSUME UNCHANGED <<audit, call>>, phase' = phase \/ phase' = "killed" PROVE AuditInv'
  BY <1>1, TrailRests DEF Recording
<1>2. ASSUME NEW c \in Callers, NEW u, NEW k,
             NEW label \in {"insert", "revokeFind", "find"},
             Begin(c, label, u, k), UNCHANGED audit, phase' = phase
      PROVE  AuditInv'
  <2>1. call \in [Callers -> Call] /\ call[c].at = "idle" /\ phase = "serving"
    BY <1>2 DEF KeyInv, KeyShape, Begin, Serving
  <2> DEFINE r == [at |-> label, user |-> u, key |-> k, op |-> 0, late |-> k # 0 /\ keys[k].told]
  <2>2. call' = [call EXCEPT ![c] = r] /\ r.at = label
    BY <1>2 DEF Begin
  <2> HIDE DEF r
  <2>3. call'[c] = r /\ \A d \in Callers \ {c} : call'[d] = call[d]
    BY <2>1, <2>2
  <2> QED
    BY <1>2, <2>1, <2>2, <2>3, RestStep DEF Recording
<1>3. CASE Arrive
  <2>1. CASE UNCHANGED <<audit, keyVars>> /\ phase' = phase
    BY <1>1, <2>1 DEF keyVars
  <2> QED
    BY <1>2, <1>3, <2>1
       DEF Arrive, AskAccount, Login, Promote, Demote, process, AskKey, AskRevoke, Present
<1>4. CASE Registering /\ UNCHANGED <<audit, keyVars>>
  BY <1>1, <1>4 DEF Registering, RegisterName, RegisterMail, RegisterInsert, Look, keyVars
<1>5. CASE Work
  <2>1. CASE (Tick \/ Kill) /\ UNCHANGED <<audit, keyVars>>
    BY <1>1, <2>1 DEF Tick, Kill, keyVars
  <2>2. ASSUME NEW w \in Auditors, AuditStep(w), UNCHANGED keyVars PROVE AuditInv'
    BY <2>2, TakeStep, TickerStep, SeeStopStep DEF AuditStep
  <2> QED
    BY <1>5, <2>1, <2>2, KeyStepTrail, PhaseStep DEF Work
<1>6. CASE UNCHANGED vars
  BY <1>1, <1>6 DEF vars, process, keyVars
<1> QED
  BY <1>3, <1>4, <1>5, <1>6 DEF Next

-----------------------------------------------------------------------------
\* The inductive invariant, and what follows from it.
IInv == ProcessTypeOK /\ AccountInv /\ KeyInv /\ AuditInv

LEMMA InitIInv == Init => IInv
<1> SUFFICES ASSUME Init PROVE IInv
  OBVIOUS
<1>1. phase = "serving" /\ now = 0 /\ faults = 0
  BY DEF Init, ProcessInit
<1>2. ProcessTypeOK
  BY <1>1, ProcessAssumption DEF ProcessTypeOK
<1>3. AccountInv
  <2>1. PICK b \in Before : users = [i \in DOMAIN b |-> NewUser(b[i][1], b[i][2])]
    BY DEF Init, AccountInit
  <2>2. /\ b \in Seq(Names \X Mails)
        /\ \A i, j \in DOMAIN b : b[i][1] = b[j][1] \/ b[i][2] = b[j][2] => i = j
    BY AccountAssumption
  <2>3. ASSUME NEW i \in DOMAIN b PROVE users[i] \in User /\ users[i].name = b[i][1] /\ users[i].mail = b[i][2]
    <3>1. b[i] \in Names \X Mails
      BY <2>2
    <3> QED
      BY <2>1, <3>1 DEF NewUser, User
  <2>4. users \in Seq(User) /\ DOMAIN users = DOMAIN b
    <3>1. DOMAIN b = 1..Len(b) /\ Len(b) \in Nat
      BY <2>2
    <3>2. users \in [1..Len(b) -> User]
      BY <2>1, <2>3, <3>1
    <3> QED
      BY <2>1, <3>1, <3>2, SeqDef
  <2>5. form \in [Guests -> Form] /\ tokens = {}
    BY NoFormType DEF Init, AccountInit
  <2> QED
    BY <2>2, <2>3, <2>4, <2>5 DEF AccountInv, AccountShape, OneAccountEach
<1>4. KeyInv
  <2>1. keys = <<>> /\ denied = <<>> /\ done = <<>> /\ call = [c \in Callers |-> NoCall]
    BY DEF Init, KeyInit, AuditInit
  <2>2. NoCall \in Call /\ \A c \in Callers : CallOK(c)
    BY <2>1 DEF NoCall, Call, Labels, CallOK
  <2> QED
    BY <2>1, <2>2, KeyAssumption DEF KeyInv, KeyShape
<1>5. AuditInv
  <2>1. /\ done = <<>> /\ auditChan = {} /\ auditRows = EmptyBag /\ auditLost = {}
        /\ auditor = [w \in Auditors |-> [at |-> "select", batch |-> {}]]
        /\ \A c \in Callers : call[c].at = "idle"
    BY DEF Init, AuditInit, KeyInit, NoCall
  <2>2. DOMAIN auditRows = {}
    BY <2>1 DEF EmptyBag, SetToBag
  <2>3. Cardinality(auditChan) <= AuditCap
    BY <2>1, FS_EmptySet, AuditAssumption
  <2>4. AuditTypeOK /\ OnOnePlace
    BY <2>1, <2>2, <2>3 DEF AuditTypeOK, OnOnePlace, Recording, BagToSet
  <2>5. \A n \in DOMAIN done : Accounted(n)
    BY <2>1
  <2>6. StopOK
    BY <1>1, <2>1 DEF StopOK
  <2> QED
    BY <2>4, <2>5, <2>6 DEF AuditInv
<1> QED
  BY <1>2, <1>3, <1>4, <1>5 DEF IInv

\* Calls fail, and processes are killed, within their bound.
LEMMA ProcessStep ==
    ASSUME ProcessTypeOK, [Next]_vars
    PROVE  ProcessTypeOK'
<1>1. ASSUME Fine \/ (\E f : Fail(f)), UNCHANGED <<phase, now>> PROVE ProcessTypeOK'
  BY <1>1, ProcessAssumption DEF Fine, Fail, ProcessTypeOK
<1>2. ASSUME UNCHANGED process PROVE ProcessTypeOK'
  BY <1>2 DEF process, ProcessTypeOK
<1>3. CASE Arrive
  BY <1>1, <1>2, <1>3
     DEF Arrive, AskAccount, Login, Promote, Demote, AskKey, AskRevoke, Present
<1>4. CASE Registering
  BY <1>1, <1>4 DEF Registering, RegisterName, RegisterMail, RegisterInsert, Look
<1>5. CASE Work
  <2>1. ASSUME NEW c \in Callers, KeyStep(c) PROVE ProcessTypeOK'
    <3>1. CASE InsertKey(c) \/ RevokeFind(c) \/ RevokeUnblock(c) \/ RevokeUpdate(c)
      BY <1>1, <3>1 DEF InsertKey, RevokeFind, RevokeUnblock, RevokeUpdate
    <3>2. CASE FindKey(c) \/ DenyKey(c) \/ UseKey(c) \/ RecordCall(c)
      BY <1>1, <1>2, <3>2 DEF FindKey, DenyKey, UseKey, RecordCall
    <3> QED
      BY <2>1, <3>1, <3>2 DEF KeyStep
  <2>2. ASSUME NEW w \in Auditors, AuditStep(w) PROVE ProcessTypeOK'
    BY <1>1, <1>2, <2>2
       DEF AuditStep, AuditTake, AuditTicker, AuditSeeStop, AuditDrained, WriteAudit
  <2>3. CASE AuditStop \/ AuditExit
    BY <2>3 DEF AuditStop, AuditExit, ProcessTypeOK
  <2>4. CASE Tick
    BY <2>4, ProcessAssumption DEF Tick, ProcessTypeOK
  <2>5. CASE Kill
    BY <2>5, ProcessAssumption DEF Kill, Fail, ProcessTypeOK
  <2> QED
    BY <1>5, <2>1, <2>2, <2>3, <2>4, <2>5 DEF Work
<1>6. CASE UNCHANGED vars
  BY <1>2, <1>6 DEF vars
<1> QED
  BY <1>3, <1>4, <1>5, <1>6 DEF Next

\* The invariant is inductive.
THEOREM Inductive == Spec => []IInv
<1>1. IInv /\ [Next]_vars => IInv'
  BY ProcessStep, AccountStep, KeyInvStep, AuditInvStep DEF IInv
<1> QED
  BY <1>1, InitIInv, PTL DEF Spec

\* Every variable has its type, whatever the bounds.
THEOREM BackofficeTypes == Spec => []TypeOK
<1>1. IInv => TypeOK
  <2> SUFFICES ASSUME IInv PROVE TypeOK
    OBVIOUS
  <2>1. AccountTypeOK
    <3>1. \A u \in DOMAIN users : users[u] \in User
      BY DEF IInv, AccountInv, AccountShape
    <3>2. \A g \in Guests : form[g] \in Form
      BY DEF IInv, AccountInv, AccountShape
    <3> QED
      BY <3>1, <3>2 DEF IInv, AccountInv, AccountShape, AccountTypeOK, User, Form
  <2>2. KeyTypeOK
    <3>1. /\ \A k \in DOMAIN keys : keys[k] \in KeyRow /\ denied[k] \in Nat
          /\ \A c \in Callers : call[c] \in Call /\ CallOK(c)
          /\ Len(keys) <= MaxKeys /\ DOMAIN denied = DOMAIN keys
      BY DEF IInv, KeyInv, KeyShape
    <3>2. \A c \in Callers : call[c].key \in {0} \cup DOMAIN keys
      BY <3>1 DEF CallOK, Call, Labels
    <3> QED
      BY <3>1, <3>2 DEF KeyTypeOK, KeyRow, Call, Labels, CallOK
  <2> QED
    BY <2>1, <2>2 DEF IInv, AuditInv, TypeOK
<1> QED
  BY <1>1, Inductive, PTL

\* Two accounts never share a name or an address: registration's two looks may
\* both be passed by two guests, or fail, and the unique indexes decide.
THEOREM AccountsAreUnique == Spec => []OneAccountEach
<1>1. IInv => OneAccountEach
  BY DEF IInv, AccountInv
<1> QED
  BY <1>1, Inductive, PTL

\* An admin who was dismissed administers no longer than a token lives, whatever
\* tokens he collected before.
THEOREM DismissedAdminsEnd == Spec => []AdminRightsEnd
<1>1. IInv => AdminRightsEnd
  <2> SUFFICES ASSUME IInv, NEW u \in DOMAIN users, NEW t \in tokens,
                      t.user = u, t.role = "admin", now < t.exp
               PROVE  users[u].role = "admin" \/ \E d \in users[u].dismissed : now < d + Life
    BY DEF AdminRightsEnd, Administers, ValidToken
  <2>1. users[u] \in User /\ t \in Token /\ Backed(t)
    BY DEF IInv, AccountInv, AccountShape
  <2>2. users[u].dismissed \subseteq Nat /\ t.exp \in Nat
    BY <2>1 DEF User, Token
  <2>3. now \in Nat /\ Life \in Nat
    BY AccountAssumption, ProcessAssumption DEF IInv, ProcessTypeOK
  <2> QED
    BY <2>1, <2>2, <2>3 DEF Backed
<1> QED
  BY <1>1, Inductive, PTL

\* A key whose owner was told it is revoked does nothing for a request that
\* arrives later, with any number of callers and whatever fails.
THEOREM RevokedKeysStayDead == Spec => []RevocationHolds
<1>1. IInv => RevocationHolds
  BY DEF IInv, KeyInv, CallOK, RevocationHolds
<1> QED
  BY <1>1, Inductive, PTL

\* The negative cache has live entries for revoked keys only: a creation, a
\* revocation or a failure in between leaves none for a key that is active.
THEOREM NegativeCacheSound == Spec => []DeniedOnlyIfRevoked
<1>1. IInv => DeniedOnlyIfRevoked
  BY DEF IInv, KeyInv, KeyOK, DeniedOnlyIfRevoked
<1> QED
  BY <1>1, Inductive, PTL

\* What the trail says of keys is what happened to them, in the order in which
\* it happened.
THEOREM TrailTellsTruth == Spec => []AuditTruthful
<1>1. IInv => AuditTruthful
  <2> SUFFICES ASSUME IInv, NEW n \in DOMAIN done
               PROVE  /\ done[n].what = "revoke_key" => keys[done[n].key].status = "inactive"
                      /\ done[n].what # "create_key" =>
                           \A m \in DOMAIN done :
                             done[m].what = "create_key" /\ done[m].key = done[n].key =>
                               m < n /\ done[m].user = done[n].user
    BY DEF AuditTruthful
  <2> QED
    BY DEF IInv, KeyInv, OpOK
<1> QED
  BY <1>1, Inductive, PTL

\* An operation is on one place of its way to the trail at a time, and gets there
\* once, however many workers flush and however their batches fill.
THEOREM TrailHasNoDuplicates == Spec => []AuditedOnce
<1>1. IInv => AuditedOnce
  <2> SUFFICES ASSUME IInv, NEW n \in DOMAIN done
               PROVE  RowsOf(n) + Cardinality({w \in Auditors : n \in auditor[w].batch})
                        + Cardinality({n} \cap auditChan) <= 1
    BY DEF AuditedOnce
  <2> DEFINE W == {w \in Auditors : n \in auditor[w].batch}
             C == {n} \cap auditChan
  <2>1. OnOnePlace
    BY DEF IInv, AuditInv
  <2>2. RowsOf(n) = IF n \in DOMAIN auditRows THEN 1 ELSE 0
    BY <2>1 DEF RowsOf, BagIn, BagToSet, OnOnePlace
  <2>3. Cardinality({}) = 0 /\ Cardinality({n}) = 1
    BY FS_EmptySet, FS_Singleton
  <2>4. Cardinality(C) = IF n \in auditChan THEN 1 ELSE 0
    <3>1. C = IF n \in auditChan THEN {n} ELSE {}
      OBVIOUS
    <3> QED
      BY <2>3, <3>1
  <2>5. W = {} \/ \E w \in Auditors : W = {w} /\ n \in auditor[w].batch
    BY <2>1 DEF OnOnePlace
  <2>6. CASE W = {}
    <3>1. Cardinality(W) = 0 /\ (n \in auditChan => n \notin DOMAIN auditRows)
      BY <2>1, <2>3, <2>6 DEF OnOnePlace
    <3> HIDE DEF W, C
    <3> QED
      BY <2>2, <2>4, <3>1 DEF W, C
  <2>7. ASSUME NEW w \in Auditors, W = {w}, n \in auditor[w].batch
        PROVE  RowsOf(n) + Cardinality(W) + Cardinality(C) <= 1
    <3>1. n \notin DOMAIN auditRows /\ n \notin auditChan
      BY <2>1, <2>7 DEF OnOnePlace
    <3>2. Cardinality(W) = 1
      BY <2>7, FS_Singleton
    <3> HIDE DEF C
    <3> QED
      BY <2>2, <2>4, <3>1, <3>2
  <2> QED
    BY <2>5, <2>6, <2>7
<1> QED
  BY <1>1, Inductive, PTL

\* After a shutdown that came to its end, every operation carried out is in the
\* trail unless its entry was dropped or its write failed: handlers have recorded
\* before the audit service stops, and no worker leaves the channel unread.
THEOREM ShutdownLosesNoEntry == Spec => []AuditDrains
<1>1. IInv => AuditDrains
  <2> SUFFICES ASSUME IInv, phase = "exited", NEW n \in DOMAIN done
               PROVE  BagIn(n, auditRows) \/ n \in auditLost
    BY DEF AuditDrains
  <2>1. PICK w \in Auditors : TRUE
    BY AuditAssumption
  <2>2. /\ \A v \in Auditors : auditor[v].batch = {}
        /\ auditChan = {}
        /\ \A c \in Callers : ~Recording(c)
    BY <2>1 DEF IInv, AuditInv, StopOK, Recording
  <2>3. Accounted(n)
    BY DEF IInv, AuditInv
  <2> QED
    BY <2>2, <2>3 DEF Accounted, BagIn, BagToSet
<1> QED
  BY <1>1, Inductive, PTL
=============================================================================
