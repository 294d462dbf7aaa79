---------------------------------- MODULE SignIn -----------------------------------
(* Signing in: the pairs of access and refresh tokens that one account is given, how *)
(* they are renewed, revoked and made worthless by a change of the password, and the *)
(* lock that repeated wrong passwords put on the account. Accounts share nothing, so *)
(* one is enough. A request reads, and later writes and commits; several overlap.    *)
EXTENDS Integers, Sequences, FiniteSets

CONSTANTS Workers,        \* requests that run at once
          Passwords,      \* bound: the passwords anybody thinks of
          MaxAttempts,    \* wrong passwords that lock the account
          LockFor,        \* and for how long
          AccessFor, RefreshFor,   \* lifetimes of the two kinds of token
          MaxTime,        \* bound on the clock of all modes
          Modes           \* bound: [workers, operations, pairs, time], what is used together, how many
                          \* pairs are issued and how long it goes on

VARIABLES mode, now,
          account,    \* [password, version, active, mustChange, attempts, lockedUntil, changes]:
                      \* changes is history, how often the owner has changed the password
          pairs,      \* pairs of tokens in the order of their issue: [version, at, from, changes]
          revoked,    \* table revoked_tokens
          job,        \* what request w has read and is going to write
          wrong       \* history: when each wrong password since the last sign-in was counted

vars == <<mode, now, account, pairs, revoked, job, wrong>>

Kinds == {"access", "refresh"}
Lifetime(kind) == IF kind = "access" THEN AccessFor ELSE RefreshFor
Idle == [op |-> "idle"]
Uses(operation) == operation \in mode.operations
Free(w) == job[w] = Idle /\ Cardinality({v \in Workers : job[v] # Idle}) < mode.workers
Goes(w, step) == job' = [job EXCEPT ![w] = step]

Init ==
  /\ mode \in Modes
  /\ now = 0
  /\ account = [password |-> CHOOSE p \in Passwords : TRUE, version |-> 1, active |-> TRUE,
                mustChange |-> FALSE, attempts |-> 0, lockedUntil |-> 0, changes |-> 0]
  /\ pairs = <<>>
  /\ revoked = {}
  /\ job = [w \in Workers |-> Idle]
  /\ wrong = <<>>

-----------------------------------------------------------------------------
(* Tokens: <<n, kind>> is one of the two of pair n *)

Expiry(token) == pairs[token[1]].at + Lifetime(token[2])
Decodes(token) == now < Expiry(token)
Current(token) == pairs[token[1]].version = account.version

\* What the check of every request and the renewal ask in common.
Live_anyVersion(token) == Decodes(token) /\ token \notin revoked /\ account.active
Live(token) == Decodes(token) /\ token \notin revoked /\ account.active /\ Current(token)

Issued(version, from, changes) == [version |-> version, at |-> now, from |-> from, changes |-> changes]

-----------------------------------------------------------------------------
(* Signing in *)

Locked == account.lockedUntil > now

\* A counter that has reached the limit stays there when the lock has run out.
LoginRead_unlocked(w, password) ==
  /\ Free(w) /\ Len(pairs) < mode.pairs
  /\ password # account.password => Uses("wrong")
  /\ IF password # account.password
     THEN Goes(w, [op |-> "wrong", attempts |-> account.attempts + 1, until |-> now + LockFor])
     ELSE /\ account.active
          /\ Goes(w, [op |-> "login", version |-> account.version, attempts |-> account.attempts,
                      lockedUntil |-> account.lockedUntil, changes |-> account.changes])
  /\ UNCHANGED <<mode, now, account, pairs, revoked, wrong>>
LoginRead(w, password) ==
  /\ Free(w) /\ Len(pairs) < mode.pairs
  /\ ~Locked
  /\ password # account.password => Uses("wrong")
  /\ IF password # account.password
     THEN Goes(w, [op |-> "wrong", attempts |-> account.attempts + 1, until |-> now + LockFor])
     ELSE /\ account.active
          /\ Goes(w, [op |-> "login", version |-> account.version, attempts |-> account.attempts,
                      lockedUntil |-> account.lockedUntil, changes |-> account.changes])
  /\ UNCHANGED <<mode, now, account, pairs, revoked, wrong>>

WrongCommit(w) ==
  /\ job[w].op = "wrong"
  /\ account' = [account EXCEPT !.attempts = job[w].attempts,
                                !.lockedUntil = IF job[w].attempts >= MaxAttempts THEN job[w].until ELSE @]
  /\ wrong' = Append(wrong, now)
  /\ Goes(w, Idle)
  /\ UNCHANGED <<mode, now, pairs, revoked>>

\* The flush names only what differs from what was loaded.
LoginCommit(w) ==
  /\ job[w].op = "login"
  /\ account' = [account EXCEPT !.attempts = IF job[w].attempts # 0 THEN 0 ELSE @,
                                !.lockedUntil = IF job[w].lockedUntil # 0 THEN 0 ELSE @]
  /\ pairs' = Append(pairs, Issued(job[w].version, 0, job[w].changes))
  /\ wrong' = <<>>
  /\ Goes(w, Idle)
  /\ UNCHANGED <<mode, now, revoked>>

-----------------------------------------------------------------------------
(* Renewal and sign-out *)

RefreshRead(w, n) ==
  /\ Free(w) /\ Uses("refresh") /\ Len(pairs) < mode.pairs
  /\ Live(<<n, "refresh">>)
  /\ Goes(w, [op |-> "refresh", pair |-> n, version |-> account.version])
  /\ UNCHANGED <<mode, now, account, pairs, revoked, wrong>>

\* Of two renewals with one token the jti, which is unique, lets one in; the other rolls back.
RefreshCommit_twice(w) ==
  /\ job[w].op = "refresh"
  /\ LET n == job[w].pair IN
     /\ revoked' = revoked \cup {<<n, "refresh">>}
     /\ pairs' = Append(pairs, Issued(job[w].version, n, pairs[n].changes))
  /\ Goes(w, Idle)
  /\ UNCHANGED <<mode, now, account, wrong>>
RefreshCommit(w) ==
  /\ job[w].op = "refresh"
  /\ LET n == job[w].pair IN
     IF <<n, "refresh">> \in revoked
     THEN UNCHANGED <<revoked, pairs>>
     ELSE /\ revoked' = revoked \cup {<<n, "refresh">>}
          /\ pairs' = Append(pairs, Issued(job[w].version, n, pairs[n].changes))
  /\ Goes(w, Idle)
  /\ UNCHANGED <<mode, now, account, wrong>>

\* The access token of the request, and a refresh token when the body names one.
LogoutRead(w, n, others) ==
  /\ Free(w) /\ Uses("logout")
  /\ Live(<<n, "access">>)
  /\ LET presented == {<<n, "access">>} \cup {<<k, "refresh">> : k \in others} IN
     Goes(w, [op |-> "logout", presented |-> presented,
              added |-> {t \in presented : Decodes(t) /\ t \notin revoked}])
  /\ UNCHANGED <<mode, now, account, pairs, revoked, wrong>>

\* One row that another request has added meanwhile fails them all.
LogoutFails(w) == job[w].added \cap revoked # {}
LogoutCommit_firstOnly(w) ==
  /\ job[w].op = "logout"
  /\ IF LogoutFails(w) THEN UNCHANGED revoked
     ELSE revoked' = revoked \cup {t \in job[w].added : t[2] = "access"}
  /\ Goes(w, Idle)
  /\ UNCHANGED <<mode, now, account, pairs, wrong>>
LogoutCommit(w) ==
  /\ job[w].op = "logout"
  /\ IF LogoutFails(w) THEN UNCHANGED revoked ELSE revoked' = revoked \cup job[w].added
  /\ Goes(w, Idle)
  /\ UNCHANGED <<mode, now, account, pairs, wrong>>

-----------------------------------------------------------------------------
(* Passwords *)

\* Bound: with "solo" changes of the password do not overlap.
Changing == \E w \in Workers : job[w].op \in {"change", "respond"}

ChangeRead(w, n, password, new) ==
  /\ Free(w) /\ Uses("change") /\ (Uses("solo") => ~Changing) /\ Len(pairs) < mode.pairs
  /\ Live(<<n, "access">>)
  /\ password = account.password /\ new # password
  /\ Goes(w, [op |-> "change", version |-> account.version, mustChange |-> account.mustChange, new |-> new])
  /\ UNCHANGED <<mode, now, account, pairs, revoked, wrong>>

ChangeCommit_sameVersion(w) ==
  /\ job[w].op = "change"
  /\ account' = [account EXCEPT !.password = job[w].new, !.changes = @ + 1,
                                !.mustChange = IF job[w].mustChange THEN FALSE ELSE @]
  /\ Goes(w, [op |-> "respond", changes |-> account.changes + 1])
  /\ UNCHANGED <<mode, now, pairs, revoked, wrong>>
ChangeCommit(w) ==
  /\ job[w].op = "change"
  /\ account' = [account EXCEPT !.password = job[w].new, !.version = job[w].version + 1, !.changes = @ + 1,
                                !.mustChange = IF job[w].mustChange THEN FALSE ELSE @]
  /\ Goes(w, [op |-> "respond", changes |-> account.changes + 1])
  /\ UNCHANGED <<mode, now, pairs, revoked, wrong>>

\* The tokens of the answer name the version that is read after the commit.
ChangeRespond(w) ==
  /\ job[w].op = "respond"
  /\ pairs' = Append(pairs, Issued(account.version, 0, job[w].changes))
  /\ Goes(w, Idle)
  /\ UNCHANGED <<mode, now, account, revoked, wrong>>

\* An administrator sets a password, or an account is closed and opened again: neither
\* touches the version.
SetPassword(new) ==
  /\ Uses("admin")
  /\ account' = [account EXCEPT !.password = new, !.mustChange = TRUE]
  /\ UNCHANGED <<mode, now, pairs, revoked, job, wrong>>
SetActive ==
  /\ Uses("admin")
  /\ account' = [account EXCEPT !.active = ~@]
  /\ UNCHANGED <<mode, now, pairs, revoked, job, wrong>>

-----------------------------------------------------------------------------
(* Time, and the start of the process *)

Tick == now < mode.time /\ now' = now + 1 /\ UNCHANGED <<mode, account, pairs, revoked, job, wrong>>

\* Rows of tokens that have expired are deleted at start-up, requests in flight are gone.
Kept_none == {}
Kept == {t \in revoked : Expiry(t) >= now}
Restart ==
  /\ Uses("restart")
  /\ revoked' = Kept
  /\ job' = [w \in Workers |-> Idle]
  /\ UNCHANGED <<mode, now, account, pairs, wrong>>

Next ==
  \/ \E w \in Workers :
       \/ \E p \in Passwords : LoginRead(w, p)
       \/ WrongCommit(w) \/ LoginCommit(w)
       \/ \E n \in DOMAIN pairs : RefreshRead(w, n)
       \/ RefreshCommit(w)
       \/ \E n \in DOMAIN pairs : LogoutRead(w, n, {}) \/ \E k \in DOMAIN pairs : LogoutRead(w, n, {k})
       \/ LogoutCommit(w)
       \/ \E n \in DOMAIN pairs, p, q \in Passwords : ChangeRead(w, n, p, q)
       \/ ChangeCommit(w) \/ ChangeRespond(w)
  \/ (\E p \in Passwords : SetPassword(p)) \/ SetActive
  \/ Tick \/ Restart

Spec == Init /\ [][Next]_vars

-----------------------------------------------------------------------------
(* Properties *)

SignInTypeOK ==
  /\ now \in 0..MaxTime /\ mode.time <= MaxTime
  /\ account.version \in Nat /\ account.attempts \in Nat /\ account.lockedUntil \in Nat
  /\ revoked \subseteq (DOMAIN pairs) \X Kinds
  /\ \A n \in DOMAIN pairs : pairs[n].from \in 0..n - 1

\* A refresh token is worth one pair, however many requests present it at once.
OneSuccessor ==
  \A m, n \in DOMAIN pairs : pairs[m].from = pairs[n].from /\ pairs[m].from # 0 => m = n

\* Once the owner has changed the password nothing works that goes back to a sign-in
\* before it, be it a renewal or a sign-in that was under way. (Changes that overlap
\* write the same version.)
ChangeEndsSessions ==
  Uses("solo") =>
    \A n \in DOMAIN pairs, kind \in Kinds : Live(<<n, kind>>) => pairs[n].changes = account.changes

\* Requests one after the other try no more than MaxAttempts wrong passwords in any time
\* as long as the lock, the first tries after a lock included.
Guesses(t) == {i \in DOMAIN wrong : t <= wrong[i] /\ wrong[i] < t + LockFor}
FewGuesses == mode.workers = 1 => \A t \in 0..MaxTime : Cardinality(Guesses(t)) <= MaxAttempts

\* A revoked token never works again, not even after its row has been cleaned up.
RevokedStayDead == \A t \in revoked : ~Live(t)'

\* A sign-out that is not refused ends what it was given.
SignedOut ==
  \A w \in Workers :
    job[w].op = "logout" /\ ~LogoutFails(w) /\ LogoutCommit(w) => \A t \in job[w].presented : ~Live(t)'

\* All of it: of every state, and of every step.
TokensSound == SignInTypeOK /\ OneSuccessor /\ ChangeEndsSessions /\ FewGuesses
RevocationsSound == RevokedStayDead /\ SignedOut

SignInSound == []TokensSound /\ [][RevocationsSound]_vars
====================================================================================
