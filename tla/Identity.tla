------------------------------- MODULE Identity -------------------------------
(***************************************************************************)
(* Accounts and sessions: sign-in through UpsertIdentity and CreateSession, *)
(* the lookup of a request's session, and logout.  The Postgres store signs *)
(* in statement by statement; the in-memory one holds its mutex.           *)
(***************************************************************************)
EXTENDS Naturals, FiniteSets

CONSTANTS
    Browsers,    \* browsers, each with a cookie of its own
    Persons,     \* (provider, subject): who the provider says one is
    PersonOf,    \* who signs in from a browser
    SessionTTL,  \* how long a session lasts
    NoOne,       \* neither an account nor a token
    MaxAccounts, MaxTokens  \* bounds on the ids drawn

Accounts == 1 .. MaxAccounts
Tokens == 1 .. MaxTokens

ASSUME IdentityAssumption ==
    /\ PersonOf \in [Browsers -> Persons] /\ SessionTTL \in Nat
    /\ NoOne \notin Accounts \cup Tokens

VARIABLES
    backend,     \* the implementation of the store: "postgres" or "memory"
    clock,       \* the clock of the store
    users,       \* users: absent, pending (of an open transaction) or committed
    identities,  \* the account committed for each person
    sessions,    \* session of each token
    signin,      \* the callback each browser waits for
    cookie       \* the session cookie of each browser

idVars == <<users, identities, sessions, signin, cookie>>

NoSignIn == [pc |-> "idle", attempt |-> 1, user |-> NoOne]

NoSession == [state |-> "unused"]

IdentityType ==
    /\ users \in [Accounts -> {"absent", "pending", "committed"}]
    /\ identities \in [Persons -> Accounts \cup {NoOne}]
    /\ \A t \in Tokens : sessions[t].state \in {"unused", "live", "deleted"}
    /\ signin \in [Browsers -> [pc : {"idle", "update", "insert_identity",
                                      "commit", "session", "refused"},
                                attempt : 1 .. 2, user : Accounts \cup {NoOne}]]
    /\ cookie \in [Browsers -> Tokens \cup {NoOne}]

IdentityInit ==
    /\ users = [u \in Accounts |-> "absent"]
    /\ identities = [p \in Persons |-> NoOne]
    /\ sessions = [t \in Tokens |-> NoSession]
    /\ signin = [b \in Browsers |-> NoSignIn]
    /\ cookie = [b \in Browsers |-> NoOne]

-----------------------------------------------------------------------------
(* handleGoogleCallback *)

Signing(b, pc) == signin[b].pc = pc

\* The provider has said who signs in.
SignIn(b) ==
    /\ Signing(b, "idle") /\ cookie[b] = NoOne
    /\ \E t \in Tokens : sessions[t].state = "unused"
    /\ signin' = [signin EXCEPT ![b] = [NoSignIn EXCEPT !.pc = "update"]]
    /\ UNCHANGED <<users, identities, sessions, cookie>>

NextAccount == CHOOSE u \in Accounts : users[u] = "absent"

\* Mutant of FirstUser: the user is inserted outside the transaction.
FirstUser_Autocommit(b) ==
    /\ \E u \in Accounts : users[u] = "absent"
    /\ users' = [users EXCEPT ![NextAccount] = "committed"]
    /\ signin' = [signin EXCEPT ![b] = [@ EXCEPT !.pc = "insert_identity", !.user = NextAccount]]

\* INSERT INTO cars.users: nobody else sees the row yet.
FirstUser(b) ==
    /\ \E u \in Accounts : users[u] = "absent"
    /\ users' = [users EXCEPT ![NextAccount] = "pending"]
    /\ signin' = [signin EXCEPT ![b] = [@ EXCEPT !.pc = "insert_identity", !.user = NextAccount]]

\* upsertIdentityOnce up to the second INSERT: the UPDATE, which finds the
\* account if its identity is committed, else a new user.
UpdateUser(b) ==
    /\ backend = "postgres" /\ Signing(b, "update")
    /\ \/ /\ identities[PersonOf[b]] # NoOne
          /\ signin' = [signin EXCEPT ![b] = [@ EXCEPT !.pc = "session", !.user = identities[PersonOf[b]]]]
          /\ UNCHANGED users
       \/ identities[PersonOf[b]] = NoOne /\ FirstUser(b)
    /\ UNCHANGED <<identities, sessions, cookie>>

\* The rows of b's transaction after a rollback.
RolledBack(b) == [u \in Accounts |-> IF u = signin[b].user /\ users[u] = "pending" THEN "absent"
                                     ELSE users[u]]

\* Mutant of Retry: no second attempt.
Retry_Never(b) == [signin[b] EXCEPT !.pc = "refused", !.user = NoOne]

\* UpsertIdentity after a 23505: the whole transaction once more, but only once.
Retry(b) ==
    IF signin[b].attempt = 1 THEN [pc |-> "update", attempt |-> 2, user |-> NoOne]
    ELSE [signin[b] EXCEPT !.pc = "refused", !.user = NoOne]

\* The INSERT waits while another open transaction has inserted the same key,
\* and is refused (23505) if one has committed it.
InsertIdentity(b) ==
    /\ Signing(b, "insert_identity")
    /\ \A other \in Browsers : ~(Signing(other, "commit") /\ PersonOf[other] = PersonOf[b])
    /\ \/ /\ identities[PersonOf[b]] = NoOne
          /\ signin' = [signin EXCEPT ![b].pc = "commit"]
          /\ UNCHANGED users
       \/ /\ identities[PersonOf[b]] # NoOne
          /\ signin' = [signin EXCEPT ![b] = Retry(b)]
          /\ users' = RolledBack(b)
    /\ UNCHANGED <<identities, sessions, cookie>>

\* COMMIT; the answer may be lost, and then the sign-in fails.
CommitSignIn(b) ==
    /\ Signing(b, "commit")
    /\ users' = [users EXCEPT ![signin[b].user] = "committed"]
    /\ identities' = [identities EXCEPT ![PersonOf[b]] = signin[b].user]
    /\ \/ signin' = [signin EXCEPT ![b].pc = "session"]
       \/ signin' = [signin EXCEPT ![b] = NoSignIn]
    /\ UNCHANGED <<sessions, cookie>>

\* The request is cancelled, or a statement fails: 500.
SignInAbort(b) ==
    /\ signin[b].pc \in {"update", "insert_identity", "commit", "session"}
    /\ signin' = [signin EXCEPT ![b] = NoSignIn]
    /\ users' = RolledBack(b)
    /\ UNCHANGED <<identities, sessions, cookie>>

\* The in-memory store, under its mutex.
MemUpsertIdentity(b) ==
    /\ backend = "memory" /\ Signing(b, "update")
    /\ \E u \in Accounts : users[u] = "absent"
    /\ LET known == identities[PersonOf[b]]
           user  == IF known = NoOne THEN NextAccount ELSE known
       IN  /\ users' = [users EXCEPT ![user] = "committed"]
           /\ identities' = [identities EXCEPT ![PersonOf[b]] = user]
           /\ signin' = [signin EXCEPT ![b] = [@ EXCEPT !.pc = "session", !.user = user]]
    /\ UNCHANGED <<sessions, cookie>>

NextToken == CHOOSE t \in Tokens : sessions[t].state = "unused"

\* NewSessionToken, CreateSession, and the answer that sets the cookie.
CreateSession(b) ==
    /\ Signing(b, "session") /\ \E t \in Tokens : sessions[t].state = "unused"
    /\ sessions' = [sessions EXCEPT ![NextToken] =
                      [state |-> "live", user |-> signin[b].user, expires |-> clock + SessionTTL]]
    /\ cookie' = [cookie EXCEPT ![b] = NextToken]
    /\ signin' = [signin EXCEPT ![b] = NoSignIn]
    /\ UNCHANGED <<users, identities>>

-----------------------------------------------------------------------------
(* Sessions in use *)

\* UserBySessionToken; the in-memory store keeps a session one instant longer.
UserOf(token) ==
    IF /\ token # NoOne /\ sessions[token].state = "live"
       /\ IF backend = "postgres" THEN sessions[token].expires > clock
          ELSE sessions[token].expires >= clock
    THEN sessions[token].user
    ELSE NoOne

Ended(token) == [sessions EXCEPT ![token] = [state |-> "deleted"]]

\* handleLogout: the cookie is cleared whether or not the session could be deleted.
Logout(b) ==
    /\ cookie[b] # NoOne
    /\ sessions' \in {Ended(cookie[b]), sessions}
    /\ cookie' = [cookie EXCEPT ![b] = NoOne]
    /\ UNCHANGED <<users, identities, signin>>

\* The session is deleted, but the answer that clears the cookie is lost.
LogoutUnheard(b) ==
    /\ cookie[b] # NoOne
    /\ sessions' = Ended(cookie[b])
    /\ UNCHANGED <<users, identities, signin, cookie>>

SignInStep(b) ==
    \/ UpdateUser(b) \/ InsertIdentity(b) \/ CommitSignIn(b)
    \/ MemUpsertIdentity(b) \/ CreateSession(b)

-----------------------------------------------------------------------------

\* store.go:318: an identity resolves to one account for good, however many
\* first sign-ins race.  No account is left without an identity, no identity
\* without its account, and every session of a person is for the one account.
OneAccount ==
    /\ \A u \in Accounts : users[u] = "committed" <=> \E p \in Persons : identities[p] = u
    /\ \A p, q \in Persons : identities[p] = identities[q] /\ identities[p] # NoOne => p = q
    /\ \A b \in Browsers :
         /\ Signing(b, "session") => signin[b].user = identities[PersonOf[b]]
         /\ cookie[b] # NoOne /\ sessions[cookie[b]].state = "live"
            => sessions[cookie[b]].user = identities[PersonOf[b]]

\* store.go:327, "This retry takes the update path": no sign-in is refused
\* because the second attempt meets the key again.
RetrySuffices == \A b \in Browsers : ~Signing(b, "refused")
=============================================================================
