------------------------------ MODULE AppProofs ------------------------------
(***************************************************************************)
(* Proofs about accounts and sessions, about the booking sheet, and about  *)
(* the two stores behind them, for any number of browsers, persons, calls, *)
(* reservations and orders of other clients, and for either store.         *)
(***************************************************************************)
EXTENDS App, FiniteSetTheorems, TLAPS

-----------------------------------------------------------------------------
(* Accounts: the inductive invariant *)

\* b is in the transaction of a first sign-in, past its first INSERT.
Inserting(b) == signin[b].pc \in {"insert_identity", "commit"}

\* A transaction under way has a user of its own that nobody else sees, and is
\* a first attempt; a second attempt is made only once the identity is known.
FlightInv ==
    /\ \A b \in Browsers : Inserting(b) =>
          /\ backend = "postgres" /\ signin[b].attempt = 1
          /\ signin[b].user \in Accounts /\ users[signin[b].user] = "pending"
    /\ \A b, o \in Browsers :
          Inserting(b) /\ Inserting(o) /\ signin[b].user = signin[o].user => b = o
    /\ \A b, o \in Browsers :
          Signing(b, "commit") /\ Signing(o, "commit") /\ PersonOf[b] = PersonOf[o] => b = o
    /\ \A b \in Browsers :
          /\ Signing(b, "commit") => identities[PersonOf[b]] = NoOne
          /\ signin[b].attempt = 2 => identities[PersonOf[b]] # NoOne
          /\ Signing(b, "update") => signin[b].user = NoOne
          /\ ~Signing(b, "refused")

\* An identity that somebody has signed in with stays known, and a cookie's
\* token has been given.
KnownInv ==
    /\ \A b \in Browsers : Signing(b, "session") => signin[b].user # NoOne
    /\ \A b \in Browsers : cookie[b] # NoOne =>
          /\ sessions[cookie[b]].state # "unused"
          /\ sessions[cookie[b]].state = "live" => sessions[cookie[b]].user # NoOne

ShapeInv ==
    /\ IdentityType
    /\ sessions = [t \in Tokens |-> sessions[t]]

AccountInv == ShapeInv /\ OneAccount /\ FlightInv /\ KnownInv

LEMMA InitAccountInv == Init => AccountInv
<1>. SUFFICES ASSUME Init PROVE AccountInv
  OBVIOUS
<1>. USE IdentityAssumption DEF Init, IdentityInit, NoSignIn, NoSession
<1>1. ShapeInv
  BY DEF ShapeInv, IdentityType
<1>2. OneAccount
  BY DEF OneAccount, Signing
<1>3. FlightInv
  BY DEF FlightInv, Inserting, Signing
<1>4. KnownInv
  BY DEF KnownInv, Signing
<1>. QED BY <1>1, <1>2, <1>3, <1>4 DEF AccountInv

\* Steps that leave accounts and sessions alone.
LEMMA StutterAccountInv ==
    ASSUME AccountInv, UNCHANGED <<backend, idVars>>
    PROVE  AccountInv'
<1>. USE DEF AccountInv, idVars
<1>1. ShapeInv'
  BY DEF ShapeInv, IdentityType
<1>2. OneAccount'
  BY DEF OneAccount, Signing
<1>3. FlightInv'
  BY DEF FlightInv, Inserting, Signing
<1>4. KnownInv'
  BY DEF KnownInv, Signing
<1>. QED BY <1>1, <1>2, <1>3, <1>4

\* Steps that link no identity and commit no user.
LEMMA LinksNothing ==
    ASSUME AccountInv, UNCHANGED <<identities, sessions, cookie>>,
           \A u \in Accounts : users'[u] = "committed" <=> users[u] = "committed",
           \A o \in Browsers : signin'[o].pc = "session" =>
               signin'[o] = signin[o] \/ signin'[o].user = identities[PersonOf[o]]
    PROVE  OneAccount'
<1>1. \A u \in Accounts : users'[u] = "committed" <=> \E p \in Persons : identities'[p] = u
  BY DEF AccountInv, OneAccount
<1>2. \A o \in Browsers : signin'[o].pc = "session" => signin'[o].user = identities'[PersonOf[o]]
  BY DEF AccountInv, OneAccount, Signing
<1>. QED BY <1>1, <1>2 DEF AccountInv, OneAccount, Signing

LEMMA NextAccountIsFree ==
    ASSUME \E u \in Accounts : users[u] = "absent"
    PROVE  NextAccount \in Accounts /\ users[NextAccount] = "absent"
  BY DEF NextAccount

LEMMA NextTokenIsUnused ==
    ASSUME \E t \in Tokens : sessions[t].state = "unused"
    PROVE  NextToken \in Tokens /\ sessions[NextToken].state = "unused"
  BY DEF NextToken

-----------------------------------------------------------------------------
(* Accounts: one lemma per action *)

LEMMA SignInInv ==
    ASSUME NEW b \in Browsers, AccountInv, SignIn(b), UNCHANGED backend
    PROVE  AccountInv'
<1>1. /\ signin' = [signin EXCEPT ![b] = [pc |-> "update", attempt |-> 1, user |-> NoOne]]
      /\ UNCHANGED <<users, identities, sessions, cookie>>
  <2>1. NoSignIn = [pc |-> "idle", attempt |-> 1, user |-> NoOne]
    BY DEF NoSignIn
  <2>2. [NoSignIn EXCEPT !.pc = "update"] = [pc |-> "update", attempt |-> 1, user |-> NoOne]
    BY <2>1
  <2>. QED BY <2>2 DEF SignIn
<1>2. ShapeInv'
  BY <1>1 DEF AccountInv, ShapeInv, IdentityType
<1>3. OneAccount'
  <2>1. \A o \in Browsers : signin'[o].pc = "session" => signin'[o] = signin[o]
    BY <1>1 DEF AccountInv, ShapeInv, IdentityType
  <2>. QED BY <1>1, <2>1, LinksNothing
<1>4. FlightInv'
  BY <1>1 DEF AccountInv, ShapeInv, IdentityType, FlightInv, Inserting, Signing
<1>5. KnownInv'
  BY <1>1 DEF AccountInv, ShapeInv, IdentityType, KnownInv, Signing
<1>. QED BY <1>2, <1>3, <1>4, <1>5 DEF AccountInv

LEMMA UpdateUserInv ==
    ASSUME NEW b \in Browsers, AccountInv, UpdateUser(b), UNCHANGED backend
    PROVE  AccountInv'
<1>1. CASE /\ identities[PersonOf[b]] # NoOne
           /\ signin' = [signin EXCEPT ![b] = [@ EXCEPT !.pc = "session", !.user = identities[PersonOf[b]]]]
           /\ UNCHANGED users
  <2>1. UNCHANGED <<identities, sessions, cookie>> /\ signin[b].pc = "update"
    BY DEF UpdateUser, Signing
  <2>2. ShapeInv'
    BY <1>1, <2>1, IdentityAssumption DEF AccountInv, ShapeInv, IdentityType
  <2>3. OneAccount'
    <3>1. \A o \in Browsers : signin'[o] = signin[o] \/ signin'[o].user = identities[PersonOf[o]]
      BY <1>1 DEF AccountInv, ShapeInv, IdentityType
    <3>. QED BY <1>1, <2>1, <3>1, LinksNothing
  <2>4. FlightInv'
    BY <1>1, <2>1 DEF AccountInv, ShapeInv, IdentityType, FlightInv, Inserting, Signing
  <2>5. KnownInv'
    BY <1>1, <2>1 DEF AccountInv, ShapeInv, IdentityType, KnownInv, Signing
  <2>. QED BY <2>2, <2>3, <2>4, <2>5 DEF AccountInv
<1>2. CASE identities[PersonOf[b]] = NoOne /\ FirstUser(b)
  <2>1. NextAccount \in Accounts /\ users[NextAccount] = "absent"
    BY <1>2, NextAccountIsFree DEF FirstUser
  <2>2. /\ users' = [users EXCEPT ![NextAccount] = "pending"]
        /\ signin' = [signin EXCEPT ![b] = [@ EXCEPT !.pc = "insert_identity", !.user = NextAccount]]
        /\ UNCHANGED <<identities, sessions, cookie, backend>>
        /\ backend = "postgres" /\ Signing(b, "update")
    BY <1>2 DEF UpdateUser, FirstUser
  <2>3. signin[b].attempt = 1
    BY <1>2 DEF AccountInv, ShapeInv, IdentityType, FlightInv
  <2>4. ShapeInv'
    BY <2>1, <2>2 DEF AccountInv, ShapeInv, IdentityType
  <2>5. OneAccount'
    <3>1. \A u \in Accounts : users'[u] = "committed" <=> users[u] = "committed"
      BY <2>1, <2>2 DEF AccountInv, ShapeInv, IdentityType
    <3>2. \A o \in Browsers : signin'[o].pc = "session" => signin'[o] = signin[o]
      BY <2>2 DEF AccountInv, ShapeInv, IdentityType
    <3>. QED BY <2>2, <3>1, <3>2, LinksNothing
  <2>6. FlightInv'
    BY <1>2, <2>1, <2>2, <2>3 DEF AccountInv, ShapeInv, IdentityType, FlightInv, Inserting, Signing
  <2>7. KnownInv'
    BY <2>2 DEF AccountInv, ShapeInv, IdentityType, KnownInv, Signing
  <2>. QED BY <2>4, <2>5, <2>6, <2>7 DEF AccountInv
<1>. QED BY <1>1, <1>2 DEF UpdateUser

\* A rollback takes the user of b's own transaction away and no other.
LEMMA RollbackInv ==
    ASSUME NEW b \in Browsers, AccountInv, UNCHANGED <<backend, identities, sessions, cookie>>,
           users' = RolledBack(b),
           NEW s, s \in [pc : {"idle", "update"}, attempt : 1 .. 2, user : Accounts \cup {NoOne}],
           s.attempt = 2 => identities[PersonOf[b]] # NoOne,
           signin' = [signin EXCEPT ![b] = s],
           s.pc = "update" => s.user = NoOne,
           signin[b].user \in Accounts /\ users[signin[b].user] = "pending" => Inserting(b)
    PROVE  AccountInv'
<1>1. ShapeInv'
  BY DEF AccountInv, ShapeInv, IdentityType, RolledBack
<1>2. \A u \in Accounts : users'[u] = "committed" <=> users[u] = "committed"
  BY DEF AccountInv, ShapeInv, IdentityType, RolledBack
<1>3. OneAccount'
  <2>1. \A o \in Browsers : signin'[o].pc = "session" => signin'[o] = signin[o]
    BY DEF AccountInv, ShapeInv, IdentityType
  <2>. QED BY <1>2, <2>1, LinksNothing
<1>4. \A o \in Browsers : Inserting(o)' => o # b /\ Inserting(o) /\ signin'[o] = signin[o]
  BY DEF AccountInv, ShapeInv, IdentityType, Inserting
<1>5. ASSUME NEW o \in Browsers, Inserting(o)'
      PROVE  users'[signin'[o].user] = "pending"
  <2>1. o # b /\ signin'[o] = signin[o] /\ signin[o].user \in Accounts
        /\ users[signin[o].user] = "pending" /\ Inserting(o)
    BY <1>4, <1>5 DEF AccountInv, FlightInv
  <2>2. signin[o].user # signin[b].user
    BY <2>1 DEF AccountInv, FlightInv
  <2>. QED BY <2>1, <2>2 DEF RolledBack
<1>6. FlightInv'
  BY <1>4, <1>5 DEF AccountInv, ShapeInv, IdentityType, FlightInv, Inserting, Signing
<1>7. KnownInv'
  BY DEF AccountInv, ShapeInv, IdentityType, KnownInv, Signing
<1>. QED BY <1>1, <1>3, <1>6, <1>7 DEF AccountInv

LEMMA InsertIdentityInv ==
    ASSUME NEW b \in Browsers, AccountInv, InsertIdentity(b), UNCHANGED backend
    PROVE  AccountInv'
<1>1. CASE /\ identities[PersonOf[b]] = NoOne
           /\ signin' = [signin EXCEPT ![b].pc = "commit"]
           /\ UNCHANGED users
  <2>1. /\ UNCHANGED <<identities, sessions, cookie, backend>> /\ signin[b].pc = "insert_identity"
        /\ \A o \in Browsers : ~(signin[o].pc = "commit" /\ PersonOf[o] = PersonOf[b])
    BY DEF InsertIdentity, Signing
  <2>2. ShapeInv'
    BY <1>1, <2>1 DEF AccountInv, ShapeInv, IdentityType
  <2>3. \A o \in Browsers : signin'[o].pc = "session" => signin'[o] = signin[o]
    BY <1>1 DEF AccountInv, ShapeInv, IdentityType
  <2>4. OneAccount'
    BY <1>1, <2>1, <2>3, LinksNothing
  <2>5. FlightInv'
    BY <1>1, <2>1 DEF AccountInv, ShapeInv, IdentityType, FlightInv, Inserting, Signing
  <2>6. KnownInv'
    BY <1>1, <2>1 DEF AccountInv, ShapeInv, IdentityType, KnownInv, Signing
  <2>. QED BY <2>2, <2>4, <2>5, <2>6 DEF AccountInv
<1>2. CASE /\ identities[PersonOf[b]] # NoOne
           /\ signin' = [signin EXCEPT ![b] = Retry(b)]
           /\ users' = RolledBack(b)
  <2>1. signin[b].pc = "insert_identity" /\ Inserting(b) /\ signin[b].attempt = 1
    BY DEF InsertIdentity, Signing, Inserting, AccountInv, FlightInv
  <2>2. Retry(b) = [pc |-> "update", attempt |-> 2, user |-> NoOne]
    BY <2>1 DEF Retry
  <2>. DEFINE s == [pc |-> "update", attempt |-> 2, user |-> NoOne]
  <2>3. UNCHANGED <<backend, identities, sessions, cookie>>
    BY DEF InsertIdentity
  <2>4. signin' = [signin EXCEPT ![b] = s] /\ s.pc = "update" /\ s.user = NoOne
        /\ s \in [pc : {"idle", "update"}, attempt : 1 .. 2, user : Accounts \cup {NoOne}]
    BY <1>2, <2>2
  <2>. HIDE DEF s
  <2>. QED BY <1>2, <2>1, <2>3, <2>4, RollbackInv
<1>. QED BY <1>1, <1>2 DEF InsertIdentity

LEMMA SignInAbortInv ==
    ASSUME NEW b \in Browsers, AccountInv, SignInAbort(b), UNCHANGED backend
    PROVE  AccountInv'
<1>. DEFINE s == [pc |-> "idle", attempt |-> 1, user |-> NoOne]
<1>1. UNCHANGED <<backend, identities, sessions, cookie>> /\ users' = RolledBack(b)
  BY DEF SignInAbort
<1>2. signin' = [signin EXCEPT ![b] = s] /\ s.pc = "idle" /\ s.attempt = 1
      /\ s \in [pc : {"idle", "update"}, attempt : 1 .. 2, user : Accounts \cup {NoOne}]
  BY DEF SignInAbort, NoSignIn
<1>3. signin[b].user \in Accounts /\ users[signin[b].user] = "pending" => Inserting(b)
  <2>1. CASE signin[b].pc = "update"
    BY <2>1, IdentityAssumption DEF AccountInv, FlightInv, Signing
  <2>2. CASE signin[b].pc = "session"
    BY <2>2, IdentityAssumption DEF AccountInv, OneAccount, Signing
  <2>. QED BY <2>1, <2>2 DEF SignInAbort, Inserting
<1>4. (s.attempt = 2 => identities[PersonOf[b]] # NoOne) /\ (s.pc = "update" => s.user = NoOne)
  OBVIOUS
<1>. HIDE DEF s
<1>. QED BY <1>1, <1>2, <1>3, <1>4, RollbackInv

LEMMA CommitSignInInv ==
    ASSUME NEW b \in Browsers, AccountInv, CommitSignIn(b), UNCHANGED backend
    PROVE  AccountInv'
<1>. DEFINE u == signin[b].user
            p == PersonOf[b]
<1>1. /\ users' = [users EXCEPT ![u] = "committed"]
      /\ identities' = [identities EXCEPT ![p] = u]
      /\ UNCHANGED <<backend, sessions, cookie>>
      /\ signin[b].pc = "commit" /\ Inserting(b)
  BY DEF CommitSignIn, Signing, Inserting
<1>2. /\ u \in Accounts /\ users[u] = "pending" /\ u # NoOne
      /\ p \in Persons /\ identities[p] = NoOne
  BY <1>1, IdentityAssumption DEF AccountInv, FlightInv, Signing
<1>3. /\ signin' \in [Browsers -> [pc : {"idle", "update", "insert_identity",
                                          "commit", "session", "refused"},
                                    attempt : 1 .. 2, user : Accounts \cup {NoOne}]]
      /\ \A o \in Browsers \ {b} : signin'[o] = signin[o]
      /\ signin'[b].pc \in {"session", "idle"}
      /\ signin'[b].pc = "session" => signin'[b].user = u
  <2>1. CASE signin' = [signin EXCEPT ![b].pc = "session"]
    BY <2>1 DEF AccountInv, ShapeInv, IdentityType
  <2>2. CASE signin' = [signin EXCEPT ![b] = NoSignIn]
    BY <2>2 DEF AccountInv, ShapeInv, IdentityType, NoSignIn
  <2>. QED BY <2>1, <2>2 DEF CommitSignIn
<1>4. ShapeInv'
  BY <1>1, <1>2, <1>3 DEF AccountInv, ShapeInv, IdentityType
<1>5. identities'[p] = u /\ \A q \in Persons : q # p => identities'[q] = identities[q]
  BY <1>1, <1>2 DEF AccountInv, ShapeInv, IdentityType
<1>6. users'[u] = "committed" /\ \A v \in Accounts : v # u => users'[v] = users[v]
  BY <1>1, <1>2 DEF AccountInv, ShapeInv, IdentityType
<1>7. \A q \in Persons : identities[q] # u
  BY <1>2 DEF AccountInv, OneAccount
<1>8. \A q \in Persons : identities[q] # NoOne => identities'[q] = identities[q]
  BY <1>2, <1>5
<1>. HIDE DEF u, p
<1>9. OneAccount'
  <2>1. \A v \in Accounts : users'[v] = "committed" <=> \E q \in Persons : identities'[q] = v
    <3>1. ASSUME NEW v \in Accounts, v # u, NEW q \in Persons
          PROVE  identities'[q] = v <=> identities[q] = v
      BY <3>1, <1>2, <1>5, IdentityAssumption
    <3>2. ASSUME NEW v \in Accounts, v # u
          PROVE  users'[v] = "committed" <=> \E q \in Persons : identities'[q] = v
      BY <3>1, <3>2, <1>6 DEF AccountInv, OneAccount
    <3>3. users'[u] = "committed" /\ \E q \in Persons : identities'[q] = u
      BY <1>1, <1>2, <1>5, <1>6 DEF u
    <3>. QED BY <3>2, <3>3
  <2>2. \A q, r \in Persons : identities'[q] = identities'[r] /\ identities'[q] # NoOne => q = r
    BY <1>5, <1>7 DEF AccountInv, OneAccount
  <2>3. ASSUME NEW o \in Browsers, signin'[o].pc = "session"
        PROVE  signin'[o].user = identities'[PersonOf[o]]
    <3>1. CASE o = b
      BY <3>1, <2>3, <1>3, <1>5 DEF u, p
    <3>2. CASE o # b
      BY <3>2, <2>3, <1>3, <1>8, IdentityAssumption DEF AccountInv, OneAccount, KnownInv, Signing
    <3>. QED BY <3>1, <3>2
  <2>4. ASSUME NEW o \in Browsers, cookie[o] # NoOne, sessions[cookie[o]].state = "live"
        PROVE  sessions[cookie[o]].user = identities'[PersonOf[o]]
    BY <2>4, <1>8, IdentityAssumption DEF AccountInv, OneAccount, KnownInv
  <2>. QED BY <2>1, <2>2, <2>3, <2>4, <1>1 DEF OneAccount, Signing
<1>10. FlightInv'
  <2>1. \A o \in Browsers : Inserting(o)' => o # b /\ Inserting(o) /\ signin'[o] = signin[o]
    BY <1>3 DEF Inserting
  <2>2. \A o \in Browsers : Inserting(o)' => signin[o].user # u
    BY <2>1, <1>1 DEF AccountInv, FlightInv, u
  <2>3. \A o \in Browsers : signin'[o].pc = "commit" => PersonOf[o] # p
    BY <1>1, <1>3 DEF AccountInv, FlightInv, Signing, p
  <2>4. \A o \in Browsers : signin'[o].attempt = 2 => identities'[PersonOf[o]] # NoOne
    BY <1>2, <1>3, <1>5, <1>8, IdentityAssumption DEF AccountInv, FlightInv, p
  <2>5. \A o \in Browsers : Inserting(o)' =>
          /\ backend' = "postgres" /\ signin'[o].attempt = 1
          /\ signin'[o].user \in Accounts /\ users'[signin'[o].user] = "pending"
    BY <2>1, <2>2, <1>1, <1>6 DEF AccountInv, FlightInv
  <2>6. \A o \in Browsers : signin'[o].pc = "commit" => identities'[PersonOf[o]] = NoOne
    BY <2>1, <2>3, <1>5, IdentityAssumption DEF AccountInv, FlightInv, Signing, Inserting
  <2>7. \A o \in Browsers : /\ signin'[o].pc = "update" => signin'[o].user = NoOne
                            /\ signin'[o].pc # "refused"
    BY <1>3 DEF AccountInv, FlightInv, Signing
  <2>8. \A o, x \in Browsers : /\ signin'[o].pc = "commit" => o # b /\ signin'[o] = signin[o]
                               /\ Inserting(o)' /\ Inserting(x)' /\ signin'[o].user = signin'[x].user => o = x
    BY <2>1, <1>3 DEF AccountInv, FlightInv
  <2>9. ASSUME NEW o \in Browsers, NEW x \in Browsers, PersonOf[o] = PersonOf[x],
               signin'[o].pc = "commit", signin'[x].pc = "commit"
        PROVE  o = x
    <3>1. signin[o].pc = "commit" /\ signin[x].pc = "commit"
      BY <2>8, <2>9
    <3>. QED BY <2>9, <3>1 DEF AccountInv, FlightInv, Signing
  <2>. QED BY <2>4, <2>5, <2>6, <2>7, <2>8, <2>9 DEF FlightInv, Signing, Inserting
<1>11. KnownInv'
  BY <1>1, <1>2, <1>3 DEF AccountInv, KnownInv, Signing
<1>. QED BY <1>4, <1>9, <1>10, <1>11 DEF AccountInv

LEMMA MemUpsertIdentityInv ==
    ASSUME NEW b \in Browsers, AccountInv, MemUpsertIdentity(b), UNCHANGED backend
    PROVE  AccountInv'
<1>. DEFINE p == PersonOf[b]
            u == IF identities[p] = NoOne THEN NextAccount ELSE identities[p]
<1>1. NextAccount \in Accounts /\ users[NextAccount] = "absent"
  BY NextAccountIsFree DEF MemUpsertIdentity
<1>2. /\ users' = [users EXCEPT ![u] = "committed"]
      /\ identities' = [identities EXCEPT ![p] = u]
      /\ signin' = [signin EXCEPT ![b] = [@ EXCEPT !.pc = "session", !.user = u]]
      /\ UNCHANGED <<backend, sessions, cookie>>
      /\ backend = "memory" /\ signin[b].pc = "update"
  BY DEF MemUpsertIdentity, Signing
<1>3. p \in Persons /\ u \in Accounts /\ u # NoOne
  BY <1>1, IdentityAssumption DEF AccountInv, ShapeInv, IdentityType
<1>4. identities[p] = u \/ (identities[p] = NoOne /\ \A q \in Persons : identities[q] # u)
  <2>1. \A q \in Persons : identities[q] # NextAccount
    BY <1>1 DEF AccountInv, OneAccount
  <2>2. CASE identities[p] = NoOne
    BY <2>1, <2>2
  <2>3. CASE identities[p] # NoOne
    <3>1. u = identities[p]
      BY <2>3
    <3>. QED BY <3>1
  <2>. QED BY <2>2, <2>3
<1>5. \A o \in Browsers : ~Inserting(o)
  BY <1>2 DEF AccountInv, FlightInv
<1>. HIDE DEF p, u
<1>6. ShapeInv'
  BY <1>2, <1>3 DEF AccountInv, ShapeInv, IdentityType
<1>7. identities'[p] = u /\ \A q \in Persons : q # p => identities'[q] = identities[q]
  BY <1>2, <1>3 DEF AccountInv, ShapeInv, IdentityType
<1>8. users'[u] = "committed" /\ \A v \in Accounts : v # u => users'[v] = users[v]
  BY <1>2, <1>3 DEF AccountInv, ShapeInv, IdentityType
<1>9. \A q \in Persons : identities[q] # NoOne => identities'[q] = identities[q]
  BY <1>4, <1>7
<1>10. /\ \A o \in Browsers \ {b} : signin'[o] = signin[o]
       /\ signin'[b].pc = "session" /\ signin'[b].user = u
       /\ signin'[b].attempt = signin[b].attempt
  BY <1>2 DEF AccountInv, ShapeInv, IdentityType
<1>11. OneAccount'
  <2>1. \A v \in Accounts : users'[v] = "committed" <=> \E q \in Persons : identities'[q] = v
    <3>1. ASSUME NEW v \in Accounts, v # u, NEW q \in Persons
          PROVE  identities'[q] = v <=> identities[q] = v
      BY <3>1, <1>4, <1>7, IdentityAssumption
    <3>2. ASSUME NEW v \in Accounts, v # u
          PROVE  users'[v] = "committed" <=> \E q \in Persons : identities'[q] = v
      BY <3>1, <3>2, <1>8 DEF AccountInv, OneAccount
    <3>3. users'[u] = "committed" /\ \E q \in Persons : identities'[q] = u
      BY <1>3, <1>7, <1>8
    <3>. QED BY <3>2, <3>3
  <2>2. \A q, r \in Persons : identities'[q] = identities'[r] /\ identities'[q] # NoOne => q = r
    BY <1>3, <1>4, <1>7 DEF AccountInv, OneAccount
  <2>3. ASSUME NEW o \in Browsers, signin'[o].pc = "session"
        PROVE  signin'[o].user = identities'[PersonOf[o]]
    <3>1. CASE o = b
      BY <3>1, <1>7, <1>10 DEF p
    <3>2. CASE o # b
      BY <3>2, <2>3, <1>9, <1>10, IdentityAssumption DEF AccountInv, OneAccount, KnownInv, Signing
    <3>. QED BY <3>1, <3>2
  <2>4. ASSUME NEW o \in Browsers, cookie[o] # NoOne, sessions[cookie[o]].state = "live"
        PROVE  sessions[cookie[o]].user = identities'[PersonOf[o]]
    BY <2>4, <1>9, IdentityAssumption DEF AccountInv, OneAccount, KnownInv
  <2>. QED BY <2>1, <2>2, <2>3, <2>4, <1>2 DEF OneAccount, Signing
<1>12. FlightInv'
  <2>1. \A o \in Browsers : signin'[o].pc \notin {"insert_identity", "commit"}
    BY <1>5, <1>10 DEF Inserting
  <2>2. \A o \in Browsers : signin'[o].attempt = 2 => identities'[PersonOf[o]] # NoOne
    BY <1>9, <1>10, IdentityAssumption DEF AccountInv, FlightInv
  <2>3. \A o \in Browsers : /\ signin'[o].pc = "update" => signin'[o].user = NoOne
                            /\ signin'[o].pc # "refused"
    BY <1>10 DEF AccountInv, FlightInv, Signing
  <2>. QED BY <2>1, <2>2, <2>3 DEF FlightInv, Inserting, Signing
<1>13. KnownInv'
  BY <1>2, <1>3, <1>10 DEF AccountInv, KnownInv, Signing
<1>. QED BY <1>6, <1>11, <1>12, <1>13 DEF AccountInv

LEMMA CreateSessionInv ==
    ASSUME NEW b \in Browsers, AccountInv, CreateSession(b), UNCHANGED backend
    PROVE  AccountInv'
<1>. DEFINE s == [state |-> "live", user |-> signin[b].user, expires |-> clock + SessionTTL]
<1>1. NextToken \in Tokens /\ sessions[NextToken].state = "unused" /\ NextToken # NoOne
  BY NextTokenIsUnused, IdentityAssumption DEF CreateSession
<1>2. /\ sessions' = [sessions EXCEPT ![NextToken] = s]
      /\ cookie' = [cookie EXCEPT ![b] = NextToken]
      /\ signin' = [signin EXCEPT ![b] = NoSignIn]
      /\ UNCHANGED <<backend, users, identities>> /\ signin[b].pc = "session"
  BY DEF CreateSession, Signing
<1>3. s.state = "live" /\ s.user = signin[b].user
  OBVIOUS
<1>4. /\ signin[b].user = identities[PersonOf[b]] /\ signin[b].user # NoOne
  BY <1>2 DEF AccountInv, OneAccount, KnownInv, Signing
<1>5. /\ \A o \in Browsers \ {b} : signin'[o] = signin[o] /\ cookie'[o] = cookie[o]
      /\ cookie'[b] = NextToken
      /\ signin'[b].pc = "idle" /\ signin'[b].attempt = 1 /\ signin'[b].user = NoOne
  BY <1>2 DEF AccountInv, ShapeInv, IdentityType, NoSignIn
<1>. HIDE DEF s
<1>6. sessions'[NextToken] = s /\ \A t \in Tokens : t # NextToken => sessions'[t] = sessions[t]
  BY <1>1, <1>2 DEF AccountInv, ShapeInv
<1>7. \A o \in Browsers \ {b} : cookie[o] # NoOne => sessions'[cookie[o]] = sessions[cookie[o]]
  BY <1>1, <1>6 DEF AccountInv, ShapeInv, IdentityType, KnownInv
<1>8. ShapeInv'
  <2>1. sessions' = [t \in Tokens |-> sessions'[t]]
    BY <1>1, <1>2 DEF AccountInv, ShapeInv
  <2>2. \A t \in Tokens : sessions'[t].state \in {"unused", "live", "deleted"}
    BY <1>3, <1>6 DEF AccountInv, ShapeInv, IdentityType
  <2>3. cookie' \in [Browsers -> Tokens \cup {NoOne}]
    BY <1>1, <1>2 DEF AccountInv, ShapeInv, IdentityType
  <2>4. NoSignIn \in [pc : {"idle", "update", "insert_identity", "commit", "session", "refused"},
                      attempt : 1 .. 2, user : Accounts \cup {NoOne}]
    BY DEF NoSignIn
  <2>. QED BY <2>1, <2>2, <2>3, <2>4, <1>2 DEF AccountInv, ShapeInv, IdentityType
<1>9. OneAccount'
  BY <1>2, <1>3, <1>4, <1>5, <1>6, <1>7 DEF AccountInv, OneAccount, Signing
<1>10. FlightInv'
  BY <1>2, <1>5 DEF AccountInv, FlightInv, Inserting, Signing
<1>11. KnownInv'
  BY <1>3, <1>4, <1>5, <1>6, <1>7 DEF AccountInv, KnownInv, Signing
<1>. QED BY <1>8, <1>9, <1>10, <1>11 DEF AccountInv

\* Either outcome of a logout: the session of b's token is deleted or stays, and
\* the cookie is cleared or stays.
LEMMA LogoutInv ==
    ASSUME NEW b \in Browsers, AccountInv, Logout(b) \/ LogoutUnheard(b), UNCHANGED backend
    PROVE  AccountInv'
<1>1. /\ cookie[b] # NoOne /\ cookie[b] \in Tokens
      /\ UNCHANGED <<backend, users, identities, signin>>
  BY DEF Logout, LogoutUnheard, AccountInv, ShapeInv, IdentityType
<1>2. sessions' = sessions \/ sessions' = [sessions EXCEPT ![cookie[b]] = [state |-> "deleted"]]
  BY DEF Logout, LogoutUnheard, Ended
<1>3. cookie' = cookie \/ cookie' = [cookie EXCEPT ![b] = NoOne]
  BY DEF Logout, LogoutUnheard
<1>4. /\ sessions' = [t \in Tokens |-> sessions'[t]]
      /\ \A t \in Tokens : sessions'[t] = sessions[t] \/ sessions'[t].state = "deleted"
  <2>1. CASE sessions' = sessions
    BY <2>1 DEF AccountInv, ShapeInv
  <2>2. CASE sessions' = [sessions EXCEPT ![cookie[b]] = [state |-> "deleted"]]
    BY <1>1, <2>2 DEF AccountInv, ShapeInv
  <2>. QED BY <1>2, <2>1, <2>2
<1>5. /\ cookie' \in [Browsers -> Tokens \cup {NoOne}]
      /\ \A o \in Browsers : cookie'[o] = cookie[o] \/ cookie'[o] = NoOne
  BY <1>3 DEF AccountInv, ShapeInv, IdentityType
<1>6. \A o \in Browsers : cookie'[o] # NoOne =>
        /\ cookie[o] = cookie'[o] /\ cookie[o] \in Tokens
        /\ sessions'[cookie[o]] = sessions[cookie[o]] \/ sessions'[cookie[o]].state = "deleted"
  BY <1>4, <1>5
<1>7. ShapeInv'
  BY <1>1, <1>4, <1>5 DEF AccountInv, ShapeInv, IdentityType
<1>8. OneAccount'
  BY <1>1, <1>6 DEF AccountInv, OneAccount, Signing
<1>9. FlightInv'
  BY <1>1 DEF AccountInv, FlightInv, Inserting, Signing
<1>10. KnownInv'
  BY <1>1, <1>6 DEF AccountInv, KnownInv, Signing
<1>. QED BY <1>7, <1>8, <1>9, <1>10 DEF AccountInv

-----------------------------------------------------------------------------

LEMMA StepAccountInv ==
    ASSUME AccountInv, [Next]_vars
    PROVE  AccountInv'
<1>1. CASE UNCHANGED vars
  BY <1>1, StutterAccountInv DEF vars
<1>2. ASSUME NEW b \in Browsers, Signs(b)
      PROVE  AccountInv'
  <2>. UNCHANGED backend
    BY <1>2 DEF Signs
  <2>. QED
    BY <1>2, SignInInv, UpdateUserInv, InsertIdentityInv, CommitSignInInv, SignInAbortInv,
       MemUpsertIdentityInv, CreateSessionInv, LogoutInv DEF Signs, SignInStep
<1>3. CASE UNCHANGED <<backend, idVars>>
  BY <1>3, StutterAccountInv
<1>4. ASSUME NEW b \in Browsers, ActOnTrip(b)
      PROVE  UNCHANGED <<backend, idVars>>
  BY <1>4 DEF ActOnTrip
<1>5. ASSUME NEW b \in Renters, Uses(b)
      PROVE  UNCHANGED <<backend, idVars>>
  BY <1>5 DEF Uses
<1>6. ASSUME NEW c \in Calls, Handles(c)
      PROVE  UNCHANGED <<backend, idVars>>
  BY <1>6 DEF Handles
<1>7. ASSUME NEW o \in ScriptOrders, ScriptOrder(o)
      PROVE  UNCHANGED <<backend, idVars>>
  BY <1>7 DEF ScriptOrder
<1>8. Tick => UNCHANGED <<backend, idVars>>
  BY DEF Tick
<1>. QED BY <1>1, <1>2, <1>3, <1>4, <1>5, <1>6, <1>7, <1>8 DEF Next

LEMMA AlwaysAccountInv == Spec => []AccountInv
<1>1. Init => AccountInv
  BY InitAccountInv
<1>2. AccountInv /\ [Next]_vars => AccountInv'
  BY StepAccountInv
<1>. QED BY <1>1, <1>2, PTL DEF Spec

\* However many browsers sign in as however many persons at once, in either
\* store, and however often they are cut off: an identity has one account for
\* good, and every session is for the account of the person at the browser.
THEOREM OneAccountAlways == Spec => []OneAccount
<1>1. AccountInv => OneAccount
  BY DEF AccountInv
<1>. QED BY <1>1, AlwaysAccountInv, PTL

\* UpsertIdentity's single retry is enough whatever number of sign-ins race.
THEOREM RetrySufficesAlways == Spec => []RetrySuffices
<1>1. AccountInv => RetrySuffices
  BY DEF AccountInv, FlightInv, RetrySuffices
<1>. QED BY <1>1, AlwaysAccountInv, PTL

-----------------------------------------------------------------------------
(* Sheets and stores: the inductive invariant *)

Bookers == Accounts \cup {o.booker : o \in ScriptOrders}
Keys    == {NoKey} \cup {o.key : o \in ScriptOrders}

Row == [status : {"confirmed", "cancelled", "reaped"}, car : {Car}, booker : Bookers,
        kind : {"rental_hold", "rental", "owner"}, start : Nat, end : Nat, key : Keys,
        created : Nat, exp : Nat]

\* A row some OrderCar has written.  What was reaped had lapsed.
IsRow(x) ==
    /\ x \in Row
    /\ x.kind = "rental_hold" => x.exp = x.created + HoldTTL
    /\ x.status = "reaped" => x.kind = "rental_hold" /\ x.exp <= clock

\* Rows are numbered in the order they are written; a hold memory has booked
\* over had lapsed.
RowsInv ==
    /\ backend \in {"postgres", "memory"} /\ clock \in Nat
    /\ resv = [r \in ResIds |-> resv[r]]
    /\ \A r \in ResIds : resv[r] = NoRow \/ IsRow(resv[r])
    /\ \E n \in 0 .. MaxRes : \A r \in ResIds : resv[r] # NoRow <=> r <= n
    /\ superseded \subseteq ResIds /\ (backend = "postgres" => superseded = {})
    /\ \A r \in superseded : resv[r] # NoRow /\ resv[r].kind = "rental_hold" /\ resv[r].exp < clock

\* Bookings that count do not overlap.
ApartInv ==
    \A r, s \in ResIds :
        r # s /\ Confirmed(r) /\ Confirmed(s) /\ ~Lapsed(r) /\ ~Lapsed(s)
        => ~Overlaps(resv[r], resv[s])

\* No two rows have one key.
KeysInv ==
    \A r, s \in ResIds :
        /\ r # s /\ resv[r].status \in {"confirmed", "cancelled"}
        /\ resv[s].status \in {"confirmed", "cancelled"}
        /\ resv[r].key # NoKey /\ resv[r].key = resv[s].key
        => resv[r].booker # resv[s].booker

StoreInv == RowsInv /\ ApartInv /\ KeysInv

\* The row of a hold of the trip, whatever became of it.
TripRow(r) ==
    /\ r \in ResIds /\ resv[r] # NoRow
    /\ resv[r].start = Trip.start /\ resv[r].end = Trip.end
    /\ resv[r].kind \in {"rental_hold", "rental"}

\* The row of a rental of the person at b.
RentalOf(r, b) ==
    /\ r \in ResIds /\ resv[r] # NoRow /\ resv[r].kind = "rental"
    /\ resv[r].booker = identities[PersonOf[b]] /\ resv[r].booker # NoOne

\* A token that b has been given: its session was never anybody else's.
TokenOf(t, b) ==
    t # NoOne =>
        /\ sessions[t].state # "unused"
        /\ sessions[t].state = "live" => /\ sessions[t].user # NoOne
                                         /\ sessions[t].user = identities[PersonOf[b]]

CallType ==
    [browser : Browsers, op : {"order", "confirm", "cancel"}, row : ResIds \cup {NoRes},
     to : {"sheet", "page", "gone"}, token : Tokens \cup {NoOne},
     answer : {"none", "ok", "taken", "price_changed", "refused", "done"}]

\* What a call may rely on: its token, the row it is about, and once answered the
\* row it was answered with.
CallInv(x) ==
    /\ TokenOf(x.token, x.browser)
    /\ x.op # "order" => x.row \in ResIds
    /\ x.op = "order" /\ x.answer = "ok" => TripRow(x.row)
    /\ x.op = "confirm" /\ x.answer = "ok" => RentalOf(x.row, x.browser)
    /\ x.op = "cancel" => x.answer # "ok"

CallsInv ==
    /\ calls \in [Calls -> CallType \cup {NoCall}]
    /\ \A c \in Calls : calls[c] # NoCall => CallInv(calls[c])

SheetType ==
    [step : {"closed", "quote", "holding", "held", "price_changed"}, hold : ResIds \cup {NoRes}]

SheetsInv ==
    /\ sheet \in [Browsers -> SheetType]
    /\ \A b \in Browsers : sheet[b].step = "held" => TripRow(sheet[b].hold)

SInv == AccountInv /\ StoreInv /\ SheetsInv /\ CallsInv

-----------------------------------------------------------------------------
(* The store *)

LEMMA StatusSet ==
    ASSUME NEW x, IsRow(x), NEW v, NEW y, y = [x EXCEPT !.status = v]
    PROVE  y = [status |-> v, car |-> x.car, booker |-> x.booker, kind |-> x.kind, start |-> x.start,
                end |-> x.end, key |-> x.key, created |-> x.created, exp |-> x.exp]
  BY DEF IsRow, Row

LEMMA MadeRental ==
    ASSUME NEW x, IsRow(x), NEW y, y = [x EXCEPT !.kind = "rental", !.exp = 0]
    PROVE  y = [status |-> x.status, car |-> x.car, booker |-> x.booker, kind |-> "rental",
                start |-> x.start, end |-> x.end, key |-> x.key, created |-> x.created, exp |-> 0]
  BY DEF IsRow, Row

LEMMA RowIsNoNoRow ==
    ASSUME NEW x, IsRow(x)
    PROVE  x # NoRow /\ NoRow.status = "absent"
  BY DEF IsRow, Row, NoRow

\* The next reservation written is the first of those not yet written.
LEMMA NextResIsFree ==
    ASSUME RowsInv
    PROVE  /\ NextRes \in Nat
           /\ \A r \in ResIds : resv[r] # NoRow <=> r < NextRes
<1>1. PICK n \in 0 .. MaxRes : \A r \in ResIds : resv[r] # NoRow <=> r <= n
  BY DEF RowsInv
<1>2. {r \in ResIds : resv[r] # NoRow} = 1 .. n
  BY <1>1, StoreAssumption DEF ResIds
<1>3. Cardinality(1 .. n) = n
  BY FS_Interval, <1>1, StoreAssumption
<1>4. NextRes = n + 1
  BY <1>2, <1>3 DEF NextRes
<1>. QED BY <1>1, <1>4, StoreAssumption DEF ResIds

\* What becomes of a row: a lapsed hold is deleted, a hold that has not lapsed is
\* made a rental, or it is cancelled.
Turns(s) ==
    /\ IsRow(resv[s]) /\ Confirmed(s) /\ resv'[s] \in Row
    /\ resv'[s].booker = resv[s].booker /\ resv'[s].key = resv[s].key
    /\ resv'[s].start = resv[s].start /\ resv'[s].end = resv[s].end
    /\ \/ /\ resv'[s].status = "reaped" /\ backend = "postgres" /\ Lapsed(s)
       \/ /\ resv'[s].status = "cancelled"
       \/ /\ resv'[s].status = "confirmed" /\ resv[s].kind = "rental_hold" /\ ~Lapsed(s)
          /\ resv'[s].kind = "rental"
    /\ resv'[s].status # "confirmed" =>
         /\ resv'[s].kind = resv[s].kind /\ resv'[s].exp = resv[s].exp
         /\ resv'[s].created = resv[s].created

\* A new row, which meets nothing in its way and whose key no row has.
Written(n) ==
    /\ n = NextRes /\ IsRow(resv'[n]) /\ resv'[n].status = "confirmed"
    /\ \A s \in ResIds : Confirmed(s) /\ ~Lapsed(s) => ~Overlaps(resv[s], resv'[n])
    /\ \A s \in ResIds : resv[s].status \in {"confirmed", "cancelled"} /\ resv'[n].key # NoKey =>
          ~(resv[s].booker = resv'[n].booker /\ resv[s].key = resv'[n].key)

\* What no operation of the store takes from a row.
Keeps ==
    \A r \in ResIds : resv[r] # NoRow =>
        /\ resv'[r] # NoRow
        /\ resv'[r].start = resv[r].start /\ resv'[r].end = resv[r].end
        /\ resv'[r].booker = resv[r].booker
        /\ resv[r].kind = "rental" => resv'[r].kind = "rental"
        /\ resv[r].kind = "rental_hold" => resv'[r].kind \in {"rental_hold", "rental"}

LEMMA StoreStep ==
    ASSUME StoreInv, UNCHANGED <<backend, clock>>, resv' = [s \in ResIds |-> resv'[s]],
           \A s \in ResIds : resv'[s] = resv[s] \/ Turns(s) \/ Written(s),
           superseded' \subseteq ResIds, backend = "postgres" => superseded' = {},
           \A s \in superseded' : s \in superseded \/ (Lapsed(s) /\ resv'[s] = resv[s])
    PROVE  StoreInv' /\ Keeps
<1>1. /\ NextRes \in Nat
      /\ \A r \in ResIds : resv[r] # NoRow <=> r < NextRes
  BY NextResIsFree DEF StoreInv
<1>2. \A s \in ResIds : resv[s] = NoRow \/ IsRow(resv[s])
  BY DEF StoreInv, RowsInv
<1>3. ASSUME NEW s \in ResIds, Written(s)
      PROVE  s = NextRes /\ resv[s] = NoRow /\ IsRow(resv'[s])
  BY <1>1, <1>3 DEF Written
<1>4. ASSUME NEW s \in ResIds, Turns(s)
      PROVE  resv[s] # NoRow /\ IsRow(resv'[s])
  <2>1. resv[s] # NoRow
    BY <1>4, RowIsNoNoRow DEF Turns
  <2>2. IsRow(resv'[s])
    BY <1>4 DEF Turns, IsRow, Lapsed, Confirmed, Row
  <2>. QED BY <2>1, <2>2
<1>5. RowsInv'
  <2>1. \A s \in ResIds : resv'[s] = NoRow \/ IsRow(resv'[s])
    BY <1>2, <1>3, <1>4
  <2>2. \E m \in 0 .. MaxRes : \A r \in ResIds : resv'[r] # NoRow <=> r <= m
    <3>1. PICK m \in 0 .. MaxRes : \A r \in ResIds : resv[r] # NoRow <=> r <= m
      BY DEF StoreInv, RowsInv
    <3>2. \A s \in ResIds : (resv'[s] # NoRow <=> resv[s] # NoRow) \/ (s = NextRes /\ resv'[s] # NoRow)
      BY <1>3, <1>4, RowIsNoNoRow
    <3>3. CASE \A s \in ResIds : resv'[s] # NoRow <=> resv[s] # NoRow
      BY <3>1, <3>3
    <3>4. CASE \E s \in ResIds : s = NextRes /\ resv'[s] # NoRow
      <4>1. NextRes \in 0 .. MaxRes
        BY <3>4, StoreAssumption DEF ResIds
      <4>2. \A r \in ResIds : resv'[r] # NoRow <=> r <= NextRes
        BY <1>1, <3>2, <3>4, <4>1, StoreAssumption DEF ResIds
      <4>. QED BY <4>1, <4>2
    <3>. QED BY <3>2, <3>3, <3>4
  <2>3. ASSUME NEW s \in superseded'
        PROVE  resv'[s] # NoRow /\ resv'[s].kind = "rental_hold" /\ resv'[s].exp < clock
    <3>1. s \in ResIds /\ backend = "memory"
      BY DEF StoreInv, RowsInv
    <3>2. CASE Lapsed(s) /\ resv'[s] = resv[s]
      <4>1. resv[s].status = "confirmed" /\ resv[s].kind = "rental_hold" /\ resv[s].exp < clock
        BY <3>1, <3>2 DEF Lapsed, Confirmed
      <4>. QED BY <3>2, <4>1 DEF NoRow
    <3>3. CASE s \in superseded
      <4>1. resv[s] # NoRow /\ resv[s].kind = "rental_hold" /\ resv[s].exp < clock
        BY <3>3 DEF StoreInv, RowsInv
      <4>2. ~Written(s)
        BY <1>3, <3>1, <4>1
      <4>3. CASE Turns(s)
        <5>1. resv'[s].status = "cancelled" /\ resv'[s] \in Row
              /\ resv'[s].kind = resv[s].kind /\ resv'[s].exp = resv[s].exp
          BY <3>1, <4>1, <4>3 DEF Turns, Lapsed
        <5>. QED BY <4>1, <5>1 DEF NoRow
      <4>. QED BY <3>1, <4>1, <4>2, <4>3
    <3>. QED BY <3>2, <3>3
  <2>. QED BY <2>1, <2>2, <2>3 DEF StoreInv, RowsInv, IsRow
<1>6. ApartInv'
  <2>1. ASSUME NEW s \in ResIds, Confirmed(s)', ~Lapsed(s)'
        PROVE  \/ Written(s)
               \/ Confirmed(s) /\ ~Lapsed(s) /\ resv'[s].start = resv[s].start /\ resv'[s].end = resv[s].end
    BY <2>1 DEF Turns, Confirmed, Lapsed
  <2>2. ASSUME NEW r \in ResIds, NEW s \in ResIds, r # s, Confirmed(r)', Confirmed(s)', ~Lapsed(r)', ~Lapsed(s)'
        PROVE  ~Overlaps(resv[r], resv[s])'
    <3>1. CASE Written(r)
      <4>1. ~Written(s)
        BY <1>3, <2>2, <3>1
      <4>2. Confirmed(s) /\ ~Lapsed(s) /\ resv'[s].start = resv[s].start /\ resv'[s].end = resv[s].end
        BY <2>1, <2>2, <4>1
      <4>. QED BY <3>1, <4>2 DEF Written, Overlaps
    <3>2. CASE Written(s)
      <4>1. ~Written(r)
        BY <1>3, <2>2, <3>2
      <4>2. Confirmed(r) /\ ~Lapsed(r) /\ resv'[r].start = resv[r].start /\ resv'[r].end = resv[r].end
        BY <2>1, <2>2, <4>1
      <4>. QED BY <3>2, <4>2 DEF Written, Overlaps
    <3>3. CASE ~Written(r) /\ ~Written(s)
      BY <2>1, <2>2, <3>3 DEF StoreInv, ApartInv, Overlaps
    <3>. QED BY <3>1, <3>2, <3>3
  <2>. QED BY <2>2 DEF ApartInv
<1>7. KeysInv'
  <2>1. ASSUME NEW s \in ResIds, resv'[s].status \in {"confirmed", "cancelled"}
        PROVE  \/ Written(s)
               \/ /\ resv[s].status \in {"confirmed", "cancelled"}
                  /\ resv'[s].key = resv[s].key /\ resv'[s].booker = resv[s].booker
    BY <2>1 DEF Turns, Confirmed
  <2>2. ASSUME NEW r \in ResIds, NEW s \in ResIds, r # s, resv'[r].status \in {"confirmed", "cancelled"},
               resv'[s].status \in {"confirmed", "cancelled"},
               resv'[r].key # NoKey, resv'[r].key = resv'[s].key
        PROVE  resv'[r].booker # resv'[s].booker
    <3>1. CASE Written(r)
      <4>1. ~Written(s)
        BY <1>3, <2>2, <3>1
      <4>. QED BY <2>1, <2>2, <3>1, <4>1 DEF Written
    <3>2. CASE Written(s)
      <4>1. ~Written(r)
        BY <1>3, <2>2, <3>2
      <4>. QED BY <2>1, <2>2, <3>2, <4>1 DEF Written
    <3>3. CASE ~Written(r) /\ ~Written(s)
      BY <2>1, <2>2, <3>3 DEF StoreInv, KeysInv
    <3>. QED BY <3>1, <3>2, <3>3
  <2>. QED BY <2>2 DEF KeysInv
<1>8. Keeps
  <2>1. ASSUME NEW r \in ResIds, resv[r] # NoRow
        PROVE  resv'[r] = resv[r] \/ (Turns(r) /\ resv'[r] # NoRow)
    BY <1>3, <1>4, <2>1, RowIsNoNoRow
  <2>. QED BY <2>1 DEF Keeps, Turns
<1>. QED BY <1>5, <1>6, <1>7, <1>8 DEF StoreInv

-----------------------------------------------------------------------------
(* The operations of the store *)

IsOrder(o) ==
    /\ o.booker \in Bookers /\ o.kind \in {"rental_hold", "rental", "owner"}
    /\ o.start \in Nat /\ o.end \in Nat /\ o.start < o.end /\ o.key \in Keys

LEMMA NewRowIsRow ==
    ASSUME RowsInv, NEW o, IsOrder(o)
    PROVE  /\ IsRow(NewRow(o)) /\ NewRow(o).status = "confirmed"
           /\ NewRow(o).start = o.start /\ NewRow(o).end = o.end /\ NewRow(o).kind = o.kind
           /\ NewRow(o).key = o.key /\ NewRow(o).booker = o.booker
  BY StoreAssumption DEF NewRow, IsRow, Row, RowsInv, IsOrder

\* An order that is not refused meets nothing.
LEMMA NotRefused ==
    ASSUME NEW o, Refusal(o) = "none"
    PROVE  \A s \in ResIds : Confirmed(s) /\ ~Lapsed(s) => ~Overlaps(resv[s], o)
  BY DEF Refusal, MemRefusal, PgRefusal, Unfit, InTheWay

\* The row OrderCar writes, the holds it reaps, those it books over.
LEMMA OrderCarWrites ==
    ASSUME StoreInv, NEW o, IsOrder(o), NextRes \in ResIds,
           resv' = [s \in ResIds |->
                     IF s = NextRes THEN NewRow(o)
                     ELSE IF backend = "postgres" /\ Lapsed(s) THEN [resv[s] EXCEPT !.status = "reaped"]
                     ELSE resv[s]]
    PROVE  /\ resv' = [s \in ResIds |-> resv'[s]]
           /\ \A s \in ResIds : IF s = NextRes THEN resv'[s] = NewRow(o)
                                ELSE IF backend = "postgres" /\ Lapsed(s) THEN Turns(s)
                                ELSE resv'[s] = resv[s]
<1>1. \A s \in ResIds : resv'[s] = IF s = NextRes THEN NewRow(o)
                                   ELSE IF backend = "postgres" /\ Lapsed(s)
                                        THEN [resv[s] EXCEPT !.status = "reaped"]
                                   ELSE resv[s]
  BY Zenon
<1>2. ASSUME NEW s \in ResIds, s # NextRes, backend = "postgres", Lapsed(s)
      PROVE  Turns(s)
  <2>1. IsRow(resv[s]) /\ Confirmed(s)
    BY <1>2 DEF StoreInv, RowsInv, Lapsed, Confirmed, NoRow
  <2>2. resv'[s] = [resv[s] EXCEPT !.status = "reaped"]
    BY <1>1, <1>2, Zenon
  <2>3. resv'[s] = [status |-> "reaped", car |-> resv[s].car, booker |-> resv[s].booker,
                    kind |-> resv[s].kind, start |-> resv[s].start, end |-> resv[s].end,
                    key |-> resv[s].key, created |-> resv[s].created, exp |-> resv[s].exp]
    BY <2>1, <2>2, StatusSet, Zenon
  <2>. QED BY <1>2, <2>1, <2>3 DEF Turns, IsRow, Row
<1>. QED BY <1>1, <1>2

LEMMA UnchangedStore ==
    ASSUME StoreInv, UNCHANGED <<backend, clock, resv, superseded>>
    PROVE  StoreInv' /\ Keeps
  BY DEF StoreInv, RowsInv, IsRow, ApartInv, KeysInv, Keeps, Confirmed, Lapsed, Overlaps

LEMMA OrderCarStep ==
    ASSUME StoreInv, UNCHANGED <<backend, clock>>, NEW o, IsOrder(o),
           NEW r \in ResIds \cup {NoRes}, OrderCar(o, r)
    PROVE  /\ StoreInv' /\ Keeps
           /\ OrderCode(o) = "ok" /\ o.key = NoKey =>
                /\ r \in ResIds /\ resv'[r] # NoRow /\ resv'[r].kind = o.kind
                /\ resv'[r].start = o.start /\ resv'[r].end = o.end
<1>1. CASE r \in ByKey(o) /\ UNCHANGED <<resv, superseded>>
  BY <1>1, UnchangedStore DEF ByKey
<1>2. CASE ByKey(o) = {} /\ Refusal(o) # "none" /\ r = NoRes /\ UNCHANGED <<resv, superseded>>
  <2>1. Refusal(o) # "ok"
    BY DEF Refusal, MemRefusal, PgRefusal, Unfit
  <2>. QED BY <1>2, <2>1, UnchangedStore DEF OrderCode
<1>3. CASE /\ ByKey(o) = {} /\ Refusal(o) = "none" /\ r = NextRes /\ r \in ResIds
           /\ resv' = [s \in ResIds |->
                         IF s = r THEN NewRow(o)
                         ELSE IF backend = "postgres" /\ Lapsed(s) THEN [resv[s] EXCEPT !.status = "reaped"]
                         ELSE resv[s]]
           /\ superseded' = IF backend = "postgres" THEN {}
                            ELSE superseded \cup {s \in ResIds : Lapsed(s) /\ Overlaps(resv[s], o)}
  <2>1. /\ resv' = [s \in ResIds |-> resv'[s]]
        /\ \A s \in ResIds : IF s = NextRes THEN resv'[s] = NewRow(o)
                             ELSE IF backend = "postgres" /\ Lapsed(s) THEN Turns(s)
                             ELSE resv'[s] = resv[s]
    BY <1>3, OrderCarWrites, Zenon
  <2>2. /\ IsRow(NewRow(o)) /\ NewRow(o).status = "confirmed"
        /\ NewRow(o).start = o.start /\ NewRow(o).end = o.end /\ NewRow(o).kind = o.kind
        /\ NewRow(o).key = o.key /\ NewRow(o).booker = o.booker
    BY NewRowIsRow DEF StoreInv
  <2>3. resv'[r] = NewRow(o) /\ r = NextRes /\ r \in ResIds
    BY <1>3, <2>1, Zenon
  <2>4. Written(r)
    <3>1. \A s \in ResIds : Confirmed(s) /\ ~Lapsed(s) => ~Overlaps(resv[s], o)
      BY <1>3, NotRefused, Zenon
    <3>2. \A s \in ResIds : ~(o.key # NoKey /\ resv[s].status \in {"confirmed", "cancelled"}
                               /\ resv[s].booker = o.booker /\ resv[s].key = o.key)
      <4>1. ByKey(o) = {}
        BY <1>3, Zenon
      <4>. QED BY <4>1 DEF ByKey
    <3>. QED BY <2>2, <2>3, <3>1, <3>2 DEF Written, Overlaps
  <2>5. \A s \in ResIds : resv'[s] = resv[s] \/ Turns(s) \/ Written(s)
    BY <2>1, <2>3, <2>4, Zenon
  <2>6. /\ superseded' = IF backend = "postgres" THEN {}
                         ELSE superseded \cup {s \in ResIds : Lapsed(s) /\ Overlaps(resv[s], o)}
    BY <1>3, Zenon
  <2>7. ~Lapsed(NextRes)
    BY <2>3, NextResIsFree DEF StoreInv, Lapsed, Confirmed, NoRow
  <2>8. superseded' \subseteq ResIds /\ (backend = "postgres" => superseded' = {})
    BY <2>6 DEF StoreInv, RowsInv
  <2>9. \A s \in superseded' : s \in superseded \/ (Lapsed(s) /\ resv'[s] = resv[s])
    BY <2>1, <2>6, <2>7
  <2>10. StoreInv' /\ Keeps
    BY <2>1, <2>5, <2>8, <2>9, StoreStep, Zenon
  <2>. QED BY <2>2, <2>3, <2>10, RowIsNoNoRow
<1>. QED BY <1>1, <1>2, <1>3, Zenon DEF OrderCar

LEMMA ConfirmHoldStep ==
    ASSUME StoreInv, UNCHANGED <<backend, clock>>, NEW r \in ResIds, NEW user, ConfirmHold(r, user)
    PROVE  /\ StoreInv' /\ Keeps
           /\ ConfirmCode(r, user) = "ok" => /\ resv'[r] # NoRow /\ resv'[r].kind = "rental"
                                             /\ resv'[r].booker = user
<1>1. CASE ~Confirmable(r, user)
  BY <1>1, UnchangedStore DEF ConfirmHold, ConfirmCode
<1>2. CASE Confirmable(r, user)
  <2>1. resv' = [resv EXCEPT ![r] = [@ EXCEPT !.kind = "rental", !.exp = 0]] /\ UNCHANGED superseded
    BY <1>2, Zenon DEF ConfirmHold
  <2>2. IsRow(resv[r]) /\ Confirmed(r) /\ resv[r].kind = "rental_hold" /\ ~Lapsed(r)
        /\ resv[r].booker = user
    <3>1. Confirmed(r) /\ resv[r].booker = user /\ resv[r].kind = "rental_hold"
      BY <1>2 DEF Confirmable
    <3>2. IsRow(resv[r])
      BY <3>1 DEF StoreInv, RowsInv, Confirmed, NoRow
    <3>. QED BY <1>2, <3>1, <3>2 DEF Confirmable, Lapsed, IsRow, Row, StoreInv, RowsInv
  <2>3. resv = [s \in ResIds |-> resv[s]]
    BY DEF StoreInv, RowsInv
  <2>4. /\ resv'[r] = [resv[r] EXCEPT !.kind = "rental", !.exp = 0]
        /\ \A s \in ResIds : s # r => resv'[s] = resv[s]
    BY <2>1, <2>3, Zenon
  <2>5. resv'[r] = [status |-> resv[r].status, car |-> resv[r].car, booker |-> resv[r].booker,
                    kind |-> "rental", start |-> resv[r].start, end |-> resv[r].end,
                    key |-> resv[r].key, created |-> resv[r].created, exp |-> 0]
    BY <2>2, <2>4, MadeRental, Zenon
  <2>6. resv' = [s \in ResIds |-> resv'[s]] /\ \A s \in ResIds : s # r => resv'[s] = resv[s]
    <3>. DEFINE x == [resv[r] EXCEPT !.kind = "rental", !.exp = 0]
    <3>1. resv' = [resv EXCEPT ![r] = x]
      BY <2>1
    <3>. HIDE DEF x
    <3>. QED BY <2>3, <3>1
  <2>7. Turns(r)
    BY <2>2, <2>5 DEF Turns, IsRow, Row, Confirmed
  <2>8. StoreInv' /\ Keeps
    <3>1. superseded' \subseteq ResIds /\ (backend = "postgres" => superseded' = {})
          /\ \A s \in superseded' : s \in superseded
      BY <2>1 DEF StoreInv, RowsInv
    <3>2. \A s \in ResIds : resv'[s] = resv[s] \/ Turns(s) \/ Written(s)
      BY <2>6, <2>7, Zenon
    <3>. QED BY <2>6, <3>1, <3>2, StoreStep, Zenon
  <2>9. resv'[r] # NoRow
    BY <2>2, <2>5 DEF Confirmed, NoRow
  <2>. QED BY <2>2, <2>5, <2>8, <2>9
<1>. QED BY <1>1, <1>2

LEMMA CancelStep ==
    ASSUME StoreInv, UNCHANGED <<backend, clock>>, NEW r \in ResIds, NEW user,
           CancelReservation(r, user)
    PROVE  StoreInv' /\ Keeps
<1>1. CASE CancelCode(r, user) # "ok"
  BY <1>1, UnchangedStore DEF CancelReservation
<1>2. CASE CancelCode(r, user) = "ok"
  <2>1. resv' = [resv EXCEPT ![r] = [@ EXCEPT !.status = "cancelled"]] /\ UNCHANGED superseded
    BY <1>2, Zenon DEF CancelReservation
  <2>2. IsRow(resv[r]) /\ Confirmed(r)
    BY <1>2 DEF CancelCode, StoreInv, RowsInv, Confirmed, NoRow
  <2>3. resv = [s \in ResIds |-> resv[s]]
    BY DEF StoreInv, RowsInv
  <2>4. resv'[r] = [resv[r] EXCEPT !.status = "cancelled"]
    BY <2>1, <2>3, Zenon
  <2>5. resv'[r] = [status |-> "cancelled", car |-> resv[r].car, booker |-> resv[r].booker,
                    kind |-> resv[r].kind, start |-> resv[r].start, end |-> resv[r].end,
                    key |-> resv[r].key, created |-> resv[r].created, exp |-> resv[r].exp]
    BY <2>2, <2>4, StatusSet, Zenon
  <2>6. resv' = [s \in ResIds |-> resv'[s]] /\ \A s \in ResIds : s # r => resv'[s] = resv[s]
    <3>. DEFINE x == [resv[r] EXCEPT !.status = "cancelled"]
    <3>1. resv' = [resv EXCEPT ![r] = x]
      BY <2>1
    <3>. HIDE DEF x
    <3>. QED BY <2>3, <3>1
  <2>7. Turns(r)
    BY <2>2, <2>5 DEF Turns, IsRow, Row, Confirmed
  <2>8. superseded' \subseteq ResIds /\ (backend = "postgres" => superseded' = {})
        /\ \A s \in superseded' : s \in superseded
    BY <2>1 DEF StoreInv, RowsInv
  <2>9. \A s \in ResIds : resv'[s] = resv[s] \/ Turns(s) \/ Written(s)
    BY <2>6, <2>7, Zenon
  <2>. QED BY <2>6, <2>8, <2>9, StoreStep, Zenon
<1>. QED BY <1>1, <1>2

\* A lapsed hold stays lapsed.
LEMMA TickStore ==
    ASSUME StoreInv, UNCHANGED <<backend, resv, superseded>>, clock' = clock + 1
    PROVE  StoreInv' /\ Keeps
<1>1. clock \in Nat /\ \A s \in ResIds : resv[s] = NoRow \/ IsRow(resv[s])
  BY DEF StoreInv, RowsInv
<1>2. ASSUME NEW s \in ResIds
      PROVE  (resv[s] = NoRow \/ IsRow(resv[s]))' /\ (Lapsed(s) => Lapsed(s)')
  BY <1>1 DEF IsRow, Row, Lapsed, Confirmed, NoRow
<1>3. RowsInv'
  <2>1. \A r \in superseded : resv[r] # NoRow /\ resv[r].kind = "rental_hold" /\ resv[r].exp < clock'
    <3>1. ASSUME NEW r \in superseded
          PROVE  resv[r] # NoRow /\ resv[r].kind = "rental_hold" /\ resv[r].exp < clock /\ resv[r].exp \in Nat
      BY <1>1 DEF StoreInv, RowsInv, IsRow, Row
    <3>. QED BY <1>1, <3>1
  <2>. QED BY <1>1, <1>2, <2>1 DEF StoreInv, RowsInv
<1>4. ApartInv'
  BY <1>2 DEF StoreInv, ApartInv, Confirmed, Overlaps
<1>5. KeysInv' /\ Keeps
  BY DEF StoreInv, KeysInv, Keeps
<1>. QED BY <1>3, <1>4, <1>5 DEF StoreInv

-----------------------------------------------------------------------------
(* Calls and sheets *)

LEMMA CallTo ==
    ASSUME NEW x \in CallType, NEW v, NEW y, y = [x EXCEPT !.to = v]
    PROVE  y = [browser |-> x.browser, op |-> x.op, row |-> x.row, to |-> v, token |-> x.token,
                answer |-> x.answer]
  BY DEF CallType

LEMMA CallAnswered ==
    ASSUME NEW x \in CallType, NEW v, NEW y, y = [x EXCEPT !.answer = v]
    PROVE  y = [browser |-> x.browser, op |-> x.op, row |-> x.row, to |-> x.to, token |-> x.token,
                answer |-> v]
  BY DEF CallType

LEMMA CallAnsweredWith ==
    ASSUME NEW x \in CallType, NEW v, NEW r, NEW y, y = [x EXCEPT !.answer = v, !.row = r]
    PROVE  y = [browser |-> x.browser, op |-> x.op, row |-> r, to |-> x.to, token |-> x.token,
                answer |-> v]
  BY DEF CallType

\* The same call, save for who hears the answer.
Like(x, y) ==
    /\ x \in CallType /\ y \in CallType
    /\ y.browser = x.browser /\ y.op = x.op /\ y.row = x.row /\ y.token = x.token
    /\ y.answer = x.answer

LEMMA LikeRecord ==
    ASSUME NEW x \in CallType, NEW v \in {"sheet", "page", "gone"}, NEW y,
           y = [browser |-> x.browser, op |-> x.op, row |-> x.row, to |-> v, token |-> x.token,
                answer |-> x.answer]
    PROVE  Like(x, y)
  BY DEF Like, CallType

LEMMA LikeTo ==
    ASSUME NEW x \in CallType, NEW v \in {"sheet", "page", "gone"}, NEW y, y = [x EXCEPT !.to = v]
    PROVE  Like(x, y)
<1>1. y = [browser |-> x.browser, op |-> x.op, row |-> x.row, to |-> v, token |-> x.token,
           answer |-> x.answer]
  BY CallTo, Zenon
<1>. QED BY <1>1, LikeRecord, Zenon

LEMMA LeftBehind ==
    ASSUME CallsInv, NEW b
    PROVE  /\ Orphaned(b) = [c \in Calls |-> Orphaned(b)[c]]
           /\ Abandoned(b) = [c \in Calls |-> Abandoned(b)[c]]
           /\ \A c \in Calls : \/ Orphaned(b)[c] = calls[c]
                               \/ calls[c] # NoCall /\ Like(calls[c], Orphaned(b)[c])
           /\ \A c \in Calls : \/ Abandoned(b)[c] \in {NoCall, calls[c]}
                               \/ calls[c] # NoCall /\ Like(calls[c], Abandoned(b)[c])
<1>1. Orphaned(b) = [c \in Calls |-> Orphaned(b)[c]] /\ Abandoned(b) = [c \in Calls |-> Abandoned(b)[c]]
  BY Zenon DEF Orphaned, Abandoned
<1>2. ASSUME NEW c \in Calls, NEW v \in {"sheet", "page", "gone"}, calls[c] # NoCall
      PROVE  Like(calls[c], [calls[c] EXCEPT !.to = v])
  <2>1. calls[c] \in CallType
    BY <1>2 DEF CallsInv
  <2>. QED BY <2>1, LikeTo, Zenon
<1>3. ASSUME NEW c \in Calls
      PROVE  \/ Orphaned(b)[c] = calls[c]
             \/ calls[c] # NoCall /\ Orphaned(b)[c] = [calls[c] EXCEPT !.to = "page"]
  BY Zenon DEF Orphaned
<1>4. ASSUME NEW c \in Calls
      PROVE  \/ Abandoned(b)[c] \in {NoCall, calls[c]}
             \/ calls[c] # NoCall /\ Abandoned(b)[c] = [calls[c] EXCEPT !.to = "gone"]
  <2>1. Abandoned(b)[c] = IF calls[c] = NoCall \/ calls[c].browser # b THEN calls[c]
                     ELSE IF calls[c].answer # "none" THEN NoCall
                     ELSE [calls[c] EXCEPT !.to = "gone"]
    BY Zenon DEF Abandoned
  <2>. QED BY <2>1, Zenon
<1>5. "page" \in {"sheet", "page", "gone"} /\ "gone" \in {"sheet", "page", "gone"}
  OBVIOUS
<1>. QED BY <1>1, <1>2, <1>3, <1>4, <1>5, Zenon

\* What no step takes back: a row, the account of an identity, a given token
\* other than by deleting its session.
Steady ==
    /\ Keeps
    /\ \A p \in Persons : identities[p] # NoOne => identities'[p] = identities[p]
    /\ \A t \in Tokens : sessions[t].state # "unused" =>
          sessions'[t] = sessions[t] \/ sessions'[t].state = "deleted"

LEMMA SteadyFacts ==
    ASSUME Steady
    PROVE  /\ \A r \in ResIds : TripRow(r) => TripRow(r)'
           /\ \A r \in ResIds, b \in Browsers : RentalOf(r, b) => RentalOf(r, b)'
           /\ \A t \in Tokens \cup {NoOne}, b \in Browsers : TokenOf(t, b) => TokenOf(t, b)'
<1>. USE IdentityAssumption
<1>1. \A r \in ResIds : TripRow(r) => TripRow(r)'
  BY DEF TripRow, Steady, Keeps
<1>2. \A r \in ResIds, b \in Browsers : RentalOf(r, b) => RentalOf(r, b)'
  BY DEF RentalOf, Steady, Keeps
<1>3. \A t \in Tokens \cup {NoOne}, b \in Browsers : TokenOf(t, b) => TokenOf(t, b)'
  BY DEF TokenOf, Steady
<1>. QED BY <1>1, <1>2, <1>3

\* Calls stay as they are, go away, or are followed by what CallInv holds of.
LEMMA CallsStep ==
    ASSUME CallsInv, Steady, calls' = [c \in Calls |-> calls'[c]],
           \A c \in Calls :
              \/ calls'[c] \in {NoCall, calls[c]}
              \/ calls[c] # NoCall /\ Like(calls[c], calls'[c])
              \/ calls'[c] \in CallType /\ CallInv(calls[c])'
    PROVE  CallsInv'
<1>1. calls' \in [Calls -> CallType \cup {NoCall}]
  <2>1. \A c \in Calls : calls'[c] \in CallType \cup {NoCall}
    BY DEF CallsInv, Like
  <2>. QED BY <2>1
<1>2. ASSUME NEW c \in Calls, calls'[c] # NoCall, calls[c] # NoCall,
             calls'[c] = calls[c] \/ Like(calls[c], calls'[c])
      PROVE  CallInv(calls[c])'
  <2>1. PICK x \in CallType : x = calls'[c]
    BY <1>1, <1>2
  <2>2. CallInv(calls[c]) /\ calls[c] \in CallType
    BY <1>2 DEF CallsInv
  <2>3. /\ TokenOf(x.token, x.browser)
        /\ x.op # "order" => x.row \in ResIds
        /\ x.op = "order" /\ x.answer = "ok" => TripRow(x.row)
        /\ x.op = "confirm" /\ x.answer = "ok" => RentalOf(x.row, x.browser)
        /\ x.op = "cancel" => x.answer # "ok"
    BY <1>2, <2>1, <2>2 DEF CallInv, Like
  <2>4. x.token \in Tokens \cup {NoOne} /\ x.browser \in Browsers
        /\ (TripRow(x.row) => x.row \in ResIds) /\ (RentalOf(x.row, x.browser) => x.row \in ResIds)
    BY <2>1 DEF CallType, TripRow, RentalOf
  <2>5. /\ TokenOf(x.token, x.browser)'
        /\ TripRow(x.row) => TripRow(x.row)'
        /\ RentalOf(x.row, x.browser) => RentalOf(x.row, x.browser)'
    BY <2>3, <2>4, SteadyFacts
  <2>. QED BY <2>1, <2>3, <2>5 DEF CallInv, TokenOf, TripRow, RentalOf
<1>. QED BY <1>1, <1>2 DEF CallsInv

LEMMA SheetsStep ==
    ASSUME SheetsInv, Steady, NEW b \in Browsers, NEW s \in SheetType,
           s.step = "held" => TripRow(s.hold)',
           sheet' = sheet \/ sheet' = [sheet EXCEPT ![b] = s]
    PROVE  SheetsInv'
<1>1. sheet' \in [Browsers -> SheetType]
  BY DEF SheetsInv
<1>2. ASSUME NEW o \in Browsers, sheet'[o].step = "held"
      PROVE  TripRow(sheet[o].hold)'
  <2>1. PICK x \in SheetType : x = sheet'[o]
    BY <1>1
  <2>2. CASE x = sheet[o]
    <3>1. TripRow(x.hold) /\ x.hold \in ResIds
      BY <1>2, <2>1, <2>2 DEF SheetsInv, TripRow
    <3>2. TripRow(x.hold)'
      BY <3>1, SteadyFacts
    <3>. QED BY <2>1, <3>2 DEF TripRow
  <2>3. CASE x = s
    BY <1>2, <2>1, <2>3 DEF TripRow
  <2>. QED BY <2>1, <2>2, <2>3 DEF SheetsInv
<1>. QED BY <1>1, <1>2 DEF SheetsInv

-----------------------------------------------------------------------------
(* One lemma per kind of step *)

LEMMA StillStore ==
    ASSUME UNCHANGED storeVars
    PROVE  Keeps
  BY DEF Keeps, storeVars

\* Signing in and out takes no account from an identity and gives no token twice.
LEMMA SignsSteady ==
    ASSUME AccountInv, NEW b \in Browsers, Signs(b)
    PROVE  Steady
<1>1. Keeps
  BY StillStore DEF Signs
<1>. USE IdentityAssumption
<1>2. CASE SignIn(b) \/ UpdateUser(b) \/ InsertIdentity(b) \/ SignInAbort(b)
  BY <1>1, <1>2 DEF SignIn, UpdateUser, InsertIdentity, SignInAbort, Steady
<1>3. CASE CommitSignIn(b)
  BY <1>1, <1>3 DEF CommitSignIn, Steady, AccountInv, ShapeInv, IdentityType, FlightInv
<1>4. CASE MemUpsertIdentity(b)
  <2>. DEFINE u == IF identities[PersonOf[b]] = NoOne THEN NextAccount ELSE identities[PersonOf[b]]
  <2>1. identities' = [identities EXCEPT ![PersonOf[b]] = u] /\ UNCHANGED sessions
    BY <1>4, Zenon DEF MemUpsertIdentity
  <2>2. identities[PersonOf[b]] # NoOne => u = identities[PersonOf[b]]
    OBVIOUS
  <2>3. identities \in [Persons -> Accounts \cup {NoOne}]
    BY DEF AccountInv, ShapeInv, IdentityType
  <2>. HIDE DEF u
  <2>. QED BY <1>1, <2>1, <2>2, <2>3 DEF Steady
<1>5. CASE CreateSession(b)
  <2>. DEFINE s == [state |-> "live", user |-> signin[b].user, expires |-> clock + SessionTTL]
  <2>1. sessions' = [sessions EXCEPT ![NextToken] = s] /\ UNCHANGED identities
    BY <1>5 DEF CreateSession
  <2>2. NextToken \in Tokens /\ sessions[NextToken].state = "unused"
    BY <1>5, NextTokenIsUnused DEF CreateSession
  <2>3. sessions = [t \in Tokens |-> sessions[t]]
    BY DEF AccountInv, ShapeInv
  <2>. HIDE DEF s
  <2>. QED BY <1>1, <2>1, <2>2, <2>3 DEF Steady
<1>6. CASE Logout(b) \/ LogoutUnheard(b)
  <2>1. cookie[b] \in Tokens /\ UNCHANGED identities
    BY <1>6 DEF Logout, LogoutUnheard, AccountInv, ShapeInv, IdentityType
  <2>2. sessions' = sessions \/ sessions' = [sessions EXCEPT ![cookie[b]] = [state |-> "deleted"]]
    BY <1>6 DEF Logout, LogoutUnheard, Ended
  <2>3. sessions = [t \in Tokens |-> sessions[t]]
    BY DEF AccountInv, ShapeInv
  <2>. QED BY <1>1, <2>1, <2>2, <2>3 DEF Steady
<1>. QED BY <1>2, <1>3, <1>4, <1>5, <1>6 DEF Signs, SignInStep

LEMMA ClosedSheet ==
    /\ Sheet("closed", NoRes) \in SheetType /\ Sheet("closed", NoRes).step = "closed"
    /\ Sheet("quote", NoRes) \in SheetType /\ Sheet("quote", NoRes).step = "quote"
    /\ Sheet("holding", NoRes) \in SheetType /\ Sheet("holding", NoRes).step = "holding"
    /\ Sheet("price_changed", NoRes) \in SheetType /\ Sheet("price_changed", NoRes).step = "price_changed"
  BY DEF Sheet, SheetType

LEMMA LeaveStep ==
    ASSUME SheetsInv, CallsInv, Steady, NEW b \in Browsers, Leave(b)
    PROVE  SheetsInv' /\ CallsInv'
<1>1. PICK s \in SheetType : s = Sheet("closed", NoRes) /\ s.step = "closed"
  BY ClosedSheet
<1>2. SheetsInv'
  BY <1>1, SheetsStep DEF Leave
<1>3. CallsInv'
  BY LeftBehind, CallsStep DEF Leave
<1>. QED BY <1>2, <1>3

LEMMA StillUI ==
    ASSUME SheetsInv, CallsInv, Steady, UNCHANGED <<sheet, calls>>
    PROVE  SheetsInv' /\ CallsInv'
<1>1. PICK s \in SheetType : s = Sheet("closed", NoRes) /\ s.step = "closed"
  BY ClosedSheet
<1>2. Browsers = {} => SheetsInv'
  BY DEF SheetsInv, TripRow
<1>3. ASSUME NEW b \in Browsers
      PROVE  SheetsInv'
  BY <1>1, SheetsStep
<1>4. CallsInv'
  <2>1. calls = [c \in Calls |-> calls[c]]
    BY DEF CallsInv
  <2>. QED BY <2>1, CallsStep
<1>. QED BY <1>2, <1>3, <1>4

LEMMA SignsStep ==
    ASSUME SInv, NEW b \in Browsers, Signs(b)
    PROVE  StoreInv' /\ SheetsInv' /\ CallsInv'
<1>1. Steady
  BY SignsSteady DEF SInv
<1>2. StoreInv'
  BY UnchangedStore DEF SInv, Signs, storeVars
<1>3. CASE Leave(b)
  BY <1>1, <1>2, <1>3, LeaveStep DEF SInv
<1>4. CASE UNCHANGED <<sheet, calls>>
  BY <1>1, <1>2, <1>4, StillUI DEF SInv
<1>. QED BY <1>2, <1>3, <1>4 DEF Signs

\* Steps that leave accounts and sessions alone.
LEMMA StillAccounts ==
    ASSUME UNCHANGED idVars, Keeps
    PROVE  Steady
  BY DEF Steady, idVars

\* A request carries the cookie of its browser.
LEMMA CookieIsToken ==
    ASSUME AccountInv, NEW b \in Browsers
    PROVE  TokenOf(cookie[b], b) /\ cookie[b] \in Tokens \cup {NoOne}
  BY DEF AccountInv, ShapeInv, IdentityType, OneAccount, KnownInv, TokenOf

LEMMA SendStep ==
    ASSUME AccountInv, CallsInv, Steady, UNCHANGED idVars, NEW b \in Browsers,
           NEW op \in {"order", "confirm", "cancel"}, NEW row \in ResIds \cup {NoRes},
           op # "order" => row \in ResIds, Send(b, op, row)
    PROVE  CallsInv'
<1>1. PICK c \in Calls : calls' = [calls EXCEPT ![c] = Call(b, op, row)]
  BY DEF Send
<1>2. PICK x \in CallType : x = Call(b, op, row)
  BY CookieIsToken DEF Call, CallType
<1>3. /\ x.browser = b /\ x.op = op /\ x.row = row /\ x.token = cookie[b] /\ x.answer = "none"
  BY <1>2 DEF Call
<1>4. TokenOf(x.token, x.browser) /\ x.token \in Tokens \cup {NoOne}
  BY <1>3, CookieIsToken
<1>5. TokenOf(x.token, x.browser)'
  BY <1>3, <1>4, SteadyFacts
<1>6. calls' = [calls EXCEPT ![c] = x]
  BY <1>1, <1>2
<1>7. /\ calls' = [d \in Calls |-> calls'[d]] /\ calls'[c] = x
      /\ \A d \in Calls : d # c => calls'[d] = calls[d]
  BY <1>6 DEF CallsInv
<1>8. CallInv(calls[c])'
  BY <1>3, <1>5, <1>7 DEF CallInv, TokenOf
<1>. QED BY <1>7, <1>8, CallsStep

LEMMA UsesStep ==
    ASSUME SInv, NEW b \in Renters, Uses(b)
    PROVE  StoreInv' /\ SheetsInv' /\ CallsInv'
<1>1. Steady /\ UNCHANGED idVars
  BY StillStore, StillAccounts DEF Uses, storeVars
<1>2. StoreInv'
  BY UnchangedStore DEF SInv, Uses, storeVars
<1>3. b \in Browsers
  BY AppAssumption
<1>4. CASE Open(b)
  <2>1. PICK s \in SheetType : s = Sheet("quote", NoRes) /\ s.step = "quote"
    BY ClosedSheet
  <2>2. SheetsInv'
    BY <1>1, <1>3, <1>4, <2>1, SheetsStep DEF Open, SInv
  <2>3. CallsInv'
    BY <1>1, <1>4, CallsStep DEF Open, SInv, CallsInv
  <2>. QED BY <1>2, <2>2, <2>3
<1>5. CASE Close(b)
  <2>1. PICK s \in SheetType : s = Sheet("closed", NoRes) /\ s.step = "closed"
    BY ClosedSheet
  <2>2. SheetsInv'
    BY <1>1, <1>3, <1>5, <2>1, SheetsStep DEF Close, SInv
  <2>3. CallsInv'
    BY <1>1, <1>5, LeftBehind, CallsStep DEF Close, SInv
  <2>. QED BY <1>2, <2>2, <2>3
<1>6. CASE Hold(b)
  <2>1. PICK s \in SheetType : s = Sheet("holding", NoRes) /\ s.step = "holding"
    BY ClosedSheet
  <2>2. SheetsInv'
    BY <1>1, <1>3, <1>6, <2>1, SheetsStep DEF Hold, SInv
  <2>3. CallsInv'
    BY <1>1, <1>3, <1>6, SendStep DEF Hold, SInv
  <2>. QED BY <1>2, <2>2, <2>3
<1>7. ASSUME NEW op \in {"confirm", "cancel"}, Press(b, op)
      PROVE  SheetsInv' /\ CallsInv'
  <2>1. UNCHANGED sheet /\ Send(b, op, sheet[b].hold) /\ sheet[b].hold \in ResIds
    BY <1>3, <1>7 DEF Press, SInv, SheetsInv, TripRow
  <2>2. PICK row \in ResIds : row = sheet[b].hold
    BY <2>1
  <2>3. Send(b, op, row)
    BY <2>1, <2>2
  <2>4. CallsInv'
    BY <1>1, <1>3, <2>3, SendStep DEF SInv
  <2>5. PICK s \in SheetType : s = Sheet("closed", NoRes) /\ s.step = "closed"
    BY ClosedSheet
  <2>6. SheetsInv'
    BY <1>1, <1>3, <2>1, <2>5, SheetsStep DEF SInv
  <2>. QED BY <2>4, <2>6
<1>. QED BY <1>2, <1>4, <1>5, <1>6, <1>7 DEF Uses

LEMMA ActOnTripStep ==
    ASSUME SInv, NEW b \in Browsers, ActOnTrip(b)
    PROVE  StoreInv' /\ SheetsInv' /\ CallsInv'
<1>1. PICK r \in ResIds, user \in {UserOf(cookie[b])} : ConfirmHold(r, user) \/ CancelReservation(r, user)
  BY DEF ActOnTrip
<1>2. UNCHANGED <<backend, clock, idVars, sheet, calls>>
  BY DEF ActOnTrip
<1>3. StoreInv' /\ Keeps
  BY <1>1, <1>2, ConfirmHoldStep, CancelStep DEF SInv
<1>. QED BY <1>2, <1>3, StillAccounts, StillUI DEF SInv

LEMMA ScriptOrderStep ==
    ASSUME SInv, NEW o \in ScriptOrders, ScriptOrder(o)
    PROVE  StoreInv' /\ SheetsInv' /\ CallsInv'
<1>1. PICK r \in ResIds \cup {NoRes} : OrderCar(o, r)
  BY DEF ScriptOrder
<1>2. UNCHANGED <<backend, clock, idVars, sheet, calls>>
  BY DEF ScriptOrder
<1>3. IsOrder(o)
  BY AppAssumption DEF IsOrder, Bookers, Keys
<1>4. StoreInv' /\ Keeps
  BY <1>1, <1>2, <1>3, OrderCarStep DEF SInv
<1>. QED BY <1>2, <1>4, StillAccounts, StillUI DEF SInv

LEMMA TickStep ==
    ASSUME SInv, Tick
    PROVE  StoreInv' /\ SheetsInv' /\ CallsInv'
<1>1. StoreInv' /\ Keeps
  BY TickStore DEF SInv, Tick, storeVars
<1>. QED BY <1>1, StillAccounts, StillUI DEF SInv, Tick

LEMMA HeardFacts ==
    ASSUME NEW op \in {"order", "confirm", "cancel"}, NEW code
    PROVE  /\ Heard(op, code) \in {"ok", "taken", "price_changed", "refused", "done"}
           /\ Heard(op, code) = "ok" => code = "ok" /\ op # "cancel"
<1>1. CASE op = "cancel"
  BY <1>1 DEF Heard
<1>2. CASE op # "cancel" /\ code \in {"ok", "price_changed"}
  BY <1>2 DEF Heard
<1>3. CASE op # "cancel" /\ code \in {"conflict", "owner_schedule_conflict"}
  BY <1>3 DEF Heard
<1>4. CASE op # "cancel" /\ code \notin {"ok", "price_changed", "conflict", "owner_schedule_conflict"}
  BY <1>4 DEF Heard
<1>. QED BY <1>1, <1>2, <1>3, <1>4

\* The answer to a call is kept for the browser, unless nobody waits for it.
LEMMA AnswerStep ==
    ASSUME CallsInv, Steady, NEW c \in Calls, calls[c] # NoCall,
           NEW code, NEW row \in ResIds \cup {NoRes}, NEW b, b = calls[c].browser,
           Answer(c, code, row),
           calls[c].op # "order" => row \in ResIds,
           calls[c].op = "order" /\ code = "ok" => TripRow(row)',
           calls[c].op = "confirm" /\ code = "ok" => RentalOf(row, b)'
    PROVE  CallsInv'
<1>1. calls[c] \in CallType /\ CallInv(calls[c])
  BY DEF CallsInv
<1>. DEFINE v == Heard(calls[c].op, code)
            x == IF calls[c].to = "gone" THEN NoCall ELSE [calls[c] EXCEPT !.answer = v, !.row = row]
<1>2. v \in {"ok", "taken", "price_changed", "refused", "done"}
      /\ (v = "ok" => code = "ok" /\ calls[c].op # "cancel")
  <2>1. calls[c].op \in {"order", "confirm", "cancel"}
    BY <1>1 DEF CallType
  <2>. QED BY <2>1, HeardFacts
<1>3. calls' = [calls EXCEPT ![c] = x]
  BY Zenon DEF Answer
<1>4. calls[c].to # "gone" =>
        x = [browser |-> calls[c].browser, op |-> calls[c].op, row |-> row, to |-> calls[c].to,
             token |-> calls[c].token, answer |-> v]
  <2>. DEFINE y == [calls[c] EXCEPT !.answer = v, !.row = row]
  <2>1. y = [calls[c] EXCEPT !.answer = v, !.row = row]
    OBVIOUS
  <2>2. x = IF calls[c].to = "gone" THEN NoCall ELSE y
    OBVIOUS
  <2>. HIDE DEF v, x, y
  <2>3. y = [browser |-> calls[c].browser, op |-> calls[c].op, row |-> row, to |-> calls[c].to,
             token |-> calls[c].token, answer |-> v]
    BY <1>1, <2>1, CallAnsweredWith, Zenon
  <2>. QED BY <2>2, <2>3
<1>5. calls[c].to = "gone" => x = NoCall
  OBVIOUS
<1>. HIDE DEF v, x
<1>6. /\ calls' = [d \in Calls |-> calls'[d]] /\ calls'[c] = x
      /\ \A d \in Calls : d # c => calls'[d] = calls[d]
  BY <1>3 DEF CallsInv
<1>7. CASE calls[c].to = "gone"
  BY <1>5, <1>6, <1>7, CallsStep
<1>8. CASE calls[c].to # "gone"
  <2>1. PICK z \in CallType : /\ z = calls'[c]
                              /\ z.browser = b /\ z.op = calls[c].op /\ z.row = row
                              /\ z.token = calls[c].token /\ z.answer = v
    <3>1. x \in CallType /\ x.browser = b /\ x.op = calls[c].op /\ x.row = row
          /\ x.token = calls[c].token /\ x.answer = v
      BY <1>1, <1>2, <1>4, <1>8 DEF CallType
    <3>. QED BY <1>6, <3>1
  <2>2. TokenOf(z.token, b) /\ z.token \in Tokens \cup {NoOne} /\ b \in Browsers
    BY <1>1, <2>1 DEF CallInv, CallType
  <2>3. TokenOf(z.token, b)'
    BY <2>2, SteadyFacts
  <2>4. /\ z.op # "order" => z.row \in ResIds
        /\ z.op = "order" /\ z.answer = "ok" => TripRow(row)'
        /\ z.op = "confirm" /\ z.answer = "ok" => RentalOf(row, b)'
        /\ z.op = "cancel" => z.answer # "ok"
    BY <1>2, <2>1
  <2>5. CallInv(calls[c])'
    BY <2>1, <2>3, <2>4 DEF CallInv, TokenOf, TripRow, RentalOf
  <2>. QED BY <1>6, <2>1, <2>5, CallsStep
<1>. QED BY <1>7, <1>8

\* The user of a request is the account of the person at its browser.
LEMMA UserOfCall ==
    ASSUME AccountInv, CallsInv, NEW c \in Calls, calls[c] # NoCall, UserOf(calls[c].token) # NoOne
    PROVE  /\ UserOf(calls[c].token) = identities[PersonOf[calls[c].browser]]
           /\ UserOf(calls[c].token) \in Accounts
<1>1. calls[c].browser \in Browsers /\ TokenOf(calls[c].token, calls[c].browser)
  BY DEF CallsInv, CallInv, CallType
<1>2. UserOf(calls[c].token) = identities[PersonOf[calls[c].browser]]
  BY <1>1 DEF UserOf, TokenOf
<1>. QED BY <1>1, <1>2, IdentityAssumption DEF AccountInv, ShapeInv, IdentityType

LEMMA ServeStep ==
    ASSUME SInv, NEW c \in Calls, Serve(c), UNCHANGED <<backend, clock, idVars>>
    PROVE  StoreInv' /\ SheetsInv' /\ CallsInv'
<1>1. calls[c] # NoCall /\ UNCHANGED sheet /\ UNCHANGED offer
  BY DEF Serve
<1>2. calls[c] \in CallType /\ CallInv(calls[c])
  BY <1>1 DEF SInv, CallsInv
<1>3. PICK user, b, row : user = UserOf(calls[c].token) /\ b = calls[c].browser /\ row = calls[c].row
  OBVIOUS
<1>4. row \in ResIds \cup {NoRes} /\ (calls[c].op # "order" => row \in ResIds)
  BY <1>2, <1>3 DEF CallInv, CallType
<1>5. user # NoOne => user = identities[PersonOf[b]] /\ user \in Accounts
  BY <1>1, <1>3, UserOfCall DEF SInv
<1>6. Keeps => Steady /\ SheetsInv'
  <2>1. PICK s \in SheetType : s = Sheet("closed", NoRes) /\ s.step = "closed"
    BY ClosedSheet
  <2>2. CASE Browsers = {}
    BY <1>1, <2>2, StillAccounts DEF SInv, SheetsInv, TripRow
  <2>3. ASSUME NEW o \in Browsers
        PROVE  Keeps => Steady /\ SheetsInv'
    BY <1>1, <2>1, StillAccounts, SheetsStep DEF SInv
  <2>. QED BY <2>2, <2>3
<1>7. CASE /\ user = NoOne \/ (calls[c].op = "order" /\ Trip.start + PastGrace < clock)
           /\ Answer(c, "refused", row) /\ UNCHANGED <<resv, superseded>>
  <2>1. StoreInv' /\ Keeps
    BY <1>7, UnchangedStore DEF SInv
  <2>2. CallsInv'
    BY <1>1, <1>3, <1>4, <1>6, <1>7, <2>1, AnswerStep DEF SInv
  <2>. QED BY <1>6, <2>1, <2>2
<1>8. ASSUME calls[c].op = "order", user # NoOne, NEW r \in ResIds \cup {NoRes},
             OrderCar(OrderOf(user), r), Answer(c, OrderCode(OrderOf(user)), r)
      PROVE  StoreInv' /\ SheetsInv' /\ CallsInv'
  <2>1. PICK o, code : o = OrderOf(user) /\ code = OrderCode(o)
    OBVIOUS
  <2>2. /\ IsOrder(o) /\ o.key = NoKey /\ o.kind = "rental_hold"
        /\ o.start = Trip.start /\ o.end = Trip.end
    BY <1>5, <1>8, <2>1, AppAssumption DEF OrderOf, IsOrder, Bookers, Keys
  <2>3. StoreInv' /\ Keeps
        /\ (code = "ok" => /\ r \in ResIds /\ resv'[r] # NoRow /\ resv'[r].kind = "rental_hold"
                           /\ resv'[r].start = Trip.start /\ resv'[r].end = Trip.end)
    BY <1>8, <2>1, <2>2, OrderCarStep DEF SInv
  <2>4. code = "ok" => TripRow(r)'
    BY <2>3 DEF TripRow
  <2>5. CallsInv'
    BY <1>1, <1>3, <1>6, <1>8, <2>1, <2>3, <2>4, AnswerStep DEF SInv
  <2>. QED BY <1>6, <2>3, <2>5
<1>9. CASE /\ calls[c].op = "confirm" /\ user # NoOne
           /\ ConfirmHold(row, user) /\ Answer(c, ConfirmCode(row, user), row)
  <2>1. PICK code : code = ConfirmCode(row, user)
    OBVIOUS
  <2>2. StoreInv' /\ Keeps
        /\ (code = "ok" => resv'[row] # NoRow /\ resv'[row].kind = "rental" /\ resv'[row].booker = user)
    BY <1>4, <1>9, <2>1, ConfirmHoldStep DEF SInv
  <2>3. code = "ok" => RentalOf(row, b)'
    BY <1>4, <1>5, <1>9, <2>2 DEF RentalOf, idVars
  <2>4. CallsInv'
    BY <1>1, <1>3, <1>4, <1>6, <1>9, <2>1, <2>2, <2>3, AnswerStep DEF SInv
  <2>. QED BY <1>6, <2>2, <2>4
<1>10. CASE /\ calls[c].op = "cancel" /\ user # NoOne
            /\ CancelReservation(row, user) /\ Answer(c, CancelCode(row, user), row)
  <2>1. PICK code : code = CancelCode(row, user)
    OBVIOUS
  <2>2. StoreInv' /\ Keeps
    BY <1>4, <1>10, CancelStep DEF SInv
  <2>3. CallsInv'
    BY <1>1, <1>3, <1>4, <1>6, <1>10, <2>1, <2>2, AnswerStep DEF SInv
  <2>. QED BY <1>6, <2>2, <2>3
<1>. QED BY <1>3, <1>7, <1>8, <1>9, <1>10 DEF Serve

LEMMA HearStep ==
    ASSUME SheetsInv, CallsInv, Steady, NEW c \in Calls, calls[c] # NoCall,
           NEW call \in CallType, CallInv(call), NEW left,
           left = NoCall \/ Like(calls[c], left), Hear(c, call, left)
    PROVE  SheetsInv' /\ CallsInv'
<1>. DEFINE b == call.browser
<1>1. b \in Browsers
  BY DEF CallType
<1>2. CASE SheetGoes(call)
  <2>1. sheet' = [sheet EXCEPT ![b] = Sheet("closed", NoRes)] /\ calls' = [Orphaned(b) EXCEPT ![c] = left]
    BY <1>2, Zenon DEF Hear
  <2>2. PICK s \in SheetType : s = Sheet("closed", NoRes) /\ s.step = "closed"
    BY ClosedSheet
  <2>. HIDE DEF b
  <2>3. SheetsInv'
    BY <1>1, <2>1, <2>2, SheetsStep
  <2>4. /\ Orphaned(b) = [d \in Calls |-> Orphaned(b)[d]]
        /\ \A d \in Calls : Orphaned(b)[d] = calls[d] \/ (calls[d] # NoCall /\ Like(calls[d], Orphaned(b)[d]))
    BY LeftBehind
  <2>5. calls' = [d \in Calls |-> calls'[d]]
        /\ \A d \in Calls : calls'[d] = IF d = c THEN left ELSE Orphaned(b)[d]
    BY <2>1, <2>4
  <2>6. \A d \in Calls : calls'[d] \in {NoCall, calls[d]} \/ (calls[d] # NoCall /\ Like(calls[d], calls'[d]))
    BY <2>4, <2>5
  <2>. QED BY <2>3, <2>5, <2>6, CallsStep
<1>3. CASE ~SheetGoes(call)
  <2>1. /\ sheet' = IF call.to = "sheet" THEN [sheet EXCEPT ![b] = AfterAnswer(call)] ELSE sheet
        /\ calls' = [calls EXCEPT ![c] = left]
    BY <1>3, Zenon DEF Hear
  <2>2. PICK s : s = AfterAnswer(call)
    OBVIOUS
  <2>3. s \in SheetType /\ (s.step = "held" => call.op = "order" /\ call.answer = "ok" /\ s.hold = call.row)
    <3>1. CASE call.answer = "ok"
      <4>1. call.op = "order"
        BY <1>3, <3>1 DEF SheetGoes, CallType, CallInv
      <4>2. s = Sheet("held", call.row) /\ call.row \in ResIds \cup {NoRes}
        BY <2>2, <3>1 DEF AfterAnswer, CallType
      <4>. QED BY <3>1, <4>1, <4>2 DEF Sheet, SheetType
    <3>2. CASE call.answer # "ok"
      BY <2>2, <3>2, ClosedSheet DEF AfterAnswer
    <3>. QED BY <3>1, <3>2
  <2>4. s.step = "held" => TripRow(s.hold)'
    <3>1. s.step = "held" => TripRow(s.hold) /\ s.hold \in ResIds
      BY <2>3 DEF CallInv, TripRow
    <3>. QED BY <3>1, SteadyFacts
  <2>. HIDE DEF b
  <2>5. SheetsInv'
    BY <1>1, <2>1, <2>2, <2>3, <2>4, SheetsStep
  <2>6. /\ calls' = [d \in Calls |-> calls'[d]] /\ calls'[c] = left
        /\ \A d \in Calls : d # c => calls'[d] = calls[d]
    BY <2>1 DEF CallsInv
  <2>7. \A d \in Calls : calls'[d] \in {NoCall, calls[d]} \/ (calls[d] # NoCall /\ Like(calls[d], calls'[d]))
    BY <2>6
  <2>. QED BY <2>5, <2>6, <2>7, CallsStep
<1>. QED BY <1>2, <1>3

LEMMA DeliverStep ==
    ASSUME SInv, NEW c \in Calls, Deliver(c), UNCHANGED <<backend, clock, idVars>>
    PROVE  StoreInv' /\ SheetsInv' /\ CallsInv'
<1>1. Steady
  BY StillStore, StillAccounts DEF Deliver
<1>2. StoreInv'
  BY UnchangedStore DEF SInv, Deliver, storeVars
<1>3. PICK call \in CallType : call = calls[c] /\ CallInv(call) /\ calls[c] # NoCall
  BY DEF Deliver, SInv, CallsInv
<1>4. PICK left : left = NoCall
  OBVIOUS
<1>5. Hear(c, call, left)
  BY <1>3, <1>4 DEF Deliver
<1>. QED BY <1>1, <1>2, <1>3, <1>4, <1>5, HearStep DEF SInv

LEMMA LoseStep ==
    ASSUME SInv, NEW c \in Calls, Lose(c), UNCHANGED <<backend, clock, idVars>>
    PROVE  StoreInv' /\ SheetsInv' /\ CallsInv'
<1>1. Steady
  BY StillStore, StillAccounts DEF Lose
<1>2. StoreInv'
  BY UnchangedStore DEF SInv, Lose, storeVars
<1>3. calls[c] # NoCall /\ calls[c] \in CallType /\ CallInv(calls[c])
  BY DEF Lose, SInv, CallsInv
<1>4. CASE calls' = [calls EXCEPT ![c] = NoCall] /\ UNCHANGED sheet
  <2>1. PICK s \in SheetType : s = Sheet("closed", NoRes) /\ s.step = "closed"
    BY ClosedSheet
  <2>2. calls[c].browser \in Browsers
    BY <1>3 DEF CallType
  <2>3. SheetsInv'
    BY <1>1, <1>4, <2>1, <2>2, SheetsStep DEF SInv
  <2>4. /\ calls' = [d \in Calls |-> calls'[d]]
        /\ \A d \in Calls : calls'[d] \in {NoCall, calls[d]}
    BY <1>4 DEF SInv, CallsInv
  <2>5. CallsInv'
    BY <1>1, <2>4, CallsStep DEF SInv
  <2>. QED BY <1>2, <2>3, <2>5
<1>5. CASE \E left \in {NoCall, [calls[c] EXCEPT !.to = "gone"]} :
               Hear(c, [calls[c] EXCEPT !.answer = "refused"], left)
  <2>1. PICK left \in {NoCall, [calls[c] EXCEPT !.to = "gone"]} :
               Hear(c, [calls[c] EXCEPT !.answer = "refused"], left)
    BY <1>5
  <2>2. left = NoCall \/ Like(calls[c], left)
    <3>1. "gone" \in {"sheet", "page", "gone"}
      OBVIOUS
    <3>. QED BY <1>3, <2>1, <3>1, LikeTo, Zenon
  <2>3. PICK call : call = [calls[c] EXCEPT !.answer = "refused"]
    BY Zenon
  <2>4. call = [browser |-> calls[c].browser, op |-> calls[c].op, row |-> calls[c].row,
                to |-> calls[c].to, token |-> calls[c].token, answer |-> "refused"]
    BY <1>3, <2>3, CallAnswered, Zenon
  <2>5. Hear(c, call, left)
    BY <2>1, <2>3, Zenon
  <2>. HIDE <1>5, <2>1, <2>3
  <2>6. call \in CallType /\ CallInv(call)
    <3>1. /\ call \in CallType /\ call.op = calls[c].op /\ call.row = calls[c].row
          /\ call.token = calls[c].token /\ call.browser = calls[c].browser /\ call.answer = "refused"
      BY <1>3, <2>4 DEF CallType
    <3>. QED BY <1>3, <3>1 DEF CallInv
  <2>. QED BY <1>1, <1>2, <1>3, <2>2, <2>5, <2>6, HearStep DEF SInv
<1>. QED BY <1>4, <1>5, Zenon DEF Lose

-----------------------------------------------------------------------------

LEMMA InitSInv == Init => SInv
<1>. SUFFICES ASSUME Init PROVE SInv
  OBVIOUS
<1>. USE DEF Init, StoreInit
<1>1. AccountInv
  BY InitAccountInv
<1>2. RowsInv
  BY StoreAssumption DEF RowsInv, ResIds
<1>3. ApartInv /\ KeysInv
  BY DEF ApartInv, KeysInv, Confirmed, NoRow
<1>4. SheetsInv
  BY DEF SheetsInv, SheetType, Sheet
<1>5. CallsInv
  BY DEF CallsInv
<1>. QED BY <1>1, <1>2, <1>3, <1>4, <1>5 DEF SInv, StoreInv

LEMMA StepSInv ==
    ASSUME SInv, [Next]_vars
    PROVE  SInv'
<1>1. AccountInv'
  BY StepAccountInv DEF SInv
<1>2. CASE UNCHANGED vars
  <2>1. StoreInv' /\ Keeps
    BY <1>2, UnchangedStore DEF SInv, vars, storeVars
  <2>2. SheetsInv' /\ CallsInv'
    BY <1>2, <2>1, StillAccounts, StillUI DEF SInv, vars
  <2>. QED BY <1>1, <2>1, <2>2 DEF SInv
<1>3. ASSUME NEW c \in Calls, Handles(c)
      PROVE  StoreInv' /\ SheetsInv' /\ CallsInv'
  BY <1>3, ServeStep, DeliverStep, LoseStep DEF Handles
<1>4. CASE Next
  BY <1>1, <1>3, <1>4, SignsStep, ActOnTripStep, UsesStep, ScriptOrderStep, TickStep DEF Next, SInv
<1>. QED BY <1>2, <1>4

LEMMA AlwaysSInv == Spec => []SInv
<1>1. Init => SInv
  BY InitSInv
<1>2. SInv /\ [Next]_vars => SInv'
  BY StepSInv
<1>. QED BY <1>1, <1>2, PTL DEF Spec

-----------------------------------------------------------------------------
(* The ledger of either store *)

LEMMA StandingRows ==
    \A s \in ResIds :
        /\ s \notin superseded => Standing[s] = resv[s]
        /\ s \in superseded => Standing[s] = [resv[s] EXCEPT !.status = "reaped"]
  BY Zenon DEF Standing

LEMMA SupersededStands ==
    ASSUME RowsInv, NEW s \in superseded
    PROVE  Standing[s].status = "reaped" /\ s \in ResIds /\ IsRow(resv[s])
<1>1. s \in ResIds /\ IsRow(resv[s])
  BY DEF RowsInv
<1>2. Standing[s] = [resv[s] EXCEPT !.status = "reaped"]
  BY <1>1, StandingRows, Zenon
<1>3. Standing[s] = [status |-> "reaped", car |-> resv[s].car, booker |-> resv[s].booker,
                     kind |-> resv[s].kind, start |-> resv[s].start, end |-> resv[s].end,
                     key |-> resv[s].key, created |-> resv[s].created, exp |-> resv[s].exp]
  BY <1>1, <1>2, StatusSet, Zenon
<1>. QED BY <1>1, <1>3

\* A booking appears, and the lapsed holds it replaces disappear with it.
LEMMA LedgerBooks ==
    ASSUME NEW r \in ResIds, NEW gone \in SUBSET ResIds, NEW row,
           Standing[r].status = "absent", row.status = "confirmed",
           \A s \in gone : Ledger!LapsedHold(s, row.car),
           Ledger!Admissible(r, row, gone),
           Standing' = [s \in ResIds |->
                          IF s = r THEN row
                          ELSE IF s \in gone THEN [Standing[s] EXCEPT !.status = "reaped"]
                          ELSE Standing[s]],
           UNCHANGED clock
    PROVE  Ledger!Next
<1>1. Standing'[r] = row
  BY Zenon
<1>2. Ledger!Book(r)
  BY <1>1, Zenon DEF Ledger!Book
<1>. QED BY <1>2 DEF Ledger!Next

\* The holds a new booking takes the place of.
Replaced(o) ==
    {s \in ResIds \ superseded : Lapsed(s) /\ (backend = "postgres" \/ Overlaps(resv[s], o))}

LEMMA OrderIsAdmissible ==
    ASSUME StoreInv, NEW o, IsOrder(o), NEW r \in ResIds, ByKey(o) = {}, Refusal(o) = "none"
    PROVE  Ledger!Admissible(r, NewRow(o), Replaced(o))
<1>. DEFINE row == NewRow(o)
<1>1. /\ IsRow(row) /\ row.status = "confirmed" /\ row.start = o.start /\ row.end = o.end
      /\ row.key = o.key /\ row.booker = o.booker /\ row.car = Car /\ row.created = clock
      /\ clock \in Nat
  BY NewRowIsRow DEF StoreInv, RowsInv, NewRow
<1>2. \A s \in superseded : Standing[s].status = "reaped" /\ s \in ResIds
  BY SupersededStands DEF StoreInv
<1>3. \A s \in ResIds \ superseded : Standing[s] = resv[s]
  BY StandingRows
<1>. HIDE DEF row
<1>4. ASSUME NEW s \in ResIds \ Replaced(o)
      PROVE  /\ Standing[s].status = "confirmed" /\ Standing[s].car = row.car =>
                   \A t \in row.start .. row.end - 1 : t \notin Standing[s].start .. Standing[s].end - 1
             /\ Standing[s].status \in {"confirmed", "cancelled"} /\ row.key # NoKey =>
                   ~(Standing[s].booker = row.booker /\ Standing[s].key = row.key)
  <2>1. CASE s \in superseded
    BY <1>2, <2>1
  <2>2. CASE s \notin superseded
    <3>1. Standing[s] = resv[s]
      BY <1>3, <2>2
    <3>2. ASSUME resv[s].status = "confirmed", NEW t \in row.start .. row.end - 1,
                 t \in resv[s].start .. resv[s].end - 1
          PROVE  FALSE
      <4>1. IsRow(resv[s]) /\ Confirmed(s)
        BY <3>2 DEF StoreInv, RowsInv, NoRow, Confirmed
      <4>2. Overlaps(resv[s], o)
        BY <1>1, <3>2, <4>1 DEF Overlaps, IsOrder, IsRow, Row
      <4>3. ~Lapsed(s)
        BY <2>2, <4>2 DEF Replaced
      <4>. QED BY <4>1, <4>2, <4>3, NotRefused
    <3>3. resv[s].status \in {"confirmed", "cancelled"} /\ o.key # NoKey =>
             ~(resv[s].booker = o.booker /\ resv[s].key = o.key)
      BY DEF ByKey
    <3>. QED BY <1>1, <3>1, <3>2, <3>3
  <2>. QED BY <2>1, <2>2
<1>5. row.created <= clock /\ (row.kind = "rental_hold" => row.exp = row.created + HoldTTL)
  BY <1>1 DEF IsRow
<1>. QED BY <1>4, <1>5 DEF Ledger!Admissible, Ledger!Instants, row

LEMMA ReplacedLapsed ==
    ASSUME StoreInv, NEW o
    PROVE  \A s \in Replaced(o) : Ledger!LapsedHold(s, Car)
<1>1. ASSUME NEW s \in Replaced(o)
      PROVE  s \in ResIds /\ s \notin superseded /\ Confirmed(s) /\ resv[s].kind = "rental_hold"
             /\ IsRow(resv[s]) /\ (resv[s].exp <= clock \/ resv[s].exp < clock) /\ clock \in Nat
  BY DEF Replaced, Lapsed, StoreInv, RowsInv, Confirmed, NoRow
<1>2. \A s \in Replaced(o) : Standing[s] = resv[s]
  BY <1>1, StandingRows
<1>. QED BY <1>1, <1>2 DEF Ledger!LapsedHold, Confirmed, IsRow, Row

LEMMA OrderBooks ==
    ASSUME StoreInv, UNCHANGED <<backend, clock>>, NEW o, IsOrder(o), NEW r \in ResIds, r = NextRes,
           ByKey(o) = {}, Refusal(o) = "none",
           resv' = [s \in ResIds |->
                     IF s = r THEN NewRow(o)
                     ELSE IF backend = "postgres" /\ Lapsed(s) THEN [resv[s] EXCEPT !.status = "reaped"]
                     ELSE resv[s]],
           superseded' = IF backend = "postgres" THEN {}
                         ELSE superseded \cup {s \in ResIds : Lapsed(s) /\ Overlaps(resv[s], o)}
    PROVE  Ledger!Next
<1>. DEFINE gone == Replaced(o)
            row == NewRow(o)
<1>1. /\ IsRow(row) /\ row.status = "confirmed" /\ row.start = o.start /\ row.end = o.end
      /\ row.key = o.key /\ row.booker = o.booker /\ row.car = Car /\ row.created = clock
  BY NewRowIsRow DEF StoreInv, NewRow
<1>2. resv[r] = NoRow /\ ~Lapsed(r) /\ r \notin superseded /\ r \notin gone
  BY NextResIsFree DEF Replaced, StoreInv, RowsInv, Lapsed, Confirmed, NoRow
<1>3. \A s \in superseded : Standing[s].status = "reaped" /\ s \in ResIds
  BY SupersededStands DEF StoreInv
<1>4. \A s \in ResIds \ superseded : Standing[s] = resv[s]
  BY StandingRows
<1>5. Standing' = [s \in ResIds |->
                     IF s = r THEN row
                     ELSE IF s \in gone THEN [Standing[s] EXCEPT !.status = "reaped"]
                     ELSE Standing[s]]
  <2>1. ASSUME NEW s \in ResIds
        PROVE  Standing'[s] = IF s = r THEN row
                              ELSE IF s \in gone THEN [Standing[s] EXCEPT !.status = "reaped"]
                              ELSE Standing[s]
    <3>1. CASE s = r
      <4>1. r \notin superseded' /\ resv'[r] = row
        BY <1>2, Zenon
      <4>. QED BY <3>1, <4>1, Zenon DEF Standing
    <3>2. CASE s # r /\ backend = "postgres"
      <4>1. superseded = {} /\ superseded' = {}
        BY <3>2 DEF StoreInv, RowsInv
      <4>2. Standing[s] = resv[s] /\ Standing'[s] = resv'[s] /\ (s \in gone <=> Lapsed(s))
        BY <3>2, <4>1, Zenon DEF Standing, Replaced
      <4>3. resv'[s] = IF Lapsed(s) THEN [resv[s] EXCEPT !.status = "reaped"] ELSE resv[s]
        BY <3>2, Zenon
      <4>. QED BY <3>2, <4>2, <4>3, Zenon
    <3>3. CASE s # r /\ backend # "postgres"
      <4>1. resv'[s] = resv[s]
        BY <3>3, Zenon
      <4>2. s \in superseded' <=> s \in superseded \/ (Lapsed(s) /\ Overlaps(resv[s], o))
        BY <3>3, Zenon
      <4>3. CASE s \in superseded
        <5>1. s \notin gone /\ s \in superseded'
          BY <4>2, <4>3, Zenon DEF Replaced
        <5>2. Standing'[s] = [resv'[s] EXCEPT !.status = "reaped"]
              /\ Standing[s] = [resv[s] EXCEPT !.status = "reaped"]
          BY <4>3, <5>1, Zenon DEF Standing
        <5>. QED BY <3>3, <4>1, <5>1, <5>2, Zenon
      <4>4. CASE s \notin superseded
        <5>1. Standing[s] = resv[s] /\ (s \in gone <=> s \in superseded')
          BY <3>3, <4>2, <4>4, Zenon DEF Standing, Replaced
        <5>2. Standing'[s] = IF s \in superseded' THEN [resv'[s] EXCEPT !.status = "reaped"] ELSE resv'[s]
          BY Zenon DEF Standing
        <5>. QED BY <3>3, <4>1, <5>1, <5>2, Zenon
      <4>. QED BY <4>3, <4>4, Zenon
    <3>. QED BY <3>1, <3>2, <3>3, Zenon
  <2>2. Standing' = [s \in ResIds |-> Standing'[s]]
    BY Zenon DEF Standing
  <2>. HIDE DEF gone, row
  <2>. QED BY <2>1, <2>2, Zenon
<1>6. gone \in SUBSET ResIds /\ \A s \in gone : s \in ResIds /\ Lapsed(s) /\ s \notin superseded
  BY Zenon DEF Replaced
<1>7. \A s \in gone : Ledger!LapsedHold(s, row.car)
  BY <1>1, ReplacedLapsed, Zenon
<1>8. Ledger!Admissible(r, row, gone)
  BY OrderIsAdmissible, Zenon
<1>. HIDE DEF gone, row
<1>9. Standing[r].status = "absent"
  BY <1>2, <1>4 DEF NoRow
<1>. QED BY <1>1, <1>5, <1>6, <1>7, <1>8, <1>9, LedgerBooks, Zenon

LEMMA LedgerStutters ==
    ASSUME UNCHANGED <<clock, resv, superseded>>
    PROVE  UNCHANGED <<clock, Standing>>
  BY Zenon DEF Standing

LEMMA ConfirmConfirms ==
    ASSUME StoreInv, UNCHANGED <<backend, clock>>, NEW r \in ResIds, NEW user, ConfirmHold(r, user)
    PROVE  Ledger!Next \/ UNCHANGED <<clock, Standing>>
<1>1. CASE ~Confirmable(r, user)
  <2>1. UNCHANGED <<clock, resv, superseded>>
    BY <1>1, Zenon DEF ConfirmHold
  <2>. QED BY <2>1, LedgerStutters
<1>2. CASE Confirmable(r, user)
  <2>. DEFINE x == [resv[r] EXCEPT !.kind = "rental", !.exp = 0]
              y == [Standing[r] EXCEPT !.kind = "rental", !.exp = 0]
  <2>1. resv' = [resv EXCEPT ![r] = x] /\ superseded' = superseded
    BY <1>2, Zenon DEF ConfirmHold
  <2>2. resv = [s \in ResIds |-> resv[s]]
    BY DEF StoreInv, RowsInv
  <2>3. Confirmed(r) /\ resv[r].kind = "rental_hold"
    BY <1>2, Zenon DEF Confirmable
  <2>4. r \notin superseded
    <3>1. r \in superseded => resv[r].exp < clock /\ backend = "memory" /\ resv[r].exp \in Nat /\ clock \in Nat
      BY DEF StoreInv, RowsInv, IsRow, Row
    <3>2. backend = "memory" => resv[r].exp >= clock
      BY <1>2 DEF Confirmable
    <3>. QED BY <3>1, <3>2
  <2>5. Standing[r] = resv[r] /\ y = x
    <3>1. Standing[r] = resv[r]
      BY <2>4, StandingRows
    <3>. QED BY <3>1, Zenon
  <2>. HIDE DEF x
  <2>6. resv'[r] = x /\ \A s \in ResIds : s # r => resv'[s] = resv[s]
    BY <2>1, <2>2
  <2>7. \A s \in ResIds : Standing'[s] = IF s = r THEN x ELSE Standing[s]
    <3>1. ASSUME NEW s \in ResIds, s # r
          PROVE  Standing'[s] = Standing[s]
      <4>1. resv'[s] = resv[s]
        BY <2>6, <3>1
      <4>2. superseded' = superseded
        BY <2>1
      <4>3. s \in superseded' => Standing'[s] = [resv'[s] EXCEPT !.status = "reaped"]
        BY Zenon DEF Standing
      <4>4. s \notin superseded' => Standing'[s] = resv'[s]
        BY Zenon DEF Standing
      <4>. QED BY <4>1, <4>2, <4>3, <4>4, StandingRows, Zenon
    <3>2. Standing'[r] = x
      BY <2>1, <2>4, <2>6, Zenon DEF Standing
    <3>. QED BY <3>1, <3>2, Zenon
  <2>8. /\ Standing = [s \in ResIds |-> Standing[s]] /\ Standing' = [s \in ResIds |-> Standing'[s]]
    BY Zenon DEF Standing
  <2>9. Standing' = [Standing EXCEPT ![r] = x]
    BY <2>7, <2>8
  <2>10. Standing' = [Standing EXCEPT ![r] = [@ EXCEPT !.kind = "rental", !.exp = 0]]
    BY <2>5, <2>9, Zenon
  <2>11. Ledger!Confirm(r)
    BY <2>3, <2>5, <2>10, Zenon DEF Ledger!Confirm, Confirmed
  <2>. QED BY <2>11 DEF Ledger!Next
<1>. QED BY <1>1, <1>2

\* Memory lets a hold be cancelled that it has booked over; nobody can tell.
LEMMA CancelCancels ==
    ASSUME StoreInv, UNCHANGED <<backend, clock>>, NEW r \in ResIds, NEW user,
           CancelReservation(r, user)
    PROVE  Ledger!Next \/ UNCHANGED <<clock, Standing>>
<1>1. CASE CancelCode(r, user) # "ok"
  <2>1. UNCHANGED <<clock, resv, superseded>>
    BY <1>1, Zenon DEF CancelReservation
  <2>. QED BY <2>1, LedgerStutters
<1>2. CASE CancelCode(r, user) = "ok"
  <2>. DEFINE x == [resv[r] EXCEPT !.status = "cancelled"]
              y == [Standing[r] EXCEPT !.status = "cancelled"]
  <2>1. resv' = [resv EXCEPT ![r] = x] /\ superseded' = superseded
    BY <1>2, Zenon DEF CancelReservation
  <2>2. resv = [s \in ResIds |-> resv[s]]
    BY DEF StoreInv, RowsInv
  <2>3. Confirmed(r) /\ IsRow(resv[r])
    BY <1>2 DEF CancelCode, StoreInv, RowsInv, Confirmed, NoRow
  <2>4. x = [status |-> "cancelled", car |-> resv[r].car, booker |-> resv[r].booker,
             kind |-> resv[r].kind, start |-> resv[r].start, end |-> resv[r].end,
             key |-> resv[r].key, created |-> resv[r].created, exp |-> resv[r].exp]
    <3>1. x = [resv[r] EXCEPT !.status = "cancelled"]
      OBVIOUS
    <3>. QED BY <2>3, <3>1, StatusSet, Zenon
  <2>5. r \notin superseded => y = x
    BY StandingRows, Zenon
  <2>. HIDE DEF x
  <2>6. resv'[r] = x /\ \A s \in ResIds : s # r => resv'[s] = resv[s]
    BY <2>1, <2>2
  <2>7. ASSUME NEW s \in ResIds, s # r
        PROVE  Standing'[s] = Standing[s]
    <3>1. resv'[s] = resv[s]
      BY <2>6, <2>7
    <3>2. superseded' = superseded
      BY <2>1
    <3>3. s \in superseded' => Standing'[s] = [resv'[s] EXCEPT !.status = "reaped"]
      BY Zenon DEF Standing
    <3>4. s \notin superseded' => Standing'[s] = resv'[s]
      BY Zenon DEF Standing
    <3>. QED BY <3>1, <3>2, <3>3, <3>4, StandingRows, Zenon
  <2>8. /\ Standing = [s \in ResIds |-> Standing[s]] /\ Standing' = [s \in ResIds |-> Standing'[s]]
    BY Zenon DEF Standing
  <2>9. CASE r \in superseded
    <3>. DEFINE z == [x EXCEPT !.status = "reaped"]
    <3>1. Standing'[r] = z
      BY <2>1, <2>6, <2>9, Zenon DEF Standing
    <3>2. Standing[r] = [resv[r] EXCEPT !.status = "reaped"]
      BY <2>9, StandingRows, Zenon
    <3>3. Standing[r] = [status |-> "reaped", car |-> resv[r].car, booker |-> resv[r].booker,
                         kind |-> resv[r].kind, start |-> resv[r].start, end |-> resv[r].end,
                         key |-> resv[r].key, created |-> resv[r].created, exp |-> resv[r].exp]
      BY <2>3, <3>2, StatusSet, Zenon
    <3>4. IsRow(x) /\ x.car = resv[r].car /\ x.booker = resv[r].booker /\ x.kind = resv[r].kind
          /\ x.start = resv[r].start /\ x.end = resv[r].end /\ x.key = resv[r].key
          /\ x.created = resv[r].created /\ x.exp = resv[r].exp
      BY <2>3, <2>4 DEF IsRow, Row
    <3>5. z = [status |-> "reaped", car |-> x.car, booker |-> x.booker,
               kind |-> x.kind, start |-> x.start, end |-> x.end,
               key |-> x.key, created |-> x.created, exp |-> x.exp]
      BY <3>4, StatusSet, Zenon
    <3>. HIDE DEF z
    <3>6. Standing'[r] = Standing[r]
      <4>. HIDE <3>2
      <4>. QED BY <3>1, <3>3, <3>4, <3>5
    <3>7. \A s \in ResIds : Standing'[s] = Standing[s]
      BY <2>7, <3>6
    <3>. QED BY <2>8, <3>7, Zenon
  <2>10. CASE r \notin superseded
    <3>1. Standing'[r] = x /\ Standing[r] = resv[r]
      BY <2>1, <2>6, <2>10, Zenon DEF Standing
    <3>2. Standing' = [Standing EXCEPT ![r] = x]
      BY <2>7, <2>8, <3>1
    <3>3. Standing' = [Standing EXCEPT ![r] = [@ EXCEPT !.status = "cancelled"]]
      BY <2>5, <2>10, <3>2, Zenon
    <3>4. Ledger!Cancel(r)
      BY <2>3, <3>1, <3>3, Zenon DEF Ledger!Cancel, Confirmed
    <3>. QED BY <3>4 DEF Ledger!Next
  <2>. QED BY <2>9, <2>10
<1>. QED BY <1>1, <1>2

LEMMA OrderMaps ==
    ASSUME StoreInv, UNCHANGED <<backend, clock>>, NEW o, IsOrder(o),
           NEW r \in ResIds \cup {NoRes}, OrderCar(o, r)
    PROVE  Ledger!Next \/ UNCHANGED <<clock, Standing>>
<1>1. CASE UNCHANGED <<resv, superseded>>
  BY <1>1, LedgerStutters, Zenon
<1>2. CASE ~UNCHANGED <<resv, superseded>>
  <2>1. /\ ByKey(o) = {} /\ Refusal(o) = "none" /\ r = NextRes /\ r \in ResIds
        /\ resv' = [s \in ResIds |->
                      IF s = r THEN NewRow(o)
                      ELSE IF backend = "postgres" /\ Lapsed(s) THEN [resv[s] EXCEPT !.status = "reaped"]
                      ELSE resv[s]]
        /\ superseded' = IF backend = "postgres" THEN {}
                         ELSE superseded \cup {s \in ResIds : Lapsed(s) /\ Overlaps(resv[s], o)}
    BY <1>2, Zenon DEF OrderCar
  <2>. QED BY <2>1, OrderBooks, Zenon
<1>. QED BY <1>1, <1>2

LEMMA ServeMaps ==
    ASSUME SInv, NEW c \in Calls, Serve(c), UNCHANGED <<backend, clock, idVars>>
    PROVE  Ledger!Next \/ UNCHANGED <<clock, Standing>>
<1>1. calls[c] # NoCall /\ calls[c] \in CallType /\ CallInv(calls[c])
  BY DEF Serve, SInv, CallsInv
<1>2. PICK user, row : user = UserOf(calls[c].token) /\ row = calls[c].row
  OBVIOUS
<1>3. user # NoOne => user \in Accounts
  BY <1>1, <1>2, UserOfCall DEF SInv
<1>4. CASE UNCHANGED <<resv, superseded>>
  BY <1>4, LedgerStutters, Zenon
<1>5. ASSUME user # NoOne, NEW r \in ResIds \cup {NoRes}, OrderCar(OrderOf(user), r)
      PROVE  Ledger!Next \/ UNCHANGED <<clock, Standing>>
  <2>1. PICK o : o = OrderOf(user)
    OBVIOUS
  <2>2. IsOrder(o)
    BY <1>3, <1>5, <2>1, AppAssumption DEF OrderOf, IsOrder, Bookers, Keys
  <2>. QED BY <1>5, <2>1, <2>2, OrderMaps DEF SInv
<1>6. CASE calls[c].op = "confirm" /\ ConfirmHold(row, user)
  <2>1. row \in ResIds
    BY <1>1, <1>2, <1>6 DEF CallInv
  <2>. QED BY <1>6, <2>1, ConfirmConfirms DEF SInv
<1>7. CASE calls[c].op = "cancel" /\ CancelReservation(row, user)
  <2>1. row \in ResIds
    BY <1>1, <1>2, <1>7 DEF CallInv
  <2>. QED BY <1>7, <2>1, CancelCancels DEF SInv
<1>. QED BY <1>2, <1>4, <1>5, <1>6, <1>7 DEF Serve

LEMMA LedgerStep ==
    ASSUME SInv, [Next]_vars
    PROVE  [Ledger!Next]_<<clock, Standing>>
<1>1. CASE UNCHANGED <<clock, storeVars>>
  BY <1>1, LedgerStutters DEF storeVars
<1>2. ASSUME NEW b \in Browsers, Signs(b)
      PROVE  UNCHANGED <<clock, storeVars>>
  BY <1>2 DEF Signs
<1>3. ASSUME NEW b \in Renters, Uses(b)
      PROVE  UNCHANGED <<clock, storeVars>>
  BY <1>3 DEF Uses
<1>4. ASSUME NEW b \in Browsers, ActOnTrip(b)
      PROVE  [Ledger!Next]_<<clock, Standing>>
  <2>1. PICK r \in ResIds, user \in {UserOf(cookie[b])} : ConfirmHold(r, user) \/ CancelReservation(r, user)
    BY <1>4 DEF ActOnTrip
  <2>2. UNCHANGED <<backend, clock>>
    BY <1>4 DEF ActOnTrip
  <2>. QED BY <2>1, <2>2, ConfirmConfirms, CancelCancels DEF SInv
<1>5. ASSUME NEW c \in Calls, Handles(c)
      PROVE  [Ledger!Next]_<<clock, Standing>>
  <2>1. CASE Lose(c) \/ Deliver(c)
    BY <1>1, <1>5, <2>1 DEF Handles, Lose, Deliver
  <2>2. CASE Serve(c)
    BY <1>5, <2>2, ServeMaps DEF Handles
  <2>. QED BY <1>5, <2>1, <2>2 DEF Handles
<1>6. ASSUME NEW o \in ScriptOrders, ScriptOrder(o)
      PROVE  [Ledger!Next]_<<clock, Standing>>
  <2>1. PICK r \in ResIds \cup {NoRes} : OrderCar(o, r)
    BY <1>6 DEF ScriptOrder
  <2>2. UNCHANGED <<backend, clock>> /\ IsOrder(o)
    BY <1>6, AppAssumption DEF ScriptOrder, IsOrder, Bookers, Keys
  <2>. QED BY <2>1, <2>2, OrderMaps DEF SInv
<1>7. CASE Tick
  <2>1. clock' = clock + 1 /\ UNCHANGED Standing
    BY <1>7, Zenon DEF Tick, storeVars, Standing
  <2>. QED BY <2>1 DEF Ledger!Next, Ledger!Tick
<1>. QED BY <1>1, <1>2, <1>3, <1>4, <1>5, <1>6, <1>7 DEF Next, vars

LEMMA LedgerInit == Init => Ledger!Init
<1>. SUFFICES ASSUME Init PROVE Ledger!Init
  OBVIOUS
<1>1. superseded = {} /\ resv = [r \in ResIds |-> NoRow] /\ clock = 0
  BY DEF Init, StoreInit
<1>2. \A s \in ResIds : Standing[s] = NoRow
  BY <1>1, StandingRows
<1>3. Standing = [s \in ResIds |-> Standing[s]]
  BY Zenon DEF Standing
<1>4. Standing = [s \in ResIds |-> NoRow]
  BY <1>2, <1>3
<1>. QED BY <1>1, <1>4 DEF Ledger!Init, Ledger!NoBooking, NoRow

-----------------------------------------------------------------------------
(* The theorems *)

\* Type correctness of the sheet, the calls and both stores.
THEOREM TypeCorrect == Spec => []TypeOK
<1>1. SInv => TypeOK
  <2>. SUFFICES ASSUME SInv PROVE TypeOK
    OBVIOUS
  <2>1. IdentityType /\ superseded \subseteq ResIds
    BY DEF SInv, AccountInv, ShapeInv, StoreInv, RowsInv
  <2>2. \A b \in Browsers :
         /\ sheet[b].step \in {"closed", "quote", "holding", "held", "price_changed"}
         /\ sheet[b].step = "held" => sheet[b].hold \in ResIds
    BY DEF SInv, SheetsInv, SheetType, TripRow
  <2>3. ASSUME NEW c \in Calls, calls[c] # NoCall
        PROVE  /\ calls[c].op \in {"order", "confirm", "cancel"} /\ calls[c].to \in {"sheet", "page", "gone"}
               /\ calls[c].answer \in {"none", "ok", "taken", "price_changed", "refused", "done"}
               /\ calls[c].answer = "ok" => calls[c].row \in ResIds
    <3>1. calls[c] \in CallType /\ CallInv(calls[c])
      BY <2>3 DEF SInv, CallsInv
    <3>. QED BY <3>1 DEF CallType, CallInv, TripRow
  <2>. QED BY <2>1, <2>2, <2>3 DEF TypeOK
<1>. QED BY <1>1, AlwaysSInv, PTL

\* Until the countdown of a sheet ends nobody else gets the car for any part of
\* the trip: whoever searches, orders, signs out or loses answers meanwhile, and
\* whichever of the two stores serves.
THEOREM HeldKeepsCarAlways == Spec => []HeldKeepsCar
<1>1. SInv => HeldKeepsCar
  <2>. SUFFICES ASSUME SInv, NEW b \in Browsers, sheet[b].step = "held",
                       clock < resv[sheet[b].hold].created + HoldTTL,
                       resv[sheet[b].hold].status # "cancelled"
                PROVE  /\ Confirmed(sheet[b].hold)
                       /\ \A s \in ResIds \ {sheet[b].hold} :
                             Confirmed(s) /\ ~Lapsed(s) => ~Overlaps(resv[s], Trip)
    BY DEF HeldKeepsCar
  <2>1. PICK r \in ResIds : r = sheet[b].hold /\ TripRow(r) /\ IsRow(resv[r]) /\ clock \in Nat
    BY DEF SInv, SheetsInv, TripRow, StoreInv, RowsInv
  <2>2. Confirmed(r) /\ ~Lapsed(r)
    BY <2>1, StoreAssumption DEF IsRow, Row, Confirmed, Lapsed
  <2>3. ASSUME NEW s \in ResIds \ {r}, Confirmed(s), ~Lapsed(s)
        PROVE  ~Overlaps(resv[s], Trip)
    BY <2>1, <2>2, <2>3 DEF SInv, StoreInv, ApartInv, Overlaps, TripRow
  <2>. QED BY <2>1, <2>2, <2>3
<1>. QED BY <1>1, AlwaysSInv, PTL

\* A confirmation that was answered stands, however late the answer is heard.
THEOREM ConfirmStandsAlways == Spec => []ConfirmStands
<1>1. SInv => ConfirmStands
  <2>. SUFFICES ASSUME SInv, NEW c \in Calls, calls[c] # NoCall, calls[c].op = "confirm",
                       calls[c].answer = "ok"
                PROVE  LET r == calls[c].row IN
                       /\ resv[r].kind = "rental" /\ resv[r].booker = identities[PersonOf[calls[c].browser]]
                       /\ \/ resv[r].status = "cancelled"
                          \/ Confirmed(r) /\ \A s \in ResIds \ {r} :
                                                Confirmed(s) /\ ~Lapsed(s) => ~Overlaps(resv[s], resv[r])
    BY DEF ConfirmStands
  <2>1. PICK r \in ResIds : r = calls[c].row /\ RentalOf(r, calls[c].browser) /\ IsRow(resv[r])
    BY DEF SInv, CallsInv, CallInv, RentalOf, StoreInv, RowsInv
  <2>2. resv[r].status = "cancelled" \/ (Confirmed(r) /\ ~Lapsed(r))
    BY <2>1 DEF RentalOf, IsRow, Row, Confirmed, Lapsed
  <2>3. ASSUME NEW s \in ResIds \ {r}, Confirmed(r), ~Lapsed(r), Confirmed(s), ~Lapsed(s)
        PROVE  ~Overlaps(resv[s], resv[r])
    BY <2>3 DEF SInv, StoreInv, ApartInv
  <2>. QED BY <2>1, <2>2, <2>3 DEF RentalOf
<1>. QED BY <1>1, AlwaysSInv, PTL

\* Either implementation of store.DataStore keeps the promises of the ledger:
\* Postgres by deleting the lapsed holds it books over, memory by no longer
\* minding them.
THEOREM LedgerImplemented == Spec => LedgerSpec
  BY LedgerInit, LedgerStep, AlwaysSInv, PTL DEF Spec, LedgerSpec, Ledger!Spec
=============================================================================
