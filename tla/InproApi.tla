------------------------------- MODULE InproApi -------------------------------
(***************************************************************************)
(* Accounts and sessions in one process.  JwtAuthGuard stands before every *)
(* route that is not @Public: sign-in and refresh-token are, creating an   *)
(* account is not.  Sign-in reads the users table that only the guarded    *)
(* route writes to.                                                        *)
(***************************************************************************)
EXTENDS AuthSessions

CONSTANTS Emails, Passwords, Creators

VARIABLES
  users,     \* the users table
  creating,  \* the create-user requests in flight
  created    \* history: accounts whose creation was answered

Acc == INSTANCE Accounts

ASSUME ApiAssumption == Null \notin Acc!Account \cup Emails \cup Passwords

sessionVars == <<now, sessions, pairs, delivered, cookie, req, published, rotated>>
accountVars == <<users, creating, created>>
apiVars == <<sessionVars, accountVars, faults>>

ApiInit == Init /\ Acc!Init

\* one account was put in the table by hand
SeededInit ==
  /\ Init
  /\ \E u \in Users, a \in Acc!Account :
       Acc!Seeded([v \in Users |-> IF v = u THEN a ELSE Null])

\* POST /users, for whoever bears a token the guard accepts
CreateUserRoute(c, e, pw) ==
  /\ \E j \in Jtis, kind \in TokenKinds : ValidateSession(j, kind)
  /\ Acc!BeginCreate(c, e, pw)
  /\ UNCHANGED sessionVars

\* compareHash, of a password with a hash that generateHash made
CompareHash(pw, hashed) == hashed = Acc!Hash(pw)

\* ValidateUserCredentialsService: the user of this email has this password
ValidateUserCredentials(u, e, pw) ==
  u \in Acc!FindByEmail(e) /\ CompareHash(pw, users[u].password)

ApiSignIn(p, dev) ==
  /\ \E u \in Users, e \in Emails, pw \in Passwords :
       ValidateUserCredentials(u, e, pw) /\ SignIn(p, u, dev)
  /\ UNCHANGED accountVars

\* the other requests of the auth module, a refresh of which looks its user up
\* with findById, and what requests in flight do next
SessionStep ==
  /\ \/ Tick
     \/ \E p \in Procs :
          \/ \E j \in Jtis, kind \in TokenKinds :
               \/ GetRefreshTokenSession(p, j, kind)
               \/ BeginSignOut(p, j, kind)
               \/ \E target \in Sids : BeginRevoke(p, j, kind, target)
          \/ /\ req[p].at = "refresh.user" => users[req[p].copy.user] # Null
             /\ Proceed(p)
          \/ FailedQuery(p) \/ LoseAnswer(p)
  /\ UNCHANGED accountVars

AccountStep ==
  /\ \E c \in Creators : Acc!Proceed(c) \/ Acc!LoseCreated(c)
  /\ UNCHANGED sessionVars

\* the process stops with every request in flight
ApiCrash ==
  /\ (\E p \in Procs : req[p] # Idle) \/ (\E c \in Creators : creating[c] # Acc!IdleCreator)
  /\ req' = [p \in Procs |-> Idle]
  /\ creating' = [c \in Creators |-> Acc!IdleCreator]
  /\ Fault
  /\ UNCHANGED <<now, sessions, pairs, delivered, cookie, published, rotated, users, created>>

ApiNext ==
  \/ ApiCrash
  \/ \E c \in Creators, e \in Emails, pw \in Passwords : CreateUserRoute(c, e, pw)
  \/ \E p \in Procs, dev \in Devices : ApiSignIn(p, dev)
  \/ SessionStep
  \/ AccountStep

SeededSpec == SeededInit /\ [][ApiNext]_apiVars

\* clients never tire of trying to create an account and to sign in, and
\* requests in flight are run to their end
ApiSpec ==
  /\ ApiInit /\ [][ApiNext]_apiVars
  /\ WF_apiVars(\E c \in Creators, e \in Emails, pw \in Passwords : CreateUserRoute(c, e, pw))
  /\ WF_apiVars(\E p \in Procs, dev \in Devices : ApiSignIn(p, dev))
  /\ WF_apiVars(SessionStep)
  /\ WF_apiVars(AccountStep)

\* Every session, stored or about to be, is of an account that is still there
\* under the same id, whatever accounts are being created: findById of a
\* refresh finds the user the session was opened for.
SessionsOfAccounts ==
  /\ \A s \in Sids : sessions[s] # Null => users[sessions[s].user] # Null
  /\ \A j \in Jtis : pairs[j] # Null => users[pairs[j].sub] # Null

\* A client that keeps asking for an account gets one in the end: the e2e test
\* creates a user with nobody signed in.
FirstAccountCreated == <>(\E u \in Users : users[u] # Null)
===============================================================================
