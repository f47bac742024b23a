---------------------------- MODULE InproApiProofs ----------------------------
(***************************************************************************)
(* Accounts and sessions together, for every value of the constants.  The  *)
(* two parts share only `faults' and the reads of the users table, so each *)
(* keeps its inductive invariant in the composition (SessionPart and       *)
(* AccountPart); and since a token pair is signed for a user just read,    *)
(* and a row is never removed, every session is of an existing account.    *)
(* Seen from the sessions the composition is a case of OpenSpec            *)
(* (ApiIsOpen): all that was proved of them alone holds here.              *)
(***************************************************************************)
EXTENDS InproApi, LifecycleProofs

A == INSTANCE AccountsProofs

\* The assumptions under which AccountsProofs was proved.
LEMMA AccountsAssumed ==
  MaxFaults \in Nat /\ Null \notin A!Account \cup Users \cup Emails \cup Passwords
  BY BoundAssumption, ApiAssumption, NullAssumption
  DEF A!Account, Acc!Account, A!Hashes, Acc!Hashes, A!Hash, Acc!Hash

\* The invariant of the composition.
ApiInv == IndInv /\ A!IndInv /\ SessionsOfAccounts

\* The table and its requests, as the composition and as the proofs see them.
LEMMA AccountSteps ==
  ASSUME NEW c \in Creators
  PROVE  /\ \A e \in Emails, pw \in Passwords : Acc!BeginCreate(c, e, pw) => A!BeginCreate(c, e, pw)
         /\ Acc!Proceed(c) => A!Proceed(c)
         /\ Acc!LoseCreated(c) => A!LoseCreated(c)
         /\ Acc!IdleCreator = A!IdleCreator
<1>1. \A e \in Emails, pw \in Passwords : Acc!BeginCreate(c, e, pw) => A!BeginCreate(c, e, pw)
  BY DEF Acc!BeginCreate, A!BeginCreate, Acc!IdleCreator, A!IdleCreator
<1>2. Acc!Proceed(c) => A!Proceed(c)
  BY DEF Acc!Proceed, A!Proceed, Acc!FindUser, A!FindUser, Acc!HashPassword, A!HashPassword,
     Acc!SaveUser, A!SaveUser, Acc!AnswerCreated, A!AnswerCreated, Acc!Fault, A!Fault, Acc!NoFault, A!NoFault,
     Acc!Finish, A!Finish, Acc!IdleCreator, A!IdleCreator, Acc!FindByEmail, A!FindByEmail,
     Acc!EmailTaken, A!EmailTaken, Acc!Upsert, A!Upsert, Acc!FreshUsers, A!FreshUsers,
     Acc!NewAccount, A!NewAccount, Acc!Hash, A!Hash
<1>3. Acc!LoseCreated(c) => A!LoseCreated(c)
  BY DEF Acc!LoseCreated, A!LoseCreated, Acc!Fault, A!Fault, Acc!Finish, A!Finish,
     Acc!IdleCreator, A!IdleCreator
<1>4. Acc!IdleCreator = A!IdleCreator
  BY DEF Acc!IdleCreator, A!IdleCreator
<1> QED
  BY <1>1, <1>2, <1>3, <1>4

\* What only counts a fault leaves both invariants as they are.
LEMMA SessionPart ==
  ASSUME IndInv, UNCHANGED sessionVars, faults' \in 0..MaxFaults
  PROVE  IndInv'
  BY DEF sessionVars, IndInv, TypeOK, RequestsWellFormed, RequestTokens, TokensOf, DeliveredPairs,
     TokenBinding, Belongs, PendingSaves, PendingSave, RotatedStaysDead, Live

\* Accounts keep theirs through a step of the sessions.
LEMMA AccountPart ==
  ASSUME A!IndInv, UNCHANGED accountVars, faults' \in 0..MaxFaults
  PROVE  A!IndInv'
  BY DEF accountVars, A!IndInv, A!TypeOK, A!Held, A!OneAccountPerEmail, A!CreatedStaysTheirs

\* A row is never removed.
LEMMA RowsStay ==
  ASSUME A!IndInv, NEW c \in Creators, A!Proceed(c)
  PROVE  \A u \in Users : users[u] # Null => users'[u] # Null
<1>1. CASE UNCHANGED users
  BY <1>1
<1>2. CASE ~UNCHANGED users
  <2>1. creating[c].at = "save" /\ users' = [users EXCEPT ![creating[c].uid] = creating[c].account]
    BY <1>2 DEF A!Proceed, A!FindUser, A!HashPassword, A!SaveUser, A!AnswerCreated, A!Upsert
  <2>2. A!Held(c) /\ creating[c] \in A!Creation /\ users \in [Users -> A!Account \cup {Null}]
    BY DEF A!IndInv, A!TypeOK
  <2>3. creating[c].account \in A!Account
    BY <2>1, <2>2 DEF A!Held, A!Creation, A!Account, A!Hashes
  <2>4. creating[c].account # Null
    BY <2>3, AccountsAssumed
  <2> QED
    BY <2>1, <2>2, <2>4
<1> QED
  BY <1>1, <1>2

\* Sessions follow their token pairs.
LEMMA SessionsFollowPairs ==
  ASSUME IndInv', \A j \in Jtis : pairs'[j] # Null => users'[pairs'[j].sub] # Null
  PROVE  SessionsOfAccounts'
<1>1. ASSUME NEW s \in Sids, sessions'[s] # Null PROVE users'[sessions'[s].user] # Null
  <2>1. sessions'[s].digest \in Jtis
    BY <1>1 DEF IndInv, TypeOK, Collection, Session
  <2>2. pairs'[sessions'[s].digest] # Null /\ pairs'[sessions'[s].digest].sub = sessions'[s].user
    BY <1>1 DEF IndInv, TokenBinding, Belongs
  <2> QED
    BY <2>1, <2>2
<1> QED
  BY <1>1 DEF SessionsOfAccounts

\* An account in the table and nothing else.
LEMMA InitApiInv == SeededInit => ApiInv
<1> SUFFICES ASSUME SeededInit PROVE ApiInv
  OBVIOUS
<1>1. PICK u \in Users, a \in Acc!Account :
        Acc!Seeded([v \in Users |-> IF v = u THEN a ELSE Null])
  BY DEF SeededInit
<1>2. IndInv
  BY InitIndInv DEF SeededInit
<1>3. a \in A!Account /\ a # Null
  BY <1>1, AccountsAssumed DEF A!Account, Acc!Account, A!Hashes, Acc!Hashes, A!Hash, Acc!Hash
<1>4. /\ users = [v \in Users |-> IF v = u THEN a ELSE Null]
      /\ creating = [c \in Creators |-> A!IdleCreator]
      /\ created = {} /\ faults = 0
  BY <1>1 DEF Acc!Seeded, Acc!IdleCreator, A!IdleCreator
<1>5. A!IdleCreator \in A!Creation /\ A!IdleCreator.at = "idle" /\ A!IdleCreator.uid = Null
  BY DEF A!IdleCreator, A!Creation
<1>6. A!IndInv
  <2>1. A!TypeOK
    BY <1>3, <1>4, <1>5, AccountsAssumed DEF A!TypeOK
  <2>2. \A c \in Creators : creating[c] = A!IdleCreator
    BY <1>4
  <2>3. \A c \in Creators : A!Held(c)
    BY <1>5, <2>2 DEF A!Held
  <2>4. \A v \in Users : users[v] # Null => v = u
    BY <1>4
  <2>5. A!OneAccountPerEmail
    BY <2>4 DEF A!OneAccountPerEmail
  <2>6. A!CreatedStaysTheirs
    BY <1>4, <1>5, <2>2 DEF A!CreatedStaysTheirs
  <2> QED
    BY <2>1, <2>3, <2>5, <2>6 DEF A!IndInv
<1>7. SessionsOfAccounts
  BY DEF SeededInit, Init, SessionsOfAccounts
<1> QED
  BY <1>2, <1>6, <1>7 DEF ApiInv

\* A step of a session request: a pair is signed for a user just read.
LEMMA SessionStepInv ==
  ASSUME ApiInv, SessionStep \/ \E p \in Procs, dev \in Devices : ApiSignIn(p, dev)
  PROVE  ApiInv'
<1>1. Next /\ UNCHANGED accountVars
  BY DEF SessionStep, ApiSignIn, Next, Arrive
<1>2. IndInv'
  BY <1>1, NextIndInv DEF ApiInv
<1>3. A!IndInv'
  BY <1>1, <1>2, AccountPart DEF ApiInv, IndInv, TypeOK
<1>4. \A j \in Jtis : pairs[j] # Null => users'[pairs[j].sub] # Null
  BY <1>1 DEF ApiInv, SessionsOfAccounts, accountVars
<1>5. ASSUME NEW p \in Procs, NEW u \in Users, NEW dev \in Devices, SignIn(p, u, dev), users[u] # Null
      PROVE  \A j \in Jtis : pairs'[j] # Null => users'[pairs'[j].sub] # Null
  <2>1. PICK s \in Sids, i \in Jtis : pairs' = [pairs EXCEPT ![i] = GenerateTokens(s, u, dev, now)]
    BY <1>5 DEF SignIn, FreshSids, Unused
  <2>2. pairs'[i].sub = u /\ \A j \in Jtis : j # i => pairs'[j] = pairs[j]
    BY <2>1 DEF ApiInv, IndInv, TypeOK, GenerateTokens
  <2> QED
    BY <1>1, <1>4, <1>5, <2>2 DEF accountVars
<1>6. ASSUME NEW p \in Procs, RefreshSession(p), users[req[p].copy.user] # Null
      PROVE  \A j \in Jtis : pairs'[j] # Null => users'[pairs'[j].sub] # Null
  <2>1. PICK i \in Jtis : pairs' = [pairs EXCEPT ![i] =
            GenerateTokens(req[p].sid, req[p].copy.user, req[p].copy.device, now)]
    BY <1>6 DEF RefreshSession, Unused
  <2>2. pairs'[i].sub = req[p].copy.user /\ \A j \in Jtis : j # i => pairs'[j] = pairs[j]
    BY <2>1 DEF ApiInv, IndInv, TypeOK, GenerateTokens
  <2> QED
    BY <1>1, <1>4, <1>6, <2>2 DEF accountVars
<1>7. \A j \in Jtis : pairs'[j] # Null => users'[pairs'[j].sub] # Null
  <2>1. CASE UNCHANGED pairs
    BY <1>4, <2>1
  <2>2. CASE ~UNCHANGED pairs
    <3>1. \/ \E p \in Procs, u \in Users, dev \in Devices : SignIn(p, u, dev) /\ users[u] # Null
          \/ \E p \in Procs : RefreshSession(p) /\ users[req[p].copy.user] # Null
      <4>1. ASSUME NEW p \in Procs, NEW dev \in Devices, ApiSignIn(p, dev)
            PROVE  \E u \in Users : SignIn(p, u, dev) /\ users[u] # Null
        BY <4>1 DEF ApiSignIn, ValidateUserCredentials, Acc!FindByEmail
      <4>2. ASSUME SessionStep
            PROVE  \E p \in Procs : RefreshSession(p) /\ users[req[p].copy.user] # Null
        <5>1. PICK p \in Procs : Proceed(p) /\ (req[p].at = "refresh.user" => users[req[p].copy.user] # Null)
          BY <2>2, <4>2 DEF SessionStep, Tick, GetRefreshTokenSession, BeginSignOut, BeginRevoke,
             FailedQuery, LoseAnswer
        <5>2. RefreshSession(p)
          BY <2>2, <5>1 DEF Proceed, CreateSession, SaveNewSession, AnswerTokens, SetCookie,
             SaveRefreshedSession, SignOut, DeleteSession, AnswerSignOut, RevokeSession,
             SaveRevokedSession, CommitRevokedSession
        <5> QED
          BY <5>1, <5>2 DEF RefreshSession
      <4> QED
        BY <4>1, <4>2
    <3> QED
      BY <1>5, <1>6, <3>1
  <2> QED
    BY <2>1, <2>2
<1> QED
  BY <1>2, <1>3, <1>7, SessionsFollowPairs DEF ApiInv

\* A step of a create-user request.
LEMMA AccountStepInv ==
  ASSUME ApiInv, NEW c \in Creators, UNCHANGED sessionVars,
         \/ \E e \in Emails, pw \in Passwords : A!BeginCreate(c, e, pw)
         \/ A!Proceed(c) \/ A!LoseCreated(c)
  PROVE  ApiInv'
<1>1. A!IndInv'
  BY AccountsAssumed, A!NextIndInv DEF ApiInv, A!Next
<1>2. IndInv'
  BY <1>1, SessionPart DEF ApiInv, A!IndInv, A!TypeOK
<1>3. \A u \in Users : users[u] # Null => users'[u] # Null
  BY RowsStay DEF ApiInv, A!BeginCreate, A!LoseCreated
<1>4. \A j \in Jtis : pairs'[j] # Null => users'[pairs'[j].sub] # Null
  BY <1>3 DEF sessionVars, ApiInv, SessionsOfAccounts, IndInv, TypeOK, Payload
<1> QED
  BY <1>1, <1>2, <1>4, SessionsFollowPairs DEF ApiInv

\* A crash ends the requests of both parts.
LEMMA ApiCrashInv == ASSUME ApiInv, ApiCrash PROVE ApiInv'
<1>1. faults' \in 0..MaxFaults
  BY BoundAssumption DEF ApiCrash, Fault, ApiInv, IndInv, TypeOK
<1>2. IndInv'
  <2>1. CASE \E p \in Procs : req[p] # Idle
    <3>1. Crash
      BY <2>1 DEF ApiCrash, Crash
    <3> QED
      BY <3>1, NextIndInv DEF ApiInv, Next
  <2>2. CASE \A p \in Procs : req[p] = Idle
    <3>1. req' = req
      BY <2>2 DEF ApiCrash, ApiInv, IndInv, TypeOK
    <3> QED
      BY <1>1, <3>1, SessionPart DEF ApiCrash, ApiInv, sessionVars
  <2> QED
    BY <2>1, <2>2
<1>3. A!IndInv'
  <2>1. \A c \in Creators : creating'[c] = A!IdleCreator
    BY DEF ApiCrash, Acc!IdleCreator, A!IdleCreator
  <2>2. A!IdleCreator \in A!Creation /\ A!IdleCreator.at = "idle" /\ A!IdleCreator.uid = Null
    BY DEF A!IdleCreator, A!Creation
  <2>3. A!TypeOK'
    BY <1>1, <2>2 DEF ApiCrash, Acc!IdleCreator, A!IdleCreator, ApiInv, A!IndInv, A!TypeOK
  <2> QED
    BY <2>1, <2>2, <2>3 DEF ApiCrash, ApiInv, A!IndInv, A!Held, A!OneAccountPerEmail, A!CreatedStaysTheirs
<1>4. \A j \in Jtis : pairs'[j] # Null => users'[pairs'[j].sub] # Null
  BY DEF ApiCrash, ApiInv, SessionsOfAccounts
<1> QED
  BY <1>2, <1>3, <1>4, SessionsFollowPairs DEF ApiInv

\* Every step of the composition keeps its invariant.
THEOREM NextApiInv == ApiInv /\ [ApiNext]_apiVars => ApiInv'
<1> SUFFICES ASSUME ApiInv, [ApiNext]_apiVars PROVE ApiInv'
  OBVIOUS
<1>1. CASE UNCHANGED apiVars
  <2>1. UNCHANGED sessionVars /\ UNCHANGED accountVars /\ UNCHANGED faults
    BY <1>1 DEF apiVars
  <2>2. IndInv' /\ A!IndInv'
    BY <2>1, SessionPart, AccountPart DEF ApiInv, IndInv, TypeOK
  <2>3. \A j \in Jtis : pairs'[j] # Null => users'[pairs'[j].sub] # Null
    BY <2>1 DEF ApiInv, SessionsOfAccounts, sessionVars, accountVars
  <2> QED
    BY <2>2, <2>3, SessionsFollowPairs DEF ApiInv
<1>2. ASSUME NEW c \in Creators, NEW e \in Emails, NEW pw \in Passwords, CreateUserRoute(c, e, pw)
      PROVE  ApiInv'
  BY <1>2, AccountSteps, AccountStepInv DEF CreateUserRoute
<1>3. CASE AccountStep
  BY <1>3, AccountSteps, AccountStepInv DEF AccountStep
<1> QED
  BY <1>1, <1>2, <1>3, SessionStepInv, ApiCrashInv DEF ApiNext

\* Every session, stored or about to be, is of an account in the table, whatever
\* accounts are being created meanwhile.
THEOREM SessionsOfAccountsHolds == SeededSpec => []SessionsOfAccounts
<1>1. ApiInv => SessionsOfAccounts
  BY DEF ApiInv
<1> QED
  BY <1>1, InitApiInv, NextApiInv, PTL DEF SeededSpec

\* What happens to accounts is, to the sessions, nothing or a fault elsewhere; a
\* crash of the process is one of theirs if any of their requests was in flight.
LEMMA ApiStepIsOpen == ASSUME ApiInv, [ApiNext]_apiVars PROVE [OpenNext]_vars
<1>1. CASE UNCHANGED apiVars
  BY <1>1 DEF apiVars, sessionVars, vars
<1>2. CASE SessionStep \/ \E p \in Procs, dev \in Devices : ApiSignIn(p, dev)
  BY <1>2 DEF SessionStep, ApiSignIn, Next, Arrive, OpenNext
<1>3. ASSUME NEW c \in Creators, NEW e \in Emails, NEW pw \in Passwords, CreateUserRoute(c, e, pw)
      PROVE  [OpenNext]_vars
  BY <1>3 DEF CreateUserRoute, Acc!BeginCreate, sessionVars, vars
<1>4. CASE AccountStep
  <2>1. UNCHANGED sessionVars /\ (UNCHANGED faults \/ Fault)
    BY <1>4 DEF AccountStep, Acc!Proceed, Acc!FindUser, Acc!HashPassword, Acc!SaveUser, Acc!AnswerCreated,
       Acc!LoseCreated, Acc!Fault, Acc!NoFault, Fault
  <2> QED
    BY <2>1 DEF sessionVars, vars, OpenNext, FaultElsewhere
<1>5. CASE ApiCrash
  <2>1. CASE \E p \in Procs : req[p] # Idle
    BY <1>5, <2>1 DEF ApiCrash, Crash, Next, OpenNext
  <2>2. CASE \A p \in Procs : req[p] = Idle
    <3>1. req' = req
      BY <1>5, <2>2 DEF ApiCrash, ApiInv, IndInv, TypeOK
    <3> QED
      BY <1>5, <3>1 DEF ApiCrash, OpenNext, FaultElsewhere
  <2> QED
    BY <2>1, <2>2
<1> QED
  BY <1>1, <1>2, <1>3, <1>4, <1>5 DEF ApiNext

\* To the sessions, accounts are one of the things a process may do besides.
LEMMA ApiIsOpen == SeededSpec => OpenSpec
<1>1. SeededInit => Init
  BY DEF SeededInit
<1> QED
  BY <1>1, InitApiInv, NextApiInv, ApiStepIsOpen, PTL DEF SeededSpec, OpenSpec

\* The guard that accounts and sessions put before one another takes nothing from
\* what each promises alone, however their requests overlap.
THEOREM PartsKeepTheirPromises ==
  ASSUME IsFiniteSet(Procs)
  PROVE  SeededSpec => /\ [](/\ TokenBinding /\ RotatedStaysDead /\ NoOrphanedSession /\ ActiveBounded
                             /\ A!OneAccountPerEmail /\ A!CreatedStaysTheirs)
                       /\ RotatedNeverAccepted /\ EndedOnlyByOwner
                       /\ EndedForGood /\ UndoneOnlyByRefresh
<1>1. ApiInv => /\ TokenBinding /\ RotatedStaysDead
                /\ A!OneAccountPerEmail /\ A!CreatedStaysTheirs
  BY DEF ApiInv, IndInv, A!IndInv
<1> QED
  BY <1>1, InitApiInv, NextApiInv, ApiIsOpen, OpenNoOrphan, OpenActiveBounded, OpenNeverAccepted,
     OpenEndedByOwner, OpenEndedForGood, OpenUndone, PTL DEF SeededSpec

\* While the requests of sessions do not overlap, they keep beside any number of
\* create-user requests what they promise then.
THEOREM SerialPromisesKept ==
  ASSUME OneSlot
  PROVE  SeededSpec => /\ [](OneActivePerDevice /\ CookieUsable /\ AnnouncedIsRevoked)
                       /\ ImplementsLifecycle /\ RemovedStaysUnusable /\ RevokedStaysRevoked
  BY ApiIsOpen, OpenOneActive, OpenCookie, OpenAnnounced, OpenLifecycle, OpenRemovedStays,
     OpenRevokedStays, PTL

-------------------------------------------------------------------------------
(* From an empty table.                                                     *)

\* no account, no token, and nobody whose request got past the guard
NobodyIn ==
  /\ \A u \in Users : users[u] = Null
  /\ \A s \in Sids : sessions[s] = Null
  /\ delivered = {}
  /\ \A p \in Procs : req[p] = Idle
  /\ \A c \in Creators : creating[c] = Acc!IdleCreator

\* Creating an account takes a token and a token an account: with neither, no
\* request but a refused one can be made.
LEMMA NobodyGetsIn == NobodyIn /\ [ApiNext]_apiVars => NobodyIn'
<1> SUFFICES ASSUME NobodyIn, [ApiNext]_apiVars PROVE NobodyIn'
  OBVIOUS
<1>1. ~ApiCrash
  BY DEF NobodyIn, ApiCrash
<1>2. \A j \in Jtis, kind \in TokenKinds : ~ValidateSession(j, kind)
  BY DEF NobodyIn, ValidateSession
<1>3. \A c \in Creators, e \in Emails, pw \in Passwords : ~CreateUserRoute(c, e, pw)
  BY <1>2 DEF CreateUserRoute
<1>4. \A p \in Procs, dev \in Devices : ~ApiSignIn(p, dev)
  BY DEF NobodyIn, ApiSignIn, ValidateUserCredentials, Acc!FindByEmail
<1>5. ~AccountStep
  <2>1. Acc!IdleCreator.at = "idle"
    BY DEF Acc!IdleCreator
  <2> QED
    BY <2>1 DEF NobodyIn, AccountStep, Acc!Proceed, Acc!FindUser, Acc!HashPassword, Acc!SaveUser,
       Acc!AnswerCreated, Acc!LoseCreated
<1>6. SessionStep => NobodyIn'
  <2> SUFFICES ASSUME SessionStep PROVE NobodyIn'
    OBVIOUS
  <2>1. \A p \in Procs : req[p].at = "idle"
    BY DEF NobodyIn, Idle
  <2>2. \A p \in Procs : ~Proceed(p)
    BY <2>1 DEF Proceed, CreateSession, SaveNewSession, AnswerTokens, RefreshSession, SaveRefreshedSession,
       SignOut, DeleteSession, AnswerSignOut, RevokeSession, SaveRevokedSession, CommitRevokedSession
  <2>3. \A p \in Procs : ~FailedQuery(p) /\ ~LoseAnswer(p)
    BY <2>1 DEF FailedQuery, LoseAnswer, Answering
  <2>4. \A p \in Procs, j \in Jtis, kind \in TokenKinds :
          /\ ~GetRefreshTokenSession(p, j, kind) /\ ~BeginSignOut(p, j, kind)
          /\ \A target \in Sids : ~BeginRevoke(p, j, kind, target)
    BY <1>2 DEF GetRefreshTokenSession, NobodyIn, BeginSignOut, BeginRevoke
  <2>5. Tick /\ UNCHANGED accountVars
    BY <2>2, <2>3, <2>4 DEF SessionStep
  <2> QED
    BY <2>5 DEF Tick, NobodyIn, accountVars
<1>7. UNCHANGED apiVars => NobodyIn'
  BY DEF apiVars, sessionVars, accountVars, NobodyIn
<1> QED
  BY <1>1, <1>3, <1>4, <1>5, <1>6, <1>7 DEF ApiNext

\* From an empty database there is never an account or a session, for any number of
\* clients that never tire: what the e2e test of `POST /users' does with nobody
\* signed in cannot be done.
THEOREM FirstAccountNeverCreated == ApiSpec => []NobodyIn /\ ~FirstAccountCreated
<1>1. ApiInit => NobodyIn
  BY DEF ApiInit, Init, Acc!Init, Acc!Seeded, NobodyIn
<1>2. NobodyIn => ~(\E u \in Users : users[u] # Null)
  BY DEF NobodyIn
<1> QED
  BY <1>1, <1>2, NobodyGetsIn, PTL DEF ApiSpec, FirstAccountCreated
===============================================================================
