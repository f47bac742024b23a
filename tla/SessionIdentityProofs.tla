------------------------ MODULE SessionIdentityProofs -------------------------
(***************************************************************************)
(* That a session keeps its expiry, and that no session is left without a  *)
(* holder of its refresh token, for every value of the constants.  Both    *)
(* rest on IndInv of AuthSessionsProofs and on OneExpiry: a save writes a  *)
(* copy that was made when the document was another one, and OneExpiry     *)
(* says in what the two agree nevertheless.  The last part says which save *)
(* may bring back a session that ended, and from when on none can.         *)
(***************************************************************************)
EXTENDS AuthSessionsProofs

\* what a step may do to the document of the session it works on
StoreEffect(p) ==
  \/ UNCHANGED sessions
  \/ sessions' = Delete(sessions, req[p].sid)
  \/ req[p].copy # Null /\ sessions' = Save(sessions, req[p].sid, req[p].copy)

\* where the session a request holds after its step comes from: from nowhere, from
\* memory with its expiry, or from the collection
CopyEffect(p) ==
  \/ req'[p].copy = Null
  \/ /\ req'[p].sid = req[p].sid /\ req[p].copy # Null
     /\ req'[p].copy.expiresAt = req[p].copy.expiresAt
  \/ /\ UNCHANGED sessions /\ sessions[req'[p].sid] # Null
     /\ req'[p].copy.expiresAt = sessions[req'[p].sid].expiresAt

\* No request in flight, no copy and no sign-in.
LEMMA InitOneExpiry == Init => OneExpiry
  BY DEF Init, OneExpiry, FreshSignIn, Idle

\* A step of one request that opens no session keeps OneExpiry.
LEMMA EffectStep ==
  ASSUME IndInv, OneExpiry, NEW p \in Procs, \A q \in Procs : q # p => req'[q] = req[q],
         StoreEffect(p), CopyEffect(p), req'[p].at # "signIn.find",
         req'[p].copy # Null => req'[p].sid \in Sids
  PROVE  OneExpiry'
<1>1. sessions \in Collection /\ req[p].sid \in Sids \cup {Null} /\ Null \notin Sids
  BY NullAssumption DEF IndInv, TypeOK, Request
<1>2. /\ \A q \in Procs : req[q].copy # Null => req[q].sid \in Sids
      /\ \A q \in Procs : req[q].at = "signIn.find" => req[q].sid \in Sids
  BY <1>1 DEF IndInv, TypeOK, Request, RequestsWellFormed, RequestShape, HoldingCopy, Idle
<1>3. ASSUME NEW s \in Sids, sessions'[s] # Null
      PROVE  \/ sessions'[s] = sessions[s]
             \/ s = req[p].sid /\ req[p].copy # Null /\ sessions'[s] = req[p].copy
  BY <1>1, <1>3 DEF StoreEffect, Delete, Save, Collection
<1>4. \A q \in Procs : q # p => req'[q].sid = req[q].sid /\ req'[q].copy = req[q].copy /\ req'[q].at = req[q].at
  OBVIOUS
<1>5. ASSUME NEW q \in Procs PROVE FreshSignIn(q)'
  <2> SUFFICES ASSUME req'[q].at = "signIn.find" PROVE FreshSignIn(q)'
    BY DEF FreshSignIn
  <2>1. q # p /\ req'[q] = req[q] /\ req[q].at = "signIn.find" /\ req[q].sid \in Sids
    BY <1>2
  <2>2. /\ sessions[req[q].sid] = Null
        /\ \A r \in Procs : req[r].sid = req[q].sid =>
             req[r].copy = Null /\ (req[r].at = "signIn.find" => r = q)
    BY <2>1 DEF OneExpiry, FreshSignIn
  <2>3. sessions'[req'[q].sid] = Null
    BY <1>3, <2>1, <2>2
  <2>4. req'[p].sid = req'[q].sid => req'[p].copy = Null
    BY <2>1, <2>2 DEF CopyEffect
  <2> QED
    BY <1>4, <2>1, <2>2, <2>3, <2>4 DEF FreshSignIn
<1>6. ASSUME NEW q \in Procs, req'[q].copy # Null, sessions'[req'[q].sid] # Null
      PROVE  req'[q].copy.expiresAt = sessions'[req'[q].sid].expiresAt
  <2>1. CASE q # p
    BY <1>2, <1>3, <1>4, <1>6, <2>1 DEF OneExpiry
  <2>2. CASE q = p
    BY <1>2, <1>3, <1>6, <2>2 DEF OneExpiry, CopyEffect
  <2> QED
    BY <2>1, <2>2
<1>7. ASSUME NEW q \in Procs, req'[q].copy # Null, req'[p].copy # Null, q # p, req'[q].sid = req'[p].sid
      PROVE  req'[q].copy.expiresAt = req'[p].copy.expiresAt
  BY <1>4, <1>7 DEF OneExpiry, CopyEffect
<1>8. ASSUME NEW q \in Procs, NEW r \in Procs, req'[q].copy # Null, req'[r].copy # Null, req'[q].sid = req'[r].sid
      PROVE  req'[r].copy.expiresAt = req'[q].copy.expiresAt
  <2>1. CASE q # p /\ r # p
    BY <1>4, <1>8, <2>1 DEF OneExpiry
  <2>2. CASE q = p \/ r = p
    BY <1>7, <1>8, <2>2
  <2> QED
    BY <2>1, <2>2
<1> QED
  BY <1>5, <1>6, <1>8 DEF OneExpiry

\* A new session id is held by nobody: every document and copy has a token pair.
LEMMA SignInOneExpiry ==
  ASSUME IndInv, OneExpiry, NEW p \in Procs, NEW u \in Users, NEW dev \in Devices, SignIn(p, u, dev)
  PROVE  OneExpiry'
<1>1. PICK s \in Sids, j \in Jtis :
        /\ \A k \in Jtis : pairs[k] # Null => pairs[k].sid # s
        /\ req' = [req EXCEPT ![p] = [Idle EXCEPT !.at = "signIn.find", !.sid = s, !.new = j]]
  BY DEF SignIn, FreshSids, Unused
<1>2. /\ req'[p].at = "signIn.find" /\ req'[p].sid = s /\ req'[p].copy = Null
      /\ \A q \in Procs : q # p => req'[q] = req[q]
      /\ UNCHANGED sessions
  BY <1>1 DEF SignIn, IndInv, TypeOK, Idle
<1>3. sessions[s] = Null
  BY <1>1 DEF IndInv, TokenBinding, Belongs, TypeOK, Collection, Session
<1>4. \A q \in Procs : req[q].sid = s => req[q].copy = Null
  <2> SUFFICES ASSUME NEW q \in Procs, req[q].sid = s, req[q].copy # Null PROVE FALSE
    OBVIOUS
  <2>1. req[q].copy \in Session /\ Belongs(req[q].copy, s)
    BY DEF IndInv, TypeOK, Request, TokenBinding
  <2> QED
    BY <1>1, <2>1 DEF Belongs, Session
<1>5. \A q \in Procs : req[q].at = "signIn.find" => req[q].sid # s
  <2> SUFFICES ASSUME NEW q \in Procs, req[q].at = "signIn.find", req[q].sid = s PROVE FALSE
    OBVIOUS
  <2>1. req[q].new # Null /\ req[q].new \in Jtis
    BY DEF IndInv, TypeOK, Request, RequestsWellFormed, RequestShape, HoldingNew, SignInSteps
  <2>2. pairs[req[q].new] # Null /\ pairs[req[q].new].sid = s
    BY <2>1 DEF IndInv, RequestTokens, TokensOf
  <2> QED
    BY <1>1, <2>1, <2>2
<1>6. ASSUME NEW q \in Procs PROVE FreshSignIn(q)'
  <2>1. CASE q = p
    BY <1>2, <1>3, <1>4, <1>5, <2>1 DEF FreshSignIn
  <2>2. CASE q # p
    <3>1. req'[q] = req[q] /\ FreshSignIn(q)
      BY <1>2, <2>2 DEF OneExpiry
    <3>2. req[q].at = "signIn.find" => req[q].sid # s
      BY <1>5
    <3> QED
      BY <1>2, <3>1, <3>2 DEF FreshSignIn
  <2> QED
    BY <2>1, <2>2
<1>7. \A q \in Procs : req'[q].copy # Null => q # p /\ req'[q] = req[q]
  BY <1>2
<1> QED
  BY <1>2, <1>6, <1>7 DEF OneExpiry

\* The session a sign-in opens is the first anyone holds under its id.
LEMMA CreateSessionOneExpiry ==
  ASSUME IndInv, OneExpiry, NEW p \in Procs, CreateSession(p)
  PROVE  OneExpiry'
<1>1. /\ req[p].at = "signIn.find" /\ UNCHANGED sessions
      /\ \A q \in Procs : q # p => req'[q] = req[q]
  BY DEF CreateSession, Continue, Finish, IndInv, TypeOK
<1>2. CASE Finish(p)
  <2>1. req'[p].copy = Null /\ req'[p].at = "idle"
    BY <1>2 DEF Finish, Idle, IndInv, TypeOK
  <2> QED
    BY <1>1, <2>1, EffectStep DEF StoreEffect, CopyEffect
<1>3. CASE ~Finish(p)
  <2>1. /\ req'[p].at = "signIn.save" /\ req'[p].sid = req[p].sid
    BY <1>3 DEF CreateSession, Continue, IndInv, TypeOK, Request
  <2>2. /\ sessions[req[p].sid] = Null
        /\ \A q \in Procs : req[q].sid = req[p].sid =>
             req[q].copy = Null /\ (req[q].at = "signIn.find" => q = p)
    BY <1>1 DEF OneExpiry, FreshSignIn
  <2>3. ASSUME NEW q \in Procs PROVE FreshSignIn(q)'
    <3>1. CASE q = p
      BY <2>1, <3>1 DEF FreshSignIn
    <3>2. CASE q # p
      <4>1. req'[q] = req[q] /\ FreshSignIn(q)
        BY <1>1, <3>2 DEF OneExpiry
      <4>2. req[q].at = "signIn.find" => req[q].sid # req[p].sid
        BY <2>2, <3>2
      <4> QED
        BY <1>1, <2>1, <4>1, <4>2 DEF FreshSignIn
    <3> QED
      BY <3>1, <3>2
  <2>4. \A q \in Procs : q # p => (req'[q].sid = req'[p].sid => req'[q].copy = Null)
    BY <1>1, <2>1, <2>2
  <2> QED
    BY <1>1, <2>1, <2>2, <2>3, <2>4 DEF OneExpiry
<1> QED
  BY <1>2, <1>3

\* Every other step of a request has one of the effects EffectStep allows.
LEMMA ProceedEffect ==
  ASSUME IndInv, NEW p \in Procs, ~CreateSession(p), Proceed(p)
  PROVE  /\ \A q \in Procs : q # p => req'[q] = req[q]
         /\ StoreEffect(p) /\ CopyEffect(p) /\ req'[p].at # "signIn.find"
         /\ req'[p].copy # Null => req'[p].sid \in Sids
<1>1. /\ req \in [Procs -> Request] /\ req[p] \in Request /\ sessions \in Collection
      /\ RequestShape(req[p])
  BY DEF IndInv, TypeOK, RequestsWellFormed
<1>2. Idle.copy = Null /\ Idle.at = "idle"
  BY DEF Idle
<1>3. CASE SaveNewSession(p)
  <2>1. req[p].copy # Null
    BY <1>1, <1>3 DEF SaveNewSession, RequestShape, HoldingCopy
  <2> QED
    BY <1>1, <1>2, <1>3, <2>1 DEF SaveNewSession, Finish, Continue, StoreEffect, CopyEffect, Request
<1>4. CASE SaveRefreshedSession(p)
  <2>1. req[p].copy # Null
    BY <1>1, <1>4 DEF SaveRefreshedSession, RequestShape, HoldingCopy
  <2> QED
    BY <1>1, <1>2, <1>4, <2>1 DEF SaveRefreshedSession, Continue, StoreEffect, CopyEffect, Request
<1>5. CASE SaveRevokedSession(p)
  <2>1. req[p].copy # Null
    BY <1>1, <1>5 DEF SaveRevokedSession, RequestShape, HoldingCopy
  <2> QED
    BY <1>1, <1>2, <1>5, <2>1 DEF SaveRevokedSession, Continue, StoreEffect, CopyEffect, Request
<1>6. CASE DeleteSession(p)
  BY <1>1, <1>2, <1>6 DEF DeleteSession, Continue, StoreEffect, CopyEffect, Request
<1>7. CASE AnswerTokens(p) \/ AnswerSignOut(p) \/ CommitRevokedSession(p)
  BY <1>1, <1>2, <1>7 DEF AnswerTokens, AnswerSignOut, CommitRevokedSession, Finish, StoreEffect, CopyEffect
<1>8. CASE SignOut(p)
  <2>1. UNCHANGED sessions /\ (Finish(p) \/ Continue(p, "signOut.delete", Null))
    BY <1>8 DEF SignOut
  <2>2. \A q \in Procs : q # p => req'[q] = req[q]
    BY <1>1, <2>1 DEF Finish, Continue
  <2>3. req'[p].copy = Null /\ req'[p].at \in {"idle", "signOut.delete"}
    BY <1>1, <1>2, <2>1 DEF Finish, Continue, Request
  <2> QED
    BY <2>1, <2>2, <2>3 DEF StoreEffect, CopyEffect
<1>9. CASE RefreshSession(p)
  <2>1. /\ req[p].copy \in Session /\ req[p].copy # Null /\ req[p].sid \in Sids /\ now \in Times
    BY <1>1, <1>9 DEF RefreshSession, RequestShape, HoldingCopy, Request, IndInv, TypeOK
  <2>2. PICK j \in Jtis :
          req' = [req EXCEPT ![p].at = "refresh.save", ![p].new = j,
                             ![p].copy = Refresh(req[p].copy, j, now)]
    BY <1>9 DEF RefreshSession, Unused
  <2> DEFINE c == Refresh(req[p].copy, j, now)
  <2>3. c.expiresAt = req[p].copy.expiresAt
    BY <2>1, RefreshedIsSession
  <2>4. req' = [req EXCEPT ![p].at = "refresh.save", ![p].new = j, ![p].copy = c]
    BY <2>2
  <2> HIDE DEF c
  <2>5. /\ req'[p].at = "refresh.save" /\ req'[p].copy = c /\ req'[p].sid = req[p].sid
        /\ \A q \in Procs : q # p => req'[q] = req[q]
    BY <1>1, <2>4 DEF Request
  <2> QED
    BY <1>9, <2>1, <2>3, <2>5 DEF RefreshSession, StoreEffect, CopyEffect
<1>10. CASE RevokeSession(p)
  <2>1. CASE Finish(p)
    BY <1>1, <1>2, <1>10, <2>1 DEF RevokeSession, Finish, StoreEffect, CopyEffect
  <2>2. CASE ~Finish(p)
    <3> DEFINE f == FindById(sessions, req[p].sid)
               c == Revoke(f, now)
    <3>1. req[p].sid \in Sids
      BY <1>1, <1>10 DEF RevokeSession, RequestShape, Request, Idle
    <3>2. f # Null /\ req' = [req EXCEPT ![p].at = "revoke.save", ![p].copy = c] /\ UNCHANGED sessions
      BY <1>10, <2>2 DEF RevokeSession, Continue
    <3>3. f \in Session /\ sessions[req[p].sid] # Null /\ f.expiresAt = sessions[req[p].sid].expiresAt
      BY <1>1, <3>1, <3>2, FoundById
    <3>4. c.expiresAt = f.expiresAt
      BY <3>3 DEF Revoke, Session
    <3> HIDE DEF f, c
    <3>5. /\ req'[p].at = "revoke.save" /\ req'[p].copy = c /\ req'[p].sid = req[p].sid
          /\ \A q \in Procs : q # p => req'[q] = req[q]
      BY <1>1, <3>2 DEF Request
    <3> QED
      BY <3>1, <3>2, <3>3, <3>4, <3>5 DEF StoreEffect, CopyEffect
  <2> QED
    BY <2>1, <2>2
<1> QED
  BY <1>3, <1>4, <1>5, <1>6, <1>7, <1>8, <1>9, <1>10 DEF Proceed

\* So has the arrival of a request other than a sign-in.
LEMMA ArriveEffect ==
  ASSUME IndInv, NEW p \in Procs, NEW j \in Jtis, NEW kind \in TokenKinds,
         \/ GetRefreshTokenSession(p, j, kind)
         \/ BeginSignOut(p, j, kind)
         \/ \E target \in Sids : BeginRevoke(p, j, kind, target)
  PROVE  /\ \A q \in Procs : q # p => req'[q] = req[q]
         /\ StoreEffect(p) /\ CopyEffect(p) /\ req'[p].at # "signIn.find"
         /\ req'[p].copy # Null => req'[p].sid \in Sids
<1>1. req \in [Procs -> Request] /\ sessions \in Collection
  BY DEF IndInv, TypeOK
<1>2. CASE GetRefreshTokenSession(p, j, kind)
  <2> DEFINE f == FindById(sessions, pairs[j].sid)
  <2>1. f # Null /\ UNCHANGED sessions
    BY <1>2 DEF GetRefreshTokenSession
  <2>2. pairs[j].sid \in Sids
    BY <1>2 DEF GetRefreshTokenSession, IndInv, TypeOK, DeliveredPairs, Payload
  <2>3. /\ req'[p].at = "refresh.user" /\ req'[p].copy = f /\ req'[p].sid = pairs[j].sid
        /\ \A q \in Procs : q # p => req'[q] = req[q]
    BY <1>1, <1>2 DEF GetRefreshTokenSession
  <2>4. sessions[pairs[j].sid] # Null /\ f.expiresAt = sessions[pairs[j].sid].expiresAt
    BY <1>1, <2>1, <2>2, FoundById
  <2> QED
    BY <2>1, <2>2, <2>3, <2>4 DEF StoreEffect, CopyEffect
<1>3. CASE BeginSignOut(p, j, kind)
  BY <1>1, <1>3 DEF BeginSignOut, Idle, StoreEffect, CopyEffect
<1>4. CASE \E target \in Sids : BeginRevoke(p, j, kind, target)
  BY <1>1, <1>4 DEF BeginRevoke, Idle, StoreEffect, CopyEffect
<1> QED
  BY <1>2, <1>3, <1>4

\* And a request that fails.
LEMMA FailEffect ==
  ASSUME IndInv, NEW p \in Procs, FailedQuery(p) \/ LoseAnswer(p)
  PROVE  /\ \A q \in Procs : q # p => req'[q] = req[q]
         /\ StoreEffect(p) /\ CopyEffect(p) /\ req'[p].at # "signIn.find"
         /\ req'[p].copy # Null => req'[p].sid \in Sids
  BY DEF FailedQuery, LoseAnswer, Finish, Idle, StoreEffect, CopyEffect, IndInv, TypeOK

\* OneExpiry is kept by every step.
THEOREM NextOneExpiry == IndInv /\ OneExpiry /\ [Next]_vars => OneExpiry'
<1> SUFFICES ASSUME IndInv, OneExpiry, [Next]_vars PROVE OneExpiry'
  OBVIOUS
<1>1. CASE UNCHANGED vars
  BY <1>1 DEF vars, OneExpiry, FreshSignIn
<1>2. CASE Tick
  BY <1>2 DEF Tick, OneExpiry, FreshSignIn
<1>3. CASE Crash
  BY <1>3 DEF Crash, OneExpiry, FreshSignIn, Idle
<1>4. ASSUME NEW p \in Procs, Arrive(p) PROVE OneExpiry'
  BY <1>4, SignInOneExpiry, ArriveEffect, EffectStep DEF Arrive
<1>5. ASSUME NEW p \in Procs, Proceed(p) PROVE OneExpiry'
  BY <1>5, CreateSessionOneExpiry, ProceedEffect, EffectStep
<1>6. ASSUME NEW p \in Procs, FailedQuery(p) \/ LoseAnswer(p) PROVE OneExpiry'
  BY <1>6, FailEffect, EffectStep
<1> QED
  BY <1>1, <1>2, <1>3, <1>4, <1>5, <1>6 DEF Next

\* OneExpiry holds whatever else the process does.
LEMMA OpenOneExpiry == OpenSpec => []OneExpiry
<1>1. OneExpiry /\ FaultElsewhere => OneExpiry'
  BY DEF FaultElsewhere, OneExpiry, FreshSignIn
<1>2. IndInv /\ OneExpiry /\ [OpenNext]_vars => OneExpiry'
  BY <1>1, NextOneExpiry DEF OpenNext
<1> QED
  BY <1>2, InitOneExpiry, OpenIndInv, PTL DEF OpenSpec

\* Documents and copies of one session agree on when it expires, in every
\* reachable state, whichever saves race.
THEOREM OneExpiryHolds == Spec => []OneExpiry
  BY OpenOneExpiry, SpecIsOpen, PTL

\* A refresh token held stays held, or is delivered, or is of no session yet; and
\* a save that makes a session live makes it expect what the request holds.
LEMMA HeldStep ==
  ASSUME NoOrphanedSession, NEW p \in Procs, \A q \in Procs : q # p => req'[q] = req[q],
         delivered \subseteq delivered', faults' = faults,
         \A s \in Sids : Live(s)' =>
           \/ Live(s) /\ sessions'[s] = sessions[s]
           \/ sessions'[s].digest = req'[p].new,
         \/ req'[p].new = req[p].new
         \/ req[p].new \in delivered'
         \/ \A s \in Sids : Live(s)' => sessions'[s].digest # req[p].new
  PROVE  NoOrphanedSession'
<1> SUFFICES ASSUME faults' = 0, NEW s \in Sids, Live(s)'
             PROVE  \/ sessions'[s].digest \in delivered'
                    \/ \E q \in Procs : req'[q].new = sessions'[s].digest
  BY DEF NoOrphanedSession
<1>1. CASE sessions'[s].digest = req'[p].new
  BY <1>1
<1>2. CASE Live(s) /\ sessions'[s] = sessions[s]
  <2>1. sessions[s].digest \in delivered \/ \E q \in Procs : req[q].new = sessions[s].digest
    BY <1>2 DEF NoOrphanedSession
  <2>2. ASSUME NEW q \in Procs, req[q].new = sessions[s].digest, q # p
        PROVE  \E r \in Procs : req'[r].new = sessions'[s].digest
    BY <1>2, <2>2
  <2>3. CASE req[p].new = sessions[s].digest
    BY <1>2, <2>3
  <2> QED
    BY <1>2, <2>1, <2>2, <2>3
<1> QED
  BY <1>1, <1>2

\* A fault ends what NoOrphanedSession promises.
LEMMA FaultNoOrphan == ASSUME IndInv, Fault PROVE NoOrphanedSession'
  BY BoundAssumption DEF Fault, NoOrphanedSession, IndInv, TypeOK

\* A request that ends without an answer holds a token no live session expects.
LEMMA FinishNoOrphan ==
  ASSUME IndInv, OneExpiry, NoOrphanedSession, NEW p \in Procs, Finish(p),
         UNCHANGED <<now, sessions, faults>>, delivered \subseteq delivered',
         req[p].new = Null \/ req[p].new \in delivered' \/ req[p].at = "signIn.find"
  PROVE  NoOrphanedSession'
<1>1. \A q \in Procs : q # p => req'[q] = req[q]
  BY DEF Finish, IndInv, TypeOK
<1>2. \A s \in Sids : Live(s)' => Live(s) /\ sessions[s].digest \in Jtis
  BY DEF Live, IndInv, TypeOK, Collection, Session
<1>3. ASSUME req[p].at = "signIn.find", NEW s \in Sids, Live(s), sessions[s].digest = req[p].new
      PROVE  FALSE
  <2>1. pairs[req[p].new].sid = req[p].sid
    BY <1>2, <1>3, NullAssumption DEF IndInv, RequestTokens, TokensOf, RequestsWellFormed, RequestShape, HoldingNew, SignInSteps
  <2>2. pairs[sessions[s].digest].sid = s /\ sessions[s] # Null
    BY <1>3 DEF Live, IndInv, TokenBinding, Belongs
  <2> QED
    BY <1>3, <2>1, <2>2 DEF OneExpiry, FreshSignIn
<1>4. \A s \in Sids : Live(s)' => sessions'[s].digest # Null
  BY <1>2, NullAssumption
<1> QED
  BY <1>1, <1>2, <1>3, <1>4, HeldStep

\* A request that goes on with what it holds and leaves the collection alone.
LEMMA QuietNoOrphan ==
  ASSUME IndInv, NoOrphanedSession, NEW p \in Procs, \A q \in Procs : q # p => req'[q] = req[q],
         UNCHANGED <<now, sessions, delivered, faults>>,
         req[p].new = Null \/ req'[p].new = req[p].new
  PROVE  NoOrphanedSession'
<1>1. \A s \in Sids : Live(s)' => Live(s) /\ sessions'[s].digest # Null
  BY NullAssumption DEF Live, IndInv, TypeOK, Collection, Session
<1> QED
  BY <1>1, HeldStep

\* A save writes a session that is not live or expects the pair of the request.
LEMMA SaveNoOrphan ==
  ASSUME IndInv, NoOrphanedSession, NEW p \in Procs, \A q \in Procs : q # p => req'[q] = req[q],
         UNCHANGED <<now, delivered, faults>>, req'[p].new = req[p].new,
         \/ sessions' = Delete(sessions, req[p].sid)
         \/ /\ sessions' = Save(sessions, req[p].sid, req[p].copy)
            /\ \/ req[p].copy.digest = req[p].new
               \/ ~IsLive(req[p].copy, now)
  PROVE  NoOrphanedSession'
<1>1. ASSUME NEW s \in Sids, Live(s)'
      PROVE  \/ Live(s) /\ sessions'[s] = sessions[s]
             \/ sessions'[s].digest = req'[p].new
  <2>1. sessions'[s] # Null /\ IsLive(sessions'[s], now)
    BY <1>1 DEF Live
  <2>2. sessions'[s] # sessions[s] => sessions'[s] = req[p].copy /\ req[p].copy.digest = req[p].new
    BY <2>1 DEF Delete, Save, IndInv, TypeOK, Collection
  <2> QED
    BY <2>1, <2>2 DEF Live
<1> QED
  BY <1>1, HeldStep

\* Every step a request takes on its own leaves no session without a holder.
LEMMA ProceedNoOrphan ==
  ASSUME IndInv, OneExpiry, NoOrphanedSession, NEW p \in Procs, Proceed(p)
  PROVE  NoOrphanedSession'
<1> SUFFICES ASSUME ~Fault PROVE NoOrphanedSession'
  BY FaultNoOrphan
<1>1. /\ req \in [Procs -> Request] /\ req[p] \in Request /\ RequestShape(req[p])
      /\ PendingSave(req[p])
  BY DEF IndInv, TypeOK, RequestsWellFormed, PendingSaves
<1>2. CASE CreateSession(p)
  <2>1. CASE Finish(p)
    BY <1>2, <2>1, FinishNoOrphan DEF CreateSession, NoFault
  <2>2. CASE ~Finish(p)
    <3>1. /\ \A q \in Procs : q # p => req'[q] = req[q]
          /\ req'[p].new = req[p].new
      BY <1>1, <1>2, <2>2 DEF CreateSession, Continue, Request
    <3> QED
      BY <1>2, <2>2, <3>1, QuietNoOrphan DEF CreateSession, NoFault
  <2> QED
    BY <2>1, <2>2
<1>3. CASE SaveNewSession(p)
  <2>1. /\ sessions' = Save(sessions, req[p].sid, req[p].copy)
        /\ Continue(p, "signIn.answer", Null) /\ NoFault
    BY <1>3 DEF SaveNewSession
  <2>2. /\ \A q \in Procs : q # p => req'[q] = req[q]
        /\ req'[p].new = req[p].new
    BY <1>1, <2>1 DEF Continue, Request
  <2>3. req[p].copy.digest = req[p].new
    BY <1>1, <1>3 DEF SaveNewSession, PendingSave
  <2> QED
    BY <1>3, <2>1, <2>2, <2>3, SaveNoOrphan DEF SaveNewSession, NoFault
<1>4. CASE SaveRefreshedSession(p)
  <2>1. /\ sessions' = Save(sessions, req[p].sid, req[p].copy)
        /\ Continue(p, "refresh.answer", Null) /\ NoFault
    BY <1>4 DEF SaveRefreshedSession
  <2>2. /\ \A q \in Procs : q # p => req'[q] = req[q]
        /\ req'[p].new = req[p].new
    BY <1>1, <2>1 DEF Continue, Request
  <2>3. req[p].copy.digest = req[p].new \/ ~IsLive(req[p].copy, now)
    <3>1. IsExpired(req[p].copy, pairs[req[p].new].iat) \/ req[p].copy.digest = req[p].new
      BY <1>1, <1>4 DEF SaveRefreshedSession, PendingSave
    <3>2. /\ req[p].new \in Jtis /\ req[p].copy \in Session
          /\ pairs[req[p].new] \in Payload
      BY <1>1, <1>4 DEF SaveRefreshedSession, RequestShape, HoldingNew, HoldingCopy, Request,
         IndInv, TypeOK, RequestTokens, TokensOf
    <3>3. pairs[req[p].new].iat <= now /\ pairs[req[p].new].iat \in Nat /\ now \in Nat
          /\ req[p].copy.expiresAt \in Nat
      BY <3>2, NullIsNoPayload, TimeAssumption DEF IndInv, TypeOK, DeliveredPairs, Payload, Session, Times
    <3> QED
      BY <3>1, <3>3 DEF IsExpired, IsLive
  <2> QED
    BY <1>4, <2>1, <2>2, <2>3, SaveNoOrphan DEF SaveRefreshedSession, NoFault
<1>5. CASE SaveRevokedSession(p)
  <2>1. /\ sessions' = Save(sessions, req[p].sid, req[p].copy)
        /\ Continue(p, "revoke.commit", Null) /\ NoFault
    BY <1>5 DEF SaveRevokedSession
  <2>2. /\ \A q \in Procs : q # p => req'[q] = req[q]
        /\ req'[p].new = req[p].new
    BY <1>1, <2>1 DEF Continue, Request
  <2>3. ~IsLive(req[p].copy, now)
    BY <1>1, <1>5 DEF SaveRevokedSession, PendingSave, IsLive, IsRevoked
  <2> QED
    BY <1>5, <2>1, <2>2, <2>3, SaveNoOrphan DEF SaveRevokedSession, NoFault
<1>6. CASE DeleteSession(p)
  <2>1. /\ sessions' = Delete(sessions, req[p].sid)
        /\ Continue(p, "signOut.answer", Null) /\ NoFault
    BY <1>6 DEF DeleteSession
  <2>2. /\ \A q \in Procs : q # p => req'[q] = req[q]
        /\ req'[p].new = req[p].new
    BY <1>1, <2>1 DEF Continue, Request
  <2> QED
    BY <1>6, <2>1, <2>2, SaveNoOrphan DEF DeleteSession, NoFault
<1>7. CASE AnswerTokens(p)
  BY <1>7, FinishNoOrphan DEF AnswerTokens
<1>8. CASE AnswerSignOut(p) \/ CommitRevokedSession(p)
  <2>1. req[p].new = Null
    BY <1>1, <1>8 DEF AnswerSignOut, CommitRevokedSession, RequestShape, HoldingNew, SignInSteps
  <2> QED
    BY <1>8, <2>1, FinishNoOrphan DEF AnswerSignOut, CommitRevokedSession
<1>9. CASE SignOut(p) \/ RevokeSession(p) \/ RefreshSession(p)
  <2>1. req[p].new = Null
    BY <1>1, <1>9 DEF SignOut, RevokeSession, RefreshSession, RequestShape, HoldingNew, SignInSteps
  <2>2. UNCHANGED <<now, sessions, delivered, faults>>
    BY <1>9 DEF SignOut, RevokeSession, RefreshSession
  <2>3. ~CreateSession(p)
    BY <1>9 DEF CreateSession, SignOut, RevokeSession, RefreshSession
  <2>4. \A q \in Procs : q # p => req'[q] = req[q]
    BY <2>3, ProceedEffect
  <2> QED
    BY <2>1, <2>2, <2>4, QuietNoOrphan
<1> QED
  BY <1>2, <1>3, <1>4, <1>5, <1>6, <1>7, <1>8, <1>9 DEF Proceed

\* A request that arrives holds no pair another session expects.
LEMMA ArriveNoOrphan ==
  ASSUME IndInv, NoOrphanedSession, NEW p \in Procs, Arrive(p)
  PROVE  NoOrphanedSession'
<1>1. req[p] = Idle /\ UNCHANGED <<now, sessions, delivered, faults>>
  BY DEF Arrive, SignIn, GetRefreshTokenSession, BeginSignOut, BeginRevoke
<1>2. \A q \in Procs : q # p => req'[q] = req[q]
  <2>1. ASSUME NEW u \in Users, NEW dev \in Devices, SignIn(p, u, dev)
        PROVE  \A q \in Procs : q # p => req'[q] = req[q]
    BY <2>1 DEF SignIn, IndInv, TypeOK
  <2> QED
    BY <2>1, ArriveEffect DEF Arrive
<1> QED
  BY <1>1, <1>2, QuietNoOrphan DEF Idle

\* No step without a fault leaves a session without a holder of its token.
THEOREM NextNoOrphan ==
  IndInv /\ OneExpiry /\ NoOrphanedSession /\ [Next]_vars => NoOrphanedSession'
<1> SUFFICES ASSUME IndInv, OneExpiry, NoOrphanedSession, [Next]_vars PROVE NoOrphanedSession'
  OBVIOUS
<1>1. CASE UNCHANGED vars
  BY <1>1 DEF vars, NoOrphanedSession, Live
<1>2. CASE Tick
  <2>1. now \in Nat /\ now' = now + 1 /\ UNCHANGED <<sessions, delivered, req, faults>>
    BY <1>2, TimeAssumption DEF Tick, IndInv, TypeOK, Times
  <2>2. ASSUME NEW s \in Sids, Live(s)' PROVE Live(s)
    <3>1. sessions[s] # Null /\ sessions[s].expiresAt \in Nat
      BY <2>1, <2>2, TimeAssumption DEF Live, IndInv, TypeOK, Collection, Session
    <3> QED
      BY <2>1, <2>2, <3>1 DEF Live, IsLive, IsExpired
  <2> QED
    BY <2>1, <2>2 DEF NoOrphanedSession
<1>3. CASE Crash
  BY <1>3, FaultNoOrphan DEF Crash
<1>4. ASSUME NEW p \in Procs, FailedQuery(p) \/ LoseAnswer(p) PROVE NoOrphanedSession'
  BY <1>4, FaultNoOrphan DEF FailedQuery, LoseAnswer
<1> QED
  BY <1>1, <1>2, <1>3, <1>4, ArriveNoOrphan, ProceedNoOrphan DEF Next

\* Nothing else in the process orphans a session without counting as a fault.
LEMMA OpenNoOrphan == OpenSpec => []NoOrphanedSession
<1>1. Init => NoOrphanedSession
  BY DEF Init, NoOrphanedSession, Live
<1>2. IndInv /\ OneExpiry /\ NoOrphanedSession /\ [OpenNext]_vars => NoOrphanedSession'
  BY NextNoOrphan, FaultNoOrphan DEF OpenNext, FaultElsewhere
<1> QED
  BY <1>1, <1>2, OpenIndInv, OpenOneExpiry, PTL DEF OpenSpec

\* While nothing has failed, every live session expects a token that a client
\* holds or is about to be answered, whichever handlers overlap.
THEOREM NoOrphanedSessionHolds == Spec => []NoOrphanedSession
  BY OpenNoOrphan, SpecIsOpen, PTL

-------------------------------------------------------------------------------
(* What may bring back a session that was signed out or revoked.            *)

\* a session about to be opened is neither stored nor in anybody's memory, and
\* has no token pair but the one of its sign-in
SoleSignIn(p) ==
  req[p].at \in {"signIn.find", "signIn.save"} =>
    /\ sessions[req[p].sid] = Null
    /\ \A q \in Procs : q # p /\ req[q].sid = req[p].sid => req[q].copy = Null
    /\ \A j \in Jtis : pairs[j] # Null /\ pairs[j].sid = req[p].sid => j = req[p].new

SoleSignIns == \A p \in Procs : SoleSignIn(p)

\* A step that opens no session, and at most draws a pair for a session one of
\* whose tokens a client holds, keeps sessions about to be opened alone.
LEMMA EffectSole ==
  ASSUME IndInv, SoleSignIns, NEW p \in Procs, \A q \in Procs : q # p => req'[q] = req[q],
         StoreEffect(p), CopyEffect(p), req'[p].at \notin {"signIn.find", "signIn.save"},
         \A j \in Jtis : pairs'[j] # Null =>
           pairs'[j] = pairs[j] \/ \E k \in delivered : pairs[k].sid = pairs'[j].sid
  PROVE  SoleSignIns'
<1> SUFFICES ASSUME NEW q \in Procs, req'[q].at \in {"signIn.find", "signIn.save"}
             PROVE  SoleSignIn(q)'
  BY DEF SoleSignIns, SoleSignIn
<1>1. q # p /\ req'[q] = req[q]
  OBVIOUS
<1>2. /\ sessions[req[q].sid] = Null
      /\ \A r \in Procs : r # q /\ req[r].sid = req[q].sid => req[r].copy = Null
      /\ \A j \in Jtis : pairs[j] # Null /\ pairs[j].sid = req[q].sid => j = req[q].new
  BY <1>1 DEF SoleSignIns, SoleSignIn
<1>3. req[q].sid \in Sids /\ sessions \in Collection /\ req[q].new \notin delivered
  <2>1. req[q] \in Request /\ RequestShape(req[q]) /\ TokensOf(req[q])
    BY DEF IndInv, TypeOK, RequestsWellFormed, RequestTokens
  <2> QED
    BY <1>1, <2>1 DEF IndInv, TypeOK, RequestShape, TokensOf, Request, HoldingNew, SignInSteps
<1>4. sessions'[req[q].sid] = Null
  BY <1>1, <1>2, <1>3 DEF StoreEffect, Delete, Save, Collection
<1>5. ASSUME NEW r \in Procs, r # q, req'[r].sid = req[q].sid PROVE req'[r].copy = Null
  <2>1. CASE r # p
    BY <1>2, <1>5, <2>1
  <2>2. CASE r = p
    BY <1>1, <1>2, <1>5, <2>2 DEF CopyEffect
  <2> QED
    BY <2>1, <2>2
<1>6. ASSUME NEW j \in Jtis, pairs'[j] # Null, pairs'[j].sid = req[q].sid PROVE j = req[q].new
  <2>1. \A k \in delivered : pairs[k].sid # req[q].sid
    BY <1>2, <1>3 DEF IndInv, TypeOK, DeliveredPairs
  <2> QED
    BY <1>2, <1>6, <2>1
<1> QED
  BY <1>1, <1>4, <1>5, <1>6 DEF SoleSignIn

\* A session id just drawn is of nobody.
LEMMA SignInSole ==
  ASSUME IndInv, SoleSignIns, NEW p \in Procs, NEW u \in Users, NEW dev \in Devices, SignIn(p, u, dev)
  PROVE  SoleSignIns'
<1>1. PICK s \in Sids, j \in Jtis :
        /\ pairs[j] = Null /\ \A k \in Jtis : pairs[k] # Null => pairs[k].sid # s
        /\ pairs' = [pairs EXCEPT ![j] = GenerateTokens(s, u, dev, now)]
        /\ req' = [req EXCEPT ![p] = [Idle EXCEPT !.at = "signIn.find", !.sid = s, !.new = j]]
  BY DEF SignIn, FreshSids, Unused
<1>2. /\ req \in [Procs -> Request] /\ sessions \in Collection
      /\ pairs \in [Jtis -> Payload \cup {Null}]
  BY DEF IndInv, TypeOK
<1>3. /\ req'[p].at = "signIn.find" /\ req'[p].sid = s /\ req'[p].new = j /\ req'[p].copy = Null
      /\ \A q \in Procs : q # p => req'[q] = req[q]
      /\ UNCHANGED sessions
  BY <1>1, <1>2 DEF SignIn, Idle
<1>4. /\ \A k \in Jtis : k # j => pairs'[k] = pairs[k]
      /\ pairs'[j].sid = s
  BY <1>1, <1>2 DEF GenerateTokens
<1>5. sessions[s] = Null
  BY <1>1, <1>2 DEF IndInv, TokenBinding, Belongs, Collection, Session
<1>6. \A q \in Procs : req[q].sid = s => req[q].copy = Null
  BY <1>1, <1>2 DEF IndInv, TokenBinding, Belongs, Request, Session
<1>7. SoleSignIn(p)'
  BY <1>1, <1>3, <1>4, <1>5, <1>6 DEF SoleSignIn
<1>8. ASSUME NEW q \in Procs, q # p PROVE SoleSignIn(q)'
  <2> SUFFICES ASSUME req[q].at \in {"signIn.find", "signIn.save"} PROVE SoleSignIn(q)'
    BY <1>3, <1>8 DEF SoleSignIn
  <2>1. req[q].sid # s
    <3>1. RequestShape(req[q]) /\ TokensOf(req[q]) /\ req[q] \in Request
      BY <1>2 DEF IndInv, RequestsWellFormed, RequestTokens
    <3> QED
      BY <1>1, <3>1 DEF RequestShape, TokensOf, HoldingNew, SignInSteps, Request
  <2> QED
    BY <1>3, <1>4, <1>8, <2>1 DEF SoleSignIns, SoleSignIn
<1> QED
  BY <1>7, <1>8 DEF SoleSignIns

\* A sign-in that goes on to save is still alone.
LEMMA CreateSessionSole ==
  ASSUME IndInv, SoleSignIns, NEW p \in Procs, CreateSession(p)
  PROVE  SoleSignIns'
<1>1. /\ req \in [Procs -> Request] /\ req[p] \in Request
      /\ req[p].at = "signIn.find" /\ UNCHANGED <<sessions, pairs>>
  BY DEF CreateSession, IndInv, TypeOK
<1>2. /\ \A q \in Procs : q # p => req'[q] = req[q]
      /\ \/ req'[p] = Idle
         \/ req'[p].at = "signIn.save" /\ req'[p].sid = req[p].sid /\ req'[p].new = req[p].new
  BY <1>1 DEF CreateSession, Finish, Continue, Request
<1>3. \A q \in Procs : q # p /\ req[q].at \in {"signIn.find", "signIn.save"} => req[q].sid # req[p].sid
  <2> SUFFICES ASSUME NEW q \in Procs, q # p, req[q].at \in {"signIn.find", "signIn.save"},
                      req[q].sid = req[p].sid
               PROVE  FALSE
    OBVIOUS
  <2>1. /\ RequestShape(req[q]) /\ TokensOf(req[q]) /\ req[q] \in Request
        /\ RequestShape(req[p]) /\ TokensOf(req[p])
    BY <1>1 DEF IndInv, RequestsWellFormed, RequestTokens
  <2>2. /\ req[q].new \in Jtis /\ req[q].new # Null /\ pairs[req[q].new] # Null
        /\ pairs[req[q].new].sid = req[q].sid
    BY <2>1 DEF RequestShape, TokensOf, HoldingNew, SignInSteps, Request
  <2>3. req[q].new = req[p].new
    BY <1>1, <2>2 DEF SoleSignIns, SoleSignIn
  <2> QED
    BY <2>2, <2>3 DEF IndInv, RequestTokens
<1>4. Idle.at = "idle" /\ Idle.copy = Null
  BY DEF Idle
<1>5. SoleSignIn(p)'
  BY <1>1, <1>2, <1>4 DEF SoleSignIns, SoleSignIn
<1>6. ASSUME NEW q \in Procs, q # p PROVE SoleSignIn(q)'
  <2> SUFFICES ASSUME req[q].at \in {"signIn.find", "signIn.save"} PROVE SoleSignIn(q)'
    BY <1>2, <1>6 DEF SoleSignIn
  <2>1. req'[p].copy = Null \/ req'[p].sid # req[q].sid
    BY <1>2, <1>3, <1>4, <1>6
  <2> QED
    BY <1>1, <1>2, <1>6, <2>1 DEF SoleSignIns, SoleSignIn
<1> QED
  BY <1>5, <1>6 DEF SoleSignIns

\* Every other step of a request draws at most a pair for a session one of whose
\* tokens a client holds.
LEMMA ProceedSole ==
  ASSUME IndInv, SoleSignIns, NEW p \in Procs, Proceed(p)
  PROVE  SoleSignIns'
<1>1. CASE CreateSession(p)
  BY <1>1, CreateSessionSole
<1>2. CASE ~CreateSession(p)
  <2>1. req \in [Procs -> Request] /\ req[p] \in Request
    BY DEF IndInv, TypeOK
  <2>2. req'[p].at \notin {"signIn.find", "signIn.save"}
    <3>1. Finish(p) => req'[p].at = "idle"
      BY <2>1 DEF Finish, Idle
    <3>2. ASSUME NEW at \in AwaitingStore \cup Answering \cup {"revoke.commit"}, NEW c, Continue(p, at, c)
          PROVE  req'[p].at = at
      BY <2>1, <3>2 DEF Continue, Request
    <3>3. RefreshSession(p) => req'[p].at = "refresh.save"
      BY <2>1 DEF RefreshSession, Request
    <3> QED
      BY <1>2, <3>1, <3>2, <3>3 DEF Proceed, SaveNewSession, AnswerTokens, SaveRefreshedSession,
         SignOut, DeleteSession, AnswerSignOut, RevokeSession, SaveRevokedSession,
         CommitRevokedSession, AwaitingStore, Answering
  <2>3. ASSUME NEW j \in Jtis, pairs'[j] # Null
        PROVE  pairs'[j] = pairs[j] \/ \E k \in delivered : pairs[k].sid = pairs'[j].sid
    <3>1. CASE UNCHANGED pairs
      BY <3>1
    <3>2. CASE RefreshSession(p)
      <4>1. PICK n \in Jtis : \E u, d : pairs' = [pairs EXCEPT ![n] = GenerateTokens(req[p].sid, u, d, now)]
        BY <3>2 DEF RefreshSession, Unused
      <4>2. req[p].tok \in delivered /\ pairs[req[p].tok].sid = req[p].sid
        <5>1. req[p].at = "refresh.user" /\ RequestShape(req[p]) /\ TokensOf(req[p])
          BY <3>2 DEF RefreshSession, IndInv, RequestsWellFormed, RequestTokens
        <5> QED
          BY <5>1 DEF RequestShape, TokensOf, RefreshSteps
      <4> QED
        BY <4>1, <4>2 DEF GenerateTokens, IndInv, TypeOK
    <3> QED
      BY <1>2, <3>1, <3>2 DEF Proceed, SaveNewSession, AnswerTokens, SaveRefreshedSession, SignOut,
         DeleteSession, AnswerSignOut, RevokeSession, SaveRevokedSession, CommitRevokedSession
  <2> QED
    BY <1>2, <2>2, <2>3, ProceedEffect, EffectSole
<1> QED
  BY <1>1, <1>2

\* Sessions about to be opened stay alone, whatever overlaps.
LEMMA NextSole == ASSUME IndInv, SoleSignIns, [Next]_vars PROVE SoleSignIns'
<1>1. CASE UNCHANGED vars
  BY <1>1 DEF vars, SoleSignIns, SoleSignIn
<1>2. CASE Tick
  BY <1>2 DEF Tick, SoleSignIns, SoleSignIn
<1>3. CASE Crash
  BY <1>3 DEF Crash, SoleSignIns, SoleSignIn, Idle
<1>4. ASSUME NEW p \in Procs, NEW j \in Jtis, NEW kind \in TokenKinds,
             \/ GetRefreshTokenSession(p, j, kind)
             \/ BeginSignOut(p, j, kind)
             \/ \E target \in Sids : BeginRevoke(p, j, kind, target)
      PROVE  SoleSignIns'
  <2>1. req \in [Procs -> Request]
    BY DEF IndInv, TypeOK
  <2>2. req'[p].at \in {"refresh.user", "signOut.find", "revoke.find"} /\ UNCHANGED pairs
    <3>1. GetRefreshTokenSession(p, j, kind) => req'[p].at = "refresh.user" /\ UNCHANGED pairs
      BY <2>1 DEF GetRefreshTokenSession
    <3>2. BeginSignOut(p, j, kind) => req'[p].at = "signOut.find" /\ UNCHANGED pairs
      BY <2>1 DEF BeginSignOut, Idle
    <3>3. ASSUME NEW target \in Sids, BeginRevoke(p, j, kind, target)
          PROVE  req'[p].at = "revoke.find" /\ UNCHANGED pairs
      BY <2>1, <3>3 DEF BeginRevoke, Idle
    <3> QED
      BY <1>4, <3>1, <3>2, <3>3
  <2> QED
    BY <1>4, <2>2, ArriveEffect, EffectSole
<1>5. ASSUME NEW p \in Procs, FailedQuery(p) \/ LoseAnswer(p) PROVE SoleSignIns'
  <2>1. req'[p].at \notin {"signIn.find", "signIn.save"} /\ UNCHANGED pairs
    BY <1>5 DEF FailedQuery, LoseAnswer, Finish, Idle, IndInv, TypeOK
  <2> QED
    BY <1>5, <2>1, FailEffect, EffectSole
<1> QED
  BY <1>1, <1>2, <1>3, <1>4, <1>5, SignInSole, ProceedSole DEF Next, Arrive

\* In every reachable state, a session about to be opened is nobody's yet.
LEMMA OpenSole == OpenSpec => []SoleSignIns
<1>1. Init => SoleSignIns
  BY DEF Init, SoleSignIns, SoleSignIn, Idle
<1>2. SoleSignIns /\ FaultElsewhere => SoleSignIns'
  BY DEF FaultElsewhere, SoleSignIns, SoleSignIn
<1>3. IndInv /\ SoleSignIns /\ [OpenNext]_vars => SoleSignIns'
  BY <1>2, NextSole DEF OpenNext
<1> QED
  BY <1>1, <1>3, OpenIndInv, PTL DEF OpenSpec

\* A save of a session that is not revoked, over one that ended, is that of a
\* refresh, and what it saves is expired or expects the token of that refresh.
LEMMA UndoneStep ==
  ASSUME IndInv, SoleSignIns, Next, NEW s \in Sids,
         Ended(s), sessions'[s] # Null, ~IsRevoked(sessions'[s])
  PROVE  \E p \in Procs :
           /\ req[p].at = "refresh.save" /\ req[p].sid = s
           /\ \/ sessions'[s].digest = req[p].new /\ req[p].new \notin delivered
              \/ IsExpired(sessions'[s], now)
<1>1. sessions'[s] # sessions[s]
  BY DEF Ended
<1>2. sessions \in Collection /\ req \in [Procs -> Request] /\ pairs \in [Jtis -> Payload \cup {Null}]
  BY DEF IndInv, TypeOK
<1>3. PICK p \in Procs :
        /\ SaveNewSession(p) \/ SaveRefreshedSession(p) \/ SaveRevokedSession(p)
        /\ sessions' = Save(sessions, req[p].sid, req[p].copy)
  <2>1. ~Tick /\ ~Crash
    BY <1>1 DEF Tick, Crash
  <2>2. \A p \in Procs : ~Arrive(p) /\ ~FailedQuery(p) /\ ~LoseAnswer(p)
    BY <1>1 DEF Arrive, SignIn, GetRefreshTokenSession, BeginSignOut, BeginRevoke, FailedQuery, LoseAnswer
  <2>3. PICK p \in Procs : Proceed(p)
    BY <2>1, <2>2 DEF Next
  <2>4. ~DeleteSession(p)
    BY <1>1, <1>2 DEF DeleteSession, Delete, Collection
  <2>5. SaveNewSession(p) \/ SaveRefreshedSession(p) \/ SaveRevokedSession(p)
    BY <1>1, <2>3, <2>4 DEF Proceed, CreateSession, AnswerTokens, RefreshSession, SignOut, AnswerSignOut,
       RevokeSession, CommitRevokedSession
  <2> QED
    BY <1>1, <2>5 DEF SaveNewSession, SaveRefreshedSession, SaveRevokedSession
<1>4. req[p].sid = s /\ sessions'[s] = req[p].copy
  BY <1>1, <1>2, <1>3 DEF Save, Collection
<1>5. RequestShape(req[p]) /\ TokensOf(req[p]) /\ PendingSave(req[p]) /\ req[p] \in Request
  BY <1>2 DEF IndInv, RequestsWellFormed, RequestTokens, PendingSaves
<1>6. ~SaveRevokedSession(p)
  BY <1>4, <1>5 DEF SaveRevokedSession, PendingSave, IsRevoked
<1>7. ~SaveNewSession(p)
  <2> SUFFICES ASSUME req[p].at = "signIn.save" PROVE FALSE
    BY DEF SaveNewSession
  <2>1. sessions[s] = Null /\ \A j \in Jtis : pairs[j] # Null /\ pairs[j].sid = s => j = req[p].new
    BY <1>4 DEF SoleSignIns, SoleSignIn
  <2>2. PICK j \in delivered : pairs[j].sid = s
    BY <2>1 DEF Ended
  <2>3. j = req[p].new
    BY <2>1, <2>2 DEF IndInv, TypeOK, DeliveredPairs
  <2> QED
    BY <1>5, <2>2, <2>3 DEF TokensOf, RequestShape, HoldingNew, SignInSteps
<1>8. req[p].at = "refresh.save"
  BY <1>3, <1>6, <1>7 DEF SaveRefreshedSession
<1>9. req[p].new \in Jtis /\ req[p].new \notin delivered /\ pairs[req[p].new] # Null
  BY <1>5, <1>8 DEF RequestShape, TokensOf, HoldingNew, Request
<1>10. IsExpired(req[p].copy, pairs[req[p].new].iat) => IsExpired(sessions'[s], now)
  <2>1. /\ pairs[req[p].new].iat \in Nat /\ now \in Nat /\ pairs[req[p].new].iat <= now
        /\ req[p].copy.expiresAt \in Nat
    <3>1. pairs[req[p].new] \in Payload /\ req[p].copy \in Session
      BY <1>2, <1>5, <1>8, <1>9 DEF RequestShape, HoldingCopy, Request
    <3> QED
      BY <1>9, <3>1, TimeAssumption DEF Payload, Session, Times, IndInv, TypeOK, DeliveredPairs
  <2> QED
    BY <1>4, <2>1 DEF IsExpired
<1> QED
  BY <1>4, <1>5, <1>8, <1>9, <1>10 DEF PendingSave

\* Nothing else in the process brings back a session that ended.
LEMMA OpenUndone == OpenSpec => UndoneOnlyByRefresh
<1> DEFINE ByRefresh == \A s \in Sids :
             Ended(s) /\ sessions'[s] # Null /\ ~IsRevoked(sessions'[s]) =>
               \E p \in Procs :
                 /\ req[p].at = "refresh.save" /\ req[p].sid = s
                 /\ \/ sessions'[s].digest = req[p].new /\ req[p].new \notin delivered
                    \/ IsExpired(sessions'[s], now)
<1>1. FaultElsewhere => ByRefresh
  BY DEF FaultElsewhere, Ended
<1>2. IndInv /\ SoleSignIns /\ [OpenNext]_vars => [ByRefresh]_vars
  BY <1>1, UndoneStep DEF OpenNext
<1> QED
  BY <1>2, OpenIndInv, OpenSole, PTL DEF OpenSpec, UndoneOnlyByRefresh

\* Only a refresh in flight brings back a session that was signed out or revoked,
\* and then the session expects a token that only that refresh holds.
THEOREM UndoneOnlyByRefreshHolds == Spec => UndoneOnlyByRefresh
  BY OpenUndone, SpecIsOpen, PTL

\* A step brings no request that presents a token of a session that is over: every
\* handler that accepts one finds the session live.
LEMMA OverArrival ==
  ASSUME IndInv, NEW s \in Sids, Over(s), NEW p \in Procs, Arrive(p)
  PROVE  \A q \in Procs : req'[q].tok # Null => pairs'[req'[q].tok].sid # s
<1>1. req \in [Procs -> Request] /\ pairs \in [Jtis -> Payload \cup {Null}] /\ sessions \in Collection
  BY DEF IndInv, TypeOK
<1>2. \A q \in Procs : req[q].tok # Null => req[q].tok \in Jtis /\ pairs[req[q].tok] # Null /\ pairs[req[q].tok].sid # s
  BY <1>1 DEF Over, IndInv, RequestTokens, TokensOf, DeliveredPairs, Request
<1>3. ASSUME NEW j \in Jtis, NEW kind \in TokenKinds,
             \/ GetRefreshTokenSession(p, j, kind)
             \/ ValidateSession(j, kind)
      PROVE  pairs[j].sid # s
  <2> SUFFICES ASSUME pairs[j].sid = s PROVE FALSE
    OBVIOUS
  <2>1. sessions[s] # Null /\ ~IsRevoked(sessions[s])
    BY <1>1, <1>3 DEF GetRefreshTokenSession, ValidateSession, FindDeviceSession, FindById,
       FromModelToDomain, IsLive, IsRevoked, Collection, Session
  <2> QED
    BY <2>1 DEF Over, Ended
<1>4. ASSUME NEW u \in Users, NEW dev \in Devices, SignIn(p, u, dev)
      PROVE  \A q \in Procs : req'[q].tok # Null => pairs'[req'[q].tok].sid # s
  <2>1. PICK r \in FreshSids(pairs), k \in Unused(pairs) :
          /\ pairs' = [pairs EXCEPT ![k] = GenerateTokens(r, u, dev, now)]
          /\ req' = [req EXCEPT ![p] = [Idle EXCEPT !.at = "signIn.find", !.sid = r, !.new = k]]
    BY <1>4 DEF SignIn
  <2>2. req'[p].tok = Null /\ \A q \in Procs : q # p => req'[q] = req[q]
    BY <1>1, <2>1 DEF Idle
  <2>3. \A j \in Jtis : pairs[j] # Null => pairs'[j] = pairs[j]
    BY <1>1, <2>1 DEF Unused
  <2> QED
    BY <1>2, <2>2, <2>3
<1>5. ASSUME NEW j \in Jtis, NEW kind \in TokenKinds,
             \/ GetRefreshTokenSession(p, j, kind)
             \/ BeginSignOut(p, j, kind)
             \/ \E target \in Sids : BeginRevoke(p, j, kind, target)
      PROVE  \A q \in Procs : req'[q].tok # Null => pairs'[req'[q].tok].sid # s
  <2>1. UNCHANGED pairs /\ req'[p].tok = j /\ \A q \in Procs : q # p => req'[q] = req[q]
    <3>1. CASE GetRefreshTokenSession(p, j, kind)
      BY <1>1, <3>1 DEF GetRefreshTokenSession
    <3>2. CASE BeginSignOut(p, j, kind)
      BY <1>1, <3>2 DEF BeginSignOut, Idle
    <3>3. CASE \E target \in Sids : BeginRevoke(p, j, kind, target)
      BY <1>1, <3>3 DEF BeginRevoke, Idle
    <3> QED
      BY <1>5, <3>1, <3>2, <3>3
  <2>2. pairs[j].sid # s
    BY <1>3, <1>5 DEF BeginSignOut, BeginRevoke
  <2> QED
    BY <1>2, <2>1, <2>2
<1> QED
  BY <1>4, <1>5 DEF Arrive

\* Every other step leaves a request the token it presented, or none, and each
\* token its session.
LEMMA TokensKept ==
  ASSUME IndInv, Next, \A p \in Procs : ~Arrive(p)
  PROVE  /\ \A q \in Procs : req'[q].tok \in {req[q].tok, Null}
         /\ \A j \in Jtis : pairs[j] # Null => pairs'[j] = pairs[j]
<1>1. req \in [Procs -> Request] /\ pairs \in [Jtis -> Payload \cup {Null}] /\ Idle.tok = Null
  BY DEF IndInv, TypeOK, Idle
<1>2. CASE Tick \/ Crash
  BY <1>1, <1>2 DEF Tick, Crash
<1>3. ASSUME NEW p \in Procs, RefreshSession(p)
      PROVE  /\ \A q \in Procs : req'[q].tok \in {req[q].tok, Null}
             /\ \A j \in Jtis : pairs[j] # Null => pairs'[j] = pairs[j]
  <2>1. PICK k \in Jtis :
          /\ pairs[k] = Null
          /\ \E x : pairs' = [pairs EXCEPT ![k] = x]
          /\ \E c : req' = [req EXCEPT ![p].at = "refresh.save", ![p].new = k, ![p].copy = c]
    BY <1>3 DEF RefreshSession, Unused
  <2> QED
    BY <1>1, <2>1 DEF Request
<1>4. ASSUME NEW p \in Procs, NEW at, NEW c, Finish(p) \/ Continue(p, at, c)
      PROVE  \A q \in Procs : req'[q].tok \in {req[q].tok, Null}
  BY <1>1, <1>4 DEF Finish, Continue, Request
<1>5. ASSUME NEW p \in Procs, Proceed(p) \/ FailedQuery(p) \/ LoseAnswer(p), ~RefreshSession(p)
      PROVE  UNCHANGED pairs /\ (Finish(p) \/ \E at, c : Continue(p, at, c))
  BY <1>5 DEF Proceed, FailedQuery, LoseAnswer, CreateSession, SaveNewSession, AnswerTokens,
     SaveRefreshedSession, SignOut, DeleteSession, AnswerSignOut, RevokeSession, SaveRevokedSession,
     CommitRevokedSession
<1> QED
  BY <1>2, <1>3, <1>4, <1>5 DEF Next

\* Only the delete of a sign-out removes a document.
LEMMA OnlyDeleteRemoves ==
  ASSUME IndInv, Next, NEW s \in Sids, sessions[s] # Null, sessions'[s] = Null
  PROVE  \E p \in Procs : DeleteSession(p) /\ req[p].sid = s
<1>1. /\ req \in [Procs -> Request] /\ sessions \in Collection
      /\ \A p \in Procs : RequestShape(req[p])
  BY DEF IndInv, TypeOK, RequestsWellFormed
<1>2. PICK p \in Procs : Proceed(p)
  BY DEF Next, Tick, Crash, Arrive, SignIn, GetRefreshTokenSession, BeginSignOut, BeginRevoke,
     FailedQuery, LoseAnswer
<1>3. ASSUME SaveNewSession(p) \/ SaveRefreshedSession(p) \/ SaveRevokedSession(p) PROVE FALSE
  <2>1. req[p].copy # Null
    BY <1>1, <1>3 DEF SaveNewSession, SaveRefreshedSession, SaveRevokedSession, RequestShape, HoldingCopy
  <2>2. sessions' = Save(sessions, req[p].sid, req[p].copy)
    BY <1>3 DEF SaveNewSession, SaveRefreshedSession, SaveRevokedSession
  <2> QED
    BY <1>1, <2>1, <2>2 DEF Save, Collection
<1>4. DeleteSession(p)
  BY <1>2, <1>3 DEF Proceed, CreateSession, AnswerTokens, RefreshSession, SignOut, AnswerSignOut,
     RevokeSession, CommitRevokedSession
<1>5. req[p].sid = s
  BY <1>1, <1>4 DEF DeleteSession, Delete, Collection
<1> QED
  BY <1>4, <1>5

\* No step but one of a request with a token of the session ends its end.
LEMMA OverStep ==
  ASSUME IndInv, SoleSignIns, Next, NEW s \in Sids, Over(s)
  PROVE  Over(s)'
<1>1. /\ req \in [Procs -> Request] /\ pairs \in [Jtis -> Payload \cup {Null}] /\ sessions \in Collection
      /\ delivered \subseteq Jtis
  BY DEF IndInv, TypeOK
<1>2. \A q \in Procs : req[q].tok # Null => req[q].tok \in Jtis /\ pairs[req[q].tok] # Null /\ pairs[req[q].tok].sid # s
  BY <1>1 DEF Over, IndInv, RequestTokens, TokensOf, DeliveredPairs, Request
<1>3. \A q \in Procs : req'[q].tok # Null => pairs'[req'[q].tok].sid # s
  <2>1. CASE \E p \in Procs : Arrive(p)
    BY <2>1, OverArrival
  <2>2. CASE \A p \in Procs : ~Arrive(p)
    BY <1>2, <2>2, TokensKept
  <2> QED
    BY <2>1, <2>2
<1>4. \A j \in delivered : j \in delivered' /\ pairs'[j] = pairs[j]
  <2>1. delivered \subseteq delivered'
    <3>1. Tick \/ Crash => UNCHANGED delivered
      BY DEF Tick, Crash
    <3>2. \A p \in Procs : Arrive(p) \/ FailedQuery(p) \/ LoseAnswer(p) => UNCHANGED delivered
      BY DEF Arrive, SignIn, GetRefreshTokenSession, BeginSignOut, BeginRevoke, FailedQuery, LoseAnswer
    <3>3. \A p \in Procs : Proceed(p) => delivered \subseteq delivered'
      BY DEF Proceed, CreateSession, SaveNewSession, AnswerTokens, RefreshSession, SaveRefreshedSession,
         SignOut, DeleteSession, AnswerSignOut, RevokeSession, SaveRevokedSession, CommitRevokedSession
    <3> QED
      BY <3>1, <3>2, <3>3 DEF Next
  <2>2. ASSUME NEW p \in Procs, Arrive(p) PROVE \A j \in Jtis : pairs[j] # Null => pairs'[j] = pairs[j]
    BY <1>1, <2>2 DEF Arrive, SignIn, Unused, GetRefreshTokenSession, BeginSignOut, BeginRevoke
  <2>3. \A j \in Jtis : pairs[j] # Null => pairs'[j] = pairs[j]
    BY <2>2, TokensKept
  <2> QED
    BY <1>1, <2>1, <2>3 DEF IndInv, DeliveredPairs
<1>5. ASSUME sessions'[s] # Null PROVE IsRevoked(sessions'[s])
  <2> SUFFICES ASSUME ~IsRevoked(sessions'[s]) PROVE FALSE
    OBVIOUS
  <2>1. PICK p \in Procs : req[p].at = "refresh.save" /\ req[p].sid = s
    BY <1>5, UndoneStep DEF Over
  <2>2. req[p].tok # Null /\ pairs[req[p].tok].sid = s
    BY <2>1 DEF IndInv, RequestsWellFormed, RequestShape, RequestTokens, TokensOf, RefreshSteps
  <2> QED
    BY <1>2, <2>2
<1>6. CASE sessions[s] = Null
  <2>1. \E j \in delivered' : pairs'[j].sid = s
    BY <1>4, <1>6 DEF Over, Ended
  <2> QED
    BY <1>3, <1>5, <2>1 DEF Over, Ended
<1>7. CASE sessions[s] # Null
  <2>1. sessions'[s] # Null
    <3> SUFFICES ASSUME sessions'[s] = Null PROVE FALSE
      OBVIOUS
    <3>1. PICK p \in Procs : DeleteSession(p) /\ req[p].sid = s
      BY <1>1, <1>7, OnlyDeleteRemoves
    <3>2. req[p].tok # Null /\ pairs[req[p].tok].sid = s
      BY <3>1 DEF DeleteSession, IndInv, RequestsWellFormed, RequestShape, RequestTokens, TokensOf, SignOutSteps
    <3> QED
      BY <1>2, <3>2
  <2> QED
    BY <1>3, <1>5, <2>1 DEF Over, Ended
<1> QED
  BY <1>6, <1>7

\* Nothing else in the process revives a session that is over.
LEMMA OpenEndedForGood == OpenSpec => EndedForGood
<1> DEFINE StaysOver == \A s \in Sids : Over(s) => Over(s)'
<1>1. FaultElsewhere => StaysOver
  BY DEF FaultElsewhere, Over, Ended
<1>2. IndInv /\ SoleSignIns /\ [OpenNext]_vars => [StaysOver]_vars
  BY <1>1, OverStep DEF OpenNext
<1> QED
  BY <1>2, OpenIndInv, OpenSole, PTL DEF OpenSpec, EndedForGood

\* A session that ended, and of which no token is in use any more, has ended for
\* good: no stale copy, sign-in or token brings it back.
THEOREM EndedForGoodHolds == Spec => EndedForGood
  BY OpenEndedForGood, SpecIsOpen, PTL
===============================================================================
