-------------------------- MODULE AuthSessionsProofs --------------------------
(***************************************************************************)
(* Proofs about AuthSessions, for every value of its constants.            *)
(*                                                                         *)
(* IndInv of AuthSessionsProps holds initially (InitIndInv) and is kept by *)
(* every step (NextIndInv).  An action changes the request that takes it   *)
(* and at most one of the collection, the pairs and the delivered tokens:  *)
(* there is one lemma per action, and a handful of lemmas on what an       *)
(* action of a given shape leaves alone (QuietStep, FinishStep,            *)
(* ContinueShape, StoreStep).  TypeStep settles the types of all actions.  *)
(*                                                                         *)
(* The session requests share their process with others.  What those do to *)
(* them is count a fault, so every theorem is proved of OpenSpec, in which *)
(* faults also strike elsewhere, and holds of Spec because it is a case of *)
(* OpenSpec (SpecIsOpen).  The modules that put other requests beside the  *)
(* session requests show that they, too, are cases of it.                  *)
(***************************************************************************)
EXTENDS AuthSessionsProps, TLAPS

\* a fault that strikes a request of another part of the process
FaultElsewhere ==
  /\ Fault
  /\ UNCHANGED <<now, sessions, pairs, delivered, cookie, req, published, rotated>>

OpenNext == Next \/ FaultElsewhere

OpenSpec == Init /\ [][OpenNext]_vars

\* With nothing else in the process, faults strike session requests only.
LEMMA SpecIsOpen == Spec => OpenSpec
<1>1. [Next]_vars => [OpenNext]_vars
  BY DEF OpenNext
<1> QED
  BY <1>1, PTL DEF Spec, OpenSpec

\* A request slot nobody uses is well formed.
LEMMA IdleWellFormed == Idle \in Request /\ RequestShape(Idle)
  BY NullAssumption DEF Idle, Request, RequestShape, AwaitingStore, Answering, TokenKinds,
     SignInSteps, RefreshSteps, SignOutSteps, RevokeSteps, HoldingNew, HoldingCopy

\* What the aggregate's operators return, and keep.
LEMMA NewSessionIsSession ==
  ASSUME NEW u \in Users, NEW dev \in Devices, NEW dig \in Jtis, NEW t \in Times
  PROVE  NewSession(u, dev, dig, t) \in Session
  BY TimeAssumption DEF NewSession, Session, Times

\* Session.refresh keeps everything but the digest and the last refresh, and
\* sets the digest unless the session is expired or revoked.
LEMMA RefreshedIsSession ==
  ASSUME NEW s \in Session, NEW dig \in Jtis, NEW t \in Times
  PROVE  /\ Refresh(s, dig, t) \in Session
         /\ Refresh(s, dig, t).user = s.user
         /\ Refresh(s, dig, t).device = s.device
         /\ Refresh(s, dig, t).expiresAt = s.expiresAt
         /\ Refresh(s, dig, t).revokedAt = s.revokedAt
         /\ Refresh(s, dig, t).digest \in {s.digest, dig}
         /\ s.revokedAt = Null => IsExpired(s, t) \/ Refresh(s, dig, t).digest = dig
<1>1. CASE IsExpired(s, t) \/ IsRevoked(s)
  BY <1>1 DEF Refresh, IsRevoked
<1>2. CASE ~(IsExpired(s, t) \/ IsRevoked(s))
  <2>1. Refresh(s, dig, t) = [s EXCEPT !.lastRefreshAt = t, !.digest = dig]
    BY <1>2 DEF Refresh
  <2> QED
    BY <2>1 DEF Session
<1> QED
  BY <1>1, <1>2

\* Session.revoke sets revokedAt and nothing else.
LEMMA RevokedIsSession ==
  ASSUME NEW s \in Session, NEW t \in Times
  PROVE  /\ Revoke(s, t) \in Session
         /\ Revoke(s, t).user = s.user
         /\ Revoke(s, t).device = s.device
         /\ Revoke(s, t).digest = s.digest
         /\ Revoke(s, t).revokedAt = t
  BY DEF Revoke, Session

\* A session found by id is the stored one, but for its last refresh.
LEMMA FoundById ==
  ASSUME NEW coll \in Collection, NEW s \in Sids, FindById(coll, s) # Null
  PROVE  /\ coll[s] # Null /\ coll[s] \in Session
         /\ FindById(coll, s) \in Session
         /\ FindById(coll, s).user = coll[s].user
         /\ FindById(coll, s).device = coll[s].device
         /\ FindById(coll, s).digest = coll[s].digest
         /\ FindById(coll, s).expiresAt = coll[s].expiresAt
         /\ FindById(coll, s).revokedAt = coll[s].revokedAt
  BY DEF FindById, FromModelToDomain, Collection, Session

\* A request moved on to its next step is still a request.
LEMMA RequestMoved ==
  ASSUME NEW r \in Request, NEW at \in AwaitingStore \cup Answering \cup {"idle", "revoke.commit"},
         NEW c \in Session \cup {Null}
  PROVE  [r EXCEPT !.at = at, !.copy = c] \in Request
  BY DEF Request

\* An empty collection with no request in flight satisfies the invariant.
THEOREM InitIndInv == Init => IndInv
<1> SUFFICES ASSUME Init PROVE IndInv
  OBVIOUS
<1>1. TypeOK
  BY IdleWellFormed, TimeAssumption, BoundAssumption DEF Init, TypeOK, Times, Collection
<1>2. RequestsWellFormed
  BY IdleWellFormed DEF Init, RequestsWellFormed
<1>3. RequestTokens /\ DeliveredPairs /\ TokenBinding /\ PendingSaves /\ RotatedStaysDead
  BY NullAssumption DEF Init, RequestTokens, TokensOf, DeliveredPairs, TokenBinding, PendingSaves,
     PendingSave, RotatedStaysDead, Live, Idle, RefreshSteps, SignOutSteps, HoldingCopy
<1> QED
  BY <1>1, <1>2, <1>3 DEF IndInv

\* Every step of every handler keeps the types.
LEMMA TypeStep == ASSUME IndInv, [Next]_vars PROVE TypeOK'
<1> USE DEF IndInv
<1>1. CASE UNCHANGED vars
  BY <1>1 DEF vars, TypeOK
<1>2. CASE Tick
  BY <1>2, TimeAssumption DEF Tick, TypeOK, Times
<1>3. CASE Crash
  BY <1>3, IdleWellFormed, BoundAssumption DEF Crash, TypeOK, Fault
<1>4. ASSUME NEW p \in Procs, NEW u \in Users, NEW dev \in Devices, SignIn(p, u, dev) PROVE TypeOK'
  <2>1. PICK s \in Sids, j \in Jtis :
          /\ pairs' = [pairs EXCEPT ![j] = GenerateTokens(s, u, dev, now)]
          /\ req' = [req EXCEPT ![p] = [Idle EXCEPT !.at = "signIn.find", !.sid = s, !.new = j]]
    BY <1>4 DEF SignIn, FreshSids, Unused
  <2>2. [Idle EXCEPT !.at = "signIn.find", !.sid = s, !.new = j] \in Request
    BY DEF Idle, Request, AwaitingStore, TokenKinds
  <2>3. GenerateTokens(s, u, dev, now) \in Payload
    BY DEF GenerateTokens, Payload, TypeOK
  <2> QED
    BY <1>4, <2>1, <2>2, <2>3 DEF SignIn, TypeOK
<1>5. ASSUME NEW p \in Procs, CreateSession(p) PROVE TypeOK'
  BY <1>5, IdleWellFormed, TimeAssumption, BoundAssumption DEF CreateSession, TypeOK, Continue, Finish, Fault, NoFault,
     Request, AwaitingStore, NewSession, Session, Times, RequestsWellFormed, RequestShape, RequestTokens, HoldingNew, SignInSteps, Payload
<1>6. ASSUME NEW p \in Procs, SaveNewSession(p) PROVE TypeOK'
  BY <1>6, IdleWellFormed, BoundAssumption DEF SaveNewSession, TypeOK, Continue, Finish, Fault, NoFault,
     Request, Answering, Collection, Save, RequestsWellFormed, RequestShape, HoldingCopy
<1>7. ASSUME NEW p \in Procs, AnswerTokens(p) PROVE TypeOK'
  <2>1. req[p].new \in Jtis
    BY <1>7 DEF AnswerTokens, SetCookie, TypeOK, RequestsWellFormed, RequestShape, HoldingNew, SignInSteps, Request
  <2> QED
    BY <1>7, <2>1, IdleWellFormed DEF AnswerTokens, SetCookie, TypeOK, Finish
<1>8. ASSUME NEW p \in Procs, NEW j \in Jtis, NEW kind \in TokenKinds,
             GetRefreshTokenSession(p, j, kind) PROVE TypeOK'
  <2>1. pairs[j].sid \in Sids
    BY <1>8 DEF GetRefreshTokenSession, TypeOK, DeliveredPairs, Payload
  <2> QED
    BY <1>8, <2>1, FoundById DEF GetRefreshTokenSession, TypeOK, Request, AwaitingStore
<1>9. ASSUME NEW p \in Procs, RefreshSession(p) PROVE TypeOK'
  <2>1. req[p].copy \in Session /\ req[p].sid \in Sids /\ now \in Times
    BY <1>9 DEF RefreshSession, TypeOK, Request, RequestsWellFormed, RequestShape, HoldingCopy
  <2>2. PICK j \in Jtis :
          /\ pairs' = [pairs EXCEPT ![j] =
               GenerateTokens(req[p].sid, req[p].copy.user, req[p].copy.device, now)]
          /\ req' = [req EXCEPT ![p].at = "refresh.save", ![p].new = j,
                                ![p].copy = Refresh(req[p].copy, j, now)]
    BY <1>9 DEF RefreshSession, Unused
  <2>3. pairs' \in [Jtis -> Payload \cup {Null}]
    BY <2>1, <2>2 DEF TypeOK, GenerateTokens, Payload, Session
  <2>4. req' \in [Procs -> Request]
    <3> DEFINE c == Refresh(req[p].copy, j, now)
    <3>1. c \in Session
      BY <2>1, RefreshedIsSession
    <3>2. req' = [req EXCEPT ![p].at = "refresh.save", ![p].new = j, ![p].copy = c]
      BY <2>2
    <3>3. "refresh.save" \in AwaitingStore
      BY DEF AwaitingStore
    <3> HIDE DEF c
    <3>4. [req[p] EXCEPT !.at = "refresh.save", !.new = j, !.copy = c] \in Request
      BY <3>1, <3>3 DEF TypeOK, Request
    <3> QED
      BY <3>2, <3>4 DEF TypeOK
  <2> QED
    BY <1>9, <2>3, <2>4 DEF RefreshSession, TypeOK
<1>10. ASSUME NEW p \in Procs, SaveRefreshedSession(p) PROVE TypeOK'
  BY <1>10, BoundAssumption DEF SaveRefreshedSession, TypeOK, Continue, Fault, NoFault, Request,
     Answering, Collection, Save, RequestsWellFormed, RequestShape, HoldingCopy, RefreshSteps
<1>11. ASSUME NEW p \in Procs, NEW j \in Jtis, NEW kind \in TokenKinds,
              BeginSignOut(p, j, kind) PROVE TypeOK'
  BY <1>11 DEF BeginSignOut, ValidateSession, TypeOK, Request, Idle, AwaitingStore, DeliveredPairs, Payload
<1>12. ASSUME NEW p \in Procs, NEW j \in Jtis, NEW kind \in TokenKinds, NEW target \in Sids,
              BeginRevoke(p, j, kind, target) PROVE TypeOK'
  BY <1>12 DEF BeginRevoke, TypeOK, Request, Idle, AwaitingStore, TokenKinds
<1>13. ASSUME NEW p \in Procs, SignOut(p) PROVE TypeOK'
  BY <1>13, IdleWellFormed DEF SignOut, TypeOK, Continue, Finish, Request, AwaitingStore
<1>14. ASSUME NEW p \in Procs, DeleteSession(p) PROVE TypeOK'
  <2>1. sessions' \in Collection /\ faults' \in 0..MaxFaults
    BY <1>14, BoundAssumption DEF DeleteSession, TypeOK, Fault, NoFault, Collection, Delete
  <2>2. req' \in [Procs -> Request]
    <3>1. req' = [req EXCEPT ![p].at = "signOut.answer", ![p].copy = Null]
      BY <1>14 DEF DeleteSession, Continue
    <3>2. [req[p] EXCEPT !.at = "signOut.answer", !.copy = Null] \in Request
      BY RequestMoved DEF TypeOK, Answering
    <3> QED
      BY <3>1, <3>2 DEF TypeOK
  <2> QED
    BY <1>14, <2>1, <2>2 DEF DeleteSession, TypeOK
<1>15. ASSUME NEW p \in Procs, AnswerSignOut(p) PROVE TypeOK'
  BY <1>15, IdleWellFormed DEF AnswerSignOut, TypeOK, Finish
<1>16. ASSUME NEW p \in Procs, RevokeSession(p) PROVE TypeOK'
  BY <1>16, IdleWellFormed DEF RevokeSession, TypeOK, Continue, Finish, Request, AwaitingStore,
     FindById, FromModelToDomain, Revoke, Collection, Session, RequestsWellFormed, RequestShape, RevokeSteps
<1>17. ASSUME NEW p \in Procs, SaveRevokedSession(p) PROVE TypeOK'
  BY <1>17, BoundAssumption DEF SaveRevokedSession, TypeOK, Continue, Fault, NoFault, Request,
     Collection, Save, RequestsWellFormed, RequestShape, HoldingCopy, RevokeSteps
<1>18. ASSUME NEW p \in Procs, CommitRevokedSession(p) PROVE TypeOK'
  BY <1>18, IdleWellFormed DEF CommitRevokedSession, TypeOK, Finish, EventKinds, Request,
     RequestsWellFormed, RequestShape, RevokeSteps
<1>19. ASSUME NEW p \in Procs, FailedQuery(p) \/ LoseAnswer(p) PROVE TypeOK'
  BY <1>19, IdleWellFormed, BoundAssumption DEF FailedQuery, LoseAnswer, TypeOK, Finish, Fault
<1> QED
  BY <1>1, <1>2, <1>3, <1>4, <1>5, <1>6, <1>7, <1>8, <1>9, <1>10, <1>11, <1>12, <1>13, <1>14,
     <1>15, <1>16, <1>17, <1>18, <1>19 DEF Next, Arrive, Proceed

\* When no pair is generated and one request moves on, the parts of the
\* invariant that speak of requests need a look at that request only.
LEMMA RequestsStep ==
  ASSUME IndInv, TypeOK', NEW p \in Procs, UNCHANGED pairs,
         delivered' = delivered \/ (delivered' = delivered \cup {req[p].new} /\ req'[p] = Idle),
         \A q \in Procs : q # p => req'[q] = req[q],
         RequestShape(req'[p]),
         req'[p].tok # Null => req'[p].tok \in delivered,
         req'[p].at \in RefreshSteps \cup SignOutSteps => pairs[req'[p].tok].sid = req'[p].sid,
         req'[p].new # Null => req'[p].new = req[p].new /\ req'[p].sid = req[p].sid,
         req'[p].copy # Null => Belongs(req'[p].copy, req'[p].sid),
         PendingSave(req'[p])
  PROVE  /\ RequestsWellFormed' /\ RequestTokens' /\ PendingSaves'
         /\ \A q \in Procs : req'[q].copy # Null => Belongs(req[q].copy, req[q].sid)'
<1> USE DEF IndInv
<1>1. RequestsWellFormed'
  BY DEF RequestsWellFormed
<1>2. ASSUME NEW q \in Procs PROVE TokensOf(req[q])'
  <2>1. CASE q # p
    BY <2>1, NullAssumption DEF RequestTokens, TokensOf, Idle
  <2>2. CASE q = p
    BY <2>2 DEF RequestTokens, TokensOf, Idle
  <2> QED
    BY <2>1, <2>2
<1>3. RequestTokens'
  BY <1>2 DEF RequestTokens
<1>4. PendingSaves'
  BY DEF PendingSaves, PendingSave
<1>5. ASSUME NEW q \in Procs, req'[q].copy # Null PROVE Belongs(req[q].copy, req[q].sid)'
  BY <1>5 DEF TokenBinding, Belongs
<1> QED
  BY <1>1, <1>3, <1>4, <1>5

\* Signing a fresh token pair for a fresh session id disturbs no other session.
LEMMA SignInStep ==
  ASSUME IndInv, NEW p \in Procs, NEW u \in Users, NEW dev \in Devices, SignIn(p, u, dev), TypeOK'
  PROVE  IndInv'
<1> USE DEF IndInv
<1>1. PICK s \in Sids, j \in Jtis :
        /\ pairs[j] = Null /\ \A k \in Jtis : pairs[k] # Null => pairs[k].sid # s
        /\ pairs' = [pairs EXCEPT ![j] = GenerateTokens(s, u, dev, now)]
        /\ req' = [req EXCEPT ![p] = [Idle EXCEPT !.at = "signIn.find", !.sid = s, !.new = j]]
  BY DEF SignIn, FreshSids, Unused
<1>2. /\ pairs'[j] = [sid |-> s, sub |-> u, deviceId |-> dev, iat |-> now]
      /\ pairs'[j] # Null
      /\ \A k \in Jtis : k # j => pairs'[k] = pairs[k]
  BY <1>1, NullIsNoPayload DEF TypeOK, GenerateTokens, Payload
<1>3. /\ req'[p] = [at |-> "signIn.find", tok |-> Null, kind |-> "access", sid |-> s,
                    copy |-> Null, new |-> j]
      /\ \A q \in Procs : q # p => req'[q] = req[q]
  BY <1>1 DEF TypeOK, Idle
<1>4. j # Null /\ s # Null
  BY NullAssumption
<1>5. j \notin delivered /\ \A q \in Procs : req[q].new # j
  BY <1>1, <1>4 DEF DeliveredPairs, RequestTokens, TokensOf
<1>6. RequestsWellFormed'
  BY <1>3, <1>4 DEF RequestsWellFormed, RequestShape, Idle, HoldingNew, HoldingCopy, SignInSteps,
     RefreshSteps, SignOutSteps, RevokeSteps
<1>7. RequestTokens'
  <2>1. delivered' = delivered
    BY DEF SignIn
  <2>2. \A q \in Procs : /\ req[q].tok # Null => pairs'[req[q].tok] = pairs[req[q].tok]
                         /\ req[q].new # Null => pairs'[req[q].new] = pairs[req[q].new]
    BY <1>2, <1>5 DEF TypeOK, Request, RequestTokens, TokensOf
  <2>3. \A q \in Procs : req[q].at \in RefreshSteps \cup SignOutSteps => req[q].tok # Null
    BY DEF RequestsWellFormed, RequestShape
  <2>4. ASSUME NEW q \in Procs, q # p
        PROVE  /\ req'[q].tok # Null => req'[q].tok \in delivered'
               /\ req'[q].at \in RefreshSteps \cup SignOutSteps => pairs'[req'[q].tok].sid = req'[q].sid
               /\ req'[q].new # Null => /\ req'[q].new \notin delivered'
                                        /\ pairs'[req'[q].new] # Null
                                        /\ pairs'[req'[q].new].sid = req'[q].sid
                                        /\ \A r \in Procs : req'[r].new = req'[q].new => r = q
    BY <1>3, <1>5, <2>1, <2>2, <2>3, <2>4 DEF RequestTokens, TokensOf
  <2>5. /\ req'[p].tok = Null /\ req'[p].at \notin RefreshSteps \cup SignOutSteps
        /\ req'[p].new \notin delivered' /\ pairs'[req'[p].new] # Null
        /\ pairs'[req'[p].new].sid = req'[p].sid
        /\ \A r \in Procs : req'[r].new = req'[p].new => r = p
    BY <1>2, <1>3, <1>5, <2>1 DEF RefreshSteps, SignOutSteps
  <2> QED
    BY <2>4, <2>5 DEF RequestTokens, TokensOf
<1>8. DeliveredPairs'
  BY <1>2, <1>5 DEF SignIn, DeliveredPairs, TypeOK, Times
<1>9. TokenBinding'
  <2>1. \A doc \in Session, r \in Sids : Belongs(doc, r) => Belongs(doc, r)'
    BY <1>1, <1>2 DEF Belongs, Session
  <2>2. \A r \in Sids : sessions'[r] # Null => Belongs(sessions[r], r)'
    BY <2>1 DEF SignIn, TokenBinding, TypeOK, Collection
  <2>3. ASSUME NEW q \in Procs, req'[q].copy # Null PROVE Belongs(req[q].copy, req[q].sid)'
    <3>1. q # p /\ req'[q] = req[q]
      BY <1>3, <2>3
    <3>2. req[q].copy \in Session /\ req[q].sid \in Sids
      BY <2>3, <3>1 DEF TypeOK, Request, RequestsWellFormed, RequestShape, Idle
    <3> QED
      BY <2>1, <2>3, <3>1, <3>2 DEF TokenBinding, Belongs
  <2> QED
    BY <1>1, <1>2, <2>2, <2>3 DEF SignIn, TokenBinding
<1>10. PendingSaves'
  BY <1>1, <1>2, <1>3, <1>5 DEF PendingSaves, PendingSave, RequestTokens, TokensOf, TypeOK, HoldingCopy, DeliveredPairs, RequestsWellFormed,
    RequestShape, HoldingNew, RevokeSteps, Request
<1>11. RotatedStaysDead'
  BY DEF SignIn, RotatedStaysDead, Live
<1> QED
  BY <1>6, <1>7, <1>8, <1>9, <1>10, <1>11

\* A step that touches neither the collection nor the pairs.
LEMMA QuietStep ==
  ASSUME IndInv, TypeOK', NEW p \in Procs, UNCHANGED <<now, sessions, pairs, rotated>>,
         delivered' = delivered \/ (delivered' = delivered \cup {req[p].new} /\ req[p].new # Null),
         RequestsWellFormed', RequestTokens', PendingSaves',
         \A q \in Procs : req'[q].copy # Null => Belongs(req[q].copy, req[q].sid)'
  PROVE  IndInv'
<1> USE DEF IndInv
<1>1. DeliveredPairs'
  BY DEF DeliveredPairs, RequestTokens, TokensOf
<1>2. TokenBinding'
  BY DEF TokenBinding, Belongs
<1>3. RotatedStaysDead'
  BY DEF RotatedStaysDead, Live
<1> QED
  BY <1>1, <1>2, <1>3

\* A step that ends a request.
LEMMA FinishShape ==
  ASSUME IndInv, TypeOK', NEW p \in Procs, Finish(p), UNCHANGED pairs,
         delivered' \in {delivered, delivered \cup {req[p].new}}
  PROVE  /\ RequestsWellFormed' /\ RequestTokens' /\ PendingSaves'
         /\ \A q \in Procs : req'[q].copy # Null => Belongs(req[q].copy, req[q].sid)'
<1>1. req'[p] = Idle /\ \A q \in Procs : q # p => req'[q] = req[q]
  BY DEF IndInv, TypeOK, Finish
<1>2. Idle.tok = Null /\ Idle.new = Null /\ Idle.copy = Null /\ Idle.at = "idle"
  BY DEF Idle
<1>3. Idle.at \notin RefreshSteps \cup SignOutSteps /\ PendingSave(Idle)
  BY DEF Idle, RefreshSteps, SignOutSteps, PendingSave
<1> QED
  BY <1>1, <1>2, <1>3, IdleWellFormed, RequestsStep

\* Such a step keeps the invariant: what the slot held is held by nobody.
LEMMA FinishStep ==
  ASSUME IndInv, TypeOK', NEW p \in Procs, Finish(p), UNCHANGED <<now, sessions, pairs, rotated>>,
         delivered' = delivered \/ (delivered' = delivered \cup {req[p].new} /\ req[p].new # Null)
  PROVE  IndInv'
  BY FinishShape, QuietStep

\* CreateSessionHandler up to the save: the new session belongs to its pair.
LEMMA CreateSessionStep ==
  ASSUME IndInv, TypeOK', NEW p \in Procs, CreateSession(p)
  PROVE  IndInv'
<1> DEFINE t == pairs[req[p].new]
           c == NewSession(t.sub, t.deviceId, req[p].new, now)
<1>1. CASE Finish(p)
  BY <1>1, FinishStep DEF CreateSession
<1>2. CASE Continue(p, "signIn.save", c)
  <2>1. /\ req[p].at = "signIn.find" /\ req[p].new \in Jtis /\ req[p].sid # Null
        /\ req[p].tok = Null /\ t \in Payload /\ t.sid = req[p].sid /\ now \in Times
    BY NullAssumption DEF IndInv, TypeOK, CreateSession, RequestsWellFormed, RequestShape, RequestTokens, TokensOf,
       HoldingNew, SignInSteps, RefreshSteps, SignOutSteps, RevokeSteps, Request
  <2>2. /\ req'[p] = [req[p] EXCEPT !.at = "signIn.save", !.copy = c]
        /\ \A q \in Procs : q # p => req'[q] = req[q]
    BY <1>2 DEF Continue, IndInv, TypeOK
  <2>3. /\ c \in Session /\ c.digest = req[p].new /\ c.revokedAt = Null
        /\ c.user = t.sub /\ c.device = t.deviceId
    BY <2>1, NewSessionIsSession DEF NewSession, Payload
  <2> HIDE DEF c
  <2>4. /\ req'[p].at = "signIn.save" /\ req'[p].copy = c /\ req'[p].new = req[p].new
        /\ req'[p].sid = req[p].sid /\ req'[p].tok = Null
    BY <2>1, <2>2 DEF IndInv, TypeOK, Request
  <2>5. c # Null /\ req'[p].new # Null
    BY <2>1, <2>3, <2>4, NullIsNoSession, NullAssumption
  <2>6. RequestShape(req'[p])
    BY <2>1, <2>4, <2>5 DEF RequestShape, Idle, HoldingNew, HoldingCopy, SignInSteps, RefreshSteps, SignOutSteps, RevokeSteps
  <2>7. Belongs(c, req[p].sid)
    BY <2>1, <2>3, NullIsNoPayload DEF Belongs
  <2>8. PendingSave(req'[p]) /\ req'[p].at \notin RefreshSteps \cup SignOutSteps
    BY <2>3, <2>4 DEF PendingSave, RefreshSteps, SignOutSteps
  <2>9. UNCHANGED <<now, sessions, pairs, delivered, rotated>>
    BY DEF CreateSession
  <2>10. /\ RequestsWellFormed' /\ RequestTokens' /\ PendingSaves'
         /\ \A q \in Procs : req'[q].copy # Null => Belongs(req[q].copy, req[q].sid)'
    BY <2>2, <2>4, <2>6, <2>7, <2>8, <2>9, RequestsStep
  <2> QED
    BY <2>9, <2>10, QuietStep
<1> QED
  BY <1>1, <1>2 DEF CreateSession

\* An accepted refresh token was delivered and is of the session found.
LEMMA GetRefreshTokenSessionStep ==
  ASSUME IndInv, TypeOK', NEW p \in Procs, NEW j \in Jtis, NEW kind \in TokenKinds,
         GetRefreshTokenSession(p, j, kind)
  PROVE  IndInv'
<1> DEFINE c == FindById(sessions, pairs[j].sid)
<1>1. /\ j \in delivered /\ j # Null /\ pairs[j] \in Payload /\ pairs[j].sid # Null
      /\ pairs[j].sid \in Sids /\ sessions \in Collection
  BY NullAssumption DEF GetRefreshTokenSession, IndInv, TypeOK, DeliveredPairs, Payload
<1>2. c # Null /\ IsLive(c, now)
  BY DEF GetRefreshTokenSession
<1>3. /\ c \in Session /\ sessions[pairs[j].sid] # Null
      /\ c.digest = sessions[pairs[j].sid].digest
      /\ c.user = sessions[pairs[j].sid].user /\ c.device = sessions[pairs[j].sid].device
  BY <1>1, <1>2, FoundById
<1>4. Belongs(c, pairs[j].sid) /\ c.revokedAt = Null
  BY <1>1, <1>2, <1>3 DEF IndInv, TokenBinding, Belongs, IsLive, IsRevoked
<1>5. /\ req'[p] = [at |-> "refresh.user", tok |-> j, kind |-> kind, sid |-> pairs[j].sid,
                    copy |-> c, new |-> Null]
      /\ \A q \in Procs : q # p => req'[q] = req[q]
  BY DEF GetRefreshTokenSession, IndInv, TypeOK
<1> HIDE DEF c
<1>6. RequestShape(req'[p])
  BY <1>1, <1>2, <1>5 DEF RequestShape, Idle, HoldingNew, HoldingCopy, SignInSteps, RefreshSteps, SignOutSteps, RevokeSteps
<1>7. PendingSave(req'[p])
  BY <1>4, <1>5 DEF PendingSave
<1>8. UNCHANGED <<now, sessions, pairs, delivered, rotated>>
  BY DEF GetRefreshTokenSession
<1>9. /\ RequestsWellFormed' /\ RequestTokens' /\ PendingSaves'
      /\ \A q \in Procs : req'[q].copy # Null => Belongs(req[q].copy, req[q].sid)'
  BY <1>1, <1>4, <1>5, <1>6, <1>7, <1>8, RequestsStep
<1> QED
  BY <1>8, <1>9, QuietStep

\* The bearer token of a sign-out was delivered and names its session.
LEMMA BeginSignOutStep ==
  ASSUME IndInv, TypeOK', NEW p \in Procs, NEW j \in Jtis, NEW kind \in TokenKinds,
         BeginSignOut(p, j, kind)
  PROVE  IndInv'
<1>1. j \in delivered /\ j # Null /\ pairs[j].sid # Null
  BY NullAssumption DEF BeginSignOut, ValidateSession, IndInv, TypeOK, DeliveredPairs, Payload
<1>2. /\ req'[p] = [at |-> "signOut.find", tok |-> j, kind |-> kind, sid |-> pairs[j].sid,
                    copy |-> Null, new |-> Null]
      /\ \A q \in Procs : q # p => req'[q] = req[q]
  BY DEF BeginSignOut, Idle, IndInv, TypeOK
<1>3. RequestShape(req'[p]) /\ PendingSave(req'[p])
  BY <1>1, <1>2 DEF PendingSave, RequestShape, Idle, HoldingNew, HoldingCopy, SignInSteps, RefreshSteps,
     SignOutSteps, RevokeSteps
<1>4. UNCHANGED <<now, sessions, pairs, delivered, rotated>>
  BY DEF BeginSignOut
<1>5. /\ RequestsWellFormed' /\ RequestTokens' /\ PendingSaves'
      /\ \A q \in Procs : req'[q].copy # Null => Belongs(req[q].copy, req[q].sid)'
  BY <1>1, <1>2, <1>3, <1>4, RequestsStep
<1> QED
  BY <1>4, <1>5, QuietStep

\* The bearer token of a revocation was delivered.
LEMMA BeginRevokeStep ==
  ASSUME IndInv, TypeOK', NEW p \in Procs, NEW j \in Jtis, NEW kind \in TokenKinds,
         NEW target \in Sids, BeginRevoke(p, j, kind, target)
  PROVE  IndInv'
<1>1. j \in delivered /\ j # Null /\ target # Null
  BY NullAssumption DEF BeginRevoke, ValidateSession
<1>2. /\ req'[p] = [at |-> "revoke.find", tok |-> j, kind |-> "access", sid |-> target,
                    copy |-> Null, new |-> Null]
      /\ \A q \in Procs : q # p => req'[q] = req[q]
  BY DEF BeginRevoke, Idle, IndInv, TypeOK
<1>3. /\ RequestShape(req'[p]) /\ PendingSave(req'[p])
      /\ req'[p].at \notin RefreshSteps \cup SignOutSteps
  BY <1>1, <1>2 DEF PendingSave, RequestShape, Idle, HoldingNew, HoldingCopy, SignInSteps, RefreshSteps,
     SignOutSteps, RevokeSteps
<1>4. UNCHANGED <<now, sessions, pairs, delivered, rotated>>
  BY DEF BeginRevoke
<1>5. /\ RequestsWellFormed' /\ RequestTokens' /\ PendingSaves'
      /\ \A q \in Procs : req'[q].copy # Null => Belongs(req[q].copy, req[q].sid)'
  BY <1>1, <1>2, <1>3, <1>4, RequestsStep
<1> QED
  BY <1>4, <1>5, QuietStep

\* A request that keeps its tokens and goes on to a step that holds no copy.
LEMMA ContinueShape ==
  ASSUME IndInv, TypeOK', NEW p \in Procs, NEW at, Continue(p, at, Null), UNCHANGED <<pairs, delivered>>,
         req[p].at # "idle",
         \/ req[p].at \in SignInSteps /\ at = "signIn.answer"
         \/ req[p].at = "refresh.save" /\ at = "refresh.answer"
         \/ req[p].at \in SignOutSteps /\ at \in {"signOut.delete", "signOut.answer"}
         \/ req[p].at \in RevokeSteps /\ at = "revoke.commit"
  PROVE  /\ RequestsWellFormed' /\ RequestTokens' /\ PendingSaves'
         /\ \A q \in Procs : req'[q].copy # Null => Belongs(req[q].copy, req[q].sid)'
<1>1. /\ req'[p] = [req[p] EXCEPT !.at = at, !.copy = Null]
      /\ \A q \in Procs : q # p => req'[q] = req[q]
  BY DEF Continue, IndInv, TypeOK
<1>2. /\ req'[p].at = at /\ req'[p].copy = Null /\ req'[p].tok = req[p].tok
      /\ req'[p].new = req[p].new /\ req'[p].sid = req[p].sid
  BY <1>1 DEF IndInv, TypeOK, Request
<1>3. RequestShape(req[p]) /\ TokensOf(req[p])
  BY DEF IndInv, RequestsWellFormed, RequestTokens
<1>4. RequestShape(req'[p])
  BY <1>2, <1>3 DEF RequestShape, Idle, HoldingNew, HoldingCopy, SignInSteps, RefreshSteps, SignOutSteps, RevokeSteps
<1>5. /\ PendingSave(req'[p])
      /\ req'[p].tok # Null => req'[p].tok \in delivered
      /\ req'[p].at \in RefreshSteps \cup SignOutSteps => pairs[req'[p].tok].sid = req'[p].sid
  BY <1>2, <1>3 DEF PendingSave, TokensOf, SignInSteps, RefreshSteps, SignOutSteps, RevokeSteps
<1> QED
  BY <1>1, <1>2, <1>4, <1>5, RequestsStep

\* SignOutHandler up to the delete changes only its own request.
LEMMA SignOutStep ==
  ASSUME IndInv, TypeOK', NEW p \in Procs, SignOut(p)
  PROVE  IndInv'
<1>1. CASE Finish(p)
  BY <1>1, FinishStep DEF SignOut
<1>2. CASE Continue(p, "signOut.delete", Null)
  <2>1. req[p].at \in SignOutSteps /\ req[p].at # "idle"
    BY DEF SignOut, SignOutSteps
  <2>2. UNCHANGED <<now, sessions, pairs, delivered, rotated>>
    BY DEF SignOut
  <2>3. /\ RequestsWellFormed' /\ RequestTokens' /\ PendingSaves'
        /\ \A q \in Procs : req'[q].copy # Null => Belongs(req[q].copy, req[q].sid)'
    BY <1>2, <2>1, <2>2, ContinueShape
  <2> QED
    BY <2>2, <2>3, QuietStep
<1> QED
  BY <1>1, <1>2 DEF SignOut

\* RevokeSessionHandler up to the save holds a revoked copy of the
\* principal's own session.
LEMMA RevokeSessionStep ==
  ASSUME IndInv, TypeOK', NEW p \in Procs, RevokeSession(p)
  PROVE  IndInv'
<1> DEFINE found == FindById(sessions, req[p].sid)
           c == Revoke(found, now)
<1>1. CASE Finish(p)
  BY <1>1, FinishStep DEF RevokeSession
<1>2. CASE found # Null /\ found.user = pairs[req[p].tok].sub /\ Continue(p, "revoke.save", c)
  <2>1. /\ req[p].at = "revoke.find" /\ req[p].sid \in Sids /\ req[p].sid # Null
        /\ req[p].tok # Null /\ req[p].tok \in delivered /\ req[p].new = Null
        /\ sessions \in Collection /\ now \in Times /\ now # Null
    BY NullAssumption DEF RevokeSession, IndInv, TypeOK, RequestsWellFormed, RequestShape, RequestTokens, TokensOf,
       HoldingNew, SignInSteps, RevokeSteps, Request, Times
  <2>2. /\ found \in Session /\ sessions[req[p].sid] # Null
        /\ found.digest = sessions[req[p].sid].digest
        /\ found.user = sessions[req[p].sid].user /\ found.device = sessions[req[p].sid].device
    BY <1>2, <2>1, FoundById
  <2>3. /\ c \in Session /\ c.user = found.user /\ c.device = found.device
        /\ c.digest = found.digest /\ c.revokedAt = now
    BY <2>1, <2>2, RevokedIsSession
  <2>4. Belongs(c, req[p].sid)
    BY <2>1, <2>2, <2>3 DEF IndInv, TokenBinding, Belongs
  <2>5. c # Null
    BY <2>3, NullIsNoSession
  <2>6. /\ req'[p] = [req[p] EXCEPT !.at = "revoke.save", !.copy = c]
        /\ \A q \in Procs : q # p => req'[q] = req[q]
    BY <1>2 DEF Continue, IndInv, TypeOK
  <2> HIDE DEF c
  <2>7. /\ req'[p].at = "revoke.save" /\ req'[p].copy = c /\ req'[p].new = Null
        /\ req'[p].sid = req[p].sid /\ req'[p].tok = req[p].tok
    BY <2>1, <2>6 DEF IndInv, TypeOK, Request
  <2>8. /\ RequestShape(req'[p])
        /\ req'[p].at \notin RefreshSteps \cup SignOutSteps
    BY <2>1, <2>5, <2>7 DEF RequestShape, Idle, HoldingNew, HoldingCopy, SignInSteps, RefreshSteps,
       SignOutSteps, RevokeSteps
  <2>9. PendingSave(req'[p])
    BY <1>2, <2>1, <2>3, <2>7 DEF PendingSave
  <2>10. UNCHANGED <<now, sessions, pairs, delivered, rotated>>
    BY DEF RevokeSession
  <2>11. /\ RequestsWellFormed' /\ RequestTokens' /\ PendingSaves'
         /\ \A q \in Procs : req'[q].copy # Null => Belongs(req[q].copy, req[q].sid)'
    BY <2>1, <2>4, <2>6, <2>7, <2>8, <2>9, <2>10, RequestsStep
  <2> QED
    BY <2>10, <2>11, QuietStep
<1> QED
  BY <1>1, <1>2 DEF RevokeSession

\* A step that writes the document of its own session, or leaves the collection
\* alone: the copy written is not live, or carries a token nobody received.
LEMMA StoreStep ==
  ASSUME IndInv, TypeOK', NEW p \in Procs, UNCHANGED <<now, pairs, delivered>>,
         RequestsWellFormed', RequestTokens', PendingSaves',
         \A q \in Procs : req'[q].copy # Null => Belongs(req[q].copy, req[q].sid)',
         req[p].sid \in Sids,
         \/ sessions' \in {sessions, Delete(sessions, req[p].sid)} /\ rotated' = rotated
         \/ /\ sessions' = Save(sessions, req[p].sid, req[p].copy)
            /\ req[p].copy # Null
            /\ rotated' \in {rotated, rotated \cup {req[p].tok}}
            /\ rotated' # rotated => /\ req[p].tok \in delivered
                                     /\ pairs[req[p].tok].sid = req[p].sid
            /\ IsLive(req[p].copy, now) => req[p].copy.digest \notin delivered
  PROVE  IndInv'
<1> USE DEF IndInv
<1>1. DeliveredPairs'
  BY DEF DeliveredPairs
<1>2. /\ \A s \in Sids : s # req[p].sid => sessions'[s] = sessions[s]
      /\ sessions'[req[p].sid] \in {sessions[req[p].sid], req[p].copy, Null}
      /\ sessions'[req[p].sid] = req[p].copy /\ req[p].copy # Null =>
           \/ sessions' = sessions /\ rotated' = rotated
           \/ IsLive(req[p].copy, now) => req[p].copy.digest \notin delivered
      /\ sessions'[req[p].sid] = req[p].copy \/ rotated' = rotated
  BY DEF TypeOK, Collection, Save, Delete
<1>3. TokenBinding'
  BY <1>2 DEF TokenBinding, Belongs
<1>4. ASSUME NEW s \in Sids, Live(s)' PROVE sessions'[s].digest \notin rotated'
  <2>1. CASE s # req[p].sid
    <3>1. Live(s) /\ sessions'[s] = sessions[s] /\ sessions[s] # Null
      BY <1>2, <1>4, <2>1 DEF Live
    <3>2. sessions[s].digest \notin rotated /\ pairs[sessions[s].digest].sid = s
      BY <3>1 DEF RotatedStaysDead, TokenBinding, Belongs
    <3> QED
      BY <2>1, <3>1, <3>2
  <2>2. CASE s = req[p].sid /\ sessions' = sessions /\ rotated' = rotated
    BY <1>4, <2>2 DEF Live, RotatedStaysDead
  <2>3. CASE s = req[p].sid /\ ~(sessions' = sessions /\ rotated' = rotated)
    <3>1. sessions'[s] = req[p].copy /\ req[p].copy # Null /\ IsLive(req[p].copy, now)
      BY <1>2, <1>4, <2>3 DEF Live, Save, Delete, TypeOK, Collection
    <3>2. req[p].copy.digest \notin delivered
      BY <1>2, <2>3, <3>1
    <3> QED
      BY <1>1, <3>1, <3>2 DEF DeliveredPairs
  <2> QED
    BY <2>1, <2>2, <2>3
<1> QED
  BY <1>1, <1>3, <1>4 DEF RotatedStaysDead

\* Saving a new session, with or without success, keeps the invariant.
LEMMA SaveNewSessionStep ==
  ASSUME IndInv, TypeOK', NEW p \in Procs, SaveNewSession(p)
  PROVE  IndInv'
<1>1. /\ req[p].at = "signIn.save" /\ req[p].sid \in Sids /\ req[p].copy # Null
      /\ req[p].at \in SignInSteps /\ req[p].at # "idle"
      /\ req[p].copy.digest = req[p].new /\ req[p].new \notin delivered
  BY DEF SaveNewSession, IndInv, TypeOK, RequestsWellFormed, RequestShape, RequestTokens, TokensOf,
     PendingSaves, PendingSave, HoldingCopy, HoldingNew, SignInSteps, Request
<1>2. UNCHANGED <<now, pairs, delivered, rotated>>
  BY DEF SaveNewSession
<1>3. sessions' = Save(sessions, req[p].sid, req[p].copy) \/ sessions' = sessions
  BY DEF SaveNewSession
<1>4. /\ RequestsWellFormed' /\ RequestTokens' /\ PendingSaves'
      /\ \A q \in Procs : req'[q].copy # Null => Belongs(req[q].copy, req[q].sid)'
  <2>1. CASE Continue(p, "signIn.answer", Null)
    BY <1>1, <1>2, <2>1, ContinueShape
  <2>2. CASE Finish(p)
    BY <1>2, <2>2, FinishShape
  <2> QED
    BY <2>1, <2>2 DEF SaveNewSession
<1> QED
  BY <1>1, <1>2, <1>3, <1>4, StoreStep

\* Saving a refreshed session makes the token presented dead.
LEMMA SaveRefreshedSessionStep ==
  ASSUME IndInv, TypeOK', NEW p \in Procs, SaveRefreshedSession(p)
  PROVE  IndInv'
<1>1. /\ req[p].at = "refresh.save" /\ req[p].sid \in Sids /\ req[p].copy # Null
      /\ req[p].copy \in Session /\ req[p].tok \in delivered
      /\ req[p].new \in Jtis /\ pairs[req[p].new] # Null /\ pairs[req[p].new] \in Payload
      /\ pairs[req[p].tok].sid = req[p].sid /\ req[p].new \notin delivered
      /\ IsExpired(req[p].copy, pairs[req[p].new].iat) \/ req[p].copy.digest = req[p].new
  BY DEF SaveRefreshedSession, IndInv, TypeOK, RequestsWellFormed, RequestShape, RequestTokens, TokensOf,
     PendingSaves, PendingSave, HoldingCopy, HoldingNew, SignInSteps, RefreshSteps, Request
<1>2. pairs[req[p].new].iat \in Nat /\ now \in Nat /\ pairs[req[p].new].iat <= now
  BY <1>1, TimeAssumption DEF IndInv, DeliveredPairs, TypeOK, Payload, Times
<1>3. IsLive(req[p].copy, now) => req[p].copy.digest \notin delivered
  BY <1>1, <1>2, TimeAssumption DEF IsLive, IsExpired, Session
<1>4. UNCHANGED <<now, pairs, delivered>> /\ Continue(p, "refresh.answer", Null)
  BY DEF SaveRefreshedSession
<1>5. \/ /\ sessions' = Save(sessions, req[p].sid, req[p].copy)
         /\ rotated' \in {rotated, rotated \cup {req[p].tok}}
      \/ sessions' = sessions /\ rotated' = rotated
  BY DEF SaveRefreshedSession
<1>6. /\ RequestsWellFormed' /\ RequestTokens' /\ PendingSaves'
      /\ \A q \in Procs : req'[q].copy # Null => Belongs(req[q].copy, req[q].sid)'
  BY <1>1, <1>4, ContinueShape
<1> QED
  BY <1>1, <1>3, <1>4, <1>5, <1>6, StoreStep

\* Deleting a session, with or without success, keeps the invariant.
LEMMA DeleteSessionStep ==
  ASSUME IndInv, TypeOK', NEW p \in Procs, DeleteSession(p)
  PROVE  IndInv'
<1>1. req[p].at \in SignOutSteps /\ req[p].at # "idle" /\ req[p].sid \in Sids
  BY DEF DeleteSession, SignOutSteps, IndInv, TypeOK, RequestsWellFormed, RequestShape, Request
<1>2. UNCHANGED <<now, pairs, delivered, rotated>> /\ Continue(p, "signOut.answer", Null)
  BY DEF DeleteSession
<1>3. /\ RequestsWellFormed' /\ RequestTokens' /\ PendingSaves'
      /\ \A q \in Procs : req'[q].copy # Null => Belongs(req[q].copy, req[q].sid)'
  BY <1>1, <1>2, ContinueShape
<1>4. sessions' \in {sessions, Delete(sessions, req[p].sid)}
  BY DEF DeleteSession
<1> QED
  BY <1>1, <1>2, <1>3, <1>4, StoreStep

\* Saving a revoked, possibly stale, copy brings no rotated digest back to life.
LEMMA SaveRevokedSessionStep ==
  ASSUME IndInv, TypeOK', NEW p \in Procs, SaveRevokedSession(p)
  PROVE  IndInv'
<1>1. /\ req[p].at \in RevokeSteps /\ req[p].at # "idle" /\ req[p].sid \in Sids
      /\ req[p].copy # Null /\ req[p].copy.revokedAt # Null
  BY DEF SaveRevokedSession, RevokeSteps, IndInv, TypeOK, RequestsWellFormed, RequestShape, Request,
     PendingSaves, PendingSave, HoldingCopy
<1>2. UNCHANGED <<now, pairs, delivered, rotated>> /\ Continue(p, "revoke.commit", Null)
  BY DEF SaveRevokedSession
<1>3. /\ RequestsWellFormed' /\ RequestTokens' /\ PendingSaves'
      /\ \A q \in Procs : req'[q].copy # Null => Belongs(req[q].copy, req[q].sid)'
  BY <1>1, <1>2, ContinueShape
<1>4. ~IsLive(req[p].copy, now)
  BY <1>1 DEF IsLive, IsRevoked
<1>5. sessions' \in {sessions, Save(sessions, req[p].sid, req[p].copy)}
  BY DEF SaveRevokedSession
<1> QED
  BY <1>1, <1>2, <1>3, <1>4, <1>5, StoreStep

\* The pair generated by a refresh is of the same session, user and device.
LEMMA RefreshSessionStep ==
  ASSUME IndInv, TypeOK', NEW p \in Procs, RefreshSession(p)
  PROVE  IndInv'
<1> USE DEF IndInv
<1> DEFINE old == req[p].copy
<1>1. /\ req[p].at = "refresh.user" /\ old \in Session /\ req[p].sid \in Sids /\ req[p].sid # Null
      /\ req[p].tok # Null /\ req[p].tok \in delivered /\ pairs[req[p].tok].sid = req[p].sid
      /\ Belongs(old, req[p].sid) /\ old.revokedAt = Null /\ now \in Times
  BY NullAssumption DEF RefreshSession, TypeOK, RequestsWellFormed, RequestShape, RequestTokens, TokensOf, TokenBinding,
     PendingSaves, PendingSave, HoldingCopy, RefreshSteps, Request
<1>2. PICK j \in Jtis :
        /\ pairs[j] = Null
        /\ pairs' = [pairs EXCEPT ![j] = GenerateTokens(req[p].sid, old.user, old.device, now)]
        /\ req' = [req EXCEPT ![p].at = "refresh.save", ![p].new = j, ![p].copy = Refresh(old, j, now)]
  BY DEF RefreshSession, Unused
<1> DEFINE c == Refresh(old, j, now)
<1>3. /\ pairs'[j] = [sid |-> req[p].sid, sub |-> old.user, deviceId |-> old.device, iat |-> now]
      /\ pairs'[j] # Null
      /\ \A k \in Jtis : k # j => pairs'[k] = pairs[k]
  BY <1>1, <1>2, NullIsNoPayload DEF TypeOK, GenerateTokens, Payload, Session
<1>4. /\ c \in Session /\ c.user = old.user /\ c.device = old.device /\ c.expiresAt = old.expiresAt
      /\ c.revokedAt = Null /\ c.digest \in {old.digest, j}
      /\ IsExpired(old, now) \/ c.digest = j
  BY <1>1, RefreshedIsSession
<1>5. c # Null /\ j # Null
  BY <1>4, NullIsNoSession, NullAssumption
<1>6. req' = [req EXCEPT ![p].at = "refresh.save", ![p].new = j, ![p].copy = c]
  BY <1>2
<1> HIDE DEF c
<1>7. /\ req'[p].at = "refresh.save" /\ req'[p].new = j /\ req'[p].copy = c
      /\ req'[p].sid = req[p].sid /\ req'[p].tok = req[p].tok
      /\ \A q \in Procs : q # p => req'[q] = req[q]
  BY <1>6 DEF TypeOK, Request
<1>8. j \notin delivered /\ \A q \in Procs : req[q].new # j /\ req[q].tok # j
  BY <1>2, <1>5 DEF DeliveredPairs, RequestTokens, TokensOf
<1>9. UNCHANGED <<now, sessions, delivered, rotated>>
  BY DEF RefreshSession
<1>10. RequestsWellFormed'
  BY <1>1, <1>5, <1>7 DEF RequestsWellFormed, RequestShape, Idle, HoldingNew, HoldingCopy, SignInSteps, RefreshSteps,
     SignOutSteps, RevokeSteps
<1>11. RequestTokens'
  <2>1. ASSUME NEW q \in Procs, q # p PROVE TokensOf(req[q])'
    <3>1. /\ TokensOf(req[q]) /\ req'[q] = req[q] /\ req[q].new # j /\ req[q].tok # j
          /\ req[q].new \in Jtis \cup {Null} /\ req[q].tok \in Jtis \cup {Null}
      BY <1>7, <1>8, <2>1 DEF RequestTokens, TypeOK, Request
    <3>2. req[q].at \in RefreshSteps \cup SignOutSteps => req[q].tok # Null
      BY DEF RequestsWellFormed, RequestShape
    <3> QED
      BY <1>3, <1>9, <3>1, <3>2 DEF TokensOf
  <2>2. TokensOf(req[p])'
    <3>1. pairs'[req[p].tok] = pairs[req[p].tok]
      BY <1>1, <1>3, <1>8 DEF TypeOK
    <3> QED
      BY <1>1, <1>3, <1>7, <1>8, <1>9, <3>1 DEF TokensOf
  <2>3. \A q, r \in Procs : req'[q].new # Null /\ req'[r].new = req'[q].new => r = q
    BY <1>7, <1>8 DEF RequestTokens
  <2> QED
    BY <2>1, <2>2, <2>3 DEF RequestTokens
<1>12. DeliveredPairs'
  BY <1>1, <1>3, <1>8, <1>9, TimeAssumption DEF DeliveredPairs, TypeOK, Times
<1>13. TokenBinding'
  <2>1. \A doc \in Session, r \in Sids : Belongs(doc, r) => Belongs(doc, r)'
    BY <1>2, <1>3 DEF Belongs, Session
  <2>2. \A r \in Sids : sessions'[r] # Null => Belongs(sessions[r], r)'
    BY <1>9, <2>1 DEF TokenBinding, TypeOK, Collection
  <2>3. ASSUME NEW q \in Procs, req'[q].copy # Null PROVE Belongs(req[q].copy, req[q].sid)'
    <3>1. CASE q # p
      <4>1. /\ req'[q] = req[q] /\ req[q].copy \in Session /\ req[q].sid \in Sids
        BY <1>7, <2>3, <3>1 DEF TypeOK, Request, RequestsWellFormed, RequestShape, Idle
      <4> QED
        BY <2>1, <2>3, <4>1 DEF TokenBinding, Belongs
    <3>2. CASE q = p
      BY <1>1, <1>2, <1>3, <1>4, <1>7, <3>2 DEF Belongs, Session
    <3> QED
      BY <3>1, <3>2
  <2>4. /\ pairs[old.digest] # Null /\ pairs[old.digest].sid = req[p].sid
        /\ pairs[old.digest].sub = old.user /\ pairs[old.digest].deviceId = old.device
        /\ old.digest \in Jtis
    BY <1>1 DEF Belongs, Session
  <2>5. ASSUME NEW k \in Jtis, NEW l \in Jtis, pairs'[k] # Null, pairs'[l] # Null, pairs'[k].sid = pairs'[l].sid
        PROVE  pairs'[k].sub = pairs'[l].sub /\ pairs'[k].deviceId = pairs'[l].deviceId
    BY <1>3, <2>4, <2>5 DEF TokenBinding
  <2> QED
    BY <2>2, <2>3, <2>5 DEF TokenBinding
<1>14. PendingSaves'
  <2>1. ASSUME NEW q \in Procs, q # p PROVE PendingSave(req[q])'
    <3>1. /\ PendingSave(req[q]) /\ req'[q] = req[q] /\ RequestShape(req[q])
          /\ req[q].new # j /\ req[q].tok # j
          /\ req[q].new \in Jtis \cup {Null} /\ req[q].tok \in Jtis \cup {Null}
      BY <1>7, <1>8, <2>1 DEF PendingSaves, RequestsWellFormed, TypeOK, Request
    <3>2. /\ req[q].at = "refresh.save" => pairs'[req[q].new] = pairs[req[q].new]
          /\ req[q].at = "revoke.save" => pairs'[req[q].tok] = pairs[req[q].tok]
      BY <1>3, <3>1 DEF RequestShape, HoldingNew, RevokeSteps
    <3> QED
      BY <3>1, <3>2 DEF PendingSave
  <2>2. PendingSave(req[p])'
    BY <1>3, <1>4, <1>7 DEF PendingSave, IsExpired
  <2> QED
    BY <2>1, <2>2 DEF PendingSaves
<1>15. RotatedStaysDead'
  BY <1>9 DEF RotatedStaysDead, Live
<1> QED
  BY <1>10, <1>11, <1>12, <1>13, <1>14, <1>15

\* A session that is not live does not become live as time passes.
LEMMA TickStep ==
  ASSUME IndInv, TypeOK', Tick
  PROVE  IndInv'
<1> USE DEF IndInv
<1>1. now \in Nat /\ now' = now + 1 /\ UNCHANGED <<sessions, pairs, delivered, req, rotated>>
  BY TimeAssumption DEF Tick, TypeOK, Times
<1>2. RequestsWellFormed' /\ RequestTokens' /\ PendingSaves' /\ TokenBinding'
  BY <1>1 DEF RequestsWellFormed, RequestTokens, TokensOf, PendingSaves, PendingSave, TokenBinding, Belongs
<1>3. DeliveredPairs'
  BY <1>1, TimeAssumption DEF DeliveredPairs, TypeOK, Payload, Times
<1>4. ASSUME NEW s \in Sids, Live(s)' PROVE Live(s)
  <2>1. sessions[s] # Null /\ sessions[s].expiresAt \in Nat
    BY <1>1, <1>4, TimeAssumption DEF Live, TypeOK, Collection, Session
  <2> QED
    BY <1>1, <1>4, <2>1 DEF Live, IsLive, IsExpired
<1>5. RotatedStaysDead'
  BY <1>1, <1>4 DEF RotatedStaysDead
<1> QED
  BY <1>2, <1>3, <1>5

\* A crash leaves every slot idle and the store as it is.
LEMMA CrashStep ==
  ASSUME IndInv, TypeOK', Crash
  PROVE  IndInv'
<1> USE DEF IndInv
<1>1. /\ \A p \in Procs : req'[p] = Idle
      /\ UNCHANGED <<now, sessions, pairs, delivered, rotated>>
  BY DEF Crash
<1>2. Idle.tok = Null /\ Idle.new = Null /\ Idle.copy = Null /\ Idle.at = "idle"
  BY DEF Idle
<1>3. Idle.at \notin RefreshSteps \cup SignOutSteps /\ PendingSave(Idle)
  BY DEF Idle, RefreshSteps, SignOutSteps, PendingSave
<1>4. RequestsWellFormed'
  BY <1>1, IdleWellFormed DEF RequestsWellFormed
<1>5. RequestTokens'
  BY <1>1, <1>2, <1>3 DEF RequestTokens, TokensOf
<1>6. PendingSaves'
  BY <1>1, <1>2 DEF PendingSaves, PendingSave
<1>7. DeliveredPairs' /\ TokenBinding' /\ RotatedStaysDead'
  BY <1>1, <1>2 DEF DeliveredPairs, TokenBinding, Belongs, RotatedStaysDead, Live
<1> QED
  BY <1>4, <1>5, <1>6, <1>7

\* Answering delivers a pair that is no longer held by the request.
LEMMA AnswerTokensStep ==
  ASSUME IndInv, TypeOK', NEW p \in Procs, AnswerTokens(p)
  PROVE  IndInv'
<1>1. req[p].new # Null
  BY DEF AnswerTokens, SetCookie, IndInv, RequestsWellFormed, RequestShape, HoldingNew, SignInSteps
<1> QED
  BY <1>1, FinishStep DEF AnswerTokens, SetCookie

\* Every step of every handler, of the clock and of the faults keeps IndInv.
THEOREM NextIndInv == IndInv /\ [Next]_vars => IndInv'
<1> SUFFICES ASSUME IndInv, [Next]_vars PROVE IndInv'
  OBVIOUS
<1>1. TypeOK'
  BY TypeStep
<1>2. CASE UNCHANGED vars
  BY <1>2 DEF vars, IndInv, TypeOK, RequestsWellFormed, RequestTokens, TokensOf, DeliveredPairs, TokenBinding,
     Belongs, PendingSaves, PendingSave, RotatedStaysDead, Live
<1>3. CASE Tick
  BY <1>1, <1>3, TickStep
<1>4. CASE Crash
  BY <1>1, <1>4, CrashStep
<1>5. ASSUME NEW p \in Procs, Arrive(p) PROVE IndInv'
  BY <1>1, <1>5, SignInStep, GetRefreshTokenSessionStep, BeginSignOutStep, BeginRevokeStep DEF Arrive
<1>6. ASSUME NEW p \in Procs, Proceed(p) PROVE IndInv'
  <2>1. CASE AnswerSignOut(p) \/ CommitRevokedSession(p)
    BY <1>1, <2>1, FinishStep DEF AnswerSignOut, CommitRevokedSession
  <2> QED
    BY <1>1, <1>6, <2>1, CreateSessionStep, SaveNewSessionStep, AnswerTokensStep, RefreshSessionStep,
       SaveRefreshedSessionStep, SignOutStep, DeleteSessionStep, RevokeSessionStep,
       SaveRevokedSessionStep DEF Proceed
<1>7. ASSUME NEW p \in Procs, FailedQuery(p) \/ LoseAnswer(p) PROVE IndInv'
  BY <1>1, <1>7, FinishStep DEF FailedQuery, LoseAnswer
<1> QED
  BY <1>2, <1>3, <1>4, <1>5, <1>6, <1>7 DEF Next

\* A fault elsewhere touches nothing of a session.
LEMMA ElsewhereIndInv == IndInv /\ FaultElsewhere => IndInv'
<1> SUFFICES ASSUME IndInv, FaultElsewhere PROVE IndInv'
  OBVIOUS
<1>1. TypeOK'
  BY BoundAssumption DEF FaultElsewhere, Fault, IndInv, TypeOK
<1> QED
  BY <1>1 DEF FaultElsewhere, IndInv, RequestsWellFormed, RequestTokens, TokensOf, DeliveredPairs,
     TokenBinding, Belongs, PendingSaves, PendingSave, RotatedStaysDead, Live

\* The only step that starts a refresh is the service accepting its token.
LEMMA AcceptedByService ==
  ASSUME IndInv, Next, NEW p \in Procs, req[p].at = "idle", req'[p].at = "refresh.user"
  PROVE  \E j \in Jtis, kind \in TokenKinds : GetRefreshTokenSession(p, j, kind)
<1> USE DEF IndInv
<1>1. ~Tick /\ ~Crash
  BY DEF Tick, Crash, Idle
<1>2. PICK q \in Procs : Arrive(q) \/ Proceed(q) \/ FailedQuery(q) \/ LoseAnswer(q)
  BY <1>1 DEF Next
<1>3. req[p].at # req'[p].at
  OBVIOUS
<1>4. q = p
  BY <1>2, <1>3 DEF TypeOK, Arrive, Proceed, SignIn, GetRefreshTokenSession, BeginSignOut, BeginRevoke,
     CreateSession, SaveNewSession, AnswerTokens, SetCookie, RefreshSession, SaveRefreshedSession, SignOut, DeleteSession,
     AnswerSignOut, RevokeSession, SaveRevokedSession, CommitRevokedSession, FailedQuery, LoseAnswer,
     Continue, Finish
<1>5. ~Proceed(p) /\ ~FailedQuery(p) /\ ~LoseAnswer(p)
  BY DEF Proceed, FailedQuery, LoseAnswer, Answering,
     CreateSession, SaveNewSession, AnswerTokens, SetCookie, RefreshSession, SaveRefreshedSession, SignOut, DeleteSession,
     AnswerSignOut, RevokeSession, SaveRevokedSession, CommitRevokedSession
<1>6. ASSUME NEW u \in Users, NEW dev \in Devices, SignIn(p, u, dev) PROVE FALSE
  <2>1. PICK s \in Sids, j \in Jtis :
          req' = [req EXCEPT ![p] = [Idle EXCEPT !.at = "signIn.find", !.sid = s, !.new = j]]
    BY <1>6 DEF SignIn, FreshSids, Unused
  <2> QED
    BY <2>1 DEF TypeOK, Idle
<1>7. ASSUME NEW j \in Jtis, NEW kind \in TokenKinds, BeginSignOut(p, j, kind) PROVE FALSE
  BY <1>7 DEF BeginSignOut, TypeOK, Idle
<1>8. ASSUME NEW j \in Jtis, NEW kind \in TokenKinds, NEW target \in Sids,
             BeginRevoke(p, j, kind, target) PROVE FALSE
  BY <1>8 DEF BeginRevoke, TypeOK, Idle
<1> QED
  BY <1>2, <1>4, <1>5, <1>6, <1>7, <1>8 DEF Arrive

\* IndInv holds whatever else the process does.
LEMMA OpenIndInv == OpenSpec => []IndInv
<1>1. IndInv /\ [OpenNext]_vars => IndInv'
  BY NextIndInv, ElsewhereIndInv DEF OpenNext
<1> QED
  BY <1>1, InitIndInv, PTL DEF OpenSpec

\* IndInv holds in every reachable state, for every number of users, devices,
\* requests in flight and faults.
THEOREM IndInvHolds == Spec => []IndInv
  BY OpenIndInv, SpecIsOpen, PTL

\* Type correctness: no handler leaves a session, token pair or request outside
\* its type, whichever requests overlap.
THEOREM TypeCorrect == Spec => []TypeOK
<1>1. IndInv => TypeOK
  BY DEF IndInv
<1> QED
  BY <1>1, IndInvHolds, PTL

\* Tokens, stored sessions and sessions in memory of one session id belong to
\* one user and one device (whole-document saves never mix two sessions).
THEOREM TokenBindingHolds == Spec => []TokenBinding
<1>1. IndInv => TokenBinding
  BY DEF IndInv
<1> QED
  BY <1>1, IndInvHolds, PTL

\* Once the successor of a refresh token was stored, no stale copy saved later
\* brings its digest back to a live session.
THEOREM RotatedStaysDeadHolds == Spec => []RotatedStaysDead
<1>1. IndInv => RotatedStaysDead
  BY DEF IndInv
<1> QED
  BY <1>1, IndInvHolds, PTL

\* No refresh token whose successor was stored is accepted, whatever else the
\* process does.
LEMMA OpenNeverAccepted == OpenSpec => RotatedNeverAccepted
<1> DEFINE Accepts == \A p \in Procs :
             req[p].at = "idle" /\ req'[p].at = "refresh.user" => req'[p].tok \notin rotated
<1>1. IndInv /\ [OpenNext]_vars => [Accepts]_vars
  <2> SUFFICES ASSUME IndInv, [OpenNext]_vars, NEW p \in Procs,
                      req[p].at = "idle", req'[p].at = "refresh.user"
               PROVE  req'[p].tok \notin rotated
    OBVIOUS
  <2>1. ~UNCHANGED vars /\ ~FaultElsewhere
    BY DEF vars, FaultElsewhere
  <2>2. PICK j \in Jtis, kind \in TokenKinds : GetRefreshTokenSession(p, j, kind)
    BY <2>1, AcceptedByService DEF OpenNext
  <2>3. /\ req'[p].tok = j /\ j \in delivered /\ pairs[j] \in Payload
        /\ FindById(sessions, pairs[j].sid) # Null
        /\ FindById(sessions, pairs[j].sid).digest = j /\ IsLive(FindById(sessions, pairs[j].sid), now)
    BY <2>2 DEF GetRefreshTokenSession, CompareHmacDigests, IndInv, TypeOK, DeliveredPairs
  <2>4. pairs[j].sid \in Sids /\ sessions \in Collection
    BY <2>3 DEF Payload, IndInv, TypeOK
  <2>5. Live(pairs[j].sid) /\ sessions[pairs[j].sid].digest = j
    BY <2>3, <2>4, FoundById DEF Live, IsLive, IsExpired, IsRevoked
  <2> QED
    BY <2>3, <2>4, <2>5 DEF IndInv, RotatedStaysDead
<1> QED
  BY <1>1, OpenIndInv, PTL DEF OpenSpec, RotatedNeverAccepted

\* GetRefreshTokenSessionService never accepts a refresh token whose successor
\* was stored.
THEOREM RotatedNeverAcceptedHolds == Spec => RotatedNeverAccepted
  BY OpenNeverAccepted, SpecIsOpen, PTL

\* What ends a live session is a delete or a revoking save of a request whose
\* token was issued to the owner of the session.
LEMMA EndedByOwnerStep ==
  ASSUME IndInv, Next, NEW s \in Sids, Live(s), sessions'[s] = Null \/ IsRevoked(sessions'[s])
  PROVE  \E p \in Procs : /\ req[p].sid = s /\ req[p].tok # Null
                          /\ pairs[req[p].tok].sub = sessions[s].user
<1> USE DEF IndInv
<1>1. sessions[s] # Null /\ ~IsRevoked(sessions[s]) /\ Belongs(sessions[s], s) /\ sessions[s] \in Session
  BY DEF Live, IsLive, TokenBinding, TypeOK, Collection
<1>2. sessions' # sessions
  BY <1>1
<1>3. PICK p \in Procs : \/ SaveNewSession(p) \/ SaveRefreshedSession(p)
                         \/ DeleteSession(p) \/ SaveRevokedSession(p)
  <2>1. ~Tick /\ ~Crash
    BY <1>2 DEF Tick, Crash
  <2>2. PICK p \in Procs : Arrive(p) \/ Proceed(p) \/ FailedQuery(p) \/ LoseAnswer(p)
    BY <2>1 DEF Next
  <2>3. ~Arrive(p)
    BY <1>2 DEF Arrive, SignIn, GetRefreshTokenSession, BeginSignOut, BeginRevoke
  <2>4. ~FailedQuery(p) /\ ~LoseAnswer(p)
    BY <1>2 DEF FailedQuery, LoseAnswer
  <2> QED
    BY <1>2, <2>2, <2>3, <2>4 DEF Proceed, CreateSession, AnswerTokens, SetCookie, RefreshSession, SignOut,
       AnswerSignOut, RevokeSession, CommitRevokedSession
<1>4. CASE SaveNewSession(p) \/ SaveRefreshedSession(p)
  <2>1. req[p].copy # Null /\ req[p].copy.revokedAt = Null
    BY <1>4 DEF SaveNewSession, SaveRefreshedSession, RequestsWellFormed, RequestShape, HoldingCopy,
       PendingSaves, PendingSave
  <2>2. sessions' \in {sessions, Save(sessions, req[p].sid, req[p].copy)}
    BY <1>4 DEF SaveNewSession, SaveRefreshedSession
  <2>3. sessions'[s] \in {sessions[s], req[p].copy}
    BY <2>2 DEF Save, TypeOK, Collection
  <2> QED
    BY <1>1, <2>1, <2>3 DEF IsRevoked
<1>5. CASE DeleteSession(p)
  <2>1. /\ req[p].tok # Null /\ req[p].tok \in Jtis /\ pairs[req[p].tok] # Null
        /\ pairs[req[p].tok].sid = req[p].sid
    BY <1>5 DEF DeleteSession, RequestsWellFormed, RequestShape, RequestTokens, TokensOf, DeliveredPairs,
       SignOutSteps, TypeOK
  <2>2. req[p].sid = s
    BY <1>1, <1>5 DEF DeleteSession, Delete, TypeOK, Collection
  <2> QED
    BY <1>1, <2>1, <2>2 DEF TokenBinding, Belongs, Session
<1>6. CASE SaveRevokedSession(p)
  <2>1. /\ req[p].tok # Null /\ req[p].copy # Null /\ req[p].copy.user = pairs[req[p].tok].sub
        /\ Belongs(req[p].copy, req[p].sid) /\ req[p].copy \in Session
    BY <1>6 DEF SaveRevokedSession, RequestsWellFormed, RequestShape, HoldingCopy, RevokeSteps,
       PendingSaves, PendingSave, TokenBinding, TypeOK, Request
  <2>2. req[p].sid = s
    BY <1>1, <1>6 DEF SaveRevokedSession, Save, TypeOK, Collection
  <2>3. pairs[req[p].copy.digest].sub = pairs[sessions[s].digest].sub
    BY <1>1, <2>1, <2>2 DEF TokenBinding, Belongs, Session
  <2> QED
    BY <1>1, <2>1, <2>2, <2>3 DEF Belongs
<1> QED
  BY <1>3, <1>4, <1>5, <1>6

\* Nothing else in the process ends a live session.
LEMMA OpenEndedByOwner == OpenSpec => EndedOnlyByOwner
<1> DEFINE Owned == \A s \in Sids :
             Live(s) /\ (sessions'[s] = Null \/ IsRevoked(sessions'[s])) =>
               \E p \in Procs : /\ req[p].sid = s /\ req[p].tok # Null
                                /\ pairs[req[p].tok].sub = sessions[s].user
<1>1. IndInv /\ FaultElsewhere => Owned
  BY DEF FaultElsewhere, Live, IsLive
<1>2. IndInv /\ [OpenNext]_vars => [Owned]_vars
  BY <1>1, EndedByOwnerStep DEF OpenNext
<1> QED
  BY <1>2, OpenIndInv, PTL DEF OpenSpec, EndedOnlyByOwner

\* A live session is revoked or removed only in a request of its owner.
THEOREM EndedOnlyByOwnerHolds == Spec => EndedOnlyByOwner
  BY OpenEndedByOwner, SpecIsOpen, PTL
=============================================================================
