------------------------- MODULE ActiveSessionsProofs --------------------------
(***************************************************************************)
(* How many active sessions a device can have, for every value of the      *)
(* constants.  The check of CreateSessionHandler counts only what is       *)
(* stored; a session may also be about to be saved, by a sign-in past its  *)
(* check or by a refresh that read it before it ended.  Holders counts     *)
(* both: only a sign-in that passes the check adds to it, and it passes    *)
(* while nothing is stored, so that what is held then is held by requests  *)
(* in flight, or because its query failed, which is a fault.  With one     *)
(* request slot and no fault, that leaves one session.                     *)
(***************************************************************************)
EXTENDS SessionIdentityProofs, FiniteSetTheorems

\* no two requests overlap
OneSlot == \A p, q \in Procs : p = q

\* requests whose save makes a session active
Bringing == {"signIn.save", "refresh.user", "refresh.save"}

Brings(r, s, u, dev) ==
  /\ r.at \in Bringing /\ r.sid = s
  /\ r.copy.user = u /\ r.copy.device = dev /\ now < r.copy.expiresAt

\* the sessions of a device that are active, or that a request can make so
Holders(u, dev) ==
  FindActiveSession(sessions, dev, u, now)
    \cup {s \in Sids : \E q \in Procs : Brings(req[q], s, u, dev)}

Counted(u, dev) ==
  /\ IsFiniteSet(Holders(u, dev))
  /\ Cardinality(Holders(u, dev)) <= Cardinality(Procs) + faults

CountInv == \A u \in Users, dev \in Devices : Counted(u, dev)

SameLife(a, b) == a.user = b.user /\ a.device = b.device /\ a.expiresAt = b.expiresAt

\* a step after which the request at hand brings no session it did not bring, or
\* find active, before
NothingNew(p) ==
  /\ \A q \in Procs : q # p => req'[q] = req[q]
  /\ \A s \in Sids :
       \/ sessions'[s] = sessions[s] \/ sessions'[s] = Null \/ sessions'[s].revokedAt # Null
       \/ req[p].at \in Bringing /\ req[p].sid = s /\ sessions'[s] = req[p].copy
  /\ req'[p].at \in Bringing =>
       \/ /\ req[p].at \in Bringing /\ req'[p].sid = req[p].sid
          /\ SameLife(req'[p].copy, req[p].copy)
       \/ /\ sessions[req'[p].sid] # Null /\ sessions[req'[p].sid].revokedAt = Null
          /\ SameLife(req'[p].copy, sessions[req'[p].sid])

\* Such a step adds to the sessions of no device.
LEMMA NothingNewKeeps ==
  ASSUME NEW p \in Procs, NothingNew(p), UNCHANGED now, NEW u \in Users, NEW dev \in Devices
  PROVE  Holders(u, dev)' \subseteq Holders(u, dev)
<1> SUFFICES ASSUME NEW s \in Sids, s \in Holders(u, dev)' PROVE s \in Holders(u, dev)
  BY DEF Holders, FindActiveSession, Stored
<1>1. CASE s \in FindActiveSession(sessions, dev, u, now)'
  <2>1. /\ sessions'[s] # Null /\ sessions'[s].device = dev /\ sessions'[s].user = u
        /\ now < sessions'[s].expiresAt /\ sessions'[s].revokedAt = Null
    BY <1>1 DEF FindActiveSession, Stored
  <2>2. CASE sessions'[s] = sessions[s]
    BY <2>1, <2>2 DEF Holders, FindActiveSession, Stored
  <2>3. CASE req[p].at \in Bringing /\ req[p].sid = s /\ sessions'[s] = req[p].copy
    BY <2>1, <2>3 DEF Holders, Brings
  <2> QED
    BY <2>1, <2>2, <2>3 DEF NothingNew
<1>2. ASSUME NEW q \in Procs, Brings(req[q], s, u, dev)' PROVE s \in Holders(u, dev)
  <2>1. /\ req'[q].at \in Bringing /\ req'[q].sid = s
        /\ req'[q].copy.user = u /\ req'[q].copy.device = dev /\ now < req'[q].copy.expiresAt
    BY <1>2 DEF Brings
  <2>2. CASE q # p
    BY <2>1, <2>2 DEF NothingNew, Holders, Brings
  <2>3. CASE q = p
    BY <2>1, <2>3 DEF NothingNew, SameLife, Holders, Brings, FindActiveSession, Stored
  <2> QED
    BY <2>2, <2>3
<1> QED
  BY <1>1, <1>2 DEF Holders

\* And so does a step after which fewer sessions are held.
LEMMA FewerCounted ==
  ASSUME MaxFaults \in Nat, IsFiniteSet(Procs), faults \in Nat, faults' \in Nat, faults <= faults',
         NEW u \in Users, NEW dev \in Devices, Counted(u, dev),
         Holders(u, dev)' \subseteq Holders(u, dev)
  PROVE  Counted(u, dev)'
<1>1. /\ IsFiniteSet(Holders(u, dev)) /\ Cardinality(Holders(u, dev)) \in Nat
      /\ Cardinality(Procs) \in Nat
      /\ Cardinality(Holders(u, dev)) <= Cardinality(Procs) + faults
  BY FS_CardinalityType DEF Counted
<1>2. IsFiniteSet(Holders(u, dev)') /\ Cardinality(Holders(u, dev)') <= Cardinality(Holders(u, dev))
  BY <1>1, FS_Subset
<1>3. Cardinality(Holders(u, dev)') \in Nat
  BY <1>2, FS_CardinalityType
<1>4. Cardinality(Holders(u, dev)') <= Cardinality(Procs) + faults'
  BY <1>1, <1>2, <1>3
<1> QED
  BY <1>2, <1>4 DEF Counted

\* What requests in flight bring is no more than there are requests.
LEMMA BroughtByRequests ==
  ASSUME IsFiniteSet(Procs), NEW requests, NEW u, NEW dev
  PROVE  LET brought == {s \in Sids : \E q \in Procs : Brings(requests[q], s, u, dev)}
         IN  IsFiniteSet(brought) /\ Cardinality(brought) <= Cardinality(Procs)
<1> DEFINE B == {s \in Sids : \E q \in Procs : Brings(requests[q], s, u, dev)}
           P == {q \in Procs : \E s \in Sids : Brings(requests[q], s, u, dev)}
           f == [q \in P |-> requests[q].sid]
<1>1. IsFiniteSet(P) /\ Cardinality(P) <= Cardinality(Procs)
  BY FS_Subset
<1>2. f \in Surjection(P, B)
  BY DEF Surjection, Brings
<1> HIDE DEF B, P, f
<1>3. IsFiniteSet(B) /\ Cardinality(B) <= Cardinality(P)
  BY <1>1, <1>2, FS_Surjection
<1>4. Cardinality(B) \in Nat /\ Cardinality(P) \in Nat /\ Cardinality(Procs) \in Nat
  BY <1>1, <1>3, FS_CardinalityType
<1>5. Cardinality(B) <= Cardinality(Procs)
  BY <1>1, <1>3, <1>4
<1> QED
  BY <1>3, <1>5 DEF B

\* A session that is active at an instant was so at every earlier one.
LEMMA LaterFewerActive ==
  ASSUME sessions \in Collection, NEW u \in Users, NEW dev \in Devices,
         NEW t \in Nat, NEW later \in Nat, t <= later
  PROVE  FindActiveSession(sessions, dev, u, later) \subseteq FindActiveSession(sessions, dev, u, t)
<1> SUFFICES ASSUME NEW s \in Sids, s \in FindActiveSession(sessions, dev, u, later)
             PROVE  s \in FindActiveSession(sessions, dev, u, t)
  BY DEF FindActiveSession, Stored
<1>1. sessions[s] # Null /\ sessions[s].expiresAt > later
  BY DEF FindActiveSession, Stored
<1>2. sessions[s].expiresAt \in Nat
  BY <1>1, TimeAssumption DEF Collection, Session
<1> QED
  BY <1>1, <1>2 DEF FindActiveSession, Stored

\* The query of a sign-in in flight asks for an instant that is past by now.
LEMMA SignInPair ==
  ASSUME IndInv, NEW p \in Procs, req[p].at = "signIn.find"
  PROVE  /\ now \in Nat /\ sessions \in Collection
         /\ pairs[req[p].new].iat \in Nat /\ pairs[req[p].new].iat <= now
<1>1. req[p] \in Request /\ RequestShape(req[p]) /\ TokensOf(req[p])
  BY DEF IndInv, TypeOK, RequestsWellFormed, RequestTokens
<1>2. req[p].new \in Jtis /\ pairs[req[p].new] # Null
  BY <1>1 DEF RequestShape, TokensOf, Request, HoldingNew, SignInSteps
<1> QED
  BY <1>2, TimeAssumption DEF IndInv, TypeOK, DeliveredPairs, Payload, Times

\* The one step that adds a session to those of a device: a sign-in that passes
\* its check, which finds none stored or fails.
LEMMA CreateSessionCounted ==
  ASSUME IsFiniteSet(Procs), IndInv, CountInv, NEW p \in Procs, CreateSession(p)
  PROVE  CountInv'
<1> SUFFICES ASSUME NEW u \in Users, NEW dev \in Devices PROVE Counted(u, dev)'
  BY DEF CountInv
<1>1. /\ req \in [Procs -> Request] /\ faults \in Nat /\ MaxFaults \in Nat /\ Counted(u, dev)
      /\ UNCHANGED <<now, sessions>>
  BY BoundAssumption DEF IndInv, TypeOK, CountInv, CreateSession
<1> DEFINE t == pairs[req[p].new]
           c == NewSession(t.sub, t.deviceId, req[p].new, now)
           active == FindActiveSession(sessions, t.deviceId, t.sub, t.iat)
<1>2. \/ active # {} /\ Finish(p) /\ NoFault
      \/ active = {} /\ Continue(p, "signIn.save", c) /\ NoFault
      \/ active # {} /\ Continue(p, "signIn.save", c) /\ Fault
  BY DEF CreateSession
<1>3. CASE Finish(p) /\ NoFault
  <2>1. req'[p] = Idle /\ \A q \in Procs : q # p => req'[q] = req[q]
    BY <1>1, <1>3 DEF Finish
  <2>2. NothingNew(p)
    BY <1>1, <2>1 DEF NothingNew, Bringing, Idle
  <2> QED
    BY <1>1, <1>3, <2>2, NothingNewKeeps, FewerCounted DEF NoFault
<1>4. CASE Continue(p, "signIn.save", c)
  <2> HIDE DEF c
  <2>1. /\ req'[p].at = "signIn.save" /\ req'[p].copy = c /\ req'[p].sid = req[p].sid
        /\ \A q \in Procs : q # p => req'[q] = req[q]
    BY <1>1, <1>4 DEF Continue, Request
  <2>2. c.user = t.sub /\ c.device = t.deviceId
    BY DEF c, NewSession
  <2>3. Holders(u, dev)' \subseteq Holders(u, dev) \cup {req[p].sid}
    BY <1>1, <2>1 DEF Holders, Brings
  <2>4. CASE u # t.sub \/ dev # t.deviceId
    <3>1. Holders(u, dev)' \subseteq Holders(u, dev)
      BY <1>1, <2>1, <2>2, <2>4 DEF Holders, Brings
    <3>2. faults' \in Nat /\ faults <= faults'
      BY <1>1, <1>2 DEF NoFault, Fault
    <3> QED
      BY <1>1, <3>1, <3>2, FewerCounted
  <2>5. CASE u = t.sub /\ dev = t.deviceId /\ active = {} /\ NoFault
    <3> DEFINE brought == {s \in Sids : \E q \in Procs : Brings(req'[q], s, u, dev)}
    <3>0. FindActiveSession(sessions, dev, u, now) = {}
      BY <2>5, LaterFewerActive, SignInPair DEF CreateSession
    <3>1. IsFiniteSet(brought) /\ Cardinality(brought) <= Cardinality(Procs)
      BY BroughtByRequests
    <3>2. Holders(u, dev)' = brought
      BY <1>1, <3>0 DEF Holders, Brings
    <3> HIDE DEF brought
    <3>3. Cardinality(brought) \in Nat /\ Cardinality(Procs) \in Nat /\ faults' = faults
      BY <2>5, <3>1, FS_CardinalityType DEF NoFault
    <3>4. Cardinality(brought) <= Cardinality(Procs) + faults'
      BY <1>1, <3>1, <3>3
    <3> QED
      BY <3>1, <3>2, <3>4 DEF Counted
  <2>6. CASE Fault
    <3> DEFINE H == Holders(u, dev)
               K == Holders(u, dev) \cup {req[p].sid}
    <3>1. IsFiniteSet(H) /\ Cardinality(H) <= Cardinality(Procs) + faults
      BY <1>1 DEF Counted
    <3> HIDE DEF H
    <3>2. Cardinality(H) \in Nat /\ Cardinality(Procs) \in Nat /\ faults' = faults + 1
      BY <2>6, <3>1, FS_CardinalityType DEF Fault
    <3>3. IsFiniteSet(K) /\ Cardinality(K) <= Cardinality(H) + 1 /\ Cardinality(K) \in Nat
      <4>1. K = H \cup {req[p].sid}
        BY DEF H
      <4> HIDE DEF K
      <4>2. IsFiniteSet(K) /\ Cardinality(K) = IF req[p].sid \in H THEN Cardinality(H) ELSE Cardinality(H) + 1
        BY <3>1, <4>1, FS_AddElement
      <4> QED
        BY <3>2, <4>2
    <3>4. Holders(u, dev)' \in SUBSET K
      BY <2>3
    <3> HIDE DEF K
    <3>5. IsFiniteSet(Holders(u, dev)') /\ Cardinality(Holders(u, dev)') <= Cardinality(K)
      BY <3>3, <3>4, FS_Subset
    <3>6. Cardinality(Holders(u, dev)') \in Nat
      BY <3>5, FS_CardinalityType
    <3>7. Cardinality(Holders(u, dev)') <= Cardinality(Procs) + faults'
      BY <1>1, <3>1, <3>2, <3>3, <3>5, <3>6
    <3> QED
      BY <3>5, <3>7 DEF Counted
  <2> QED
    BY <1>2, <2>4, <2>5, <2>6, <1>3
<1> QED
  BY <1>2, <1>3, <1>4

\* The other steps of a request in flight bring nothing new: a save writes what
\* was brought, a revocation or a deletion takes away.
LEMMA ProceedNothingNew ==
  ASSUME IndInv, NEW p \in Procs, ~CreateSession(p), Proceed(p)
  PROVE  NothingNew(p)
<1>1. /\ req \in [Procs -> Request] /\ req[p] \in Request /\ sessions \in Collection
      /\ RequestShape(req[p]) /\ PendingSave(req[p]) /\ req[p].sid \in Sids \cup {Null}
      /\ Idle.at = "idle" /\ "idle" \notin Bringing
  BY DEF IndInv, TypeOK, RequestsWellFormed, PendingSaves, Request, Idle, Bringing
<1>2. \A q \in Procs : q # p => req'[q] = req[q]
  BY ProceedEffect
<1>3. CASE SaveNewSession(p)
  <2>1. req'[p].at \in {"idle", "signIn.answer"}
    BY <1>1, <1>3 DEF SaveNewSession, Finish, Continue, Request
  <2>2. \A s \in Sids : sessions'[s] = sessions[s] \/ (req[p].sid = s /\ sessions'[s] = req[p].copy)
    BY <1>1, <1>3 DEF SaveNewSession, Save, Collection
  <2> QED
    BY <1>2, <1>3, <2>1, <2>2 DEF NothingNew, Bringing, SaveNewSession
<1>4. CASE SaveRefreshedSession(p)
  <2>1. req'[p].at = "refresh.answer"
    BY <1>1, <1>4 DEF SaveRefreshedSession, Continue, Request
  <2>2. \A s \in Sids : sessions'[s] = sessions[s] \/ (req[p].sid = s /\ sessions'[s] = req[p].copy)
    BY <1>1, <1>4 DEF SaveRefreshedSession, Save, Collection
  <2> QED
    BY <1>2, <1>4, <2>1, <2>2 DEF NothingNew, Bringing, SaveRefreshedSession
<1>5. CASE SaveRevokedSession(p)
  <2>1. req'[p].at = "revoke.commit"
    BY <1>1, <1>5 DEF SaveRevokedSession, Continue, Request
  <2>2. req[p].copy.revokedAt # Null
    BY <1>1, <1>5 DEF PendingSave, SaveRevokedSession
  <2>3. \A s \in Sids : sessions'[s] = sessions[s] \/ sessions'[s] = req[p].copy
    BY <1>1, <1>5 DEF SaveRevokedSession, Save, Collection
  <2> QED
    BY <1>2, <2>1, <2>2, <2>3 DEF NothingNew, Bringing
<1>6. CASE DeleteSession(p)
  <2>1. req'[p].at = "signOut.answer"
    BY <1>1, <1>6 DEF DeleteSession, Continue, Request
  <2>2. \A s \in Sids : sessions'[s] = sessions[s] \/ sessions'[s] = Null
    BY <1>1, <1>6 DEF DeleteSession, Delete, Collection
  <2> QED
    BY <1>2, <2>1, <2>2 DEF NothingNew, Bringing
<1>7. CASE AnswerTokens(p) \/ AnswerSignOut(p) \/ CommitRevokedSession(p)
  <2>1. req'[p] = Idle /\ UNCHANGED sessions
    BY <1>1, <1>7 DEF AnswerTokens, AnswerSignOut, CommitRevokedSession, Finish
  <2> QED
    BY <1>1, <1>2, <2>1 DEF NothingNew
<1>8. CASE SignOut(p)
  <2>1. UNCHANGED sessions /\ (Finish(p) \/ Continue(p, "signOut.delete", Null))
    BY <1>8 DEF SignOut
  <2>2. req'[p].at \in {"idle", "signOut.delete"}
    BY <1>1, <2>1 DEF Finish, Continue, Request
  <2> QED
    BY <1>2, <2>1, <2>2 DEF NothingNew, Bringing
<1>9. CASE RefreshSession(p)
  <2>1. /\ req[p].copy \in Session /\ req[p].at = "refresh.user" /\ now \in Times /\ UNCHANGED sessions
    BY <1>1, <1>9 DEF RefreshSession, RequestShape, HoldingCopy, Request, IndInv, TypeOK
  <2>2. PICK j \in Jtis :
          req' = [req EXCEPT ![p].at = "refresh.save", ![p].new = j,
                             ![p].copy = Refresh(req[p].copy, j, now)]
    BY <1>9 DEF RefreshSession, Unused
  <2> DEFINE c == Refresh(req[p].copy, j, now)
  <2>3. SameLife(c, req[p].copy)
    BY <2>1, RefreshedIsSession DEF SameLife
  <2>4. req' = [req EXCEPT ![p].at = "refresh.save", ![p].new = j, ![p].copy = c]
    BY <2>2
  <2> HIDE DEF c
  <2>5. req'[p].copy = c /\ req'[p].sid = req[p].sid
    BY <1>1, <2>4 DEF Request
  <2>6. SameLife(req'[p].copy, req[p].copy)
    BY <2>3, <2>5
  <2> QED
    BY <1>2, <2>1, <2>5, <2>6 DEF NothingNew, Bringing
<1>10. CASE RevokeSession(p)
  <2>1. UNCHANGED sessions /\ (Finish(p) \/ \E c : Continue(p, "revoke.save", c))
    BY <1>10 DEF RevokeSession
  <2>2. req'[p].at \in {"idle", "revoke.save"}
    BY <1>1, <2>1 DEF Finish, Continue, Request
  <2> QED
    BY <1>2, <2>1, <2>2 DEF NothingNew, Bringing
<1> QED
  BY <1>3, <1>4, <1>5, <1>6, <1>7, <1>8, <1>9, <1>10 DEF Proceed

\* Neither does one that arrives: the session a refresh begins with was found.
LEMMA ArriveNothingNew ==
  ASSUME IndInv, NEW p \in Procs, Arrive(p)
  PROVE  NothingNew(p)
<1>1. req \in [Procs -> Request] /\ sessions \in Collection /\ UNCHANGED sessions
  BY DEF IndInv, TypeOK, Arrive, SignIn, GetRefreshTokenSession, BeginSignOut, BeginRevoke
<1>2. ASSUME NEW u \in Users, NEW dev \in Devices, SignIn(p, u, dev) PROVE NothingNew(p)
  BY <1>1, <1>2 DEF SignIn, NothingNew, Bringing, Idle
<1>3. ASSUME NEW j \in Jtis, NEW kind \in TokenKinds, GetRefreshTokenSession(p, j, kind)
      PROVE  NothingNew(p)
  <2> DEFINE f == FindById(sessions, pairs[j].sid)
  <2>1. f # Null /\ IsLive(f, now)
    BY <1>3 DEF GetRefreshTokenSession
  <2>2. pairs[j].sid \in Sids
    BY <1>3 DEF GetRefreshTokenSession, IndInv, TypeOK, DeliveredPairs, Payload
  <2>3. /\ req'[p].copy = f /\ req'[p].sid = pairs[j].sid
        /\ \A q \in Procs : q # p => req'[q] = req[q]
    BY <1>1, <1>3 DEF GetRefreshTokenSession
  <2>4. /\ sessions[pairs[j].sid] # Null /\ SameLife(f, sessions[pairs[j].sid])
        /\ sessions[pairs[j].sid].revokedAt = f.revokedAt
    BY <1>1, <2>1, <2>2, FoundById DEF SameLife
  <2>5. f.revokedAt = Null
    BY <2>1 DEF IsLive, IsRevoked
  <2> HIDE DEF f
  <2> QED
    BY <1>1, <2>3, <2>4, <2>5 DEF NothingNew
<1>4. ASSUME NEW j \in Jtis, NEW kind \in TokenKinds, BeginSignOut(p, j, kind) PROVE NothingNew(p)
  BY <1>1, <1>4 DEF BeginSignOut, NothingNew, Bringing, Idle
<1>5. ASSUME NEW j \in Jtis, NEW kind \in TokenKinds, NEW target \in Sids, BeginRevoke(p, j, kind, target)
      PROVE  NothingNew(p)
  BY <1>1, <1>5 DEF BeginRevoke, NothingNew, Bringing, Idle
<1> QED
  BY <1>2, <1>3, <1>4, <1>5 DEF Arrive

\* CountInv is kept by every step.
LEMMA NextCounted ==
  ASSUME IsFiniteSet(Procs), IndInv, CountInv, [OpenNext]_vars
  PROVE  CountInv'
<1>1. req \in [Procs -> Request] /\ faults \in Nat /\ MaxFaults \in Nat /\ now \in Nat
  BY BoundAssumption DEF IndInv, TypeOK, Times
<1>2. faults' \in Nat /\ faults <= faults'
  <2>1. Tick \/ UNCHANGED vars \/ (\E p \in Procs : Arrive(p)) => UNCHANGED faults
    BY DEF vars, Tick, Arrive, SignIn, GetRefreshTokenSession, BeginSignOut, BeginRevoke
  <2>2. Crash \/ FaultElsewhere \/ (\E p \in Procs : FailedQuery(p) \/ LoseAnswer(p)) => Fault
    BY DEF Crash, FaultElsewhere, FailedQuery, LoseAnswer
  <2>3. ASSUME NEW p \in Procs, Proceed(p) PROVE UNCHANGED faults \/ Fault
    <3>1. CreateSession(p) \/ SaveNewSession(p) \/ SaveRefreshedSession(p) \/ DeleteSession(p)
            \/ SaveRevokedSession(p) => NoFault \/ Fault
      BY DEF CreateSession, SaveNewSession, SaveRefreshedSession, DeleteSession, SaveRevokedSession
    <3>2. AnswerTokens(p) \/ RefreshSession(p) \/ SignOut(p) \/ AnswerSignOut(p)
            \/ RevokeSession(p) \/ CommitRevokedSession(p) => UNCHANGED faults
      BY DEF AnswerTokens, RefreshSession, SignOut, AnswerSignOut, RevokeSession, CommitRevokedSession
    <3> QED
      BY <2>3, <3>1, <3>2 DEF Proceed, NoFault
  <2>4. UNCHANGED faults \/ Fault
    BY <2>1, <2>2, <2>3 DEF OpenNext, Next
  <2> QED
    BY <1>1, <2>4 DEF Fault
<1>3. ASSUME \A u \in Users, dev \in Devices : Holders(u, dev)' \subseteq Holders(u, dev)
      PROVE  CountInv'
  BY <1>1, <1>2, <1>3, FewerCounted DEF CountInv
<1>4. CASE UNCHANGED vars \/ FaultElsewhere
  <2>1. UNCHANGED <<now, sessions, req>>
    BY <1>4 DEF vars, FaultElsewhere
  <2> QED
    BY <1>3, <2>1 DEF Holders, Brings
<1>5. CASE Tick
  <2>1. UNCHANGED <<sessions, req>> /\ now' = now + 1
    BY <1>5 DEF Tick
  <2>2. \A s \in Sids : sessions[s] # Null => sessions[s].expiresAt \in Nat
    BY TimeAssumption DEF IndInv, TypeOK, Collection, Session
  <2>3. \A q \in Procs : req[q].at \in Bringing => req[q].copy.expiresAt \in Nat
    BY TimeAssumption DEF IndInv, TypeOK, Request, RequestsWellFormed, RequestShape, HoldingCopy, Bringing, Session
  <2>4. ASSUME NEW u \in Users, NEW dev \in Devices PROVE Holders(u, dev)' \subseteq Holders(u, dev)
    BY <1>1, <2>1, <2>2, <2>3 DEF Holders, Brings, FindActiveSession, Stored
  <2> QED
    BY <1>3, <2>4
<1>6. CASE Crash
  <2>1. UNCHANGED <<now, sessions>> /\ req' = [q \in Procs |-> Idle]
    BY <1>6 DEF Crash
  <2> QED
    BY <1>3, <2>1 DEF Holders, Brings, Idle, Bringing
<1>7. ASSUME NEW p \in Procs, Arrive(p) PROVE CountInv'
  <2>1. UNCHANGED now
    BY <1>7 DEF Arrive, SignIn, GetRefreshTokenSession, BeginSignOut, BeginRevoke
  <2> QED
    BY <1>3, <1>7, <2>1, ArriveNothingNew, NothingNewKeeps
<1>8. ASSUME NEW p \in Procs, Proceed(p) PROVE CountInv'
  <2>1. UNCHANGED now
    BY <1>8 DEF Proceed, CreateSession, SaveNewSession, AnswerTokens, RefreshSession, SaveRefreshedSession,
       SignOut, DeleteSession, AnswerSignOut, RevokeSession, SaveRevokedSession, CommitRevokedSession
  <2> QED
    BY <1>3, <1>8, <2>1, CreateSessionCounted, ProceedNothingNew, NothingNewKeeps
<1>9. ASSUME NEW p \in Procs, FailedQuery(p) \/ LoseAnswer(p) PROVE CountInv'
  <2>1. /\ req'[p] = Idle /\ \A q \in Procs : q # p => req'[q] = req[q]
        /\ UNCHANGED <<now, sessions>>
    BY <1>1, <1>9 DEF FailedQuery, LoseAnswer, Finish
  <2>2. NothingNew(p)
    BY <2>1 DEF NothingNew, Bringing, Idle
  <2> QED
    BY <1>3, <2>1, <2>2, NothingNewKeeps
<1> QED
  BY <1>4, <1>5, <1>6, <1>7, <1>8, <1>9 DEF OpenNext, Next

\* CountInv holds whatever else the process does.
LEMMA OpenCounted == ASSUME IsFiniteSet(Procs) PROVE OpenSpec => []CountInv
<1>1. Init => CountInv
  <2> SUFFICES ASSUME Init, NEW u \in Users, NEW dev \in Devices PROVE Counted(u, dev)
    BY DEF CountInv
  <2>1. Holders(u, dev) = {}
    BY DEF Init, Holders, Brings, FindActiveSession, Stored, Idle, Bringing
  <2>2. Cardinality({}) = 0 /\ IsFiniteSet({}) /\ Cardinality(Procs) \in Nat /\ faults = 0
    BY FS_EmptySet, FS_CardinalityType DEF Init
  <2> QED
    BY <2>1, <2>2 DEF Counted
<1>2. IsFiniteSet(Procs) /\ IndInv /\ CountInv /\ [OpenNext]_vars => CountInv'
  BY NextCounted
<1> QED
  BY <1>1, <1>2, OpenIndInv, PTL DEF OpenSpec

\* What is active is counted.
LEMMA OpenActiveBounded == ASSUME IsFiniteSet(Procs) PROVE OpenSpec => []ActiveBounded
<1>1. ASSUME IsFiniteSet(Procs), IndInv, CountInv PROVE ActiveBounded
  <2> SUFFICES ASSUME NEW u \in Users, NEW dev \in Devices
               PROVE  Cardinality(ActiveSessions(u, dev)) <= Cardinality(Procs) + faults
    BY DEF ActiveBounded
  <2>1. ActiveSessions(u, dev) \in SUBSET Holders(u, dev)
    BY DEF ActiveSessions, Live, IsLive, IsRevoked, Holders, FindActiveSession, Stored
  <2>2. /\ IsFiniteSet(Holders(u, dev))
        /\ Cardinality(Holders(u, dev)) <= Cardinality(Procs) + faults
    BY <1>1 DEF CountInv, Counted
  <2>3. /\ IsFiniteSet(ActiveSessions(u, dev))
        /\ Cardinality(ActiveSessions(u, dev)) <= Cardinality(Holders(u, dev))
    BY <2>1, <2>2, FS_Subset
  <2>4. /\ Cardinality(ActiveSessions(u, dev)) \in Nat /\ Cardinality(Holders(u, dev)) \in Nat
        /\ Cardinality(Procs) \in Nat /\ faults \in Nat
    BY <1>1, <2>2, <2>3, FS_CardinalityType DEF IndInv, TypeOK
  <2> QED
    BY <2>2, <2>3, <2>4
<1> QED
  BY <1>1, OpenIndInv, OpenCounted, PTL

\* However many requests overlap, and whatever a refresh in flight brings back, a
\* device has no more active sessions of a user than requests were ever in flight
\* at a time and faults happened.
THEOREM ActiveBoundedHolds == ASSUME IsFiniteSet(Procs) PROVE Spec => []ActiveBounded
  BY OpenActiveBounded, SpecIsOpen, PTL

\* Nothing else in the process opens a session.
LEMMA OpenOneActive == ASSUME OneSlot PROVE OpenSpec => []OneActivePerDevice
<1>1. IsFiniteSet(Procs) /\ Cardinality(Procs) <= 1
  <2>1. CASE Procs = {}
    <3>1. IsFiniteSet(Procs) /\ Cardinality(Procs) = 0
      BY <2>1, FS_EmptySet
    <3> QED
      BY <3>1
  <2>2. CASE Procs # {}
    <3>1. PICK p : Procs = {p}
      BY <2>2 DEF OneSlot
    <3>2. IsFiniteSet(Procs) /\ Cardinality(Procs) = 1
      BY <3>1, FS_Singleton
    <3> QED
      BY <3>2
  <2> QED
    BY <2>1, <2>2
<1>2. CountInv /\ IndInv /\ ActiveBounded => OneActivePerDevice
  <2> SUFFICES ASSUME ActiveBounded, CountInv, faults = 0, NEW u \in Users, NEW dev \in Devices
               PROVE  Cardinality(ActiveSessions(u, dev)) <= 1
    BY DEF OneActivePerDevice
  <2>1. Cardinality(ActiveSessions(u, dev)) <= Cardinality(Procs)
    BY <1>1, FS_CardinalityType DEF ActiveBounded
  <2>2. ActiveSessions(u, dev) \in SUBSET Holders(u, dev) /\ IsFiniteSet(Holders(u, dev))
    BY DEF ActiveSessions, Live, IsLive, IsRevoked, Holders, FindActiveSession, Stored, CountInv, Counted
  <2>3. Cardinality(ActiveSessions(u, dev)) \in Nat /\ Cardinality(Procs) \in Nat
    BY <1>1, <2>2, FS_Subset, FS_CardinalityType
  <2> QED
    BY <1>1, <2>1, <2>3
<1> QED
  BY <1>1, <1>2, OpenIndInv, OpenCounted, OpenActiveBounded, PTL

\* While requests do not overlap and nothing has failed, a device has at most one
\* active session of a user.
THEOREM OneActivePerDeviceHolds == ASSUME OneSlot PROVE Spec => []OneActivePerDevice
  BY OpenOneActive, SpecIsOpen, PTL
===============================================================================
