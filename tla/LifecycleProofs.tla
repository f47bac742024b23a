---------------------------- MODULE LifecycleProofs ----------------------------
(***************************************************************************)
(* With one request slot, AuthSessions implements SessionLifecycle, faults *)
(* included, for every value of the other constants.  Undisturbed says     *)
(* what a request still knows of the document it is going to write; each   *)
(* write is then one step of the lifecycle, and every other step none.     *)
(* What the lifecycle promises of ends follows: a session signed out or    *)
(* revoked stays so.  The last part adds what clients were told.           *)
(***************************************************************************)
EXTENDS ActiveSessionsProofs

\* a token of the session reached a client
Signed(s) == \E j \in delivered : pairs[j].sid = s

Working == {"refresh.user", "refresh.save", "signOut.find", "signOut.delete", "revoke.save"}

\* what the request knows of the document it works on
UndisturbedBy(r) ==
  /\ r.at \in Working => sessions[r.sid] # Null /\ sessions[r.sid].revokedAt = Null
  /\ r.at = "refresh.user" => r.copy.digest = r.tok /\ sessions[r.sid].digest = r.tok
  /\ r.at = "refresh.save" =>
       /\ sessions[r.sid].digest = r.tok
       /\ r.copy.digest = IF IsExpired(r.copy, pairs[r.new].iat) THEN r.tok ELSE r.new
  /\ r.at = "revoke.save" => r.copy.digest = sessions[r.sid].digest
  /\ r.at \in {"signIn.find", "signIn.save"} => sessions[r.sid] = Null /\ ~Signed(r.sid)
  /\ r.at = "signIn.answer" => sessions[r.sid] # Null

Undisturbed == \A p \in Procs : UndisturbedBy(req[p])

\* An idle request relies on nothing.
LEMMA InitUndisturbed == Init => Undisturbed
  BY DEF Init, Undisturbed, UndisturbedBy, Idle, Working

\* A request that is idle, or past its save, relies on nothing.
LEMMA Relies ==
  ASSUME OneSlot, NEW p \in Procs,
         req'[p].at \notin Working \cup {"signIn.find", "signIn.save", "signIn.answer"}
  PROVE  Undisturbed'
  BY DEF OneSlot, Undisturbed, UndisturbedBy, Working

\* An arriving request has just found what it relies on.
LEMMA ArriveUndisturbed ==
  ASSUME OneSlot, IndInv, NEW p \in Procs, Arrive(p)
  PROVE  Undisturbed'
<1>1. req \in [Procs -> Request] /\ sessions \in Collection
  BY DEF IndInv, TypeOK
<1>2. ASSUME NEW u \in Users, NEW dev \in Devices, SignIn(p, u, dev) PROVE UndisturbedBy(req[p])'
  <2>1. PICK s \in Sids, j \in Jtis :
          /\ pairs[j] = Null /\ \A k \in Jtis : pairs[k] # Null => pairs[k].sid # s
          /\ pairs' = [pairs EXCEPT ![j] = GenerateTokens(s, u, dev, now)]
          /\ req' = [req EXCEPT ![p] = [Idle EXCEPT !.at = "signIn.find", !.sid = s, !.new = j]]
    BY <1>2 DEF SignIn, FreshSids, Unused
  <2>2. req'[p].at = "signIn.find" /\ req'[p].sid = s /\ UNCHANGED <<sessions, delivered>>
    BY <1>1, <1>2, <2>1 DEF SignIn, Idle
  <2>3. sessions[s] = Null
    BY <1>1, <2>1 DEF IndInv, TokenBinding, Belongs, Collection, Session
  <2>4. \A k \in delivered : pairs'[k].sid # s
    BY <2>1 DEF IndInv, TypeOK, DeliveredPairs
  <2> QED
    BY <2>2, <2>3, <2>4 DEF UndisturbedBy, Working, Signed
<1>3. ASSUME NEW j \in Jtis, NEW kind \in TokenKinds, GetRefreshTokenSession(p, j, kind)
      PROVE  UndisturbedBy(req[p])'
  <2> DEFINE f == FindById(sessions, pairs[j].sid)
  <2>1. f # Null /\ f.revokedAt = Null /\ f.digest = j /\ UNCHANGED sessions
    BY <1>3 DEF GetRefreshTokenSession, IsLive, IsRevoked, CompareHmacDigests
  <2>2. pairs[j].sid \in Sids
    BY <1>3 DEF GetRefreshTokenSession, IndInv, TypeOK, DeliveredPairs, Payload
  <2>3. /\ sessions[pairs[j].sid] # Null /\ sessions[pairs[j].sid].revokedAt = Null
        /\ sessions[pairs[j].sid].digest = j
    BY <1>1, <2>1, <2>2, FoundById
  <2>4. /\ req'[p].at = "refresh.user" /\ req'[p].sid = pairs[j].sid
        /\ req'[p].tok = j /\ req'[p].copy = f
    BY <1>1, <1>3 DEF GetRefreshTokenSession
  <2> HIDE DEF f
  <2> QED
    BY <2>1, <2>3, <2>4 DEF UndisturbedBy, Working
<1>4. ASSUME NEW j \in Jtis, NEW kind \in TokenKinds, BeginSignOut(p, j, kind)
      PROVE  UndisturbedBy(req[p])'
  <2> DEFINE f == FindDeviceSession(sessions, pairs[j].sid, pairs[j].sub, pairs[j].deviceId)
  <2>1. f # Null /\ f.revokedAt = Null /\ UNCHANGED sessions
    BY <1>4 DEF BeginSignOut, ValidateSession, IsLive, IsRevoked
  <2>2. pairs[j].sid \in Sids
    BY <1>4 DEF BeginSignOut, ValidateSession, IndInv, TypeOK, DeliveredPairs, Payload
  <2>3. sessions[pairs[j].sid] # Null /\ sessions[pairs[j].sid].revokedAt = Null
    BY <1>1, <2>1, <2>2, FoundById DEF FindDeviceSession
  <2>4. req'[p].at = "signOut.find" /\ req'[p].sid = pairs[j].sid
    BY <1>1, <1>4 DEF BeginSignOut, Idle
  <2> QED
    BY <2>1, <2>3, <2>4 DEF UndisturbedBy, Working
<1>5. ASSUME NEW j \in Jtis, NEW kind \in TokenKinds, NEW target \in Sids, BeginRevoke(p, j, kind, target)
      PROVE  UndisturbedBy(req[p])'
  <2>1. req'[p].at = "revoke.find"
    BY <1>1, <1>5 DEF BeginRevoke, Idle
  <2> QED
    BY <2>1 DEF UndisturbedBy, Working
<1> QED
  BY <1>2, <1>3, <1>4, <1>5 DEF Arrive, OneSlot, Undisturbed

\* A request goes on relying on what it found, or no longer needs it.
LEMMA ProceedUndisturbed ==
  ASSUME OneSlot, IndInv, Undisturbed, NEW p \in Procs, Proceed(p)
  PROVE  Undisturbed'
<1>1. /\ req \in [Procs -> Request] /\ req[p] \in Request /\ RequestShape(req[p])
      /\ PendingSave(req[p]) /\ UndisturbedBy(req[p])
      /\ sessions \in Collection
  BY DEF IndInv, TypeOK, RequestsWellFormed, PendingSaves, Undisturbed
<1>2. req[p].at # "idle" => req[p].sid \in Sids
  BY <1>1 DEF RequestShape, Request
<1>3. CASE CreateSession(p)
  <2> DEFINE t == pairs[req[p].new]
             c == NewSession(t.sub, t.deviceId, req[p].new, now)
  <2>1. Finish(p) \/ Continue(p, "signIn.save", c)
    BY <1>3 DEF CreateSession
  <2> HIDE DEF c
  <2>2. req'[p].at = "idle" \/ (req'[p].at = "signIn.save" /\ req'[p].sid = req[p].sid)
    BY <1>1, <2>1 DEF Finish, Continue, Idle, Request
  <2>3. req[p].at = "signIn.find" /\ UNCHANGED <<sessions, delivered, pairs>>
    BY <1>3 DEF CreateSession
  <2> QED
    BY <1>1, <2>2, <2>3 DEF OneSlot, Undisturbed, UndisturbedBy, Working, Signed
<1>4. CASE SaveNewSession(p)
  <2>1. CASE Finish(p)
    BY <1>1, <2>1, Relies DEF Finish, Idle, Working
  <2>2. CASE ~Finish(p)
    <3>1. /\ req'[p].at = "signIn.answer" /\ req'[p].sid = req[p].sid /\ req[p].at = "signIn.save"
          /\ sessions' = Save(sessions, req[p].sid, req[p].copy)
      BY <1>1, <1>4, <2>2 DEF SaveNewSession, Continue, Request
    <3>2. sessions'[req[p].sid] # Null
      BY <1>1, <1>2, <3>1 DEF Save, Collection, RequestShape, HoldingCopy
    <3> QED
      BY <3>1, <3>2 DEF OneSlot, Undisturbed, UndisturbedBy, Working
  <2> QED
    BY <2>1, <2>2
<1>5. CASE RefreshSession(p)
  <2>1. PICK j \in Jtis :
          /\ pairs' = [pairs EXCEPT ![j] =
               GenerateTokens(req[p].sid, req[p].copy.user, req[p].copy.device, now)]
          /\ req' = [req EXCEPT ![p].at = "refresh.save", ![p].new = j,
                                ![p].copy = Refresh(req[p].copy, j, now)]
    BY <1>5 DEF RefreshSession, Unused
  <2> DEFINE c == Refresh(req[p].copy, j, now)
  <2>2. req' = [req EXCEPT ![p].at = "refresh.save", ![p].new = j, ![p].copy = c]
    BY <2>1
  <2>3. req[p].copy \in Session /\ req[p].copy.revokedAt = Null /\ now \in Times /\ req[p].at = "refresh.user"
    BY <1>1, <1>5 DEF RefreshSession, RequestShape, HoldingCopy, Request, PendingSave, IndInv, TypeOK
  <2>4. c.digest = IF IsExpired(c, now) THEN req[p].copy.digest ELSE j
    <3>1. IsExpired(c, now) = IsExpired(req[p].copy, now)
      BY <2>3, RefreshedIsSession DEF IsExpired
    <3>2. IsExpired(req[p].copy, now) => c = req[p].copy
      BY DEF Refresh
    <3>3. ~IsExpired(req[p].copy, now) => c.digest = j
      BY <2>3, RefreshedIsSession
    <3> QED
      BY <3>1, <3>2, <3>3
  <2>5. pairs'[j].iat = now
    BY <2>1 DEF IndInv, TypeOK, GenerateTokens
  <2> HIDE DEF c
  <2>6. /\ req'[p].at = "refresh.save" /\ req'[p].sid = req[p].sid /\ req'[p].tok = req[p].tok
        /\ req'[p].new = j /\ req'[p].copy = c
    BY <1>1, <2>2 DEF Request
  <2>7. UNCHANGED sessions
    BY <1>5 DEF RefreshSession
  <2>8. UndisturbedBy(req[p])'
    BY <1>1, <2>3, <2>4, <2>5, <2>6, <2>7 DEF UndisturbedBy, Working
  <2> QED
    BY <2>8 DEF OneSlot, Undisturbed
<1>6. CASE SignOut(p)
  <2>1. UNCHANGED sessions /\ req[p].at = "signOut.find" /\ (Finish(p) \/ Continue(p, "signOut.delete", Null))
    BY <1>6 DEF SignOut
  <2>2. req'[p].at = "idle" \/ (req'[p].at = "signOut.delete" /\ req'[p].sid = req[p].sid)
    BY <1>1, <2>1 DEF Finish, Continue, Idle, Request
  <2> QED
    BY <1>1, <2>1, <2>2 DEF OneSlot, Undisturbed, UndisturbedBy, Working
<1>7. CASE RevokeSession(p)
  <2> DEFINE f == FindById(sessions, req[p].sid)
             c == Revoke(f, now)
  <2>1. CASE Finish(p)
    BY <1>1, <2>1, Relies DEF Finish, Idle, Working
  <2>2. CASE ~Finish(p)
    <3>1. /\ f # Null /\ f.revokedAt = Null /\ UNCHANGED sessions
          /\ req' = [req EXCEPT ![p].at = "revoke.save", ![p].copy = c]
      BY <1>7, <2>2 DEF RevokeSession, Continue, IsRevoked
    <3>2. /\ f \in Session /\ sessions[req[p].sid] # Null /\ sessions[req[p].sid].revokedAt = Null
          /\ f.digest = sessions[req[p].sid].digest
      BY <1>1, <1>2, <1>7, <3>1, FoundById DEF RevokeSession
    <3>3. c.digest = f.digest
      BY <3>2 DEF Revoke, Session
    <3> HIDE DEF c, f
    <3>4. req'[p].at = "revoke.save" /\ req'[p].sid = req[p].sid /\ req'[p].copy = c
      BY <1>1, <3>1 DEF Request
    <3>5. UndisturbedBy(req[p])'
      BY <3>1, <3>2, <3>3, <3>4 DEF UndisturbedBy, Working
    <3> QED
      BY <3>5 DEF OneSlot, Undisturbed
  <2> QED
    BY <2>1, <2>2
<1>8. CASE \/ SaveRefreshedSession(p) \/ DeleteSession(p) \/ SaveRevokedSession(p)
           \/ AnswerTokens(p) \/ AnswerSignOut(p) \/ CommitRevokedSession(p)
  <2>1. req'[p].at \in {"refresh.answer", "signOut.answer", "revoke.commit", "idle"}
    BY <1>1, <1>8 DEF SaveRefreshedSession, DeleteSession, SaveRevokedSession, AnswerTokens,
       AnswerSignOut, CommitRevokedSession, Continue, Finish, Idle, Request
  <2> QED
    BY <2>1, Relies DEF Working
<1> QED
  BY <1>3, <1>4, <1>5, <1>6, <1>7, <1>8 DEF Proceed

\* Every step keeps Undisturbed.
LEMMA NextUndisturbed ==
  ASSUME OneSlot, IndInv, Undisturbed, [Next]_vars
  PROVE  Undisturbed'
<1>1. CASE UNCHANGED vars \/ Tick
  BY <1>1 DEF vars, Tick, Undisturbed, UndisturbedBy, Signed
<1>2. CASE Crash
  BY <1>2 DEF Crash, Undisturbed, UndisturbedBy, Idle, Working
<1>3. ASSUME NEW p \in Procs, FailedQuery(p) \/ LoseAnswer(p) PROVE Undisturbed'
  <2>1. req'[p].at = "idle"
    BY <1>3 DEF FailedQuery, LoseAnswer, Finish, Idle, IndInv, TypeOK
  <2> QED
    BY <2>1, Relies DEF Working
<1> QED
  BY <1>1, <1>2, <1>3, ArriveUndisturbed, ProceedUndisturbed DEF Next

-------------------------------------------------------------------------------
(* The steps of the lifecycle.                                              *)

Token(s) == IF sessions[s] = Null THEN Null ELSE sessions[s].digest

phases == [s \in Sids |-> Phase(s)]
tokens == [s \in Sids |-> Token(s)]

\* A step that writes no document, and tells no client of a session that is
\* not stored, is no step of the lifecycle.
LEMMA NoLifeStep ==
  ASSUME UNCHANGED <<sessions, rotated>>,
         \A s \in Sids : sessions[s] = Null => (Signed(s)' <=> Signed(s))
  PROVE  UNCHANGED Lifecycle!lvars
<1>1. \A s \in Sids : Phase(s)' = Phase(s)
  BY DEF Phase, Signed
<1> QED
  BY <1>1 DEF Lifecycle!lvars

\* A write concerns one session: the others keep phase and token.
LEMMA OneWritten ==
  ASSUME NEW s \in Sids, UNCHANGED <<pairs, delivered>>,
         \A t \in Sids : t # s => sessions'[t] = sessions[t]
  PROVE  /\ phases' = [phases EXCEPT ![s] = Phase(s)']
         /\ tokens' = [tokens EXCEPT ![s] = Token(s)']
<1>1. \A t \in Sids : t # s => Phase(t)' = Phase(t) /\ Token(t)' = Token(t)
  BY DEF Phase, Token
<1>2. phases' = [t \in Sids |-> IF t = s THEN Phase(s)' ELSE phases[t]]
  BY <1>1 DEF phases
<1>3. tokens' = [t \in Sids |-> IF t = s THEN Token(s)' ELSE tokens[t]]
  BY <1>1 DEF tokens
<1> QED
  BY <1>2, <1>3 DEF phases, tokens

\* The pair a request generated is the token of no stored session but its own.
LEMMA NewIsNoToken ==
  ASSUME IndInv, NEW p \in Procs, req[p].new # Null, NEW s \in Sids,
         s = req[p].sid => sessions[s] = Null \/ sessions[s].digest \in delivered
  PROVE  Token(s) # req[p].new
<1>1. req[p].new \in Jtis /\ req[p].new \notin delivered /\ pairs[req[p].new].sid = req[p].sid
  BY DEF IndInv, TypeOK, Request, RequestTokens, TokensOf
<1>2. req[p].new # Null /\ Null \notin Jtis
  BY NullAssumption
<1>3. sessions[s] # Null => pairs[sessions[s].digest].sid = s
  BY DEF IndInv, TokenBinding, Belongs
<1> QED
  BY <1>1, <1>2, <1>3 DEF Token

\* The save of a sign-in opens its session.
LEMMA SaveNewOpens ==
  ASSUME IndInv, Undisturbed, NEW p \in Procs, SaveNewSession(p)
  PROVE  Lifecycle!Next \/ UNCHANGED Lifecycle!lvars
<1>1. /\ req[p] \in Request /\ RequestShape(req[p]) /\ TokensOf(req[p])
      /\ PendingSave(req[p]) /\ UndisturbedBy(req[p]) /\ sessions \in Collection
  BY DEF IndInv, TypeOK, RequestsWellFormed, RequestTokens, PendingSaves, Undisturbed
<1>2. req[p].at = "signIn.save" /\ UNCHANGED <<pairs, delivered, rotated>>
  BY DEF SaveNewSession
<1>3. PICK s \in Sids, j \in Jtis : s = req[p].sid /\ j = req[p].new
  BY <1>1, <1>2 DEF RequestShape, Request, HoldingNew, SignInSteps
<1>4. req[p].copy # Null /\ req[p].copy.digest = j /\ req[p].copy.revokedAt = Null
  BY <1>1, <1>2, <1>3 DEF RequestShape, HoldingCopy, PendingSave
<1>5. sessions[s] = Null /\ ~Signed(s)
  BY <1>1, <1>2, <1>3 DEF UndisturbedBy
<1>6. CASE UNCHANGED sessions
  BY <1>2, <1>6, NoLifeStep DEF Signed
<1>7. CASE sessions' = Save(sessions, s, req[p].copy)
  <2>1. sessions'[s] = req[p].copy /\ \A t \in Sids : t # s => sessions'[t] = sessions[t]
    BY <1>1, <1>7 DEF Save, Collection
  <2>2. Phase(s)' = "active" /\ Token(s)' = j
    BY <1>4, <2>1 DEF Phase, Token, IsRevoked
  <2>3. phases[s] = "none"
    BY <1>5 DEF phases, Phase, Signed
  <2>4. \A r \in Sids : tokens[r] # j
    BY <1>3, <1>5, NullAssumption, NewIsNoToken DEF tokens
  <2>5. phases' = [phases EXCEPT ![s] = "active"] /\ tokens' = [tokens EXCEPT ![s] = j]
    BY <1>2, <2>1, <2>2, OneWritten
  <2>6. Lifecycle!Open(s, j)
    BY <1>2, <2>3, <2>4, <2>5 DEF Lifecycle!Open, phases, tokens, Token
  <2> QED
    BY <2>6 DEF Lifecycle!Next
<1> QED
  BY <1>3, <1>6, <1>7 DEF SaveNewSession

\* The save of a refresh hands the token on, or writes what is stored already.
LEMMA SaveRefreshedRotates ==
  ASSUME IndInv, Undisturbed, NEW p \in Procs, SaveRefreshedSession(p)
  PROVE  Lifecycle!Next \/ UNCHANGED Lifecycle!lvars
<1>1. /\ req[p] \in Request /\ RequestShape(req[p]) /\ TokensOf(req[p])
      /\ PendingSave(req[p]) /\ UndisturbedBy(req[p]) /\ sessions \in Collection
  BY DEF IndInv, TypeOK, RequestsWellFormed, RequestTokens, PendingSaves, Undisturbed
<1>2. req[p].at = "refresh.save" /\ UNCHANGED <<pairs, delivered>>
  BY DEF SaveRefreshedSession
<1>3. PICK s \in Sids, j \in Jtis : s = req[p].sid /\ j = req[p].new
  BY <1>1, <1>2 DEF RequestShape, Request, HoldingNew
<1> DEFINE late == IsExpired(req[p].copy, pairs[j].iat)
<1>4. /\ req[p].copy # Null /\ req[p].copy.revokedAt = Null
      /\ req[p].copy.digest = IF late THEN req[p].tok ELSE j
  BY <1>1, <1>2, <1>3 DEF RequestShape, HoldingCopy, PendingSave, UndisturbedBy
<1>5. /\ sessions[s] # Null /\ sessions[s].revokedAt = Null /\ sessions[s].digest = req[p].tok
      /\ req[p].tok \in delivered
  BY <1>1, <1>2, <1>3 DEF UndisturbedBy, Working, TokensOf, RequestShape, RefreshSteps
<1>6. CASE UNCHANGED <<sessions, rotated>>
  BY <1>2, <1>6, NoLifeStep DEF Signed
<1>7. CASE /\ sessions' = Save(sessions, s, req[p].copy)
           /\ rotated' = rotated \cup {i \in {req[p].tok} : ~late}
  <2>1. sessions'[s] = req[p].copy /\ \A t \in Sids : t # s => sessions'[t] = sessions[t]
    BY <1>1, <1>7 DEF Save, Collection
  <2>2. Phase(s)' = "active" /\ Token(s)' = req[p].copy.digest
    BY <1>4, <2>1 DEF Phase, Token, IsRevoked
  <2>3. phases[s] = "active" /\ tokens[s] = req[p].tok
    BY <1>5 DEF phases, tokens, Phase, Token, IsRevoked
  <2>4. phases' = [phases EXCEPT ![s] = "active"] /\ tokens' = [tokens EXCEPT ![s] = req[p].copy.digest]
    BY <1>2, <2>1, <2>2, OneWritten
  <2>5. phases' = phases
    BY <2>3, <2>4 DEF phases
  <2>6. CASE late
    <3>1. tokens' = tokens
      BY <1>4, <2>3, <2>4, <2>6 DEF tokens
    <3>2. rotated' = rotated
      BY <1>7, <2>6
    <3> QED
      BY <2>5, <3>1, <3>2 DEF Lifecycle!lvars, phases, tokens, Token
  <2>7. CASE ~late
    <3>1. rotated' = rotated \cup {tokens[s]}
      BY <1>7, <2>3, <2>7
    <3>2. \A r \in Sids : tokens[r] # j
      BY <1>3, <1>5, NullAssumption, NewIsNoToken DEF tokens
    <3>3. j \notin rotated
      BY <1>1, <1>3, NullAssumption DEF TokensOf, IndInv, DeliveredPairs
    <3>4. tokens' = [tokens EXCEPT ![s] = j]
      BY <1>4, <2>4, <2>7
    <3>5. Lifecycle!Rotate(s, j)
      BY <2>3, <2>5, <3>1, <3>2, <3>3, <3>4 DEF Lifecycle!Rotate, phases, tokens, Token
    <3> QED
      BY <3>5 DEF Lifecycle!Next
  <2> QED
    BY <2>6, <2>7
<1> QED
  BY <1>3, <1>6, <1>7 DEF SaveRefreshedSession

\* The save of a revocation revokes its session.
LEMMA SaveRevokedRevokes ==
  ASSUME IndInv, Undisturbed, NEW p \in Procs, SaveRevokedSession(p)
  PROVE  Lifecycle!Next \/ UNCHANGED Lifecycle!lvars
<1>1. /\ req[p] \in Request /\ RequestShape(req[p])
      /\ PendingSave(req[p]) /\ UndisturbedBy(req[p]) /\ sessions \in Collection
  BY DEF IndInv, TypeOK, RequestsWellFormed, PendingSaves, Undisturbed
<1>2. req[p].at = "revoke.save" /\ UNCHANGED <<pairs, delivered, rotated>>
  BY DEF SaveRevokedSession
<1>3. PICK s \in Sids : s = req[p].sid
  BY <1>1, <1>2 DEF RequestShape, Request
<1>4. /\ req[p].copy # Null /\ req[p].copy.revokedAt # Null
      /\ sessions[s] # Null /\ sessions[s].revokedAt = Null
      /\ req[p].copy.digest = sessions[s].digest
  BY <1>1, <1>2, <1>3 DEF RequestShape, HoldingCopy, PendingSave, UndisturbedBy, Working
<1>5. CASE UNCHANGED sessions
  BY <1>2, <1>5, NoLifeStep DEF Signed
<1>6. CASE sessions' = Save(sessions, s, req[p].copy)
  <2>1. sessions'[s] = req[p].copy /\ \A t \in Sids : t # s => sessions'[t] = sessions[t]
    BY <1>1, <1>6 DEF Save, Collection
  <2>2. Phase(s)' = "revoked" /\ Token(s)' = Token(s)
    BY <1>4, <2>1 DEF Phase, Token, IsRevoked
  <2>3. phases[s] = "active" /\ tokens[s] = Token(s)
    BY <1>4 DEF phases, tokens, Phase, IsRevoked
  <2>4. phases' = [phases EXCEPT ![s] = "revoked"] /\ tokens' = [tokens EXCEPT ![s] = Token(s)]
    BY <1>2, <2>1, <2>2, OneWritten
  <2>5. tokens' = tokens
    BY <2>3, <2>4 DEF tokens
  <2>6. Lifecycle!Revoke(s)
    BY <1>2, <2>3, <2>4, <2>5 DEF Lifecycle!Revoke, phases, tokens, Token
  <2> QED
    BY <2>6 DEF Lifecycle!Next
<1> QED
  BY <1>3, <1>5, <1>6 DEF SaveRevokedSession

\* The deletion of a sign-out removes its session for good.
LEMMA DeleteRemoves ==
  ASSUME IndInv, Undisturbed, NEW p \in Procs, DeleteSession(p)
  PROVE  Lifecycle!Next \/ UNCHANGED Lifecycle!lvars
<1>1. /\ req[p] \in Request /\ RequestShape(req[p]) /\ TokensOf(req[p])
      /\ UndisturbedBy(req[p]) /\ sessions \in Collection
  BY DEF IndInv, TypeOK, RequestsWellFormed, RequestTokens, Undisturbed
<1>2. req[p].at = "signOut.delete" /\ UNCHANGED <<pairs, delivered, rotated>>
  BY DEF DeleteSession
<1>3. PICK s \in Sids : s = req[p].sid
  BY <1>1, <1>2 DEF RequestShape, Request
<1>4. sessions[s] # Null /\ sessions[s].revokedAt = Null
  BY <1>1, <1>2, <1>3 DEF UndisturbedBy, Working
<1>5. req[p].tok \in delivered /\ pairs[req[p].tok].sid = s
  BY <1>1, <1>2, <1>3 DEF RequestShape, TokensOf, SignOutSteps
<1>6. CASE UNCHANGED sessions
  BY <1>2, <1>6, NoLifeStep DEF Signed
<1>7. CASE sessions' = Delete(sessions, s)
  <2>1. sessions'[s] = Null /\ \A t \in Sids : t # s => sessions'[t] = sessions[t]
    BY <1>1, <1>7 DEF Delete, Collection
  <2>2. Phase(s)' = "gone" /\ Token(s)' = Null
    BY <1>2, <1>5, <2>1 DEF Phase, Token
  <2>3. phases[s] = "active"
    BY <1>4 DEF phases, Phase, IsRevoked
  <2>4. phases' = [phases EXCEPT ![s] = "gone"] /\ tokens' = [tokens EXCEPT ![s] = Null]
    BY <1>2, <2>1, <2>2, OneWritten
  <2>5. Lifecycle!Remove(s)
    BY <1>2, <2>3, <2>4 DEF Lifecycle!Remove, phases, tokens, Token
  <2> QED
    BY <2>5 DEF Lifecycle!Next
<1> QED
  BY <1>3, <1>6, <1>7 DEF DeleteSession

\* The answer with the tokens tells the client of a session that is stored, or
\* of one it knew before.
LEMMA AnswerTokensTellsNothing ==
  ASSUME IndInv, Undisturbed, NEW p \in Procs, AnswerTokens(p)
  PROVE  UNCHANGED Lifecycle!lvars
<1>1. RequestShape(req[p]) /\ TokensOf(req[p]) /\ UndisturbedBy(req[p])
  BY DEF IndInv, RequestsWellFormed, RequestTokens, Undisturbed
<1>2. /\ req[p].at \in {"signIn.answer", "refresh.answer"}
      /\ delivered' = delivered \cup {req[p].new} /\ UNCHANGED <<sessions, rotated, pairs>>
  BY DEF AnswerTokens
<1>3. pairs[req[p].new].sid = req[p].sid
  BY <1>1, <1>2 DEF RequestShape, TokensOf, HoldingNew, SignInSteps
<1>4. sessions[req[p].sid] # Null \/ Signed(req[p].sid)
  BY <1>1, <1>2 DEF UndisturbedBy, RequestShape, TokensOf, RefreshSteps, Signed
<1>5. \A s \in Sids : sessions[s] = Null => (Signed(s)' <=> Signed(s))
  BY <1>2, <1>3, <1>4 DEF Signed
<1> QED
  BY <1>2, <1>5, NoLifeStep

\* A new pair is of nobody's yet, and every other step touches neither
\* documents nor what clients hold.
LEMMA OtherStepsImplement ==
  ASSUME IndInv, UNCHANGED <<sessions, rotated, delivered>>,
         \A j \in delivered : pairs'[j] = pairs[j]
  PROVE  UNCHANGED Lifecycle!lvars
  BY NoLifeStep DEF Signed

\* Every step is one of the lifecycle, or none.
LEMMA NextImplements ==
  ASSUME IndInv, Undisturbed, [Next]_vars
  PROVE  Lifecycle!Next \/ UNCHANGED Lifecycle!lvars
<1>1. CASE UNCHANGED vars \/ Tick \/ Crash
  BY <1>1, OtherStepsImplement DEF vars, Tick, Crash
<1>2. ASSUME NEW p \in Procs, NEW u \in Users, NEW dev \in Devices, SignIn(p, u, dev)
      PROVE  UNCHANGED Lifecycle!lvars
  <2>1. PICK j \in Jtis : \E x : pairs[j] = Null /\ pairs' = [pairs EXCEPT ![j] = x]
    BY <1>2 DEF SignIn, Unused
  <2>2. \A k \in delivered : pairs'[k] = pairs[k]
    BY <2>1 DEF IndInv, TypeOK, DeliveredPairs
  <2> QED
    BY <1>2, <2>2, OtherStepsImplement DEF SignIn
<1>3. ASSUME NEW p \in Procs, RefreshSession(p) PROVE UNCHANGED Lifecycle!lvars
  <2>1. PICK j \in Jtis : \E x : pairs[j] = Null /\ pairs' = [pairs EXCEPT ![j] = x]
    BY <1>3 DEF RefreshSession, Unused
  <2>2. \A k \in delivered : pairs'[k] = pairs[k]
    BY <2>1 DEF IndInv, TypeOK, DeliveredPairs
  <2> QED
    BY <1>3, <2>2, OtherStepsImplement DEF RefreshSession
<1>4. ASSUME NEW p \in Procs, NEW j \in Jtis, NEW kind \in TokenKinds,
             \/ GetRefreshTokenSession(p, j, kind) \/ BeginSignOut(p, j, kind)
             \/ \E target \in Sids : BeginRevoke(p, j, kind, target)
      PROVE  UNCHANGED Lifecycle!lvars
  BY <1>4, OtherStepsImplement DEF GetRefreshTokenSession, BeginSignOut, BeginRevoke
<1>5. ASSUME NEW p \in Procs,
             \/ CreateSession(p) \/ SignOut(p) \/ AnswerSignOut(p) \/ RevokeSession(p)
             \/ CommitRevokedSession(p) \/ FailedQuery(p) \/ LoseAnswer(p)
      PROVE  UNCHANGED Lifecycle!lvars
  BY <1>5, OtherStepsImplement DEF CreateSession, SignOut, AnswerSignOut, RevokeSession,
     CommitRevokedSession, FailedQuery, LoseAnswer
<1>6. ASSUME NEW p \in Procs, Proceed(p) PROVE Lifecycle!Next \/ UNCHANGED Lifecycle!lvars
  BY <1>3, <1>5, <1>6, SaveNewOpens, SaveRefreshedRotates, SaveRevokedRevokes, DeleteRemoves,
     AnswerTokensTellsNothing DEF Proceed
<1> QED
  BY <1>1, <1>2, <1>4, <1>5, <1>6 DEF Next, Arrive

\* Undisturbed holds whatever else the process does.
LEMMA OpenUndisturbed == ASSUME OneSlot PROVE OpenSpec => []Undisturbed
<1>1. Undisturbed /\ FaultElsewhere => Undisturbed'
  BY DEF FaultElsewhere, Undisturbed, UndisturbedBy, Signed
<1>2. OneSlot /\ IndInv /\ Undisturbed /\ [OpenNext]_vars => Undisturbed'
  BY <1>1, NextUndisturbed DEF OpenNext
<1> QED
  BY <1>2, InitUndisturbed, OpenIndInv, PTL DEF OpenSpec

\* Nothing else in the process is a step of the lifecycle.
LEMMA OpenLifecycle == ASSUME OneSlot PROVE OpenSpec => ImplementsLifecycle
<1>1. Init => Lifecycle!Init
  BY DEF Init, Lifecycle!Init, Phase
<1>2. IndInv /\ FaultElsewhere => UNCHANGED Lifecycle!lvars
  BY OtherStepsImplement DEF FaultElsewhere
<1>3. IndInv /\ Undisturbed /\ [OpenNext]_vars => [Lifecycle!Next]_(Lifecycle!lvars)
  BY <1>2, NextImplements DEF OpenNext
<1> QED
  BY <1>1, <1>3, OpenUndisturbed, OpenIndInv, PTL DEF OpenSpec, ImplementsLifecycle, Lifecycle!Spec

\* While requests do not overlap, sessions live the promised life, with faults.
THEOREM ImplementsLifecycleHolds == ASSUME OneSlot PROVE Spec => ImplementsLifecycle
  BY OpenLifecycle, SpecIsOpen, PTL

-------------------------------------------------------------------------------
(* The ends of the lifecycle are ends of sessions.                          *)

\* A lifecycle that is revoked or gone goes nowhere.
LEMMA EndsAreFinal ==
  ASSUME [Lifecycle!Next]_(Lifecycle!lvars), NEW s \in Sids, Phase(s) \in {"revoked", "gone"}
  PROVE  Phase(s)' = Phase(s)
<1>1. phases[s] = Phase(s) /\ phases'[s] = Phase(s)'
  BY DEF phases
<1>2. CASE UNCHANGED Lifecycle!lvars
  BY <1>1, <1>2 DEF Lifecycle!lvars, phases
<1>3. CASE Lifecycle!Next
  <2>1. PICK r \in Sids : /\ phases[r] \in {"none", "active"}
                          /\ \/ UNCHANGED phases
                             \/ \E x : phases' = [phases EXCEPT ![r] = x]
    BY <1>3 DEF Lifecycle!Next, Lifecycle!Open, Lifecycle!Rotate, Lifecycle!Revoke, Lifecycle!Remove, phases
  <2>2. phases'[s] = phases[s]
    BY <1>1, <2>1 DEF phases
  <2> QED
    BY <1>1, <2>2
<1> QED
  BY <1>2, <1>3

\* Nothing else in the process brings back a session that was signed out.
LEMMA OpenRemovedStays == ASSUME OneSlot PROVE OpenSpec => RemovedStaysUnusable
<1> DEFINE Removed == \A s \in Sids :
             sessions[s] = Null /\ (\E j \in delivered : pairs[j].sid = s) =>
               sessions'[s] = Null \/ IsRevoked(sessions'[s])
<1>1. [Lifecycle!Next]_(Lifecycle!lvars) => Removed
  BY EndsAreFinal DEF Phase
<1> QED
  BY <1>1, OpenLifecycle, PTL DEF ImplementsLifecycle, Lifecycle!Spec, RemovedStaysUnusable

\* While requests do not overlap a session that was signed out never comes back,
\* whatever fails: that a refresh in flight brings it back takes two requests.
THEOREM RemovedStaysUnusableHolds == ASSUME OneSlot PROVE Spec => RemovedStaysUnusable
  BY OpenRemovedStays, SpecIsOpen, PTL

\* Nothing else in the process takes a revocation back.
LEMMA OpenRevokedStays == ASSUME OneSlot PROVE OpenSpec => RevokedStaysRevoked
<1> DEFINE Kept == \A s \in Sids :
             sessions[s] # Null /\ IsRevoked(sessions[s]) /\ sessions'[s] # Null =>
               IsRevoked(sessions'[s])
<1>1. [Lifecycle!Next]_(Lifecycle!lvars) => Kept
  BY EndsAreFinal DEF Phase
<1> QED
  BY <1>1, OpenLifecycle, PTL DEF ImplementsLifecycle, Lifecycle!Spec, RevokedStaysRevoked

\* While requests do not overlap a revoked session is never saved as one that is
\* not, whatever fails.
THEOREM RevokedStaysRevokedHolds == ASSUME OneSlot PROVE Spec => RevokedStaysRevoked
  BY OpenRevokedStays, SpecIsOpen, PTL

-------------------------------------------------------------------------------
(* What clients and the event bus were told, while nothing fails: the       *)
(* cookie of a browser is the token its session expects, and an announced   *)
(* revocation is in the store.                                              *)

AnsweringTokens == {"signIn.answer", "refresh.answer"}

Announced(s) == <<"SessionRevoked", s>> \in published

\* a pair of the session was generated
Drawn(s) == \E j \in Jtis : pairs[j] # Null /\ pairs[j].sid = s

\* a session about to be opened was not announced; one about to be is revoked
AnnouncingBy(r) ==
  /\ r.at \in {"signIn.find", "signIn.save"} => ~Announced(r.sid)
  /\ r.at = "revoke.commit" => sessions[r.sid] # Null /\ sessions[r.sid].revokedAt # Null

AnnouncedInv ==
  /\ \A s \in Sids : Announced(s) =>
       Drawn(s) /\ (sessions[s] # Null => sessions[s].revokedAt # Null)
  /\ \A p \in Procs : AnnouncingBy(req[p])

Expects(s, j) == Live(s) => sessions[s].digest = j

\* a cookie is a token its browser received
OwnCookie(d) == cookie[d] # Null => cookie[d] \in delivered /\ pairs[cookie[d]].deviceId = d

\* only a request about to answer holds the successor of a cookie
Superseded(s) == \E p \in Procs : req[p].at \in AnsweringTokens /\ req[p].sid = s

CookieInv ==
  /\ \A p \in Procs : req[p].at \in AnsweringTokens => Expects(req[p].sid, req[p].new)
  /\ \A d \in Devices, j \in Jtis :
       cookie[d] = j => Expects(pairs[j].sid, j) \/ Superseded(pairs[j].sid)

AnswersInv ==
  /\ \A d \in Devices : OwnCookie(d)
  /\ faults = 0 => AnnouncedInv /\ CookieInv

\* Nothing was told in the initial state.
LEMMA InitAnswers == Init => AnswersInv
  BY NullAssumption DEF Init, AnswersInv, OwnCookie, AnnouncedInv, AnnouncingBy, Announced, CookieInv, Idle,
     AnsweringTokens

\* A pair that was generated is kept, and faults are only added to.
LEMMA PairsKept ==
  ASSUME IndInv, [Next]_vars
  PROVE  /\ \A j \in Jtis : pairs[j] # Null => pairs'[j] = pairs[j]
         /\ \A s \in Sids : Drawn(s) => Drawn(s)'
         /\ faults' = 0 => faults = 0
<1>1. faults \in Nat /\ pairs \in [Jtis -> Payload \cup {Null}]
  BY BoundAssumption DEF IndInv, TypeOK
<1>2. ASSUME NEW p \in Procs, Arrive(p) PROVE UNCHANGED faults
  BY <1>2 DEF Arrive, SignIn, GetRefreshTokenSession, BeginSignOut, BeginRevoke
<1>3. ASSUME NEW p \in Procs, Proceed(p) \/ FailedQuery(p) \/ LoseAnswer(p)
      PROVE  UNCHANGED faults \/ Fault
  BY <1>3 DEF Proceed, CreateSession, SaveNewSession, AnswerTokens, RefreshSession, SaveRefreshedSession,
     SignOut, DeleteSession, AnswerSignOut, RevokeSession, SaveRevokedSession, CommitRevokedSession,
     FailedQuery, LoseAnswer, NoFault
<1>4. faults' = 0 => faults = 0
  <2>1. UNCHANGED faults \/ Fault
    BY <1>2, <1>3 DEF Next, vars, Tick, Crash
  <2> QED
    BY <1>1, <2>1 DEF Fault
<1>5. ASSUME NEW p \in Procs, NEW u \in Users, NEW dev \in Devices, SignIn(p, u, dev)
      PROVE  \E j \in Jtis : \E x : pairs[j] = Null /\ pairs' = [pairs EXCEPT ![j] = x]
  BY <1>5 DEF SignIn, Unused
<1>6. ASSUME NEW p \in Procs, RefreshSession(p)
      PROVE  \E j \in Jtis : \E x : pairs[j] = Null /\ pairs' = [pairs EXCEPT ![j] = x]
  BY <1>6 DEF RefreshSession, Unused
<1>7. ASSUME NEW p \in Procs, Arrive(p) \/ Proceed(p) \/ FailedQuery(p) \/ LoseAnswer(p)
      PROVE  \/ UNCHANGED pairs
             \/ \E j \in Jtis : \E x : pairs[j] = Null /\ pairs' = [pairs EXCEPT ![j] = x]
  BY <1>5, <1>6, <1>7 DEF Arrive, GetRefreshTokenSession, BeginSignOut, BeginRevoke, Proceed,
     CreateSession, SaveNewSession, AnswerTokens, SaveRefreshedSession, SignOut, DeleteSession,
     AnswerSignOut, RevokeSession, SaveRevokedSession, CommitRevokedSession, FailedQuery, LoseAnswer
<1>8. \A j \in Jtis : pairs[j] # Null => pairs'[j] = pairs[j]
  <2>1. \/ UNCHANGED pairs
        \/ \E j \in Jtis : \E x : pairs[j] = Null /\ pairs' = [pairs EXCEPT ![j] = x]
    BY <1>7 DEF Next, vars, Tick, Crash
  <2> QED
    BY <1>1, <2>1
<1>9. \A s \in Sids : Drawn(s) => Drawn(s)'
  BY <1>8 DEF Drawn
<1> QED
  BY <1>4, <1>8, <1>9

\* A step that sets no cookie keeps every cookie its browser's own.
LEMMA OwnCookieKept ==
  ASSUME IndInv, [Next]_vars, AnswersInv, UNCHANGED <<cookie, delivered>>
  PROVE  \A d \in Devices : OwnCookie(d)'
<1>1. \A j \in delivered : pairs'[j] = pairs[j]
  BY PairsKept DEF IndInv, TypeOK, DeliveredPairs
<1> QED
  BY <1>1 DEF AnswersInv, OwnCookie

\* A step that reads, or ends, without answering a token.
LEMMA QuietAnswers ==
  ASSUME OneSlot, IndInv, [Next]_vars, AnswersInv, NEW p \in Procs,
         UNCHANGED <<now, sessions, cookie, delivered, published>>,
         req[p].at \notin AnsweringTokens,
         req'[p].at \notin AnsweringTokens \cup {"revoke.commit"},
         faults = 0 /\ req'[p].at \in {"signIn.find", "signIn.save"} => ~Announced(req'[p].sid)
  PROVE  AnswersInv'
<1>1. SUFFICES ASSUME faults = 0 PROVE AnnouncedInv' /\ CookieInv'
  BY OwnCookieKept, PairsKept DEF AnswersInv
<1>2. AnnouncedInv'
  <2>1. \A s \in Sids : Announced(s)' => Drawn(s)' /\ (sessions'[s] # Null => sessions'[s].revokedAt # Null)
    BY <1>1, PairsKept DEF AnswersInv, AnnouncedInv, Announced
  <2>2. AnnouncingBy(req[p])'
    BY <1>1 DEF AnnouncingBy, Announced
  <2> QED
    BY <2>1, <2>2 DEF OneSlot, AnnouncedInv
<1>3. CookieInv'
  <2>1. \A j \in delivered : pairs'[j] = pairs[j]
    BY PairsKept DEF IndInv, TypeOK, DeliveredPairs
  <2>2. \A d \in Devices, j \in Jtis : cookie[d] = j => j \in delivered
    BY NullAssumption DEF AnswersInv, OwnCookie
  <2>3. \A d \in Devices, j \in Jtis : cookie[d] = j => Expects(pairs[j].sid, j)
    BY <1>1 DEF AnswersInv, CookieInv, Superseded, OneSlot
  <2>4. \A d \in Devices, j \in Jtis : cookie'[d] = j => pairs'[j] = pairs[j] /\ Expects(pairs[j].sid, j)
    BY <2>1, <2>2, <2>3
  <2> QED
    BY <2>4 DEF OneSlot, CookieInv, Expects, Live
<1> QED
  BY <1>2, <1>3

\* What a failed call, a lost answer or a crash leaves: cookies as they were.
LEMMA FaultyAnswers ==
  ASSUME IndInv, [Next]_vars, AnswersInv, UNCHANGED <<cookie, delivered>>, faults' # 0
  PROVE  AnswersInv'
  BY OwnCookieKept DEF AnswersInv

\* A request that arrives, or reads what it needs.
LEMMA ReadAnswers ==
  ASSUME OneSlot, IndInv, [Next]_vars, AnswersInv, NEW p \in Procs,
         \/ Arrive(p) \/ CreateSession(p) \/ RefreshSession(p) \/ SignOut(p) \/ RevokeSession(p)
  PROVE  AnswersInv'
<1>1. /\ req \in [Procs -> Request] /\ req[p] \in Request
      /\ faults = 0 => AnnouncedInv
  BY DEF IndInv, TypeOK, AnswersInv
<1>2. ASSUME NEW u \in Users, NEW dev \in Devices, SignIn(p, u, dev) PROVE AnswersInv'
  <2>1. PICK s \in Sids, j \in Jtis :
          /\ \A k \in Jtis : pairs[k] # Null => pairs[k].sid # s
          /\ req' = [req EXCEPT ![p] = [Idle EXCEPT !.at = "signIn.find", !.sid = s, !.new = j]]
    BY <1>2 DEF SignIn, FreshSids, Unused
  <2>2. req'[p].at = "signIn.find" /\ req'[p].sid = s
    BY <1>1, <2>1 DEF Idle
  <2>3. faults = 0 => ~Announced(s)
    BY <1>1, <2>1 DEF AnnouncedInv, Drawn
  <2>4. req[p].at = "idle" /\ UNCHANGED <<now, sessions, cookie, delivered, published>>
    BY <1>2 DEF SignIn, Idle
  <2> QED
    BY <2>2, <2>3, <2>4, QuietAnswers DEF AnsweringTokens
<1>3. ASSUME NEW j \in Jtis, NEW kind \in TokenKinds,
             \/ GetRefreshTokenSession(p, j, kind) \/ BeginSignOut(p, j, kind)
             \/ \E target \in Sids : BeginRevoke(p, j, kind, target)
      PROVE  AnswersInv'
  <2>1. req[p].at = "idle" /\ UNCHANGED <<now, sessions, cookie, delivered, published>>
    <3>1. req[p] = Idle /\ UNCHANGED <<now, sessions, cookie, delivered, published>>
      BY <1>3 DEF GetRefreshTokenSession, BeginSignOut, BeginRevoke
    <3> QED
      BY <3>1 DEF Idle
  <2>2. ASSUME GetRefreshTokenSession(p, j, kind) PROVE req'[p].at = "refresh.user"
    BY <1>1, <2>2 DEF GetRefreshTokenSession
  <2>3. ASSUME BeginSignOut(p, j, kind) PROVE req'[p].at = "signOut.find"
    BY <1>1, <2>3 DEF BeginSignOut, Idle
  <2>4. ASSUME NEW target \in Sids, BeginRevoke(p, j, kind, target) PROVE req'[p].at = "revoke.find"
    BY <1>1, <2>4 DEF BeginRevoke, Idle
  <2> QED
    BY <1>3, <2>1, <2>2, <2>3, <2>4, QuietAnswers DEF AnsweringTokens
<1>4. CASE CreateSession(p)
  <2> DEFINE c == NewSession(pairs[req[p].new].sub, pairs[req[p].new].deviceId, req[p].new, now)
  <2>1. Finish(p) \/ Continue(p, "signIn.save", c)
    BY <1>4 DEF CreateSession
  <2> HIDE DEF c
  <2>2. req'[p].at = "idle" \/ (req'[p].at = "signIn.save" /\ req'[p].sid = req[p].sid)
    BY <1>1, <2>1 DEF Finish, Continue, Idle, Request
  <2>3. req[p].at = "signIn.find" /\ UNCHANGED <<now, sessions, cookie, delivered, published>>
    BY <1>4 DEF CreateSession
  <2>4. faults = 0 => ~Announced(req[p].sid)
    BY <1>1, <2>3 DEF AnnouncedInv, AnnouncingBy
  <2> QED
    BY <2>2, <2>3, <2>4, QuietAnswers DEF AnsweringTokens
<1>5. CASE RefreshSession(p)
  <2>1. PICK j \in Jtis : \E c : req' = [req EXCEPT ![p].at = "refresh.save", ![p].new = j, ![p].copy = c]
    BY <1>5 DEF RefreshSession, Unused
  <2>2. req'[p].at = "refresh.save"
    BY <1>1, <2>1 DEF Request
  <2>3. req[p].at = "refresh.user" /\ UNCHANGED <<now, sessions, cookie, delivered, published>>
    BY <1>5 DEF RefreshSession
  <2> QED
    BY <2>2, <2>3, QuietAnswers DEF AnsweringTokens
<1>6. CASE SignOut(p)
  <2>1. /\ Finish(p) \/ Continue(p, "signOut.delete", Null)
        /\ req[p].at = "signOut.find" /\ UNCHANGED <<now, sessions, cookie, delivered, published>>
    BY <1>6 DEF SignOut
  <2>2. req'[p].at \in {"idle", "signOut.delete"}
    BY <1>1, <2>1 DEF Finish, Continue, Idle, Request
  <2> QED
    BY <2>1, <2>2, QuietAnswers DEF AnsweringTokens
<1>7. CASE RevokeSession(p)
  <2> DEFINE c == Revoke(FindById(sessions, req[p].sid), now)
  <2>1. /\ Finish(p) \/ Continue(p, "revoke.save", c)
        /\ req[p].at = "revoke.find" /\ UNCHANGED <<now, sessions, cookie, delivered, published>>
    BY <1>7 DEF RevokeSession
  <2> HIDE DEF c
  <2>2. req'[p].at \in {"idle", "revoke.save"}
    BY <1>1, <2>1 DEF Finish, Continue, Idle, Request
  <2> QED
    BY <2>1, <2>2, QuietAnswers DEF AnsweringTokens
<1> QED
  BY <1>2, <1>3, <1>4, <1>5, <1>6, <1>7 DEF Arrive

\* A write of one document, after which the tokens are answered, or the session
\* is dead.
LEMMA WriteAnswers ==
  ASSUME OneSlot, IndInv, [Next]_vars, AnswersInv, NEW p \in Procs, NEW s \in Sids, NEW j,
         UNCHANGED <<now, cookie, delivered, published>>, req[p].at \notin AnsweringTokens,
         \A t \in Sids : t # s => sessions'[t] = sessions[t],
         \/ sessions'[s] = Null \/ sessions'[s].revokedAt # Null
         \/ faults = 0 => ~Announced(s),
         faults = 0 => AnnouncingBy(req[p])',
         IF req'[p].at \in AnsweringTokens
         THEN req'[p].sid = s /\ req'[p].new = j /\ Expects(s, j)'
         ELSE ~Live(s)'
  PROVE  AnswersInv'
<1>1. SUFFICES ASSUME faults = 0 PROVE AnnouncedInv' /\ CookieInv'
  BY OwnCookieKept, PairsKept DEF AnswersInv
<1>2. AnnouncedInv /\ CookieInv
  BY <1>1 DEF AnswersInv
<1>3. AnnouncedInv'
  <2>1. ASSUME NEW t \in Sids, Announced(t)'
        PROVE  Drawn(t)' /\ (sessions'[t] # Null => sessions'[t].revokedAt # Null)
    BY <1>1, <1>2, <2>1, PairsKept DEF AnnouncedInv, Announced
  <2> QED
    BY <1>1, <2>1 DEF OneSlot, AnnouncedInv
<1>4. CookieInv'
  <2>1. req'[p].at \in AnsweringTokens => Expects(req[p].sid, req[p].new)'
    BY DEF Expects, Live
  <2>2. ASSUME NEW d \in Devices, NEW k \in Jtis, cookie'[d] = k
        PROVE  Expects(pairs[k].sid, k)' \/ Superseded(pairs[k].sid)'
    <3>1. k \in delivered /\ pairs'[k] = pairs[k] /\ pairs[k].sid \in Sids
      BY <2>2, NullAssumption, PairsKept DEF AnswersInv, OwnCookie, IndInv, TypeOK, DeliveredPairs, Payload
    <3>2. Expects(pairs[k].sid, k)
      BY <1>2, <2>2 DEF CookieInv, Superseded, OneSlot
    <3>3. pairs[k].sid # s => Expects(pairs[k].sid, k)'
      BY <3>1, <3>2 DEF Expects, Live
    <3>4. pairs[k].sid = s => Expects(pairs[k].sid, k)' \/ Superseded(pairs[k].sid)'
      BY <3>1 DEF Expects, Live, Superseded
    <3> QED
      BY <3>3, <3>4
  <2> QED
    BY <2>1, <2>2 DEF OneSlot, CookieInv
<1> QED
  BY <1>3, <1>4

\* The saves of sign-in, refresh and revocation, and the deletion of sign-out.
LEMMA SaveAnswers ==
  ASSUME OneSlot, IndInv, Undisturbed, [Next]_vars, AnswersInv, NEW p \in Procs,
         SaveNewSession(p) \/ SaveRefreshedSession(p) \/ SaveRevokedSession(p) \/ DeleteSession(p)
  PROVE  AnswersInv'
<1>1. /\ req \in [Procs -> Request] /\ req[p] \in Request /\ RequestShape(req[p])
      /\ TokensOf(req[p]) /\ PendingSave(req[p]) /\ UndisturbedBy(req[p])
      /\ sessions \in Collection /\ faults \in Nat /\ now \in Nat
      /\ faults = 0 => AnnouncedInv
  BY BoundAssumption, TimeAssumption DEF IndInv, TypeOK, RequestsWellFormed, RequestTokens, PendingSaves,
     Undisturbed, AnswersInv, Times
<1>2. /\ UNCHANGED <<now, cookie, delivered, published, pairs>>
      /\ req[p].at \in {"signIn.save", "refresh.save", "revoke.save", "signOut.delete"}
  BY DEF SaveNewSession, SaveRefreshedSession, SaveRevokedSession, DeleteSession
<1>3. PICK s \in Sids : s = req[p].sid
  BY <1>1, <1>2 DEF RequestShape, Request
<1>4. CASE Fault
  BY <1>1, <1>2, <1>4, FaultyAnswers DEF Fault
<1>5. CASE ~Fault /\ SaveNewSession(p)
  <2>1. /\ req[p].at = "signIn.save"
        /\ sessions' = Save(sessions, s, req[p].copy) /\ Continue(p, "signIn.answer", Null)
    BY <1>3, <1>5 DEF SaveNewSession
  <2>2. req'[p].at = "signIn.answer" /\ req'[p].sid = s /\ req'[p].new = req[p].new
    BY <1>1, <1>3, <2>1 DEF Continue, Request
  <2>3. /\ sessions'[s] = req[p].copy /\ req[p].copy.digest = req[p].new
        /\ \A t \in Sids : t # s => sessions'[t] = sessions[t]
    BY <1>1, <2>1 DEF Save, Collection, PendingSave
  <2>4. PICK j : j = req[p].new
    OBVIOUS
  <2>5. Expects(s, j)'
    BY <2>3, <2>4 DEF Expects
  <2>6. faults = 0 => ~Announced(s)
    BY <1>1, <1>3, <2>1 DEF AnnouncedInv, AnnouncingBy
  <2>7. AnnouncingBy(req[p])'
    BY <2>2 DEF AnnouncingBy
  <2> QED
    BY <1>2, <2>2, <2>3, <2>4, <2>5, <2>6, <2>7, WriteAnswers DEF AnsweringTokens
<1>6. CASE ~Fault /\ SaveRefreshedSession(p)
  <2>1. /\ req[p].at = "refresh.save"
        /\ sessions' = Save(sessions, s, req[p].copy) /\ Continue(p, "refresh.answer", Null)
    BY <1>3, <1>6 DEF SaveRefreshedSession
  <2>2. req'[p].at = "refresh.answer" /\ req'[p].sid = s /\ req'[p].new = req[p].new
    BY <1>1, <1>3, <2>1 DEF Continue, Request
  <2>3. /\ sessions'[s] = req[p].copy
        /\ \A t \in Sids : t # s => sessions'[t] = sessions[t]
    BY <1>1, <2>1 DEF Save, Collection
  <2>4. PICK j \in Jtis : j = req[p].new
    BY <1>1, <2>1 DEF RequestShape, Request, HoldingNew
  <2>5. Expects(s, j)'
    <3>1. pairs[j].iat \in Nat /\ pairs[j].iat <= now
      BY <1>1, <2>1, <2>4, NullAssumption, TimeAssumption
         DEF TokensOf, IndInv, TypeOK, DeliveredPairs, Payload, Times
    <3>2. req[p].copy.expiresAt \in Nat
      BY <1>1, <2>1, TimeAssumption DEF RequestShape, HoldingCopy, Request, Session
    <3>3. req[p].copy.expiresAt < pairs[j].iat \/ req[p].copy.digest = j
      BY <1>1, <2>1, <2>4 DEF PendingSave, IsExpired
    <3> QED
      BY <1>1, <1>2, <2>3, <3>1, <3>2, <3>3 DEF Expects, Live, IsLive, IsExpired
  <2>6. faults = 0 => ~Announced(s)
    BY <1>1, <1>3, <2>1 DEF AnnouncedInv, UndisturbedBy, Working
  <2>7. AnnouncingBy(req[p])'
    BY <2>2 DEF AnnouncingBy
  <2> QED
    BY <1>2, <2>1, <2>2, <2>3, <2>4, <2>5, <2>6, <2>7, WriteAnswers DEF AnsweringTokens
<1>7. CASE ~Fault /\ SaveRevokedSession(p)
  <2>1. /\ req[p].at = "revoke.save"
        /\ sessions' = Save(sessions, s, req[p].copy) /\ Continue(p, "revoke.commit", Null)
    BY <1>3, <1>7 DEF SaveRevokedSession
  <2>2. req'[p].at = "revoke.commit" /\ req'[p].sid = s
    BY <1>1, <1>3, <2>1 DEF Continue, Request
  <2>3. /\ sessions'[s] = req[p].copy /\ sessions'[s] # Null /\ sessions'[s].revokedAt # Null
        /\ \A t \in Sids : t # s => sessions'[t] = sessions[t]
    BY <1>1, <2>1 DEF Save, Collection, PendingSave, RequestShape, HoldingCopy
  <2>4. ~Live(s)'
    BY <2>3 DEF Live, IsLive, IsRevoked
  <2>5. AnnouncingBy(req[p])'
    BY <2>2, <2>3 DEF AnnouncingBy
  <2> QED
    BY <1>2, <2>1, <2>2, <2>3, <2>4, <2>5, WriteAnswers DEF AnsweringTokens
<1>8. CASE ~Fault /\ DeleteSession(p)
  <2>1. /\ req[p].at = "signOut.delete"
        /\ sessions' = Delete(sessions, s) /\ Continue(p, "signOut.answer", Null)
    BY <1>3, <1>8 DEF DeleteSession
  <2>2. req'[p].at = "signOut.answer"
    BY <1>1, <2>1 DEF Continue, Request
  <2>3. sessions'[s] = Null /\ \A t \in Sids : t # s => sessions'[t] = sessions[t]
    BY <1>1, <2>1 DEF Delete, Collection
  <2>4. ~Live(s)' /\ AnnouncingBy(req[p])'
    BY <2>2, <2>3 DEF Live, AnnouncingBy
  <2> QED
    BY <1>2, <2>1, <2>2, <2>3, <2>4, WriteAnswers DEF AnsweringTokens
<1> QED
  BY <1>4, <1>5, <1>6, <1>7, <1>8

\* The answers: the cookie is the token the session expects, and what is
\* announced is in the store.
LEMMA ToldAnswers ==
  ASSUME OneSlot, IndInv, [Next]_vars, AnswersInv, NEW p \in Procs,
         AnswerTokens(p) \/ AnswerSignOut(p) \/ CommitRevokedSession(p)
  PROVE  AnswersInv'
<1>1. /\ req \in [Procs -> Request] /\ req[p] \in Request /\ RequestShape(req[p]) /\ TokensOf(req[p])
      /\ cookie \in [Devices -> Jtis \cup {Null}] /\ \A d \in Devices : OwnCookie(d)
      /\ \A k \in delivered : pairs[k] \in Payload
  BY DEF IndInv, TypeOK, RequestsWellFormed, RequestTokens, AnswersInv, DeliveredPairs
<1>2. UNCHANGED <<now, sessions, pairs, faults>> /\ req'[p].at = "idle"
  BY <1>1 DEF AnswerTokens, AnswerSignOut, CommitRevokedSession, Finish, Idle
<1>3. CASE AnswerTokens(p)
  <2>1. PICK j \in Jtis : j = req[p].new /\ j \notin delivered /\ pairs[j] \in Payload /\ pairs[j].sid = req[p].sid
    BY <1>1, <1>3, NullAssumption DEF AnswerTokens, RequestShape, HoldingNew, SignInSteps, TokensOf, Request,
       IndInv, TypeOK
  <2>2. PICK e \in Devices : e = pairs[j].deviceId
    BY <2>1 DEF Payload
  <2>3. /\ delivered' = delivered \cup {j} /\ cookie' = [cookie EXCEPT ![e] = j]
        /\ req[p].at \in AnsweringTokens /\ UNCHANGED published
    BY <1>3, <2>1, <2>2 DEF AnswerTokens, SetCookie, AnsweringTokens
  <2>4. cookie'[e] = j /\ \A d \in Devices : d # e => cookie'[d] = cookie[d]
    BY <1>1, <2>3
  <2>5. \A d \in Devices : OwnCookie(d)'
    BY <1>1, <1>2, <2>2, <2>3, <2>4 DEF OwnCookie
  <2>6. ASSUME faults = 0, NEW d \in Devices, NEW k \in Jtis, cookie'[d] = k
        PROVE  Expects(pairs[k].sid, k)
    <3>1. CookieInv
      BY <2>6 DEF AnswersInv
    <3>2. CASE d = e
      BY <2>1, <2>3, <2>4, <2>6, <3>1, <3>2 DEF CookieInv
    <3>3. CASE d # e
      <4>1. cookie[d] = k /\ k \in delivered /\ pairs[k].deviceId = d /\ pairs[k] # Null
        BY <1>1, <2>4, <2>6, <3>3, NullAssumption DEF OwnCookie, IndInv, DeliveredPairs
      <4>2. pairs[j] # Null
        BY <2>1, NullIsNoPayload
      <4>3. pairs[k].sid # pairs[j].sid
        BY <2>1, <2>2, <3>3, <4>1, <4>2 DEF IndInv, TokenBinding
      <4>4. ~Superseded(pairs[k].sid)
        BY <2>1, <4>3 DEF Superseded, OneSlot
      <4> QED
        BY <3>1, <4>1, <4>4 DEF CookieInv
    <3> QED
      BY <3>2, <3>3
  <2>7. faults = 0 => CookieInv'
    BY <1>2, <2>6 DEF CookieInv, OneSlot, AnsweringTokens, Expects, Live
  <2>8. faults = 0 => AnnouncedInv'
    BY <1>2, <2>3 DEF OneSlot, AnswersInv, AnnouncedInv, AnnouncingBy, Announced, Drawn
  <2> QED
    BY <1>2, <2>5, <2>7, <2>8 DEF AnswersInv
<1>4. CASE AnswerSignOut(p)
  <2>1. /\ req[p].at = "signOut.answer" /\ UNCHANGED <<delivered, published>>
        /\ \A d \in Devices : cookie'[d] \in {cookie[d], Null}
    BY <1>1, <1>4 DEF AnswerSignOut
  <2>2. \A d \in Devices : OwnCookie(d)'
    BY <1>1, <1>2, <2>1 DEF OwnCookie
  <2>3. ASSUME faults = 0, NEW d \in Devices, NEW k \in Jtis, cookie'[d] = k
        PROVE  Expects(pairs[k].sid, k)
    BY <2>1, <2>3, NullAssumption DEF AnswersInv, CookieInv, Superseded, OneSlot, AnsweringTokens
  <2>4. faults = 0 => CookieInv'
    BY <1>2, <2>3 DEF CookieInv, OneSlot, AnsweringTokens, Expects, Live
  <2>5. faults = 0 => AnnouncedInv'
    BY <1>2, <2>1 DEF OneSlot, AnswersInv, AnnouncedInv, AnnouncingBy, Announced, Drawn
  <2> QED
    BY <1>2, <2>2, <2>4, <2>5 DEF AnswersInv
<1>5. CASE CommitRevokedSession(p)
  <2>1. PICK s \in Sids : s = req[p].sid
    BY <1>1, <1>5 DEF CommitRevokedSession, RequestShape, Request
  <2>2. /\ req[p].at = "revoke.commit" /\ published' = published \cup {<<"SessionRevoked", s>>}
        /\ UNCHANGED <<delivered, cookie>>
    BY <1>5, <2>1 DEF CommitRevokedSession
  <2>3. \A d \in Devices : OwnCookie(d)'
    BY OwnCookieKept, <2>2
  <2>4. faults = 0 => CookieInv'
    BY <1>2, <2>2 DEF AnswersInv, CookieInv, Superseded, OneSlot, AnsweringTokens, Expects, Live
  <2>5. ASSUME faults = 0 PROVE AnnouncedInv'
    <3>1. sessions[s] # Null /\ sessions[s].revokedAt # Null
      BY <2>1, <2>2, <2>5 DEF AnswersInv, AnnouncedInv, AnnouncingBy
    <3>2. Drawn(s)
      BY <3>1 DEF Drawn, IndInv, TypeOK, Collection, Session, TokenBinding, Belongs
    <3>3. \A t \in Sids : Announced(t)' => Announced(t) \/ t = s
      BY <2>2 DEF Announced
    <3> QED
      BY <1>2, <2>5, <3>1, <3>2, <3>3 DEF OneSlot, AnswersInv, AnnouncedInv, AnnouncingBy, Drawn
  <2> QED
    BY <1>2, <2>3, <2>4, <2>5 DEF AnswersInv
<1> QED
  BY <1>3, <1>4, <1>5

\* Time only ends sessions.
LEMMA TickAnswers ==
  ASSUME IndInv, AnswersInv, Tick
  PROVE  AnswersInv'
<1>1. /\ now \in Nat /\ now' = now + 1
      /\ UNCHANGED <<sessions, pairs, delivered, cookie, req, published, faults>>
  BY TimeAssumption DEF Tick, IndInv, TypeOK, Times
<1>2. ASSUME NEW s \in Sids, Live(s)' PROVE Live(s)
  <2>1. sessions[s].expiresAt \in Nat
    BY <1>1, <1>2, TimeAssumption DEF Live, IndInv, TypeOK, Collection, Session
  <2> QED
    BY <1>1, <1>2, <2>1 DEF Live, IsLive, IsExpired
<1>3. ASSUME faults = 0, NEW d \in Devices, NEW j \in Jtis, cookie'[d] = j
      PROVE  Expects(pairs[j].sid, j)' \/ Superseded(pairs[j].sid)'
  <2>1. pairs[j].sid \in Sids /\ cookie[d] = j
    BY <1>1, <1>3, NullAssumption DEF AnswersInv, OwnCookie, IndInv, TypeOK, DeliveredPairs, Payload
  <2>2. Expects(pairs[j].sid, j) \/ Superseded(pairs[j].sid)
    BY <1>3, <2>1 DEF AnswersInv, CookieInv
  <2>3. Expects(pairs[j].sid, j) => Expects(pairs[j].sid, j)'
    BY <1>1, <1>2, <2>1 DEF Expects
  <2> QED
    BY <1>1, <2>2, <2>3 DEF Superseded
<1>4. ASSUME faults = 0, NEW p \in Procs, req'[p].at \in AnsweringTokens
      PROVE  Expects(req[p].sid, req[p].new)'
  <2>1. req[p].sid \in Sids /\ Expects(req[p].sid, req[p].new)
    BY <1>1, <1>4 DEF AnswersInv, CookieInv, AnsweringTokens, IndInv, TypeOK, RequestsWellFormed, RequestShape, Request
  <2> QED
    BY <1>1, <1>2, <2>1 DEF Expects
<1>5. faults = 0 => CookieInv'
  BY <1>3, <1>4 DEF CookieInv
<1> QED
  BY <1>1, <1>5 DEF AnswersInv, OwnCookie, AnnouncedInv, AnnouncingBy, Announced, Drawn

\* Every step keeps AnswersInv.
LEMMA NextAnswers ==
  ASSUME OneSlot, IndInv, Undisturbed, [Next]_vars, AnswersInv
  PROVE  AnswersInv'
<1>1. faults \in Nat
  BY BoundAssumption DEF IndInv, TypeOK
<1>2. CASE UNCHANGED vars
  BY <1>2 DEF vars, AnswersInv, OwnCookie, AnnouncedInv, AnnouncingBy, Announced, Drawn, CookieInv,
     Expects, Superseded, Live
<1>3. ASSUME Crash \/ \E p \in Procs : FailedQuery(p) \/ LoseAnswer(p) PROVE AnswersInv'
  <2>1. UNCHANGED <<cookie, delivered>> /\ faults' # 0
    BY <1>1, <1>3 DEF Crash, FailedQuery, LoseAnswer, Fault
  <2> QED
    BY <2>1, FaultyAnswers
<1>4. ASSUME NEW p \in Procs, Arrive(p) \/ Proceed(p) PROVE AnswersInv'
  BY <1>4, ReadAnswers, SaveAnswers, ToldAnswers DEF Proceed
<1> QED
  BY <1>2, <1>3, <1>4, TickAnswers DEF Next

\* AnswersInv holds while requests do not overlap.
LEMMA OpenAnswers == ASSUME OneSlot PROVE OpenSpec => []AnswersInv
<1>1. IndInv /\ AnswersInv /\ FaultElsewhere => AnswersInv'
  BY DEF FaultElsewhere, Fault, IndInv, TypeOK, AnswersInv, OwnCookie
<1>2. OneSlot /\ IndInv /\ Undisturbed /\ [OpenNext]_vars /\ AnswersInv => AnswersInv'
  BY <1>1, NextAnswers DEF OpenNext
<1> QED
  BY <1>2, InitAnswers, OpenUndisturbed, OpenIndInv, PTL DEF OpenSpec

\* Nothing else in the process sets a cookie or makes it useless.
LEMMA OpenCookie == ASSUME OneSlot PROVE OpenSpec => []CookieUsable
<1>1. AnswersInv /\ IndInv => CookieUsable
  <2> SUFFICES ASSUME AnswersInv, IndInv, faults = 0, \A p \in Procs : req[p] = Idle,
                      NEW d \in Devices, cookie[d] # Null, Live(pairs[cookie[d]].sid)
               PROVE  sessions[pairs[cookie[d]].sid].digest = cookie[d]
    BY DEF CookieUsable
  <2>1. PICK j \in Jtis : cookie[d] = j
    BY DEF IndInv, TypeOK
  <2>2. ~Superseded(pairs[j].sid)
    BY DEF Superseded, AnsweringTokens, Idle
  <2> QED
    BY <2>1, <2>2 DEF AnswersInv, CookieInv, Expects
<1> QED
  BY <1>1, OpenAnswers, OpenIndInv, PTL

\* With no request in flight and no failure, the cookie of a browser is the
\* token its live session expects.
THEOREM CookieUsableHolds == ASSUME OneSlot PROVE Spec => []CookieUsable
  BY OpenCookie, SpecIsOpen, PTL

\* Nothing else in the process makes an announced revocation untrue.
LEMMA OpenAnnounced == ASSUME OneSlot PROVE OpenSpec => []AnnouncedIsRevoked
<1>1. AnswersInv => AnnouncedIsRevoked
  BY DEF AnswersInv, AnnouncedInv, Announced, AnnouncedIsRevoked, IsRevoked
<1> QED
  BY <1>1, OpenAnswers, PTL

\* While requests do not overlap and nothing fails, a revocation that was
\* announced is in the store.
THEOREM AnnouncedIsRevokedHolds == ASSUME OneSlot PROVE Spec => []AnnouncedIsRevoked
  BY OpenAnnounced, SpecIsOpen, PTL
===============================================================================
