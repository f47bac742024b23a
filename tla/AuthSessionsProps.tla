--------------------------- MODULE AuthSessionsProps --------------------------
(***************************************************************************)
(* What the auth module promises about its sessions.                       *)
(***************************************************************************)
EXTENDS AuthSessions, FiniteSets

Live(s) == sessions[s] # Null /\ IsLive(sessions[s], now)

(* Holding in every interleaving, with faults *)

\* Every token pair, stored session and session in memory of one session id
\* agrees on the user and the device, and a stored digest is of a pair issued
\* for that very session: whole-document saves of requests that raced never
\* mix two sessions (session.repository.impl.ts save).
Belongs(doc, s) ==
  /\ pairs[doc.digest] # Null
  /\ pairs[doc.digest].sid = s
  /\ pairs[doc.digest].sub = doc.user
  /\ pairs[doc.digest].deviceId = doc.device

TokenBinding ==
  /\ \A s \in Sids : sessions[s] # Null => Belongs(sessions[s], s)
  /\ \A p \in Procs : req[p].copy # Null => Belongs(req[p].copy, req[p].sid)
  /\ \A j, k \in Jtis :
       pairs[j] # Null /\ pairs[k] # Null /\ pairs[j].sid = pairs[k].sid =>
         pairs[j].sub = pairs[k].sub /\ pairs[j].deviceId = pairs[k].deviceId

\* Once the successor of a refresh token was stored, no live session stores
\* the digest of that token again, whichever stale copy is saved over the
\* document afterwards (refresh, revoke and sign-in all save whole documents).
RotatedStaysDead ==
  \A s \in Sids : Live(s) => sessions[s].digest \notin rotated

\* A refresh token whose successor was stored is never accepted again by
\* GetRefreshTokenSessionService.
RotatedNeverAccepted ==
  [][\A p \in Procs :
       req[p].at = "idle" /\ req'[p].at = "refresh.user" => req'[p].tok \notin rotated]_vars

\* While nothing has failed, the refresh token a live session expects is in a
\* client's hands or about to be answered: no interleaving of handlers leaves
\* a session nobody can refresh.
NoOrphanedSession ==
  faults = 0 =>
    \A s \in Sids : Live(s) =>
      \/ sessions[s].digest \in delivered
      \/ \E p \in Procs : req[p].new = sessions[s].digest

\* A live session is revoked or removed only in a request whose token was
\* issued to the owner of the session (revoke-session and sign-out handlers).
EndedOnlyByOwner ==
  [][\A s \in Sids :
       Live(s) /\ (sessions'[s] = Null \/ IsRevoked(sessions'[s])) =>
         \E p \in Procs : /\ req[p].sid = s /\ req[p].tok # Null
                          /\ pairs[req[p].tok].sub = sessions[s].user]_vars

\* a session that was signed out, or revoked
Ended(s) ==
  IF sessions[s] = Null THEN \E j \in delivered : pairs[j].sid = s ELSE IsRevoked(sessions[s])

\* However requests overlap and fail, only the save of a refresh that was in
\* flight (update-session-refresh-token.service.ts) brings an ended session back,
\* and the session then expects the token of that refresh, which nobody else
\* holds: no token that was of any use before is of use again.
UndoneOnlyByRefresh ==
  [][\A s \in Sids :
       Ended(s) /\ sessions'[s] # Null /\ ~IsRevoked(sessions'[s]) =>
         \E p \in Procs :
           /\ req[p].at = "refresh.save" /\ req[p].sid = s
           /\ \/ sessions'[s].digest = req[p].new /\ req[p].new \notin delivered
              \/ IsExpired(sessions'[s], now)]_vars

\* an ended session, and no request in flight that presented a token of it
Over(s) ==
  /\ Ended(s)
  /\ \A p \in Procs : req[p].tok # Null => pairs[req[p].tok].sid # s

\* Once a session has ended and the last request that presented a token of it is
\* done, it has ended for good: no save brings it back, neither of a sign-in nor
\* of a revocation that still holds a copy, and the guard and the refresh accept
\* no token of it ever again (jwt.strategy.ts, GetRefreshTokenSessionService).
EndedForGood == [][\A s \in Sids : Over(s) => Over(s)']_vars

\* the sessions of a device that bar it from signing in
ActiveSessions(u, dev) ==
  {s \in Sids : /\ Live(s) /\ now < sessions[s].expiresAt
                /\ sessions[s].user = u /\ sessions[s].device = dev}

\* However sign-ins race and refreshes bring sessions back, a device has no more
\* active sessions than requests can be in flight, and one more for each fault:
\* a race that the check of CreateSessionHandler loses does not pile up.
ActiveBounded ==
  \A u \in Users, dev \in Devices :
    Cardinality(ActiveSessions(u, dev)) <= Cardinality(Procs) + faults

(* Holding while requests do not overlap *)

\* A device has at most one active session per user: the check of
\* CreateSessionHandler, when no other request runs between it and the save
\* and no query of it failed.
OneActivePerDevice ==
  faults = 0 => \A u \in Users, dev \in Devices : Cardinality(ActiveSessions(u, dev)) <= 1

\* With no request in flight, the cookie of a browser, if its session is still
\* live, is the refresh token that session expects (the controllers that set
\* and clear the cookie), unless a call failed or an answer was lost.
CookieUsable ==
  faults = 0 /\ (\A p \in Procs : req[p] = Idle) =>
    \A dev \in Devices :
      cookie[dev] # Null /\ Live(pairs[cookie[dev]].sid) =>
        sessions[pairs[cookie[dev]].sid].digest = cookie[dev]

\* A revocation that was announced on the event bus stays true while requests do
\* not overlap, unless a call failed: the handler announces it without looking
\* at what its save answered.
AnnouncedIsRevoked ==
  faults = 0 =>
    \A s \in Sids :
      <<"SessionRevoked", s>> \in published /\ sessions[s] # Null => IsRevoked(sessions[s])

\* Requests that do not overlap implement the promised life of a session, with
\* faults: a session is gone once it was removed from the collection, which
\* only a request with one of its tokens can do.
Phase(s) ==
  IF sessions[s] # Null
  THEN IF IsRevoked(sessions[s]) THEN "revoked" ELSE "active"
  ELSE IF \E j \in delivered : pairs[j].sid = s THEN "gone" ELSE "none"

Lifecycle == INSTANCE SessionLifecycle WITH
  None <- Null,
  phase <- [s \in Sids |-> Phase(s)],
  token <- [s \in Sids |-> IF sessions[s] = Null THEN Null ELSE sessions[s].digest],
  spent <- rotated

ImplementsLifecycle == Lifecycle!Spec

(* What tests and API descriptions say, and requests that overlap break *)

\* A session whose tokens reached a client and that is gone from the
\* collection is never usable again (sign-out removes it for good).
RemovedStaysUnusable ==
  [][\A s \in Sids :
       sessions[s] = Null /\ (\E j \in delivered : pairs[j].sid = s) =>
         sessions'[s] = Null \/ IsRevoked(sessions'[s])]_vars

\* A revoked session stays revoked as long as its document is kept.
RevokedStaysRevoked ==
  [][\A s \in Sids :
       sessions[s] # Null /\ IsRevoked(sessions[s]) /\ sessions'[s] # Null =>
         IsRevoked(sessions'[s])]_vars

(* The strengthening under which RotatedStaysDead and TokenBinding are inductive *)

SignInSteps == {"signIn.find", "signIn.save", "signIn.answer"}
RefreshSteps == {"refresh.user", "refresh.save", "refresh.answer"}
SignOutSteps == {"signOut.find", "signOut.delete", "signOut.answer"}
RevokeSteps == {"revoke.find", "revoke.save", "revoke.commit"}
HoldingNew == SignInSteps \cup {"refresh.save", "refresh.answer"}
HoldingCopy == {"signIn.save", "refresh.user", "refresh.save", "revoke.save"}

\* what a request in flight holds at each of its steps
RequestShape(r) ==
  /\ r.at = "idle" <=> r = Idle
  /\ r.at # "idle" => r.sid # Null
  /\ r.at \in HoldingNew <=> r.new # Null
  /\ r.at \in HoldingCopy <=> r.copy # Null
  /\ r.at \in RefreshSteps \cup SignOutSteps \cup RevokeSteps <=> r.tok # Null

RequestsWellFormed == \A p \in Procs : RequestShape(req[p])

\* a token presented was delivered before; the pair a request generated is for
\* its session and reached nobody yet
TokensOf(r) ==
  /\ r.tok # Null => r.tok \in delivered
  /\ r.at \in RefreshSteps \cup SignOutSteps => pairs[r.tok].sid = r.sid
  /\ r.new # Null => /\ r.new \notin delivered
                     /\ pairs[r.new] # Null
                     /\ pairs[r.new].sid = r.sid

RequestTokens ==
  /\ \A p \in Procs : TokensOf(req[p])
  /\ \A p, q \in Procs : req[p].new # Null /\ req[q].new = req[p].new => q = p

DeliveredPairs ==
  /\ \A j \in delivered : pairs[j] # Null
  /\ rotated \subseteq delivered
  /\ \A j \in Jtis : pairs[j] # Null => pairs[j].iat <= now

\* what a save still to come will write
PendingSave(r) ==
  /\ r.at = "signIn.save" => r.copy.digest = r.new
  /\ r.at = "refresh.save" => IsExpired(r.copy, pairs[r.new].iat) \/ r.copy.digest = r.new
  /\ r.at = "revoke.save" => r.copy.revokedAt # Null /\ r.copy.user = pairs[r.tok].sub
  /\ r.at \in {"signIn.save", "refresh.user", "refresh.save"} => r.copy.revokedAt = Null

PendingSaves == \A p \in Procs : PendingSave(req[p])

\* The inductive invariant: every handler leaves requests, tokens and pending
\* saves in the shape the next one relies on.
IndInv ==
  /\ TypeOK
  /\ RequestsWellFormed
  /\ RequestTokens
  /\ DeliveredPairs
  /\ TokenBinding
  /\ PendingSaves
  /\ RotatedStaysDead

(* The strengthening for NoOrphanedSession *)

\* a session about to be opened is in nobody's memory and in no document
FreshSignIn(p) ==
  req[p].at = "signIn.find" =>
    /\ sessions[req[p].sid] = Null
    /\ \A q \in Procs : req[q].sid = req[p].sid =>
         req[q].copy = Null /\ (req[q].at = "signIn.find" => q = p)

\* All that requests in flight hold of one session, and its document, agree on
\* when it expires: no handler prolongs the copy it is about to save, and
\* sign-in opens no session that anyone holds already.
OneExpiry ==
  \A p \in Procs :
    /\ FreshSignIn(p)
    /\ req[p].copy # Null =>
         /\ sessions[req[p].sid] # Null => req[p].copy.expiresAt = sessions[req[p].sid].expiresAt
         /\ \A q \in Procs : req[q].sid = req[p].sid /\ req[q].copy # Null =>
              req[q].copy.expiresAt = req[p].copy.expiresAt

(* Liveness *)

\* An active session bars the device from signing in, and no client holds or
\* is about to receive the refresh token it expects.
LockedOut(u, dev) ==
  \E s \in FindActiveSession(sessions, dev, u, now) :
    /\ sessions[s].digest \notin delivered
    /\ \A p \in Procs : req[p].new # sessions[s].digest

\* A device locked out by a lost answer or a crash may sign in again some day:
\* findActiveSession stops matching once the session expired.
LockoutEnds ==
  \A u \in Users, dev \in Devices : LockedOut(u, dev) ~> ~LockedOut(u, dev)
===============================================================================
