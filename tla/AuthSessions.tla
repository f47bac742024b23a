----------------------------- MODULE AuthSessions -----------------------------
(***************************************************************************)
(* Sign-in, token refresh, session revocation and sign-out of the auth     *)
(* module, as the requests in flight see one another.                      *)
(*                                                                         *)
(* A request is an async handler chain: JavaScript runs from one await to  *)
(* the next without interruption, so an action is one database call with   *)
(* the code that runs on its result, up to the next call.  A request that  *)
(* the code refuses without having changed anything is not a step.         *)
(*                                                                         *)
(* The network and the store are as unreliable as the code allows for: a   *)
(* database call may fail, an answer may be lost, the server may crash     *)
(* with every request in flight.  MaxFaults bounds these together.         *)
(***************************************************************************)
EXTENDS SessionRepository, JwtTokens

CONSTANTS
  Procs,       \* bound: request slots, the requests that may be in flight
  MaxFaults,   \* bound: failed calls, lost answers and crashes
  LastSignIn   \* bound: the last instant at which a session may be opened

ASSUME BoundAssumption == MaxFaults \in Nat /\ LastSignIn \in Nat

VARIABLES
  now,        \* the clock of the server and the database, one for both
  sessions,   \* the sessions collection
  pairs,      \* payload of every token pair generated so far
  delivered,  \* token pairs that reached a client
  cookie,     \* the refreshToken cookie of each browser
  req,        \* the requests in flight
  published,  \* domain events that reached the event bus
  rotated,    \* history: refresh tokens whose successor was stored
  faults      \* faults so far

vars == <<now, sessions, pairs, delivered, cookie, req, published, rotated, faults>>

AwaitingStore == {"signIn.find", "signIn.save", "refresh.user", "refresh.save",
                  "signOut.find", "signOut.delete", "revoke.find", "revoke.save"}
Answering == {"signIn.answer", "refresh.answer", "signOut.answer"}

\* at: what the request waits for; tok, kind: the token presented; sid: the
\* session worked on; copy: the Session in memory; new: the pair generated
Request == [at: {"idle", "revoke.commit"} \cup AwaitingStore \cup Answering,
            tok: Jtis \cup {Null}, kind: TokenKinds, sid: Sids \cup {Null},
            copy: Session \cup {Null}, new: Jtis \cup {Null}]

Idle == [at |-> "idle", tok |-> Null, kind |-> "access", sid |-> Null,
         copy |-> Null, new |-> Null]

EventKinds == {"SessionCreated", "SessionRevoked"}

TypeOK ==
  /\ now \in Times
  /\ sessions \in Collection
  /\ pairs \in [Jtis -> Payload \cup {Null}]
  /\ delivered \in SUBSET Jtis
  /\ cookie \in [Devices -> Jtis \cup {Null}]
  /\ req \in [Procs -> Request]
  /\ published \in SUBSET (EventKinds \X Sids)
  /\ rotated \in SUBSET Jtis
  /\ faults \in 0..MaxFaults

Init ==
  /\ now = 0
  /\ sessions = [s \in Sids |-> Null]
  /\ pairs = [j \in Jtis |-> Null]
  /\ delivered = {}
  /\ cookie = [d \in Devices |-> Null]
  /\ req = [p \in Procs |-> Idle]
  /\ published = {}
  /\ rotated = {}
  /\ faults = 0

Fault == faults < MaxFaults /\ faults' = faults + 1
NoFault == UNCHANGED faults

Finish(p) == req' = [req EXCEPT ![p] = Idle]
Continue(p, at, copy) == req' = [req EXCEPT ![p].at = at, ![p].copy = copy]

\* time passes; the bound LastSignIn keeps the clock where it is while a
\* sign-in has yet to fix the expiry of its session
Tick ==
  /\ now < MaxTime
  /\ now >= LastSignIn => \A p \in Procs : req[p].at # "signIn.find"
  /\ now' = now + 1
  /\ UNCHANGED <<sessions, pairs, delivered, cookie, req, published, rotated, faults>>

-------------------------------------------------------------------------------
(* Sign-in: SignInHandler, then CreateSessionHandler in the same request.  *)

\* credentials accepted, session id drawn and tokens signed
SignIn(p, u, dev) ==
  /\ req[p] = Idle /\ now <= LastSignIn
  /\ \E s \in FreshSids(pairs), j \in Unused(pairs) :
       /\ pairs' = [pairs EXCEPT ![j] = GenerateTokens(s, u, dev, now)]
       /\ req' = [req EXCEPT ![p] = [Idle EXCEPT !.at = "signIn.find", !.sid = s, !.new = j]]
  /\ UNCHANGED <<now, sessions, delivered, cookie, published, rotated, faults>>

\* findActiveSession, whose query asks for the instant it was sent at, which is
\* that of the pair; a session refuses the sign-in, a failed query does not
CreateSession(p) ==
  /\ req[p].at = "signIn.find"
  /\ LET t == pairs[req[p].new]
         active == FindActiveSession(sessions, t.deviceId, t.sub, t.iat)
         create == Continue(p, "signIn.save", NewSession(t.sub, t.deviceId, req[p].new, now))
     IN \/ active # {} /\ Finish(p) /\ NoFault
        \/ active = {} /\ create /\ NoFault
        \/ active # {} /\ create /\ Fault
  /\ UNCHANGED <<now, sessions, pairs, delivered, cookie, published, rotated>>

\* mutated form: the result of the save is read the wrong way round
SaveNewSessionInverted(p) ==
  /\ req[p].at = "signIn.save"
  /\ sessions' = Save(sessions, req[p].sid, req[p].copy)
  /\ Finish(p) /\ NoFault
  /\ UNCHANGED <<now, pairs, delivered, cookie, published, rotated>>

\* mutated form: the id of the command is dropped and the aggregate draws one
SaveNewSessionOtherId(p) ==
  /\ req[p].at = "signIn.save"
  /\ \E s \in FreshSids(pairs) : sessions' = Save(sessions, s, req[p].copy)
  /\ Continue(p, "signIn.answer", Null) /\ NoFault
  /\ UNCHANGED <<now, pairs, delivered, cookie, published, rotated>>

\* save, with session.commit() on a session no publisher was merged into: no
\* event leaves.  A failed save, applied or not, is answered with 400.
SaveNewSession(p) ==
  /\ req[p].at = "signIn.save"
  /\ LET stored == sessions' = Save(sessions, req[p].sid, req[p].copy)
     IN \/ stored /\ Continue(p, "signIn.answer", Null) /\ NoFault
        \/ (stored \/ UNCHANGED sessions) /\ Finish(p) /\ Fault
  /\ UNCHANGED <<now, pairs, delivered, cookie, published, rotated>>

\* mutated form: the refresh-token controller sets no cookie
AnswerTokensOldCookie(p) ==
  /\ req[p].at \in {"signIn.answer", "refresh.answer"}
  /\ delivered' = delivered \cup {req[p].new}
  /\ cookie' = IF req[p].at = "refresh.answer" THEN cookie
               ELSE [cookie EXCEPT ![pairs[req[p].new].deviceId] = req[p].new]
  /\ Finish(p)
  /\ UNCHANGED <<now, sessions, pairs, published, rotated, faults>>

\* res.cookie of the refresh token, in the browser that asked
SetCookie(j) == cookie' = [cookie EXCEPT ![pairs[j].deviceId] = j]

\* the answer of a sign-in or of a refresh: both tokens, and the cookie
AnswerTokens(p) ==
  /\ req[p].at \in {"signIn.answer", "refresh.answer"}
  /\ delivered' = delivered \cup {req[p].new}
  /\ SetCookie(req[p].new)
  /\ Finish(p)
  /\ UNCHANGED <<now, sessions, pairs, published, rotated, faults>>

-------------------------------------------------------------------------------
(* Refresh: public, the token comes from the cookie.                       *)

\* verify, findById, compare the digests, check the session
GetRefreshTokenSession(p, j, kind) ==
  /\ req[p] = Idle
  /\ j \in delivered /\ Verify(pairs[j], kind, now)
  /\ LET session == FindById(sessions, pairs[j].sid)
     IN /\ session # Null
        /\ CompareHmacDigests(kind, j, session.digest)
        /\ IsLive(session, now)
        /\ session.user = pairs[j].sub
        /\ req' = [req EXCEPT ![p] = [at |-> "refresh.user", tok |-> j, kind |-> kind,
                                      sid |-> pairs[j].sid, copy |-> session, new |-> Null]]
  /\ UNCHANGED <<now, sessions, pairs, delivered, cookie, published, rotated, faults>>

\* the user is found: new pair, session.refresh with its result ignored
RefreshSession(p) ==
  /\ req[p].at = "refresh.user"
  /\ \E j \in Unused(pairs) :
       /\ pairs' = [pairs EXCEPT ![j] =
            GenerateTokens(req[p].sid, req[p].copy.user, req[p].copy.device, now)]
       /\ req' = [req EXCEPT ![p].at = "refresh.save", ![p].new = j,
                             ![p].copy = Refresh(req[p].copy, j, now)]
  /\ UNCHANGED <<now, sessions, delivered, cookie, published, rotated, faults>>

\* save with its result ignored: the tokens are answered whatever it says
SaveRefreshedSession(p) ==
  /\ req[p].at = "refresh.save"
  /\ \/ /\ sessions' = Save(sessions, req[p].sid, req[p].copy)
        /\ rotated' = rotated \cup {j \in {req[p].tok} : ~IsExpired(req[p].copy, pairs[req[p].new].iat)}
        /\ NoFault
     \/ UNCHANGED <<sessions, rotated>> /\ Fault
  /\ Continue(p, "refresh.answer", Null)
  /\ UNCHANGED <<now, pairs, delivered, cookie, published>>

-------------------------------------------------------------------------------
(* The guarded routes: JwtAuthGuard and JwtStrategy, then the handler.     *)

\* mutated form: the guard does not look at the revocation
ValidateUnexpiredSession(j, kind) ==
  /\ j \in delivered /\ Verify(pairs[j], kind, now)
  /\ LET session == FindDeviceSession(sessions, pairs[j].sid, pairs[j].sub, pairs[j].deviceId)
     IN session # Null /\ ~IsExpired(session, now)

\* ValidateSessionHandler accepts the bearer token
ValidateSession(j, kind) ==
  /\ j \in delivered /\ Verify(pairs[j], kind, now)
  /\ LET session == FindDeviceSession(sessions, pairs[j].sid, pairs[j].sub, pairs[j].deviceId)
     IN session # Null /\ IsLive(session, now)

BeginSignOut(p, j, kind) ==
  /\ req[p] = Idle
  /\ ValidateSession(j, kind)
  /\ req' = [req EXCEPT ![p] = [Idle EXCEPT !.at = "signOut.find", !.tok = j, !.kind = kind,
                                            !.sid = pairs[j].sid]]
  /\ UNCHANGED <<now, sessions, pairs, delivered, cookie, published, rotated, faults>>

BeginRevoke(p, j, kind, target) ==
  /\ req[p] = Idle
  /\ ValidateSession(j, kind)
  /\ req' = [req EXCEPT ![p] = [Idle EXCEPT !.at = "revoke.find", !.tok = j, !.sid = target]]
  /\ UNCHANGED <<now, sessions, pairs, delivered, cookie, published, rotated, faults>>

\* SignOutHandler verifies the token again, which may have expired by then,
\* and looks for its session
SignOut(p) ==
  /\ req[p].at = "signOut.find"
  /\ LET t == pairs[req[p].tok]
         session == FindById(sessions, req[p].sid)
         allowed == session # Null /\ session.user = t.sub
     IN \/ allowed /\ Continue(p, "signOut.delete", Null)
        \/ (~allowed \/ ~Verify(t, req[p].kind, now)) /\ Finish(p)
  /\ UNCHANGED <<now, sessions, pairs, delivered, cookie, published, rotated, faults>>

\* delete with its result ignored
DeleteSession(p) ==
  /\ req[p].at = "signOut.delete"
  /\ \/ sessions' = Delete(sessions, req[p].sid) /\ NoFault
     \/ UNCHANGED sessions /\ Fault
  /\ Continue(p, "signOut.answer", Null)
  /\ UNCHANGED <<now, pairs, delivered, cookie, published, rotated>>

AnswerSignOut(p) ==
  /\ req[p].at = "signOut.answer"
  /\ cookie' = [cookie EXCEPT ![pairs[req[p].tok].deviceId] = Null]
  /\ Finish(p)
  /\ UNCHANGED <<now, sessions, pairs, delivered, published, rotated, faults>>

\* mutated form: any signed-in user may revoke
RevokeAnySession(p) ==
  /\ req[p].at = "revoke.find"
  /\ LET session == FindById(sessions, req[p].sid)
     IN IF session # Null /\ ~IsRevoked(session)
        THEN Continue(p, "revoke.save", Revoke(session, now))
        ELSE Finish(p)
  /\ UNCHANGED <<now, sessions, pairs, delivered, cookie, published, rotated, faults>>

\* RevokeSessionHandler: found, owned by the principal, not revoked yet
RevokeSession(p) ==
  /\ req[p].at = "revoke.find"
  /\ LET session == FindById(sessions, req[p].sid)
     IN IF session # Null /\ session.user = pairs[req[p].tok].sub /\ ~IsRevoked(session)
        THEN Continue(p, "revoke.save", Revoke(session, now))
        ELSE Finish(p)
  /\ UNCHANGED <<now, sessions, pairs, delivered, cookie, published, rotated, faults>>

\* save with its result ignored
SaveRevokedSession(p) ==
  /\ req[p].at = "revoke.save"
  /\ \/ sessions' = Save(sessions, req[p].sid, req[p].copy) /\ NoFault
     \/ UNCHANGED sessions /\ Fault
  /\ Continue(p, "revoke.commit", Null)
  /\ UNCHANGED <<now, pairs, delivered, cookie, published, rotated>>

\* mergeObjectContext and commit publish the event, then the answer
CommitRevokedSession(p) ==
  /\ req[p].at = "revoke.commit"
  /\ published' = published \cup {<<"SessionRevoked", req[p].sid>>}
  /\ Finish(p)
  /\ UNCHANGED <<now, sessions, pairs, delivered, cookie, rotated, faults>>

-------------------------------------------------------------------------------
(* Faults.                                                                 *)

\* a query of the request fails: every handler but sign-in's answers an error
FailedQuery(p) ==
  /\ req[p].at \in {"refresh.user", "signOut.find", "revoke.find"}
  /\ Finish(p) /\ Fault
  /\ UNCHANGED <<now, sessions, pairs, delivered, cookie, published, rotated>>

LoseAnswer(p) ==
  /\ req[p].at \in Answering
  /\ Finish(p) /\ Fault
  /\ UNCHANGED <<now, sessions, pairs, delivered, cookie, published, rotated>>

\* the server stops: every request in flight is gone, the store is not
Crash ==
  /\ \E p \in Procs : req[p] # Idle
  /\ req' = [p \in Procs |-> Idle] /\ Fault
  /\ UNCHANGED <<now, sessions, pairs, delivered, cookie, published, rotated>>

\* the steps a request in flight takes on its own
Proceed(p) ==
  \/ CreateSession(p) \/ SaveNewSession(p) \/ AnswerTokens(p)
  \/ RefreshSession(p) \/ SaveRefreshedSession(p)
  \/ SignOut(p) \/ DeleteSession(p) \/ AnswerSignOut(p)
  \/ RevokeSession(p) \/ SaveRevokedSession(p) \/ CommitRevokedSession(p)

\* the steps a client decides on
Arrive(p) ==
  \/ \E u \in Users, dev \in Devices : SignIn(p, u, dev)
  \/ \E j \in Jtis, kind \in TokenKinds :
       \/ GetRefreshTokenSession(p, j, kind)
       \/ BeginSignOut(p, j, kind)
       \/ \E target \in Sids : BeginRevoke(p, j, kind, target)

Next ==
  \/ Tick
  \/ Crash
  \/ \E p \in Procs : Arrive(p) \/ Proceed(p) \/ FailedQuery(p) \/ LoseAnswer(p)

Spec == Init /\ [][Next]_vars

\* a request in flight is run to its end by the event loop, and time passes;
\* nothing obliges a client to call
FairSpec == Spec /\ WF_vars(Tick) /\ \A p \in Procs : WF_vars(Proceed(p))
===============================================================================
