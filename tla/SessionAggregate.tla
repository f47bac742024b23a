--------------------------- MODULE SessionAggregate ---------------------------
(***************************************************************************)
(* The Session aggregate of the auth module and the document it is kept    *)
(* as.  A session is a value: the operators return the session the method  *)
(* leaves behind.  `digest' stands for the HMAC digest of the refresh      *)
(* token whose token id (jti) it is: HMAC is taken to be injective.        *)
(* device type, userAgent, ip, createdAt and updatedAt are carried along   *)
(* by every operation unread and are left out.                             *)
(***************************************************************************)
EXTENDS Naturals

CONSTANTS
  Users,      \* user ids of existing accounts
  Devices,    \* the deviceId a client names at sign-in; also one browser each
  Sids,       \* session ids ID.create() may draw
  Jtis,       \* token ids randomUUID() may draw, one per generated token pair
  Null,       \* undefined in the domain, null in the database
  MaxTime,    \* bound: the last instant of the model's clock
  SessionTTL  \* the 30 days of create-session.handler.ts

ASSUME NullAssumption ==
  Null \notin Users \cup Devices \cup Sids \cup Jtis \cup Nat

ASSUME TimeAssumption == MaxTime \in Nat /\ SessionTTL \in Nat \ {0}

Times == 0..MaxTime

Session == [user: Users, device: Devices, digest: Jtis,
            expiresAt: 0..(MaxTime + SessionTTL),
            revokedAt: Times \cup {Null},
            lastRefreshAt: Times \cup {Null}]

ASSUME NullIsNoSession == Null \notin Session

NewSessionDoubleTTL(u, dev, dig, t) ==         \* mutated form: the TTL added twice
  [user |-> u, device |-> dev, digest |-> dig, revokedAt |-> Null,
   lastRefreshAt |-> Null, expiresAt |-> t + SessionTTL + SessionTTL]

\* Session.create as CreateSessionHandler calls it at instant t
NewSession(u, dev, dig, t) ==
  [user |-> u, device |-> dev, digest |-> dig, expiresAt |-> t + SessionTTL,
   revokedAt |-> Null, lastRefreshAt |-> Null]

IsExpired(s, t) == s.expiresAt < t

IsRevoked(s) == s.revokedAt # Null

\* mutated form: the session is left to expire
RevokeByExpiry(s, t) == [s EXCEPT !.expiresAt = t]

\* Session.revoke of a session that is not revoked yet
Revoke(s, t) == [s EXCEPT !.revokedAt = t]

\* mutated form: the digest of the new token is not stored
RefreshKeepingDigest(s, dig, t) ==
  IF IsExpired(s, t) \/ IsRevoked(s) THEN s ELSE [s EXCEPT !.lastRefreshAt = t]

\* Session.refresh: an expired or revoked session is left as it is
Refresh(s, dig, t) ==
  IF IsExpired(s, t) \/ IsRevoked(s)
  THEN s
  ELSE [s EXCEPT !.lastRefreshAt = t, !.digest = dig]

\* SessionMapper.fromModelToDomain: the factory it calls, imported from the tests'
\* factories, takes no lastRefreshAt
FromModelToDomain(doc) == [doc EXCEPT !.lastRefreshAt = Null]

\* what a client may still use
IsLive(s, t) == ~IsExpired(s, t) /\ ~IsRevoked(s)
===============================================================================
