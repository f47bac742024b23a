-------------------------- MODULE SessionRepository ---------------------------
(***************************************************************************)
(* SessionRepository over the MongoDB collection of session documents.     *)
(* The collection is an operand, so these operators say what one call      *)
(* reads or leaves behind; which calls race is said in AuthSessions.       *)
(***************************************************************************)
EXTENDS SessionAggregate

Collection == [Sids -> Session \cup {Null}]

Stored(coll) == {s \in Sids : coll[s] # Null}

\* save: the whole document replaces what is stored, or is inserted (upsert)
Save(coll, s, session) == [coll EXCEPT ![s] = session]

\* delete: deleting a document that is gone changes nothing
Delete(coll, s) == [coll EXCEPT ![s] = Null]

FindActiveForever(coll, dev, u, t) ==          \* mutated form: expiry ignored
  {s \in Stored(coll) : /\ coll[s].device = dev
                        /\ coll[s].user = u
                        /\ coll[s].revokedAt = Null}

\* mutated form: a session that was ever refreshed no longer matches
FindActiveUnrefreshed(coll, dev, u, t) ==
  {s \in Stored(coll) : /\ coll[s].device = dev
                        /\ coll[s].user = u
                        /\ coll[s].expiresAt > t
                        /\ coll[s].revokedAt = Null
                        /\ coll[s].lastRefreshAt = Null}

\* mutated form: the expiry compared the wrong way round
FindActiveExpired(coll, dev, u, t) ==
  {s \in Stored(coll) : /\ coll[s].device = dev
                        /\ coll[s].user = u
                        /\ coll[s].expiresAt <= t
                        /\ coll[s].revokedAt = Null}

\* findActiveSession: expiresAt strictly after now, unlike isExpired
FindActiveSession(coll, dev, u, t) ==
  {s \in Stored(coll) : /\ coll[s].device = dev
                        /\ coll[s].user = u
                        /\ coll[s].expiresAt > t
                        /\ coll[s].revokedAt = Null}

\* findById and findDeviceSession answer with a session, or with Err (Null)
FindById(coll, s) ==
  IF coll[s] = Null THEN Null ELSE FromModelToDomain(coll[s])

FindDeviceSession(coll, s, u, dev) ==
  IF coll[s] # Null /\ coll[s].user = u /\ coll[s].device = dev
  THEN FindById(coll, s)
  ELSE Null
===============================================================================
