------------------------- MODULE SessionListingProofs -------------------------
(***************************************************************************)
(* Listing sessions beside the requests that change them, for every number *)
(* of sessions, every page asked for and any number of requests in flight. *)
(*                                                                         *)
(* A page is a part of a sequence of all the user's sessions in which none *)
(* comes twice; PageShows says how long it is and what is in it.  The      *)
(* collection is finite in every reachable state (OpenStored), although    *)
(* there may be any number of session ids, so there is such a sequence.    *)
(* To the sessions the list request is one of the things a process may do  *)
(* besides (ListIsOpen), so all that was proved of them holds here.        *)
(***************************************************************************)
EXTENDS SessionListing, LifecycleProofs, SequenceTheorems

-------------------------------------------------------------------------------
(* The collection is finite.                                               *)

FiniteStore == IsFiniteSet(Stored(sessions))

\* A step stores no session but, at most, the one a request works on.
LEMMA StoresOne ==
  ASSUME IndInv, [OpenNext]_vars
  PROVE  \E s : Stored(sessions)' \subseteq Stored(sessions) \cup {s}
<1>1. CASE UNCHANGED sessions
  BY <1>1 DEF Stored
<1>2. CASE ~UNCHANGED sessions
  <2>1. PICK p \in Procs : StoreEffect(p)
    <3>1. ~Tick /\ ~Crash /\ ~FaultElsewhere /\ ~UNCHANGED vars
      BY <1>2 DEF Tick, Crash, FaultElsewhere, vars
    <3>2. PICK p \in Procs : Arrive(p) \/ Proceed(p) \/ FailedQuery(p) \/ LoseAnswer(p)
      BY <3>1 DEF Next, OpenNext
    <3>3. ~CreateSession(p) /\ \A u \in Users, dev \in Devices : ~SignIn(p, u, dev)
      BY <1>2 DEF CreateSession, SignIn
    <3> QED
      BY <3>2, <3>3, ProceedEffect, ArriveEffect, FailEffect DEF Arrive
  <2>2. \A t \in Sids : t # req[p].sid => sessions'[t] = sessions[t]
    BY <2>1 DEF StoreEffect, Delete, Save, IndInv, TypeOK, Collection
  <2> QED
    BY <2>2 DEF Stored
<1> QED
  BY <1>1, <1>2

\* Only finitely many sessions are ever stored.
LEMMA OpenStored == OpenSpec => []FiniteStore
<1>1. Init => FiniteStore
  <2>1. Init => Stored(sessions) = {}
    BY DEF Init, Stored
  <2> QED
    BY <2>1, FS_EmptySet DEF FiniteStore
<1>2. IndInv /\ FiniteStore /\ [OpenNext]_vars => FiniteStore'
  <2> SUFFICES ASSUME IndInv, FiniteStore, [OpenNext]_vars PROVE FiniteStore'
    OBVIOUS
  <2>1. PICK s : Stored(sessions)' \subseteq Stored(sessions) \cup {s}
    BY StoresOne
  <2>2. IsFiniteSet(Stored(sessions) \cup {s})
    BY FS_AddElement DEF FiniteStore
  <2>3. IsFiniteSet(Stored(sessions)')
    BY <2>1, <2>2, FS_Subset
  <2> QED
    BY <2>3 DEF FiniteStore
<1> QED
  BY <1>1, <1>2, OpenIndInv, PTL DEF OpenSpec

-------------------------------------------------------------------------------
(* What a page shows.                                                       *)

SessionDoc == [id: Sids, userId: Users, lastRefreshAt: Times \cup {Null}]

\* A user's documents: of that user, told apart by their ids, finitely many.
LEMMA DocsOfUser ==
  ASSUME IndInv, FiniteStore, NEW u
  PROVE  /\ SessionsOf(u) \subseteq SessionDoc
         /\ \A d \in SessionsOf(u) : d.userId = u
         /\ \A d, e \in SessionsOf(u) : d.id = e.id => d = e
         /\ IsFiniteSet(SessionsOf(u)) /\ Cardinality(SessionsOf(u)) \in Nat
<1> DEFINE Own == {r \in Sids : sessions[r] # Null /\ sessions[r].user = u}
           Doc(s) == [id |-> s, userId |-> sessions[s].user, lastRefreshAt |-> sessions[s].lastRefreshAt]
           f == [s \in Own |-> Doc(s)]
<1>1. SessionsOf(u) = {Doc(s) : s \in Own}
  BY DEF SessionsOf
<1>2. \A s \in Own : sessions[s] \in Session /\ sessions[s].user = u
  BY DEF IndInv, TypeOK, Collection
<1>3. SessionsOf(u) \subseteq SessionDoc
  BY <1>1, <1>2 DEF SessionDoc, Session
<1>4. \A d \in SessionsOf(u) : d.userId = u
  BY <1>1, <1>2
<1>5. \A d, e \in SessionsOf(u) : d.id = e.id => d = e
  BY <1>1
<1>6. IsFiniteSet(Own)
  <2>1. Own \in SUBSET Stored(sessions)
    BY DEF Stored
  <2> QED
    BY <2>1, FS_Subset DEF FiniteStore
<1>7. f \in Surjection(Own, SessionsOf(u))
  BY <1>1 DEF Surjection
<1>8. IsFiniteSet(SessionsOf(u))
  <2> HIDE DEF Own, f
  <2> QED
    BY <1>6, <1>7, FS_Surjection
<1> QED
  BY <1>3, <1>4, <1>5, <1>8, FS_CardinalityType

\* A sorted sequence holds the documents, each once.
LEMMA SortedHolds ==
  ASSUME NEW docs, IsFiniteSet(docs), NEW q \in Sorted(docs)
  PROVE  /\ q \in Seq(docs) /\ Len(q) = Cardinality(docs)
         /\ \A i, k \in 1..Len(q) : i # k => q[i] # q[k]
<1>1. Cardinality(docs) \in Nat
  BY FS_CardinalityType
<1>2. q \in [1..Cardinality(docs) -> docs] /\ \A i, k \in 1..Cardinality(docs) : i # k => q[i] # q[k]
  BY DEF Sorted, SetToSeqs
<1>3. q \in Seq(docs) /\ Len(q) = Cardinality(docs)
  BY <1>1, <1>2
<1> QED
  BY <1>2, <1>3

\* skip and limit leave a part of the sequence, as long as PageLength says.
LEMMA PageOf ==
  ASSUME NEW S, NEW q \in Seq(S), NEW skip \in Nat, NEW take \in Nat
  PROVE  /\ Page(q, skip, take) \in Seq(S)
         /\ Len(Page(q, skip, take)) = PageLength(Len(q), skip, take)
         /\ \A i \in 1..Len(Page(q, skip, take)) :
              skip + i \in 1..Len(q) /\ Page(q, skip, take)[i] = q[skip + i]
<1> DEFINE last == IF take = 0 \/ skip + take > Len(q) THEN Len(q) ELSE skip + take
<1>1. Len(q) \in Nat /\ last \in Nat /\ last <= Len(q)
  BY LenProperties
<1>2. \A i \in (skip + 1)..last : q[i] \in S
  BY <1>1, ElementOfSeq
<1>3. Page(q, skip, take) = SubSeq(q, skip + 1, last)
  BY DEF Page
<1>4. /\ Page(q, skip, take) \in Seq(S)
      /\ Len(Page(q, skip, take)) = IF skip + 1 <= last THEN last - skip ELSE 0
      /\ \A i \in 1..(last - skip) : Page(q, skip, take)[i] = q[skip + i]
  <2> HIDE DEF last
  <2>1. skip + 1 \in Int /\ last \in Int
    BY <1>1
  <2>2. /\ SubSeq(q, skip + 1, last) \in Seq(S)
        /\ Len(SubSeq(q, skip + 1, last)) = IF skip + 1 <= last THEN last - (skip + 1) + 1 ELSE 0
        /\ \A i \in 1..(last - (skip + 1) + 1) : SubSeq(q, skip + 1, last)[i] = q[skip + 1 + i - 1]
    BY <1>2, <2>1, SubSeqProperties
  <2> QED
    BY <1>1, <1>3, <2>2
<1>5. Len(Page(q, skip, take)) = PageLength(Len(q), skip, take)
  BY <1>1, <1>4 DEF PageLength, Lesser
<1>6. \A i \in 1..Len(Page(q, skip, take)) : skip + i \in 1..Len(q) /\ i \in 1..(last - skip)
  BY <1>1, <1>4
<1> QED
  BY <1>4, <1>5, <1>6

\* What is shown of each session is its id and its user.
LEMMA ShownOf ==
  ASSUME NEW q \in Seq(SessionDoc)
  PROVE  /\ Shown(q) \in Seq([id: Sids, userId: Users]) /\ Len(Shown(q)) = Len(q)
         /\ \A i \in 1..Len(q) : Shown(q)[i].id = q[i].id /\ Shown(q)[i].userId = q[i].userId
<1>1. Len(q) \in Nat /\ q \in [1..Len(q) -> SessionDoc]
  BY LenProperties
<1>2. Shown(q) = [i \in 1..Len(q) |-> [id |-> q[i].id, userId |-> q[i].userId]]
  BY <1>1 DEF Shown
<1>3. Shown(q) \in [1..Len(q) -> [id: Sids, userId: Users]]
  BY <1>1, <1>2 DEF SessionDoc
<1>4. Shown(q) \in Seq([id: Sids, userId: Users]) /\ Len(Shown(q)) = Len(q)
  <2>1. \A S, g : \A n \in Nat : g \in [1..n -> S] => g \in Seq(S) /\ Len(g) = n
    OBVIOUS
  <2> QED
    BY <1>1, <1>3, <2>1, Zenon
<1> QED
  BY <1>2, <1>4

-------------------------------------------------------------------------------
(* The list request beside the others.                                     *)

\* A list request changes nothing of the sessions, but may be struck by a fault.
LEMMA ListStepIsOpen == [ListNext]_<<vars, listVars>> => [OpenNext]_vars
<1>1. OtherStep => OpenNext
  BY DEF OtherStep, OpenNext
<1>2. FailedListing => OpenNext
  BY DEF FailedListing, OpenNext, FaultElsewhere
<1>3. FindSessions \/ CountDocuments \/ PresentSessions => UNCHANGED vars
  BY DEF FindSessions, CountDocuments, PresentSessions
<1>4. ASSUME NEW j \in Jtis, NEW kind \in TokenKinds, NEW p \in Pages, RetrieveUserSessions(j, kind, p)
      PROVE  UNCHANGED vars
  BY <1>4 DEF RetrieveUserSessions
<1> QED
  BY <1>1, <1>2, <1>3, <1>4 DEF ListNext

\* To the sessions, the list request is one of the things a process may do besides.
LEMMA ListIsOpen == ListSpec => OpenSpec
<1>1. ListInit => Init
  BY DEF ListInit
<1> QED
  BY <1>1, ListStepIsOpen, PTL DEF ListSpec, OpenSpec

\* A list request that is over, or not begun.
LEMMA NoListingInv == listing = NoListing /\ listed = 0 => ListingInv
<1>1. NoListing \in Listings /\ NoListing.at = "idle" /\ NoListing.data = <<>>
  BY DEF NoListing, Listings
<1> QED
  BY <1>1 DEF ListingInv

\* An accepted token is of a user.
LEMMA RetrieveStep ==
  ASSUME IndInv, ListingInv, NEW j \in Jtis, NEW kind \in TokenKinds, NEW p \in Pages,
         RetrieveUserSessions(j, kind, p)
  PROVE  ListingInv'
<1>1. pairs[j].sub \in Users
  BY DEF RetrieveUserSessions, ValidateSession, IndInv, TypeOK, DeliveredPairs, Payload
<1>2. p.skip \in Nat /\ p.take \in Nat
  BY ListingAssumption
<1>3. listing' = [at |-> "find", userId |-> pairs[j].sub, skip |-> p.skip, take |-> p.take,
                  data |-> <<>>, total |-> 0, page |-> 0]
  BY DEF RetrieveUserSessions, NoListing
<1>4. listed' = listed
  BY DEF RetrieveUserSessions
<1>5. listing' \in Listings
  BY <1>1, <1>2, <1>3 DEF Listings
<1>6. listing'.at = "find" /\ listing'.data = <<>>
  BY <1>3
<1> QED
  BY <1>4, <1>5, <1>6 DEF ListingInv

\* The page read is part of one sequence of the caller's sessions.
LEMMA FindStep ==
  ASSUME IndInv, FiniteStore, ListingInv, FindSessions
  PROVE  ListingInv'
<1> DEFINE u == listing.userId
           docs == SessionsOf(u)
<1>1. listing \in Listings /\ listing.skip \in Nat /\ listing.take \in Nat
  BY DEF ListingInv, Listings
<1>2. PICK q \in Sorted(docs) :
        listing' = [listing EXCEPT !.at = "count", !.data = Shown(Page(q, listing.skip, listing.take))]
  BY DEF FindSessions
<1>3. /\ docs \subseteq SessionDoc /\ IsFiniteSet(docs) /\ Cardinality(docs) \in Nat
      /\ \A d \in docs : d.userId = u
      /\ \A d, e \in docs : d.id = e.id => d = e
  BY DocsOfUser
<1> DEFINE pg == Page(q, listing.skip, listing.take)
<1> HIDE DEF docs
<1>4. q \in Seq(docs) /\ Len(q) = Cardinality(docs) /\ \A i, k \in 1..Len(q) : i # k => q[i] # q[k]
  BY <1>3, SortedHolds
<1>5. /\ pg \in Seq(docs) /\ Len(pg) = PageLength(Cardinality(docs), listing.skip, listing.take)
      /\ \A i \in 1..Len(pg) : listing.skip + i \in 1..Len(q) /\ pg[i] = q[listing.skip + i]
  <2> DEFINE skip == listing.skip
             take == listing.take
  <2>1. q \in Seq(docs) /\ skip \in Nat /\ take \in Nat
    BY <1>1, <1>4
  <2> HIDE DEF skip, take
  <2>2. /\ Page(q, skip, take) \in Seq(docs)
        /\ Len(Page(q, skip, take)) = PageLength(Len(q), skip, take)
        /\ \A i \in 1..Len(Page(q, skip, take)) :
             skip + i \in 1..Len(q) /\ Page(q, skip, take)[i] = q[skip + i]
    BY <2>1, PageOf
  <2> QED
    BY <1>4, <2>2 DEF skip, take
<1> HIDE DEF pg
<1>6. pg \in Seq(SessionDoc)
  BY <1>3, <1>5
<1>7. /\ Shown(pg) \in Seq([id: Sids, userId: Users]) /\ Len(Shown(pg)) = Len(pg)
      /\ \A i \in 1..Len(pg) : Shown(pg)[i].id = pg[i].id /\ Shown(pg)[i].userId = pg[i].userId
  BY <1>6, ShownOf
<1>8. \A i \in 1..Len(pg) : pg[i] \in docs
  BY <1>5, ElementOfSeq
<1>9. \A i, k \in 1..Len(pg) : i # k => pg[i].id # pg[k].id
  <2> SUFFICES ASSUME NEW i \in 1..Len(pg), NEW k \in 1..Len(pg), i # k PROVE pg[i].id # pg[k].id
    OBVIOUS
  <2>1. pg[i] # pg[k]
    BY <1>1, <1>4, <1>5
  <2> QED
    BY <1>3, <1>8, <2>1
<1>10. listing' = [listing EXCEPT !.at = "count", !.data = Shown(pg)]
  BY <1>2 DEF pg
<1>11. /\ listing' \in Listings /\ listing'.at = "count" /\ listing'.data = Shown(pg)
       /\ listing'.userId = u /\ listing'.skip = listing.skip /\ listing'.take = listing.take
  BY <1>1, <1>7, <1>10 DEF Listings
<1>12. listed' = Cardinality(docs) /\ listed' \in Nat
  BY <1>3 DEF FindSessions, docs
<1>13. Len(listing'.data) = PageLength(listed', listing'.skip, listing'.take)
  BY <1>5, <1>7, <1>11, <1>12
<1>14. \A i \in 1..Len(listing'.data) : listing'.data[i].userId = listing'.userId
  BY <1>3, <1>7, <1>8, <1>11
<1>15. \A i, k \in 1..Len(listing'.data) : i # k => listing'.data[i].id # listing'.data[k].id
  BY <1>7, <1>9, <1>11
<1> QED
  BY <1>11, <1>12, <1>13, <1>14, <1>15 DEF ListingInv

\* The total changes nothing of the page.
LEMMA CountStep ==
  ASSUME IndInv, FiniteStore, ListingInv, CountDocuments
  PROVE  ListingInv'
<1>1. listing \in Listings /\ listing.at = "count" /\ listed' = listed
  BY DEF ListingInv, CountDocuments
<1>2. PICK n, m :
        /\ listing' = [listing EXCEPT !.at = "answer", !.total = n, !.page = m]
        /\ n = Cardinality(SessionsOf(listing.userId))
        /\ m = IF listing.take = 0 THEN Null ELSE listing.skip \div listing.take + 1
  BY DEF CountDocuments
<1>3. n \in Nat /\ m \in Nat \cup {Null}
  <2>1. n \in Nat
    BY <1>2, DocsOfUser
  <2>2. listing.skip \in Nat /\ listing.take \in Nat
    BY <1>1 DEF Listings
  <2>3. \A a \in Nat, b \in Nat \ {0} : a \div b + 1 \in Nat
    OBVIOUS
  <2> QED
    BY <1>2, <2>1, <2>2, <2>3
<1>4. /\ listing' \in Listings /\ listing'.at = "answer" /\ listing'.data = listing.data
      /\ listing'.userId = listing.userId /\ listing'.skip = listing.skip /\ listing'.take = listing.take
  BY <1>1, <1>2, <1>3 DEF Listings
<1>5. /\ Len(listing.data) = PageLength(listed, listing.skip, listing.take) /\ listed \in Nat
      /\ \A i, k \in 1..Len(listing.data) :
           /\ listing.data[i].userId = listing.userId
           /\ i # k => listing.data[i].id # listing.data[k].id
  BY <1>1 DEF ListingInv
<1> QED
  BY <1>1, <1>4, <1>5 DEF ListingInv

\* Every step keeps what is said of the list request.
LEMMA NextListing ==
  ASSUME IndInv, FiniteStore, ListingInv, [ListNext]_<<vars, listVars>>
  PROVE  ListingInv'
<1>1. CASE UNCHANGED listVars
  BY <1>1 DEF listVars, ListingInv
<1>2. CASE listing' = NoListing /\ listed' = 0
  BY <1>2, NoListingInv DEF ListingInv, NoListing, Listings
<1>3. CASE \E j \in Jtis, kind \in TokenKinds, p \in Pages : RetrieveUserSessions(j, kind, p)
  BY <1>3, RetrieveStep
<1>4. CASE FindSessions
  BY <1>4, FindStep
<1>5. CASE CountDocuments
  BY <1>5, CountStep
<1>6. OtherStep \/ PresentSessions \/ FailedListing \/ UNCHANGED <<vars, listVars>>
        => UNCHANGED listVars \/ (listing' = NoListing /\ listed' = 0)
  BY DEF OtherStep, PresentSessions, FailedListing
<1> QED
  BY <1>1, <1>2, <1>3, <1>4, <1>5, <1>6 DEF ListNext

\* The strengthening that the run lifecycle checks.
THEOREM ListingInvHolds == ListSpec => []ListingInv
<1>1. ListInit => ListingInv
  BY NoListingInv DEF ListInit
<1> QED
  BY <1>1, NextListing, ListIsOpen, OpenIndInv, OpenStored, PTL DEF ListSpec

\* However many sessions a user has and whatever happens to them while the list
\* is made, it shows only sessions of the user whose token was presented, and
\* none of them twice (list-user-sessions.query.impl.ts).
THEOREM OnlyOwnSessionsListedHolds == ListSpec => []OnlyOwnSessionsListed
<1>1. ASSUME ListingInv PROVE OnlyOwnSessionsListed
  <2> DEFINE n == Len(listing.data)
             shown == {listing.data[i].id : i \in 1..n}
             f == [i \in 1..n |-> listing.data[i].id]
  <2>1. DOMAIN listing.data = 1..n /\ n \in Nat
    BY <1>1, LenProperties DEF ListingInv, Listings
  <2>2. f \in Bijection(1..n, shown)
    BY <1>1 DEF ListingInv, Bijection, Injection, Surjection, IsInjective
  <2>3. IsFiniteSet(1..n) /\ Cardinality(1..n) = n
    BY <2>1, FS_Interval
  <2>4. Cardinality(shown) = n
    <3> HIDE DEF f, shown, n
    <3>1. ExistsBijection(1..n, shown)
      BY <2>2 DEF ExistsBijection
    <3> QED
      BY <2>3, <3>1, FS_Bijection
  <2> QED
    BY <1>1, <2>1, <2>4 DEF OnlyOwnSessionsListed, ListingInv
<1> QED
  BY <1>1, ListingInvHolds, PTL

\* The page and the total agree, for any skip and take and any number of sessions,
\* unless a session was opened or removed between the two queries.
THEOREM PageAgreesWithTotalHolds == ListSpec => []PageAgreesWithTotal
<1>1. ListingInv => PageAgreesWithTotal
  BY DEF ListingInv, PageAgreesWithTotal
<1> QED
  BY <1>1, ListingInvHolds, PTL

\* Listing takes nothing from what sessions promise, however requests overlap.
THEOREM ListingDisturbsNothing ==
  ASSUME IsFiniteSet(Procs)
  PROVE  ListSpec => /\ [](TokenBinding /\ RotatedStaysDead /\ NoOrphanedSession /\ ActiveBounded)
                     /\ RotatedNeverAccepted /\ EndedOnlyByOwner
                     /\ EndedForGood /\ UndoneOnlyByRefresh
<1>1. IndInv => TokenBinding /\ RotatedStaysDead
  BY DEF IndInv
<1> QED
  BY <1>1, ListIsOpen, OpenIndInv, OpenNoOrphan, OpenActiveBounded, OpenNeverAccepted,
     OpenEndedByOwner, OpenEndedForGood, OpenUndone, PTL

\* Nor from what they promise while requests do not overlap: what the run
\* lifecycle checks beside the list request holds of any number of sessions.
THEOREM ListingDisturbsNoLife ==
  ASSUME OneSlot
  PROVE  ListSpec => /\ [](OneActivePerDevice /\ CookieUsable /\ AnnouncedIsRevoked)
                     /\ ImplementsLifecycle /\ RemovedStaysUnusable /\ RevokedStaysRevoked
  BY ListIsOpen, OpenOneActive, OpenCookie, OpenAnnounced, OpenLifecycle, OpenRemovedStays,
     OpenRevokedStays, PTL
===============================================================================
