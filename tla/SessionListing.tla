---------------------------- MODULE SessionListing ----------------------------
(***************************************************************************)
(* Listing a user's sessions while other requests sign in, refresh, revoke *)
(* and sign out.  The page and the total are two queries.                  *)
(***************************************************************************)
EXTENDS AuthSessionsProps, SequencesExt

CONSTANTS
  Pages  \* bound: the skip and take that are asked for

ASSUME ListingAssumption == Pages \subseteq [skip: Nat, take: Nat]

VARIABLES
  listing,  \* the list request in flight, or its answer
  listed    \* history: how many sessions the user had when the page was read

listVars == <<listing, listed>>

\* the documents of a user, as far as a page is about them
SessionsOf(u) ==
  {[id |-> s, userId |-> sessions[s].user, lastRefreshAt |-> sessions[s].lastRefreshAt] :
     s \in {r \in Sids : sessions[r] # Null /\ sessions[r].user = u}}

NoListing == [at |-> "idle", userId |-> Null, skip |-> 0, take |-> 0,
              data |-> <<>>, total |-> 0, page |-> 0]

\* sort({ lastRefreshAt: -1 }): null comes last, equals in any order
NotBefore(a, b) ==
  b.lastRefreshAt = Null \/ (a.lastRefreshAt # Null /\ a.lastRefreshAt >= b.lastRefreshAt)

Sorted(docs) ==
  {q \in SetToSeqs(docs) : \A i \in 1..(Len(q) - 1) : NotBefore(q[i], q[i + 1])}

\* mutated form: the skip is lost
PageUnskipped(q, skip, take) ==
  SubSeq(q, 1, IF take = 0 \/ take > Len(q) THEN Len(q) ELSE take)

\* skip and limit: a limit of 0 is none
Page(q, skip, take) ==
  SubSeq(q, skip + 1, IF take = 0 \/ skip + take > Len(q) THEN Len(q) ELSE skip + take)

\* what the answer tells of each session
Shown(q) == [i \in DOMAIN q |-> [id |-> q[i].id, userId |-> q[i].userId]]

ListInit == Init /\ listing = NoListing /\ listed = 0

\* the query schema: any numbers, of which take is at most 50
PassesSchema(p) == p.take <= 50

RetrieveUserSessions(j, kind, p) ==
  /\ listing = NoListing
  /\ ValidateSession(j, kind) /\ PassesSchema(p)
  /\ listing' = [NoListing EXCEPT !.at = "find", !.userId = pairs[j].sub,
                                  !.skip = p.skip, !.take = p.take]
  /\ UNCHANGED <<vars, listed>>

\* mutated form: the sessions of everyone
FindEverySession ==
  /\ listing.at = "find"
  /\ \E q \in Sorted(UNION {SessionsOf(u) : u \in Users}) :
       listing' = [listing EXCEPT !.at = "count", !.data = Shown(Page(q, listing.skip, listing.take))]
  /\ listed' = Cardinality(SessionsOf(listing.userId))
  /\ UNCHANGED vars

FindSessions ==
  /\ listing.at = "find"
  /\ \E q \in Sorted(SessionsOf(listing.userId)) :
       listing' = [listing EXCEPT !.at = "count", !.data = Shown(Page(q, listing.skip, listing.take))]
  /\ listed' = Cardinality(SessionsOf(listing.userId))
  /\ UNCHANGED vars

\* the total, and the number of the page: Infinity or NaN, here Null, for a
\* take of 0
CountDocuments ==
  /\ listing.at = "count"
  /\ listing' = [listing EXCEPT !.at = "answer",
       !.total = Cardinality(SessionsOf(listing.userId)),
       !.page = IF listing.take = 0 THEN Null ELSE listing.skip \div listing.take + 1]
  /\ UNCHANGED <<vars, listed>>

\* SessionPresenter.presentSessions, and the answer is out
PresentSessions ==
  /\ listing.at = "answer"
  /\ listing' = NoListing /\ listed' = 0
  /\ UNCHANGED vars

\* either query fails: a 500
FailedListing ==
  /\ listing.at \in {"find", "count"}
  /\ listing' = NoListing /\ listed' = 0
  /\ Fault
  /\ UNCHANGED <<now, sessions, pairs, delivered, cookie, req, published, rotated>>

\* another request's step; the process stops with the list request, too
OtherStep ==
  /\ Next
  /\ \/ ~Crash /\ UNCHANGED listVars
     \/ Crash /\ listing' = NoListing /\ listed' = 0

ListNext ==
  \/ OtherStep
  \/ \E j \in Jtis, kind \in TokenKinds, p \in Pages : RetrieveUserSessions(j, kind, p)
  \/ FindSessions \/ CountDocuments \/ PresentSessions \/ FailedListing

ListSpec == ListInit /\ [][ListNext]_<<vars, listVars>>

\* Whatever happens to sessions while the list is made, it shows only sessions
\* of the user whose token was presented, and none of them twice.
OnlyOwnSessionsListed ==
  /\ \A i \in DOMAIN listing.data : listing.data[i].userId = listing.userId
  /\ Cardinality({listing.data[i].id : i \in DOMAIN listing.data}) = Len(listing.data)

Lesser(a, b) == IF a < b THEN a ELSE b

\* how many of n sessions a page shows
PageLength(n, skip, take) ==
  LET left == IF skip > n THEN 0 ELSE n - skip
  IN IF take = 0 THEN left ELSE Lesser(take, left)

\* The page and the total tell of the same sessions, those skipped and, unless
\* it is 0, those over the take left out, whatever was revoked, refreshed or
\* expired in between: only a session opened or removed between the two queries
\* makes them disagree.
PageAgreesWithTotal ==
  listing.at = "answer" /\ listed = listing.total =>
    Len(listing.data) = PageLength(listing.total, listing.skip, listing.take)

(* The strengthening under which both are inductive *)

Listings == [at: {"idle", "find", "count", "answer"}, userId: Users \cup {Null},
             skip: Nat, take: Nat, data: Seq([id: Sids, userId: Users]),
             total: Nat, page: Nat \cup {Null}]

\* The page that was read is of the caller's sessions, each once, and as long as
\* the number of sessions there were then says (list-user-sessions.query.impl.ts).
ListingInv ==
  /\ listing \in Listings /\ listed \in Nat
  /\ listing.at \in {"idle", "find"} => listing.data = <<>>
  /\ listing.at \in {"count", "answer"} =>
       Len(listing.data) = PageLength(listed, listing.skip, listing.take)
  /\ \A i, k \in 1..Len(listing.data) :
       /\ listing.data[i].userId = listing.userId
       /\ i # k => listing.data[i].id # listing.data[k].id

===============================================================================
