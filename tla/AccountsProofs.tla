---------------------------- MODULE AccountsProofs ----------------------------
(***************************************************************************)
(* Proofs about Accounts, for every value of its constants: IndInv holds   *)
(* initially and is kept by every step, one lemma for each action that     *)
(* touches what it speaks of.                                              *)
(***************************************************************************)
EXTENDS Accounts, TLAPS

\* A row is never Null, nor are the values it is made of.
LEMMA NotNull ==
  /\ \A a \in Account : a # Null
  /\ Null \notin Users /\ Null \notin Emails /\ Null \notin Passwords
  BY NullIsNoAccount

\* A slot nobody uses holds nothing.
LEMMA IdleHeld ==
  IdleCreator \in Creation /\ IdleCreator.at = "idle" /\ IdleCreator.uid = Null
  BY DEF IdleCreator, Creation

\* An empty table with no request in flight satisfies the invariant.
THEOREM InitIndInv == Init => IndInv
  BY IdleHeld, NotNull, AccountsAssumption
  DEF Init, Seeded, IndInv, TypeOK, Held, OneAccountPerEmail, CreatedStaysTheirs

\* A request that ends, answered or not, disturbs no other.
LEMMA FinishStep ==
  ASSUME IndInv, NEW c \in Creators, Finish(c), UNCHANGED users, faults' \in 0..MaxFaults,
         \/ created' = created
         \/ created' = created \cup {<<creating[c].uid, creating[c].account>>}
              /\ creating[c].at = "answer"
  PROVE  IndInv'
<1>1. creating' = [creating EXCEPT ![c] = IdleCreator]
  BY DEF Finish
<1>2. creating \in [Creators -> Creation]
  BY DEF IndInv, TypeOK
<1>3. creating'[c] = IdleCreator /\ \A d \in Creators : d # c => creating'[d] = creating[d]
  BY <1>1, <1>2
<1>4. \A a \in created' : a \in created \/
         (a = <<creating[c].uid, creating[c].account>> /\ creating[c].at = "answer")
  OBVIOUS
<1>5. creating[c].at = "answer" =>
        /\ creating[c].uid \in Users /\ creating[c].account \in Account
        /\ users[creating[c].uid] = creating[c].account
  <2> SUFFICES ASSUME creating[c].at = "answer"
               PROVE  /\ creating[c].uid \in Users /\ creating[c].account \in Account
                      /\ users[creating[c].uid] = creating[c].account
    OBVIOUS
  <2>1. Held(c) /\ creating[c] \in Creation
    BY <1>2 DEF IndInv
  <2>2. /\ creating[c].uid \in Users
        /\ creating[c].email \in Emails /\ creating[c].password \in Passwords
    BY <2>1 DEF Held, Creation
  <2>3. creating[c].account = [email |-> creating[c].email, password |-> Hash(creating[c].password)]
    BY <2>1 DEF Held
  <2> QED
    BY <2>2, <2>3 DEF Account, Hashes, IndInv, CreatedStaysTheirs
<1>6. TypeOK'
  BY <1>1, <1>2, <1>4, <1>5, IdleHeld DEF IndInv, TypeOK
<1>7. ASSUME NEW d \in Creators PROVE Held(d)'
  <2>1. CASE d = c
    BY <1>3, <2>1, IdleHeld DEF Held
  <2>2. CASE d # c
    <3>1. Held(d) /\ creating'[d] = creating[d]
      BY <1>3, <2>2 DEF IndInv
    <3> QED
      BY <1>3, <3>1, IdleHeld DEF Held
  <2> QED
    BY <2>1, <2>2
<1>8. CreatedStaysTheirs'
  <2>1. \A a \in created' : users'[a[1]] = a[2]
    BY <1>4, <1>5 DEF IndInv, CreatedStaysTheirs
  <2>2. ASSUME NEW d \in Creators, creating'[d].at = "answer"
        PROVE  creating'[d] = creating[d]
    BY <1>3, <2>2, IdleHeld
  <2> QED
    BY <2>1, <2>2 DEF IndInv, CreatedStaysTheirs
<1> QED
  BY <1>6, <1>7, <1>8 DEF IndInv, OneAccountPerEmail

\* A crash ends every request and leaves the table as it is.
LEMMA CrashStep == ASSUME IndInv, Crash PROVE IndInv'
<1>1. \A d \in Creators : creating'[d] = IdleCreator
  BY DEF Crash
<1>2. TypeOK'
  BY IdleHeld, AccountsAssumption DEF Crash, Fault, IndInv, TypeOK
<1> QED
  BY <1>1, <1>2, IdleHeld DEF Crash, IndInv, Held, OneAccountPerEmail, CreatedStaysTheirs

\* A slot that takes a well-formed content without an id, before the hash, keeps
\* the invariant.
LEMMA BeforeHashStep ==
  ASSUME IndInv, NEW c \in Creators, NEW r \in Creation, r.at \in {"find", "hash"}, r.uid = Null,
         r.email # Null, r.password # Null,
         creating' = [creating EXCEPT ![c] = r], faults' \in 0..MaxFaults,
         UNCHANGED <<users, created>>
  PROVE  IndInv'
<1>1. creating'[c] = r /\ \A d \in Creators : d # c => creating'[d] = creating[d]
  BY DEF IndInv, TypeOK
<1>2. TypeOK'
  BY DEF IndInv, TypeOK
<1>3. ASSUME NEW d \in Creators PROVE Held(d)'
  <2>1. CASE d = c
    BY <1>1, <2>1 DEF Held
  <2>2. CASE d # c
    <3>1. Held(d) /\ creating'[d] = creating[d]
      BY <1>1, <2>2 DEF IndInv
    <3> QED
      BY <1>1, <3>1 DEF Held
  <2> QED
    BY <2>1, <2>2
<1> QED
  BY <1>1, <1>2, <1>3 DEF IndInv, OneAccountPerEmail, CreatedStaysTheirs

\* A request that arrives holds no id yet.
LEMMA BeginCreateStep ==
  ASSUME IndInv, NEW c \in Creators, NEW e \in Emails, NEW pw \in Passwords, BeginCreate(c, e, pw)
  PROVE  IndInv'
<1> DEFINE r == [IdleCreator EXCEPT !.at = "find", !.email = e, !.password = pw]
<1>1. /\ r \in Creation /\ r.at = "find" /\ r.uid = Null
      /\ r.email # Null /\ r.password # Null
  BY NotNull DEF IdleCreator, Creation
<1>2. creating' = [creating EXCEPT ![c] = r] /\ UNCHANGED <<users, created, faults>>
  BY DEF BeginCreate
<1>3. faults' \in 0..MaxFaults
  BY <1>2 DEF IndInv, TypeOK
<1> HIDE DEF r
<1> QED
  BY <1>1, <1>2, <1>3, BeforeHashStep

\* findByEmail, failed or not, ends the request or lets it go on without an id.
LEMMA FindUserStep ==
  ASSUME IndInv, NEW c \in Creators, FindUser(c)
  PROVE  IndInv'
<1>1. faults' \in 0..MaxFaults /\ UNCHANGED <<users, created>>
  BY AccountsAssumption DEF FindUser, Fault, NoFault, IndInv, TypeOK
<1>2. CASE Finish(c)
  BY <1>1, <1>2, FinishStep
<1>3. CASE creating' = [creating EXCEPT ![c].at = "hash"]
  <2> DEFINE r == [creating[c] EXCEPT !.at = "hash"]
  <2>1. creating[c] \in Creation /\ creating[c].at = "find" /\ Held(c)
    BY DEF FindUser, IndInv, TypeOK
  <2>2. /\ r \in Creation /\ r.at = "hash" /\ r.uid = creating[c].uid
        /\ r.email # Null /\ r.password # Null
    BY <2>1 DEF Creation, Held
  <2>3. creating[c].uid = Null
    BY <2>1 DEF Held
  <2>4. creating' = [creating EXCEPT ![c] = r]
    BY <1>3 DEF IndInv, TypeOK
  <2> HIDE DEF r
  <2> QED
    BY <1>1, <2>2, <2>3, <2>4, BeforeHashStep
<1> QED
  BY <1>2, <1>3 DEF FindUser

\* Hashing draws an id that no row and no other request has.
LEMMA HashPasswordStep ==
  ASSUME IndInv, NEW c \in Creators, HashPassword(c)
  PROVE  IndInv'
<1>1. CASE Finish(c) /\ Fault
  <2>1. faults' \in 0..MaxFaults
    BY <1>1, AccountsAssumption DEF Fault, IndInv, TypeOK
  <2> QED
    BY <1>1, <2>1, FinishStep DEF HashPassword, NewAccount
<1>2. ASSUME ~(Finish(c) /\ Fault) PROVE IndInv'
  <2>1. PICK u \in FreshUsers :
          creating' = [creating EXCEPT ![c].at = "save", ![c].uid = u,
                         ![c].account = [email |-> creating[c].email,
                                         password |-> Hash(creating[c].password)]]
    BY <1>2 DEF HashPassword, NewAccount
  <2>2. creating[c] \in Creation /\ creating[c].email \in Emails /\ creating[c].password \in Passwords
    BY DEF HashPassword, NewAccount, IndInv, TypeOK, Held, Creation
  <2> DEFINE a == [email |-> creating[c].email, password |-> Hash(creating[c].password)]
             r == [creating[c] EXCEPT !.at = "save", !.uid = u, !.account = a]
  <2>3. a \in Account
    BY <2>2 DEF Account, Hashes
  <2>4. u \in Users /\ users[u] = Null /\ \A d \in Creators : creating[d].uid # u
    BY DEF FreshUsers
  <2>5. /\ r \in Creation /\ r.at = "save" /\ r.uid = u /\ r.account = a
        /\ r.email = creating[c].email /\ r.password = creating[c].password
    BY <2>2, <2>3, <2>4 DEF Creation
  <2>6. creating' = [creating EXCEPT ![c] = r]
    BY <2>1 DEF IndInv, TypeOK
  <2>7. creating'[c] = r /\ \A d \in Creators : d # c => creating'[d] = creating[d]
    BY <2>6 DEF IndInv, TypeOK
  <2>8. users' = users /\ created' = created /\ faults' = faults
    BY <1>2 DEF HashPassword, NewAccount, NoFault
  <2>9. TypeOK'
    BY <2>5, <2>6, <2>8 DEF IndInv, TypeOK
  <2>10. ASSUME NEW d \in Creators PROVE Held(d)'
    <3>1. CASE d = c
      BY <2>2, <2>4, <2>5, <2>7, <2>8, <3>1, NotNull DEF Held
    <3>2. CASE d # c
      <4>1. Held(d) /\ creating'[d] = creating[d] /\ creating[d].uid # u
        BY <2>4, <2>7, <3>2 DEF IndInv
      <4> QED
        BY <2>5, <2>7, <2>8, <4>1 DEF Held
    <3> QED
      BY <3>1, <3>2
  <2>11. \A d \in Creators : creating'[d].at = "answer" => creating'[d] = creating[d]
    BY <2>5, <2>7
  <2> QED
    BY <2>8, <2>9, <2>10, <2>11 DEF IndInv, OneAccountPerEmail, CreatedStaysTheirs
<1> QED
  BY <1>1, <1>2

\* A row written is new, its email is nobody's, and no request but the one
\* that wrote it holds its id.
LEMMA StoreStep ==
  ASSUME IndInv, NEW c \in Creators, creating[c].at = "save",
         ~EmailTaken(creating[c].uid, creating[c].account),
         users' = Upsert(creating[c].uid, creating[c].account)
  PROVE  /\ users' \in [Users -> Account \cup {Null}]
         /\ users'[creating[c].uid] = creating[c].account
         /\ \A u \in Users : users[u] # Null => users'[u] = users[u]
         /\ \A d \in Creators : d # c /\ creating[d].at = "save" =>
              users'[creating[d].uid] = users[creating[d].uid]
         /\ OneAccountPerEmail'
<1> DEFINE u == creating[c].uid
           a == creating[c].account
<1>1. /\ u \in Users /\ a \in Account /\ users[u] = Null /\ a # Null
      /\ \A d \in Creators : creating[d].uid = u => d = c
  <2>1. Held(c) /\ creating[c] \in Creation
    BY DEF IndInv, TypeOK
  <2>2. u \in Users /\ creating[c].email \in Emails /\ creating[c].password \in Passwords
    BY <2>1 DEF Held, Creation
  <2>3. a \in Account
    BY <2>1, <2>2 DEF Held, Account, Hashes
  <2> QED
    BY <2>1, <2>2, <2>3, NotNull DEF Held
<1>2. users' = [users EXCEPT ![u] = a] /\ users \in [Users -> Account \cup {Null}]
  BY DEF Upsert, IndInv, TypeOK
<1>3. users'[u] = a /\ \A v \in Users : v # u => users'[v] = users[v]
  BY <1>1, <1>2
<1>4. OneAccountPerEmail'
  <2> SUFFICES ASSUME NEW v \in Users, NEW w \in Users,
                      users'[v] # Null, users'[w] # Null, users'[v].email = users'[w].email
               PROVE  v = w
    BY DEF OneAccountPerEmail
  <2>1. \A x \in Users : x # u /\ users[x] # Null => users[x].email # a.email
    BY DEF EmailTaken, FindByEmail
  <2> QED
    BY <1>3, <2>1 DEF IndInv, OneAccountPerEmail
<1>5. ASSUME NEW d \in Creators, d # c, creating[d].at = "save"
      PROVE  users'[creating[d].uid] = users[creating[d].uid]
  <2>1. creating[d].uid \in Users
    BY <1>5 DEF IndInv, TypeOK, Held, Creation
  <2> QED
    BY <1>1, <1>3, <1>5, <2>1
<1> QED
  BY <1>1, <1>2, <1>3, <1>4, <1>5

\* Saving, refused by the index or not, applied or not, keeps the invariant.
LEMMA SaveUserStep ==
  ASSUME IndInv, NEW c \in Creators, SaveUser(c)
  PROVE  IndInv'
<1> DEFINE u == creating[c].uid
           a == creating[c].account
           stored == ~EmailTaken(u, a) /\ users' = Upsert(u, a)
<1>0. creating[c].at = "save" /\ created' = created /\ faults' \in 0..MaxFaults
  BY AccountsAssumption DEF SaveUser, Fault, NoFault, IndInv, TypeOK
<1>1. CASE Finish(c) /\ UNCHANGED users
  BY <1>0, <1>1, FinishStep
<1>2. ASSUME stored, \/ creating' = [creating EXCEPT ![c].at = "answer"]
                     \/ Finish(c)
      PROVE  IndInv'
  <2>1. /\ users' \in [Users -> Account \cup {Null}]
        /\ users'[u] = a
        /\ \A v \in Users : users[v] # Null => users'[v] = users[v]
        /\ \A d \in Creators : d # c /\ creating[d].at = "save" =>
             users'[creating[d].uid] = users[creating[d].uid]
        /\ OneAccountPerEmail'
    BY <1>0, <1>2, StoreStep
  <2>2. creating \in [Creators -> Creation] /\ Held(c) /\ creating[c] \in Creation
    BY DEF IndInv, TypeOK
  <2>3. PICK r \in Creation :
          /\ creating' = [creating EXCEPT ![c] = r]
          /\ r = IdleCreator \/ r = [creating[c] EXCEPT !.at = "answer"]
    <3>1. CASE Finish(c)
      BY <3>1, IdleHeld DEF Finish
    <3>2. CASE creating' = [creating EXCEPT ![c].at = "answer"]
      <4>1. [creating[c] EXCEPT !.at = "answer"] \in Creation
        BY <2>2 DEF Creation
      <4> QED
        BY <3>2, <4>1, <2>2
    <3> QED
      BY <1>2, <3>1, <3>2
  <2>4. creating'[c] = r /\ \A d \in Creators : d # c => creating'[d] = creating[d]
    BY <2>2, <2>3
  <2>5. /\ r.at # "save"
        /\ r.at = "answer" => /\ r.uid = u /\ r.account = a
                              /\ r.email = creating[c].email /\ r.password = creating[c].password
        /\ r.at \in {"idle", "answer"}
        /\ r.uid \in {Null, u}
    BY <2>2, <2>3, IdleHeld DEF Creation
  <2>6. TypeOK'
    BY <1>0, <2>1, <2>2, <2>3 DEF IndInv, TypeOK
  <2>7. ASSUME NEW d \in Creators PROVE Held(d)'
    <3>1. CASE d = c
      BY <1>0, <2>2, <2>4, <2>5, <3>1 DEF Held
    <3>2. CASE d # c
      <4>1. Held(d) /\ creating'[d] = creating[d]
        BY <2>4, <3>2 DEF IndInv
      <4>2. creating[d].at = "save" => /\ users'[creating[d].uid] = Null
                                       /\ creating[d].uid # u /\ creating[d].uid # Null
        BY <1>0, <2>1, <2>2, <3>2, <4>1 DEF Held
      <4> QED
        BY <2>4, <2>5, <4>1, <4>2 DEF Held
    <3> QED
      BY <3>1, <3>2
  <2>8. CreatedStaysTheirs'
    <3>1. ASSUME NEW b \in created PROVE users'[b[1]] = b[2]
      <4>1. b[1] \in Users /\ users[b[1]] = b[2] /\ b[2] # Null
        BY NotNull DEF IndInv, TypeOK, CreatedStaysTheirs
      <4> QED
        BY <2>1, <4>1
    <3>2. ASSUME NEW d \in Creators, creating'[d].at = "answer"
          PROVE  users'[creating'[d].uid] = [email |-> creating'[d].email,
                                             password |-> Hash(creating'[d].password)]
      <4>1. CASE d = c
        BY <1>0, <2>1, <2>2, <2>4, <2>5, <3>2, <4>1 DEF Held
      <4>2. CASE d # c
        <5>1. creating'[d] = creating[d] /\ creating[d].at = "answer" /\ Held(d) /\ creating[d] \in Creation
          BY <2>2, <2>4, <3>2, <4>2 DEF IndInv
        <5>2. /\ creating[d].uid \in Users
              /\ creating[d].email \in Emails /\ creating[d].password \in Passwords
          BY <5>1 DEF Held, Creation
        <5>3. /\ users[creating[d].uid] = [email |-> creating[d].email,
                                           password |-> Hash(creating[d].password)]
              /\ [email |-> creating[d].email, password |-> Hash(creating[d].password)] \in Account
          BY <5>1, <5>2 DEF IndInv, CreatedStaysTheirs, Account, Hashes
        <5> QED
          BY <2>1, <5>1, <5>2, <5>3, NotNull
      <4> QED
        BY <4>1, <4>2
    <3> QED
      BY <1>0, <3>1, <3>2 DEF CreatedStaysTheirs
  <2> QED
    BY <2>1, <2>6, <2>7, <2>8 DEF IndInv
<1> QED
  BY <1>1, <1>2 DEF SaveUser

\* The invariant is inductive.
THEOREM NextIndInv == IndInv /\ [Next]_avars => IndInv'
<1> SUFFICES ASSUME IndInv, [Next]_avars PROVE IndInv'
  OBVIOUS
<1>1. CASE UNCHANGED avars
  BY <1>1 DEF avars, IndInv, TypeOK, Held, OneAccountPerEmail, CreatedStaysTheirs
<1>2. CASE Crash
  BY <1>2, CrashStep
<1>3. ASSUME NEW c \in Creators, AnswerCreated(c) \/ LoseCreated(c) PROVE IndInv'
  <2>1. faults' \in 0..MaxFaults
    BY <1>3, AccountsAssumption DEF AnswerCreated, LoseCreated, Fault, IndInv, TypeOK
  <2> QED
    BY <1>3, <2>1, FinishStep DEF AnswerCreated, LoseCreated
<1> QED
  BY <1>1, <1>2, <1>3, BeginCreateStep, FindUserStep, HashPasswordStep, SaveUserStep DEF Next, Proceed

\* The inductive invariant holds in every reachable state of CreateUserHandler,
\* whichever requests overlap and fail.
THEOREM IndInvHolds == Spec => []IndInv
  BY InitIndInv, NextIndInv, PTL DEF Spec

\* Type correctness: no request, failed or not, leaves a row or a slot outside
\* its type.
THEOREM TypeCorrect == Spec => []TypeOK
<1>1. IndInv => TypeOK
  BY DEF IndInv
<1> QED
  BY <1>1, IndInvHolds, PTL

\* No two accounts ever have one email, for any number of overlapping requests.
THEOREM OneAccountPerEmailHolds == Spec => []OneAccountPerEmail
<1>1. IndInv => OneAccountPerEmail
  BY DEF IndInv
<1> QED
  BY <1>1, IndInvHolds, PTL

\* An account whose creation was answered is never taken over.
THEOREM CreatedStaysTheirsHolds == Spec => []CreatedStaysTheirs
<1>1. IndInv => CreatedStaysTheirs
  BY DEF IndInv
<1> QED
  BY <1>1, IndInvHolds, PTL
===============================================================================
