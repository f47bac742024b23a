------------------------------- MODULE Accounts -------------------------------
(***************************************************************************)
(* Creating accounts: CreateUserHandler over the users table.  Between the *)
(* look-up of the email and the insertion lies a bcrypt hash, some hundred *)
(* milliseconds in which other requests run; the table's unique index on   *)
(* email is all that keeps two of them apart.  `verified' and the dates    *)
(* are left out: nothing but the mapper reads them.                        *)
(***************************************************************************)
EXTENDS Naturals

CONSTANTS
  Users,      \* user ids
  Emails,     \* addresses Email.create accepts, as they are spelled
  Passwords,  \* passwords clients choose
  Null,       \* no such row
  Creators,   \* bound: create-user requests that may be in flight
  MaxFaults   \* bound: failed calls, lost answers and crashes

ASSUME AccountsAssumption == MaxFaults \in Nat

VARIABLES
  users,     \* the users table
  creating,  \* the create-user requests in flight
  created,   \* history: accounts whose creation was answered with success
  faults     \* faults so far

avars == <<users, creating, created, faults>>

\* hashService.generateHash: the salt makes no difference here
Hash(pw) == <<"bcrypt", pw>>
Hashes == {Hash(pw) : pw \in Passwords}

Account == [email: Emails, password: Hashes]

ASSUME NullIsNoAccount == Null \notin Account \cup Users \cup Emails \cup Passwords

\* uid and account: the User in memory, once its password is hashed
Creation == [at: {"idle", "find", "hash", "save", "answer"}, email: Emails \cup {Null},
             password: Passwords \cup {Null}, uid: Users \cup {Null},
             account: Account \cup {Null}]

IdleCreator == [at |-> "idle", email |-> Null, password |-> Null, uid |-> Null, account |-> Null]

TypeOK ==
  /\ users \in [Users -> Account \cup {Null}]
  /\ creating \in [Creators -> Creation]
  /\ created \in SUBSET (Users \X Account)
  /\ faults \in 0..MaxFaults

\* accounts the table starts with
Seeded(table) ==
  /\ users = table
  /\ creating = [c \in Creators |-> IdleCreator]
  /\ created = {}
  /\ faults = 0

Init == Seeded([u \in Users |-> Null])

Fault == faults < MaxFaults /\ faults' = faults + 1
NoFault == UNCHANGED faults
Finish(c) == creating' = [creating EXCEPT ![c] = IdleCreator]

-------------------------------------------------------------------------------
(* The table.                                                              *)

FindByEmail(e) == {u \in Users : users[u] # Null /\ users[u].email = e}

\* the unique index, violated by an upsert of this account
EmailTaken(u, account) == \E v \in FindByEmail(account.email) : v # u

\* upsert of the row with this id
Upsert(u, account) == [users EXCEPT ![u] = account]

\* User.create draws an id no user was given before
FreshUsers == {u \in Users : users[u] = Null /\ \A c \in Creators : creating[c].uid # u}

-------------------------------------------------------------------------------
(* CreateUserHandler.                                                      *)

\* the request arrives, with an address Email.create accepts
BeginCreate(c, e, pw) ==
  /\ creating[c] = IdleCreator
  /\ creating' = [creating EXCEPT ![c] =
                    [IdleCreator EXCEPT !.at = "find", !.email = e, !.password = pw]]
  /\ UNCHANGED <<users, created, faults>>

\* findByEmail: a user found refuses the request, a failed query does not
FindUser(c) ==
  /\ creating[c].at = "find"
  /\ LET proceed == creating' = [creating EXCEPT ![c].at = "hash"]
     IN \/ FindByEmail(creating[c].email) = {} /\ proceed /\ NoFault
        \/ FindByEmail(creating[c].email) # {} /\ Finish(c) /\ NoFault
        \/ proceed /\ Fault
  /\ UNCHANGED <<users, created>>

HashPlain(c) ==                                \* mutated form: the password itself is kept
  /\ creating[c].at = "hash"
  /\ \E u \in FreshUsers :
       creating' = [creating EXCEPT ![c].at = "save", ![c].uid = u,
                      ![c].account = [email |-> creating[c].email,
                                      password |-> creating[c].password]]
  /\ NoFault
  /\ UNCHANGED <<users, created>>

\* User.create
NewAccount(e, hash) == [email |-> e, password |-> hash]

\* generateHash, whose Err is thrown, and User.create
HashPassword(c) ==
  /\ creating[c].at = "hash"
  /\ \/ /\ \E u \in FreshUsers :
             creating' = [creating EXCEPT ![c].at = "save", ![c].uid = u,
                            ![c].account = NewAccount(creating[c].email, Hash(creating[c].password))]
        /\ NoFault
     \/ Finish(c) /\ Fault
  /\ UNCHANGED <<users, created>>

SaveUserUnindexed(c) ==                        \* mutated form: a table without the index
  /\ creating[c].at = "save"
  /\ users' = Upsert(creating[c].uid, creating[c].account)
  /\ creating' = [creating EXCEPT ![c].at = "answer"]
  /\ NoFault
  /\ UNCHANGED created

SaveUserByEmail(c) ==                          \* mutated form: upsert where: { email }
  /\ creating[c].at = "save"
  /\ users' = [v \in Users |-> IF v = creating[c].uid THEN creating[c].account
                               ELSE IF v \in FindByEmail(creating[c].account.email) THEN Null
                               ELSE users[v]]
  /\ creating' = [creating EXCEPT ![c].at = "answer"]
  /\ NoFault
  /\ UNCHANGED created

\* save: the index refuses a second account of an email; a failed save may
\* have been applied, and is answered with 400 as well.  commit publishes
\* nothing: no publisher was merged into the user.
SaveUser(c) ==
  /\ creating[c].at = "save"
  /\ LET taken == EmailTaken(creating[c].uid, creating[c].account)
         stored == ~taken /\ users' = Upsert(creating[c].uid, creating[c].account)
     IN \/ stored /\ creating' = [creating EXCEPT ![c].at = "answer"] /\ NoFault
        \/ taken /\ UNCHANGED users /\ Finish(c) /\ NoFault
        \/ (stored \/ UNCHANGED users) /\ Finish(c) /\ Fault
  /\ UNCHANGED created

AnswerCreated(c) ==
  /\ creating[c].at = "answer"
  /\ created' = created \cup {<<creating[c].uid, creating[c].account>>}
  /\ Finish(c)
  /\ UNCHANGED <<users, faults>>

LoseCreated(c) ==
  /\ creating[c].at = "answer"
  /\ Finish(c) /\ Fault
  /\ UNCHANGED <<users, created>>

Crash ==
  /\ \E c \in Creators : creating[c] # IdleCreator
  /\ creating' = [c \in Creators |-> IdleCreator] /\ Fault
  /\ UNCHANGED <<users, created>>

Proceed(c) == FindUser(c) \/ HashPassword(c) \/ SaveUser(c) \/ AnswerCreated(c)

Next ==
  \/ Crash
  \/ \E c \in Creators :
       \/ \E e \in Emails, pw \in Passwords : BeginCreate(c, e, pw)
       \/ Proceed(c) \/ LoseCreated(c)

Spec == Init /\ [][Next]_avars

-------------------------------------------------------------------------------
(* What CreateUserHandler promises.                                        *)

\* No two accounts have one email, however many requests found none.
OneAccountPerEmail ==
  \A u, v \in Users :
    users[u] # Null /\ users[v] # Null /\ users[u].email = users[v].email => u = v

\* A client told that its account was created can sign in with its password
\* from then on: no later or overlapping request takes the account over.
CreatedStaysTheirs ==
  /\ \A a \in created : users[a[1]] = a[2]
  /\ \A c \in Creators :
       creating[c].at = "answer" =>
         users[creating[c].uid] = [email |-> creating[c].email,
                                   password |-> Hash(creating[c].password)]

\* what a request in flight holds, and that its id is its own until it is saved
Held(c) ==
  /\ creating[c].at # "idle" => creating[c].email # Null /\ creating[c].password # Null
  /\ creating[c].at \in {"find", "hash"} => creating[c].uid = Null
  /\ creating[c].at \in {"save", "answer"} =>
       /\ creating[c].uid # Null
       /\ creating[c].account = [email |-> creating[c].email,
                                 password |-> Hash(creating[c].password)]
  /\ creating[c].at = "save" =>
       /\ users[creating[c].uid] = Null
       /\ \A d \in Creators : creating[d].uid = creating[c].uid => d = c

\* The inductive invariant: what the handler promises, with what its requests
\* hold on the way there.
IndInv ==
  /\ TypeOK
  /\ \A c \in Creators : Held(c)
  /\ OneAccountPerEmail
  /\ CreatedStaysTheirs
===============================================================================
