--------------------------- MODULE SessionLifecycle ---------------------------
(***************************************************************************)
(* What a client is promised about one session: it is opened once, hands   *)
(* its refresh token on to a token never seen before, and ends for good,   *)
(* by revocation or by sign-out.                                           *)
(***************************************************************************)
CONSTANTS Sids, Jtis, None

VARIABLES
  phase,  \* of each session
  token,  \* the refresh token each session expects
  spent   \* refresh tokens that were handed on

lvars == <<phase, token, spent>>

Init ==
  /\ phase = [s \in Sids |-> "none"]
  /\ token = [s \in Sids |-> None]
  /\ spent = {}

Open(s, j) ==
  /\ phase[s] = "none"
  /\ \A r \in Sids : token[r] # j
  /\ phase' = [phase EXCEPT ![s] = "active"]
  /\ token' = [token EXCEPT ![s] = j]
  /\ UNCHANGED spent

Rotate(s, j) ==
  /\ phase[s] = "active"
  /\ j \notin spent /\ \A r \in Sids : token[r] # j
  /\ token' = [token EXCEPT ![s] = j]
  /\ spent' = spent \cup {token[s]}
  /\ UNCHANGED phase

Revoke(s) ==
  /\ phase[s] = "active"
  /\ phase' = [phase EXCEPT ![s] = "revoked"]
  /\ UNCHANGED <<token, spent>>

Remove(s) ==
  /\ phase[s] = "active"
  /\ phase' = [phase EXCEPT ![s] = "gone"]
  /\ token' = [token EXCEPT ![s] = None]
  /\ UNCHANGED spent

Next ==
  \E s \in Sids :
    \/ Revoke(s) \/ Remove(s)
    \/ \E j \in Jtis : Open(s, j) \/ Rotate(s, j)

Spec == Init /\ [][Next]_lvars
===============================================================================
