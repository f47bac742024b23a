------------------------------- MODULE Delivery -------------------------------
(***************************************************************************)
(* What a sender is promised about one notification: once accepted it is   *)
(* queued or lost, and a queued one ends delivered or given up; it is      *)
(* delivered only if it was handed to its channel, perhaps more than once. *)
(***************************************************************************)
EXTENDS Naturals

CONSTANT Ids

VARIABLES
  phase,  \* of each notification
  handed  \* how often each was handed to its channel

dvars == <<phase, handed>>

Init ==
  /\ phase = [n \in Ids |-> "none"]
  /\ handed = [n \in Ids |-> 0]

\* the only ways a notification goes on
Moves == {<<"none", "accepted">>, <<"none", "refused">>, <<"accepted", "open">>,
          <<"accepted", "lost">>, <<"open", "given up">>}

Move(n) ==
  /\ \E p \in {m[2] : m \in Moves} :
       /\ <<phase[n], p>> \in Moves
       /\ phase' = [phase EXCEPT ![n] = p]
  /\ UNCHANGED handed

Hand(n) ==
  /\ phase[n] = "open"
  /\ handed' = [handed EXCEPT ![n] = @ + 1]
  /\ UNCHANGED phase

Deliver(n) ==
  /\ phase[n] = "open" /\ handed[n] > 0
  /\ phase' = [phase EXCEPT ![n] = "delivered"]
  /\ UNCHANGED handed

\* the server stops: whatever was accepted and not queued yet is lost, and
\* queued notifications whose job had stalled before are given up
Stop ==
  /\ \E stopped \in SUBSET {n \in Ids : phase[n] \in {"accepted", "open"}} :
       phase' = [n \in Ids |-> IF n \notin stopped THEN phase[n]
                               ELSE IF phase[n] = "accepted" THEN "lost" ELSE "given up"]
  /\ UNCHANGED handed

Next == Stop \/ \E n \in Ids : Move(n) \/ Hand(n) \/ Deliver(n)

Spec == Init /\ [][Next]_dvars
===============================================================================
