----------------------- MODULE NotificationDeliveryProps -----------------------
(***************************************************************************)
(* What the notification module promises about a notification, its         *)
(* document and its job.                                                   *)
(***************************************************************************)
EXTENDS NotificationDelivery

HasStatus(n, statuses) == store[n] # Null /\ store[n].status \in statuses

\* A document says SENT only of a notification that was handed to its channel:
\* neither the worker nor the listeners mark one as sent too early, whichever of
\* their saves comes last (processNotification, onCompleted).
SentIsSent == \A n \in Ids : HasStatus(n, {"SENT"}) => handed[n] > 0

\* A notification is handed to its channel a second time only after a fault, and
\* once more for each: an attempt that succeeded is not repeated, although the
\* result of saving it is ignored (processNotification, process).
NoDuplicateWithoutFault == \A n \in Ids : handed[n] <= 1 + faults

\* An outcome is never replaced by an earlier status: no save of the request or
\* of a listener, which rebuilds the notification as it was queued, takes SENT or
\* FAILED back to PENDING or QUEUED; and SENT becomes FAILED only after a fault
\* or when a `failed' listener of an earlier attempt saves late.
OutcomeStays ==
  [][\A n \in Ids :
       /\ HasStatus(n, {"SENT", "FAILED"}) => HasStatus(n, {"SENT", "FAILED"})'
       /\ HasStatus(n, {"SENT"}) /\ ~HasStatus(n, {"SENT"})' =>
            faults > 0 \/ overtaken[n]]_nvars

\* nothing is at work on it any more
Quiet(n) ==
  at[n] \notin Requesting /\ job[n] = Null /\ run[n] = Null /\ listening[n] = Silent

\* When nothing is at work on a notification any more, its document tells what
\* became of its job, unless a call failed or a listener was late: the listeners
\* make up for an attempt that threw before anything was saved.
FinalDocument ==
  \A n \in Ids :
    Quiet(n) /\ store[n] # Null /\ faults = 0 /\ ~overtaken[n] =>
      \/ at[n] = "completed" /\ store[n].status = "SENT"
      \/ at[n] = "exhausted" /\ store[n].status = "FAILED"

\* A delivery is told in spite of one fault: when nothing is at work on a
\* notification any more whose job was completed, its document says SENT, although
\* a save of the worker or of the listener was lost and nobody looked at what it
\* answered, unless a `failed' listener was late (processNotification, onCompleted).
DeliveredIsTold ==
  \A n \in Ids :
    Quiet(n) /\ at[n] = "completed" /\ faults <= 1 /\ ~overtaken[n] => HasStatus(n, {"SENT"})

\* A job in the queue comes to an end, through retries and crashes, and with it
\* everything that is at work on its notification.
JobsEnd == \A n \in Ids : at[n] = "queued" ~> Quiet(n)

\* Requests, worker, listeners and crashes implement the promised life of a
\* notification: nothing is given up that was delivered, and nothing delivered
\* that was not handed over.
Phase(n) ==
  CASE at[n] = "unsent" -> "none"
    [] at[n] = "refused" -> "refused"
    [] at[n] \in Requesting -> "accepted"
    [] at[n] \in {"unqueued", "lost"} -> "lost"
    [] at[n] = "queued" -> "open"
    [] at[n] = "completed" -> "delivered"
    [] at[n] = "exhausted" -> "given up"

D == INSTANCE Delivery WITH phase <- [n \in Ids |-> Phase(n)]

ImplementsDelivery == D!Spec

(* What a test says of a request, and the forms of a channel break *)

\* A request that passed the template's validation, to a valid address, is
\* answered with a notification: the e2e test `should successfully send email
\* notification' expects 201 and a pending notification.
ValidRequestAccepted ==
  \A n \in Ids :
    /\ asked[n] # Null /\ asked[n].address = "valid"
    /\ ValidTemplateRequest(asked[n].template, asked[n].channel, asked[n].given)
    => at[n] # "refused"

(* The strengthening under which the invariants above are inductive *)

\* what of a notification exists at each point of its way
WayShape(n) ==
  /\ job[n] # Null <=> at[n] = "queued"
  /\ run[n] # Null <=> job[n] # Null /\ job[n].state = "active"
  /\ at[n] \in Requesting \cup {"queued", "completed", "exhausted"} => note[n] # Null
  /\ note[n] # Null => note[n].status \in {"PENDING", "QUEUED"}
  /\ at[n] \notin AtQueue =>
       handed[n] = 0 /\ listening[n] = Silent /\ ~HasStatus(n, {"SENT", "FAILED"})
  /\ run[n] # Null /\ run[n].step = "send" => ~run[n].ok

\* what an attempt holds, and what it has done
RunShape(n) ==
  run[n] # Null =>
    /\ run[n].step \in {"send", "save"} => run[n].copy # Null
    /\ run[n].step = "save" =>
         run[n].copy.status = IF run[n].ok THEN "SENT" ELSE "FAILED"
    /\ run[n].step = "completed" => run[n].ok
    /\ run[n].step = "failed" => ~run[n].ok
    /\ run[n].ok => handed[n] > 0

Handled(n) == at[n] = "completed" \/ (run[n] # Null /\ run[n].ok)

\* every message handed over beyond the faults is that of the successful attempt
Evidence(n) ==
  /\ at[n] = "completed" => handed[n] > 0
  /\ listening[n].completed > 0 => at[n] = "completed"
  /\ handed[n] <= faults \/ (Handled(n) /\ handed[n] <= faults + 1)

\* a clean success is final
CleanSuccess(n) ==
  /\ HasStatus(n, {"SENT"}) /\ faults = 0 =>
       at[n] = "completed" \/ (run[n] # Null /\ run[n].step = "completed")
  /\ at[n] = "completed" \/ (run[n] # Null /\ run[n].step = "completed") =>
       overtaken[n] \/ listening[n].failed = 0

\* The inductive invariant: how far a notification has come, its job, the
\* attempt at work and what was handed over agree with one another.
DeliveryInv ==
  /\ TypeOK
  /\ \A n \in Ids : WayShape(n) /\ RunShape(n) /\ Evidence(n) /\ CleanSuccess(n)
  /\ SentIsSent
===============================================================================
