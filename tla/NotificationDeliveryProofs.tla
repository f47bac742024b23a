---------------------- MODULE NotificationDeliveryProofs ----------------------
(***************************************************************************)
(* For every set of notifications, templates and requests, any number of   *)
(* attempts and faults, and whatever forms of a channel the parts read.    *)
(***************************************************************************)
EXTENDS NotificationDeliveryProps, TLAPS

USE DEF Channels, Forms, Collection

\* the invariant, of one notification
Shapes(n) == WayShape(n) /\ RunShape(n) /\ Evidence(n) /\ CleanSuccess(n)

Records(n) == HasStatus(n, {"SENT"}) => handed[n] > 0

\* a step does nothing to a notification
Kept(m) ==
  /\ at'[m] = at[m] /\ note'[m] = note[m] /\ store'[m] = store[m]
  /\ job'[m] = job[m] /\ run'[m] = run[m] /\ listening'[m] = listening[m]
  /\ handed'[m] = handed[m] /\ overtaken'[m] = overtaken[m]

\* A request that is accepted becomes a well-formed notification.
LEMMA NewNotificationTyped ==
  ASSUME NEW c \in Requests
  PROVE  NewNotification(c) \in Notification
<1>1. c \in Command
  BY RequestsAssumption
<1> QED
  BY <1>1, DeliveryAssumption DEF NewNotification, Notification, Command

\* A notification that is marked stays one.
LEMMA MarkedTyped ==
  ASSUME NEW x \in Notification, NEW status \in {"PENDING", "QUEUED", "SENT", "FAILED"},
         NEW e \in BOOLEAN
  PROVE  /\ MarkAs(x, status, e) \in Notification
         /\ MarkAs(x, status, e).status = status
  BY DEF MarkAs, Notification

\* A save leaves other documents alone and this one as it was or as given.
LEMMA SaveEffect ==
  ASSUME TypeOK, NEW n \in Ids, NEW x \in Notification, SaveNotification(n, x)
  PROVE  /\ store' \in [Ids -> Notification \cup {Null}]
         /\ faults' \in 0..MaxFaults /\ faults' >= faults
         /\ store'[n] \in {store[n], x}
         /\ \A m \in Ids \ {n} : store'[m] = store[m]
         /\ faults' = faults \/ store' = store
  BY DeliveryAssumption DEF SaveNotification, Stored, Fault, NoFault, TypeOK

\* The initial state satisfies the invariant.
THEOREM InitDeliveryInv == Init => DeliveryInv
<1> SUFFICES ASSUME Init PROVE DeliveryInv
  OBVIOUS
<1>1. TypeOK
  BY DeliveryAssumption DEF Init, TypeOK, Silent, AtQueue, Requesting
<1>2. \A n \in Ids : Shapes(n)
  BY DEF Init, Shapes, WayShape, RunShape, Evidence, CleanSuccess, Handled, HasStatus,
         Silent, AtQueue, Requesting
<1>3. SentIsSent
  BY DEF Init, SentIsSent, HasStatus
<1> QED
  BY <1>1, <1>2, <1>3 DEF DeliveryInv, Shapes

\* The invariant is that of each notification.
LEMMA InvOfEach == DeliveryInv <=> TypeOK /\ \A n \in Ids : Shapes(n) /\ Records(n)
BY DEF DeliveryInv, Shapes, Records, SentIsSent

\* A step that does nothing to a notification keeps its part of the invariant.
LEMMA KeptHolds ==
  ASSUME TypeOK, faults' \in 0..MaxFaults, faults' >= faults,
         NEW m \in Ids, Shapes(m), Records(m), Kept(m)
  PROVE  Shapes(m)' /\ Records(m)'
<1>1. WayShape(m)' /\ RunShape(m)'
  BY DEF Shapes, Kept, WayShape, RunShape, HasStatus
<1>2. Evidence(m)'
  BY DeliveryAssumption DEF Shapes, Kept, Evidence, Handled, TypeOK
<1>3. CleanSuccess(m)'
  BY DeliveryAssumption DEF Shapes, Kept, CleanSuccess, HasStatus, TypeOK
<1>4. Records(m)'
  BY DEF Records, Kept, HasStatus
<1> QED
  BY <1>1, <1>2, <1>3, <1>4 DEF Shapes

\* what an action about one notification has to show
ActsOn(n) ==
  /\ TypeOK' /\ Shapes(n)' /\ Records(n)'
  /\ faults' >= faults
  /\ \A m \in Ids \ {n} : Kept(m)

\* It suffices to look at the notification an action is about.
LEMMA ActsOnPreserves ==
  ASSUME DeliveryInv, NEW n \in Ids, ActsOn(n)
  PROVE  DeliveryInv'
<1>1. faults' \in 0..MaxFaults
  BY DEF ActsOn, TypeOK
<1>2. ASSUME NEW m \in Ids PROVE Shapes(m)' /\ Records(m)'
  BY <1>1, InvOfEach, KeptHolds DEF ActsOn
<1>3. TypeOK'
  BY DEF ActsOn
<1>4. (TypeOK /\ \A m \in Ids : Shapes(m) /\ Records(m))'
  BY <1>2, <1>3
<1> QED
  BY <1>4 DEF DeliveryInv, Shapes, Records, SentIsSent

\* Sending: a notification is refused, or made from the request.
LEMMA SendNotificationStep ==
  ASSUME DeliveryInv, NEW n \in Ids, NEW c \in Requests, SendNotification(n, c)
  PROVE  ActsOn(n)
<1> USE DEF SendNotification
<1>0. TypeOK /\ Shapes(n) /\ Records(n)
  BY InvOfEach
<1>1. NewNotification(c) \in Notification
  BY NewNotificationTyped
<1>2. NewNotification(c).status = "PENDING"
  BY DEF NewNotification
<1>3. TypeOK'
  <2>1. asked' \in [Ids -> Command \cup {Null}]
    BY <1>0, RequestsAssumption DEF TypeOK
  <2>2. at' \in [Ids -> {"unsent", "refused", "unqueued", "lost"} \cup Requesting \cup AtQueue]
    BY <1>0 DEF TypeOK, Requesting
  <2>3. note' \in [Ids -> Notification \cup {Null}]
    BY <1>0, <1>1 DEF TypeOK
  <2> QED
    BY <1>0, <2>1, <2>2, <2>3 DEF TypeOK
<1>4. WayShape(n)' /\ RunShape(n)'
  BY <1>0, <1>1, <1>2, NullIsNoRecord
     DEF TypeOK, Shapes, WayShape, RunShape, HasStatus, Requesting, AtQueue, Silent
<1>5. Evidence(n)' /\ CleanSuccess(n)'
  BY <1>0 DEF TypeOK, Shapes, WayShape, Evidence, Handled, CleanSuccess, HasStatus, AtQueue, Silent
<1>6. Records(n)'
  BY <1>0, <1>1 DEF TypeOK, Records, HasStatus
<1>7. faults' >= faults /\ \A m \in Ids \ {n} : Kept(m)
  BY <1>0, DeliveryAssumption DEF Kept, TypeOK
<1> QED
  BY <1>3, <1>4, <1>5, <1>6, <1>7 DEF ActsOn, Shapes

\* Nothing was done yet about a notification that is not queued.
LEMMA NotQueuedYet ==
  ASSUME TypeOK, NEW n \in Ids, Shapes(n), at[n] \in Requesting
  PROVE  /\ job[n] = Null /\ run[n] = Null /\ handed[n] = 0 /\ listening[n] = Silent
         /\ ~HasStatus(n, {"SENT", "FAILED"})
         /\ note[n] \in Notification /\ note[n] # Null
         /\ note[n].status \in {"PENDING", "QUEUED"}
BY NullIsNoRecord DEF TypeOK, Shapes, WayShape, Requesting, AtQueue

\* As long as that is so, there is nothing to show of outcomes.
LEMMA NoOutcomeYet ==
  ASSUME TypeOK, faults' \in 0..MaxFaults, NEW n \in Ids, at[n] \in Requesting, Shapes(n),
         at'[n] # "completed", run' = run, handed' = handed, listening' = listening,
         ~HasStatus(n, {"SENT", "FAILED"})'
  PROVE  Evidence(n)' /\ CleanSuccess(n)'
<1>1. run'[n] = Null /\ handed'[n] = 0 /\ listening'[n].completed = 0
  BY NotQueuedYet DEF Silent
<1>2. Evidence(n)'
  <2>1. handed'[n] <= faults'
    BY <1>1, DeliveryAssumption
  <2> QED
    <3>1. ~(listening'[n].completed > 0)
      BY <1>1
    <3>2. at'[n] # "completed"
      OBVIOUS
    <3> QED
      BY <2>1, <3>1, <3>2, Zenon DEF Evidence
<1>3. CleanSuccess(n)'
  BY <1>1 DEF CleanSuccess, HasStatus
<1> QED
  BY <1>2, <1>3

\* Saving the pending notification and queueing it: no outcome is stored yet.
LEMMA SavePendingStep ==
  ASSUME DeliveryInv, NEW n \in Ids, SavePending(n)
  PROVE  ActsOn(n)
<1> USE DEF SavePending, QueueNotification
<1>0. TypeOK /\ Shapes(n) /\ Records(n)
  BY InvOfEach
<1>1. note[n] \in Notification /\ note[n].status \in {"PENDING", "QUEUED"}
  BY <1>0, NullIsNoRecord DEF TypeOK, Shapes, WayShape, Requesting
<1>2. /\ store' \in [Ids -> Notification \cup {Null}]
      /\ faults' \in 0..MaxFaults /\ faults' >= faults
      /\ store'[n] \in {store[n], note[n]}
      /\ \A m \in Ids \ {n} : store'[m] = store[m]
  BY <1>0, <1>1, SaveEffect
<1>3. MarkAsQueued(note[n]) \in Notification
      /\ MarkAsQueued(note[n]).status = "QUEUED"
  BY <1>1, MarkedTyped DEF MarkAsQueued
<1>4. /\ note' \in [Ids -> Notification \cup {Null}]
      /\ note'[n] \in {note[n], MarkAsQueued(note[n])}
      /\ at'[n] \in {"queue.save", "unqueued"}
  BY <1>0, <1>3 DEF TypeOK
<1>5. TypeOK'
  BY <1>0, <1>2, <1>4 DEF TypeOK, Requesting
<1>6. WayShape(n)' /\ RunShape(n)'
  BY <1>0, <1>1, <1>2, <1>3, <1>4, NullIsNoRecord
     DEF Shapes, WayShape, RunShape, HasStatus, Requesting, AtQueue
<1>7. ~HasStatus(n, {"SENT", "FAILED"})'
  BY <1>0, <1>1, <1>2, NotQueuedYet DEF HasStatus, Requesting
<1>8. Evidence(n)' /\ CleanSuccess(n)'
  BY <1>0, <1>2, <1>4, <1>7, NoOutcomeYet DEF Requesting
<1>10. Records(n)'
  BY <1>0, <1>7, NotQueuedYet DEF Records, HasStatus, Requesting
<1>11. \A m \in Ids \ {n} : Kept(m)
  BY <1>0, <1>2 DEF Kept, TypeOK
<1> QED
  BY <1>2, <1>5, <1>6, <1>8, <1>10, <1>11 DEF ActsOn, Shapes

\* Saving the queued notification: no outcome is stored yet.
LEMMA SaveQueuedStep ==
  ASSUME DeliveryInv, NEW n \in Ids, SaveQueued(n)
  PROVE  ActsOn(n)
<1> USE DEF SaveQueued
<1>0. TypeOK /\ Shapes(n) /\ Records(n)
  BY InvOfEach
<1>1. note[n] \in Notification /\ note[n].status \in {"PENDING", "QUEUED"}
  BY <1>0, NullIsNoRecord DEF TypeOK, Shapes, WayShape, Requesting
<1>2. /\ store' \in [Ids -> Notification \cup {Null}]
      /\ faults' \in 0..MaxFaults /\ faults' >= faults
      /\ store'[n] \in {store[n], note[n]}
      /\ \A m \in Ids \ {n} : store'[m] = store[m]
  BY <1>0, <1>1, SaveEffect
<1>3. TypeOK'
  BY <1>0, <1>2 DEF TypeOK, Requesting
<1>4. WayShape(n)' /\ RunShape(n)'
  BY <1>0, <1>1, <1>2, NullIsNoRecord
     DEF TypeOK, Shapes, WayShape, RunShape, HasStatus, Requesting, AtQueue
<1>5. ~HasStatus(n, {"SENT", "FAILED"})'
  BY <1>0, <1>1, <1>2, NotQueuedYet DEF HasStatus, Requesting
<1>6. Evidence(n)' /\ CleanSuccess(n)'
  BY <1>0, <1>2, <1>5, NoOutcomeYet DEF Requesting, TypeOK
<1>8. Records(n)'
  BY <1>0, <1>5, NotQueuedYet DEF Records, HasStatus, Requesting
<1>9. \A m \in Ids \ {n} : Kept(m)
  BY <1>0, <1>2 DEF Kept, TypeOK
<1> QED
  BY <1>2, <1>3, <1>4, <1>6, <1>8, <1>9 DEF ActsOn, Shapes

\* Adding the job: it waits, and nothing has been handed over.
LEMMA AddJobStep ==
  ASSUME DeliveryInv, NEW n \in Ids, AddJob(n)
  PROVE  ActsOn(n)
<1> USE DEF AddJob
<1>0. TypeOK /\ Shapes(n) /\ Records(n)
  BY InvOfEach
<1>1. faults' \in 0..MaxFaults /\ faults' >= faults
  BY <1>0, DeliveryAssumption DEF TypeOK, Fault, NoFault
<1> DEFINE j == [state |-> "waiting", made |-> 0, failed |-> FALSE, stalled |-> FALSE]
<1>2. j \in Job
  BY DeliveryAssumption DEF Job
<1>3. j # Null
  BY <1>2, NullIsNoRecord
<1>4. \/ at' = [at EXCEPT ![n] = "queued"] /\ job' = [job EXCEPT ![n] = j]
      \/ at' = [at EXCEPT ![n] = "lost"] /\ job' = job
  OBVIOUS
<1>5. j.state = "waiting"
  OBVIOUS
<1> HIDE DEF j
<1>6. job' \in [Ids -> Job \cup {Null}]
  BY <1>0, <1>2, <1>4 DEF TypeOK
<1>7. TypeOK'
  BY <1>0, <1>1, <1>4, <1>6 DEF TypeOK, AtQueue
<1>8. WayShape(n)' /\ RunShape(n)'
  BY <1>0, <1>3, <1>4, <1>5, NotQueuedYet
     DEF TypeOK, Shapes, WayShape, RunShape, HasStatus, Requesting, AtQueue
<1>9. Evidence(n)' /\ CleanSuccess(n)'
  BY <1>0, <1>1, <1>4, NotQueuedYet, NoOutcomeYet DEF TypeOK, Requesting, HasStatus
<1>10. Records(n)'
  BY <1>0 DEF Records, HasStatus
<1>11. \A m \in Ids \ {n} : Kept(m)
  BY <1>0, <1>4 DEF Kept, TypeOK
<1> QED
  BY <1>1, <1>7, <1>8, <1>9, <1>10, <1>11 DEF ActsOn, Shapes

\* Taking a job: the attempt starts from what was queued.
LEMMA TakeJobStep ==
  ASSUME DeliveryInv, NEW n \in Ids, TakeJob(n)
  PROVE  ActsOn(n)
<1> USE DEF TakeJob, NewRun
<1>0. TypeOK /\ Shapes(n) /\ Records(n)
  BY InvOfEach
<1>1. job[n] \in Job /\ at[n] = "queued" /\ run[n] = Null /\ note[n] \in Notification
  BY <1>0, NullIsNoRecord DEF TypeOK, Shapes, WayShape
<1> DEFINE x == [note[n] EXCEPT !.attempts = job[n].made, !.error = job[n].failed]
<1> DEFINE r == IF MakesNotification THEN [step |-> "send", ok |-> FALSE, copy |-> x]
                ELSE [step |-> "failed", ok |-> FALSE, copy |-> Null]
<1>2. x \in Notification
  BY <1>1 DEF Notification, Job
<1>3. r \in Run /\ ~r.ok /\ r.step \in {"send", "failed"} /\ r.copy \in {x, Null}
      /\ (r.step = "send" => r.copy # Null)
  BY <1>2, NullIsNoRecord DEF Run
<1>4. r # Null
  BY <1>3, NullIsNoRecord
<1>12. [job[n] EXCEPT !.state = "active"] \in Job
  BY <1>1 DEF Job
<1>13. job' = [job EXCEPT ![n] = [job[n] EXCEPT !.state = "active"]]
  OBVIOUS
<1>5. run' = [run EXCEPT ![n] = r] /\ job'[n] \in Job /\ job'[n].state = "active"
      /\ job' \in [Ids -> Job \cup {Null}]
  <2>1. run' = [run EXCEPT ![n] = r]
    OBVIOUS
  <2>2. job'[n] = [job[n] EXCEPT !.state = "active"]
    BY <1>0, <1>13 DEF TypeOK
  <2>3. [job[n] EXCEPT !.state = "active"].state = "active"
    BY <1>1 DEF Job
  <2>4. job' \in [Ids -> Job \cup {Null}]
    BY <1>0, <1>12, <1>13 DEF TypeOK
  <2> HIDE DEF r, x
  <2> QED
    BY <1>12, <2>1, <2>2, <2>3, <2>4
<1>6. TypeOK'
  BY <1>0, <1>3, <1>5 DEF TypeOK
<1>7. run'[n] = r /\ job'[n] # Null
  BY <1>0, <1>5, NullIsNoRecord DEF TypeOK
<1> HIDE DEF r, x
<1>8. WayShape(n)' /\ RunShape(n)'
  BY <1>0, <1>1, <1>3, <1>4, <1>5, <1>7
     DEF Shapes, WayShape, RunShape, HasStatus, Requesting, AtQueue
<1>9. Evidence(n)' /\ CleanSuccess(n)'
  BY <1>0, <1>1, <1>3, <1>7 DEF TypeOK, Shapes, Evidence, Handled, CleanSuccess, HasStatus
<1>10. Records(n)'
  BY <1>0 DEF Records, HasStatus
<1>11. faults' >= faults /\ \A m \in Ids \ {n} : Kept(m)
  BY <1>0, DeliveryAssumption DEF Kept, TypeOK
<1> QED
  BY <1>6, <1>8, <1>9, <1>10, <1>11 DEF ActsOn, Shapes

\* While a worker is at it, the job is active and was queued.
LEMMA AtWork ==
  ASSUME TypeOK, NEW n \in Ids, Shapes(n), run[n] # Null
  PROVE  /\ run[n] \in Run /\ job[n] \in Job /\ job[n] # Null
         /\ job[n].state = "active" /\ at[n] = "queued"
         /\ note[n] \in Notification /\ note[n] # Null
BY NullIsNoRecord DEF TypeOK, Shapes, WayShape

\* An attempt that was answered is still one, with the outcome the answer says.
LEMMA Answered ==
  ASSUME NEW r \in Run, r.copy \in Notification
  PROVE  /\ Sent(r) \in Run /\ Sent(r).step = "save" /\ Sent(r).ok = TRUE
         /\ Sent(r).copy = MarkAsSent(r.copy)
         /\ NotSent(r) \in Run /\ NotSent(r).step = "save" /\ NotSent(r).ok = r.ok
         /\ NotSent(r).copy = MarkAsFailed(r.copy, TRUE)
         /\ Thrown(r) \in Run /\ Thrown(r).step = "failed" /\ Thrown(r).ok = r.ok
         /\ Thrown(r).copy = r.copy
<1>1. MarkAsSent(r.copy) \in Notification /\ MarkAsFailed(r.copy, TRUE) \in Notification
  BY MarkedTyped DEF MarkAsSent, MarkAsFailed
<1> DEFINE s == MarkAsSent(r.copy)
           f == MarkAsFailed(r.copy, TRUE)
<1>2. /\ Sent(r) = [r EXCEPT !.step = "save", !.copy = s, !.ok = TRUE]
      /\ NotSent(r) = [r EXCEPT !.step = "save", !.copy = f]
      /\ Thrown(r) = [r EXCEPT !.step = "failed"]
  BY DEF Sent, NotSent, Thrown
<1> HIDE DEF s, f
<1>3. s \in Notification /\ f \in Notification
  BY <1>1 DEF s, f
<1>4. /\ Sent(r) \in Run /\ Sent(r).step = "save" /\ Sent(r).ok = TRUE
      /\ Sent(r).copy = s
  BY <1>2, <1>3 DEF Run
<1>5. /\ NotSent(r) \in Run /\ NotSent(r).step = "save" /\ NotSent(r).ok = r.ok
      /\ NotSent(r).copy = f
  BY <1>2, <1>3 DEF Run
<1>6. /\ Thrown(r) \in Run /\ Thrown(r).step = "failed" /\ Thrown(r).ok = r.ok
      /\ Thrown(r).copy = r.copy
  BY <1>2 DEF Run
<1> QED
  BY <1>4, <1>5, <1>6 DEF s, f

\* Sending: the attempt succeeds only when the message was handed over.
LEMMA SendStep ==
  ASSUME DeliveryInv, NEW n \in Ids, Send(n)
  PROVE  ActsOn(n)
<1> USE DEF Send, SendEmail, SendSms, MailFails, GoOn
<1>0. TypeOK /\ Shapes(n) /\ Records(n)
  BY InvOfEach
<1>1. run[n] # Null /\ run[n].step = "send"
  OBVIOUS
<1>2. /\ run[n] \in Run /\ job[n] # Null /\ job[n].state = "active" /\ at[n] = "queued"
      /\ run[n].ok = FALSE /\ run[n].copy \in Notification
  BY <1>0, <1>1, AtWork, NullIsNoRecord DEF Shapes, WayShape, RunShape, Run
<1>3. /\ MarkAsSent(run[n].copy) \in Notification
      /\ MarkAsSent(run[n].copy).status = "SENT"
      /\ MarkAsFailed(run[n].copy, TRUE) \in Notification
      /\ MarkAsFailed(run[n].copy, TRUE).status = "FAILED"
  BY <1>2, MarkedTyped DEF MarkAsSent, MarkAsFailed
<1>4. PICK r \in {Sent(run[n]), NotSent(run[n]), Thrown(run[n])} :
        /\ run' = [run EXCEPT ![n] = r]
        /\ \/ r = Sent(run[n]) /\ HandOver(n) /\ NoFault
           \/ /\ r \in {NotSent(run[n]), Thrown(run[n])}
              /\ (UNCHANGED handed /\ NoFault) \/ (HandOver(n) /\ Fault)
  OBVIOUS
<1>5. /\ r \in Run
      /\ \/ r.step = "save" /\ r.ok = TRUE /\ r.copy = MarkAsSent(run[n].copy)
         \/ r.step = "save" /\ r.ok = FALSE /\ r.copy = MarkAsFailed(run[n].copy, TRUE)
         \/ r.step = "failed" /\ r.ok = FALSE /\ r.copy = run[n].copy
  <2>1. CASE r = Sent(run[n])
    BY <1>2, <2>1, Answered
  <2>2. CASE r = NotSent(run[n])
    BY <1>2, <2>2, Answered
  <2>3. CASE r = Thrown(run[n])
    BY <1>2, <2>3, Answered
  <2> QED
    BY <1>4, <2>1, <2>2, <2>3
<1>6. r # Null /\ run'[n] = r
  BY <1>0, <1>4, <1>5, NullIsNoRecord DEF TypeOK
<1>7. r.copy \in Notification /\ r.copy # Null
  BY <1>2, <1>3, <1>5, NullIsNoRecord
<1>8. /\ handed' \in [Ids -> Nat] /\ faults' \in 0..MaxFaults /\ faults' >= faults
      /\ \A m \in Ids \ {n} : handed'[m] = handed[m]
      /\ \/ handed'[n] = handed[n] /\ faults' = faults /\ r.ok = FALSE
         \/ handed'[n] = handed[n] + 1 /\ faults' = faults /\ r.ok = TRUE
         \/ handed'[n] = handed[n] + 1 /\ faults' = faults + 1 /\ r.ok = FALSE
  <2> HIDE DEF Send, SendEmail, SendSms, MailFails, GoOn
  <2>1. handed \in [Ids -> Nat] /\ faults \in 0..MaxFaults /\ MaxFaults \in Nat
    BY <1>0, DeliveryAssumption DEF TypeOK
  <2>2. /\ Sent(run[n]).ok = TRUE /\ NotSent(run[n]).ok = FALSE
        /\ Thrown(run[n]).ok = FALSE
    BY <1>2, Answered
  <2>3. CASE r = Sent(run[n]) /\ HandOver(n) /\ NoFault
    BY <2>1, <2>2, <2>3 DEF HandOver, NoFault
  <2>4. CASE r \in {NotSent(run[n]), Thrown(run[n])} /\ UNCHANGED handed /\ NoFault
    BY <2>1, <2>2, <2>4 DEF NoFault
  <2>5. CASE r \in {NotSent(run[n]), Thrown(run[n])} /\ HandOver(n) /\ Fault
    BY <2>1, <2>2, <2>5 DEF HandOver, Fault
  <2> QED
    BY <1>4, <2>3, <2>4, <2>5
<1>9. TypeOK'
  BY <1>0, <1>4, <1>5, <1>8 DEF TypeOK
<1>10. WayShape(n)' /\ RunShape(n)'
  <2>1. WayShape(n)'
    BY <1>0, <1>2, <1>5, <1>6 DEF Shapes, WayShape, HasStatus, AtQueue, Requesting
  <2>2. r.ok => handed'[n] > 0
    BY <1>0, <1>8 DEF TypeOK
  <2>3. RunShape(n)'
    BY <1>3, <1>5, <1>6, <1>7, <2>2 DEF RunShape
  <2> QED
    BY <2>1, <2>3
<1>11. Evidence(n)' /\ CleanSuccess(n)'
  <2>1. handed[n] \in Nat /\ faults \in Nat /\ handed[n] <= faults
    BY <1>0, <1>2, DeliveryAssumption DEF TypeOK, Shapes, Evidence, Handled
  <2>2. Evidence(n)'
    BY <1>0, <1>2, <1>6, <1>8, <2>1 DEF Shapes, Evidence, Handled, AtQueue
  <2>3. HasStatus(n, {"SENT"}) => faults # 0
    BY <1>0, <1>1, <1>2 DEF Shapes, CleanSuccess, HasStatus
  <2>4. HasStatus(n, {"SENT"})' => faults' # 0
    BY <1>8, <2>1, <2>3 DEF HasStatus
  <2>5. CleanSuccess(n)'
    BY <1>2, <1>5, <1>6, <2>4 DEF CleanSuccess
  <2> QED
    BY <2>2, <2>5
<1>12. Records(n)'
  BY <1>0, <1>8 DEF Records, HasStatus, TypeOK
<1>13. \A m \in Ids \ {n} : Kept(m)
  BY <1>0, <1>4, <1>8 DEF Kept, TypeOK
<1> QED
  BY <1>8, <1>9, <1>10, <1>11, <1>12, <1>13 DEF ActsOn, Shapes

\* Saving the outcome: what is saved is what the attempt came to.
LEMMA SaveOutcomeStep ==
  ASSUME DeliveryInv, NEW n \in Ids, SaveOutcome(n)
  PROVE  ActsOn(n)
<1>0. TypeOK /\ Shapes(n) /\ Records(n)
  BY InvOfEach
<1> DEFINE step == IF run[n].ok THEN "completed" ELSE "failed"
           r == [run[n] EXCEPT !.step = step]
           x == run[n].copy
<1>1. /\ run[n] # Null /\ run[n].step = "save" /\ run' = [run EXCEPT ![n] = r]
      /\ SaveNotification(n, x)
      /\ overtaken' = [overtaken EXCEPT ![n] = @ \/ listening[n].failed > 0]
      /\ UNCHANGED <<asked, at, note, job, listening, handed>>
  BY DEF SaveOutcome, GoOn
<1>2. /\ run[n] \in Run /\ job[n] # Null /\ job[n].state = "active" /\ at[n] = "queued"
      /\ x \in Notification /\ x.status = (IF run[n].ok THEN "SENT" ELSE "FAILED")
      /\ run[n].ok => handed[n] > 0
  BY <1>0, <1>1, AtWork, NullIsNoRecord DEF Shapes, RunShape, Run
<1>3. /\ r \in Run /\ r.step = step /\ r.copy = x /\ r.ok = run[n].ok
      /\ step \in {"completed", "failed"} /\ (step = "completed" <=> run[n].ok)
  BY <1>2 DEF Run
<1>4. r # Null /\ run'[n] = r
  BY <1>0, <1>1, <1>3, NullIsNoRecord DEF TypeOK
<1>5. /\ store' \in [Ids -> Notification \cup {Null}]
      /\ faults' \in 0..MaxFaults /\ faults' >= faults
      /\ store'[n] \in {store[n], x}
      /\ \A m \in Ids \ {n} : store'[m] = store[m]
  BY <1>0, <1>1, <1>2, SaveEffect
<1>6. /\ overtaken' \in [Ids -> BOOLEAN]
      /\ overtaken'[n] \/ listening[n].failed = 0
      /\ \A m \in Ids \ {n} : overtaken'[m] = overtaken[m]
  <2> DEFINE late == overtaken[n] \/ listening[n].failed > 0
  <2>1. overtaken' = [overtaken EXCEPT ![n] = late]
    BY <1>1
  <2>2. late \in BOOLEAN
    OBVIOUS
  <2>3. listening[n].failed \in Nat
    BY <1>0 DEF TypeOK
  <2>4. late \/ listening[n].failed = 0
    BY <2>3
  <2> HIDE DEF late
  <2> QED
    BY <1>0, <2>1, <2>2, <2>4 DEF TypeOK
<1> HIDE DEF r, x, step
<1>7. TypeOK'
  BY <1>0, <1>1, <1>3, <1>5, <1>6 DEF TypeOK
<1>8. WayShape(n)' /\ RunShape(n)'
  <2>1. WayShape(n)'
    BY <1>0, <1>1, <1>2, <1>3, <1>4
       DEF Shapes, WayShape, HasStatus, AtQueue, Requesting
  <2>2. r.step # "send" /\ r.step # "save" /\ r.copy # Null
    BY <1>2, <1>3, NullIsNoRecord
  <2>3. (r.step = "completed" => r.ok) /\ (r.step = "failed" => ~r.ok)
    BY <1>3
  <2>4. r.ok => handed'[n] > 0
    BY <1>1, <1>2, <1>3
  <2>5. RunShape(n)'
    BY <1>4, <2>2, <2>3, <2>4 DEF RunShape
  <2> QED
    BY <2>1, <2>5
<1>9. Evidence(n)'
  BY <1>0, <1>1, <1>3, <1>4, <1>5, DeliveryAssumption
     DEF TypeOK, Shapes, Evidence, Handled
<1>10. CleanSuccess(n)'
  <2>1. HasStatus(n, {"SENT"})' /\ faults' = 0 => step = "completed"
    BY <1>0, <1>1, <1>2, <1>3, <1>5, DeliveryAssumption
       DEF TypeOK, Shapes, CleanSuccess, HasStatus
  <2> QED
    BY <1>1, <1>3, <1>4, <1>6, <2>1 DEF CleanSuccess
<1>11. Records(n)'
  BY <1>0, <1>1, <1>2, <1>5 DEF Records, HasStatus
<1>12. \A m \in Ids \ {n} : Kept(m)
  BY <1>0, <1>1, <1>5, <1>6 DEF Kept, TypeOK
<1> QED
  BY <1>5, <1>7, <1>8, <1>9, <1>10, <1>11, <1>12 DEF ActsOn, Shapes

\* Completing the job: only a successful attempt does.
LEMMA CompleteJobStep ==
  ASSUME DeliveryInv, NEW n \in Ids, CompleteJob(n)
  PROVE  ActsOn(n)
<1> USE DEF CompleteJob
<1>0. TypeOK /\ Shapes(n) /\ Records(n)
  BY InvOfEach
<1>1. run[n] # Null /\ at[n] = "queued" /\ note[n] # Null
  BY <1>0, AtWork
<1>2. run[n].ok /\ handed[n] > 0
  BY <1>0, <1>1 DEF Shapes, RunShape
<1>3. /\ listening' \in [Ids -> [completed: Nat, failed: Nat]]
      /\ listening'[n].failed = listening[n].failed
  BY <1>0 DEF TypeOK
<1>4. job'[n] = Null /\ run'[n] = Null /\ at'[n] = "completed"
  BY <1>0 DEF TypeOK
<1>5. TypeOK'
  BY <1>0, <1>3 DEF TypeOK, AtQueue
<1>6. WayShape(n)' /\ RunShape(n)'
  BY <1>0, <1>1, <1>4 DEF Shapes, WayShape, RunShape, HasStatus, AtQueue
<1>7. Evidence(n)'
  BY <1>0, <1>2, <1>4, DeliveryAssumption DEF TypeOK, Shapes, Evidence, Handled
<1>8. CleanSuccess(n)'
  BY <1>0, <1>1, <1>3, <1>4 DEF Shapes, CleanSuccess
<1>9. Records(n)'
  BY <1>0, <1>4 DEF Records, HasStatus
<1>10. faults' >= faults /\ \A m \in Ids \ {n} : Kept(m)
  BY <1>0, DeliveryAssumption DEF Kept, TypeOK
<1> QED
  BY <1>5, <1>6, <1>7, <1>8, <1>9, <1>10 DEF ActsOn, Shapes

\* Failing the job: it waits for its next attempt or is gone.
LEMMA FailJobStep ==
  ASSUME DeliveryInv, NEW n \in Ids, FailJob(n)
  PROVE  ActsOn(n)
<1> USE DEF FailJob
<1>0. TypeOK /\ Shapes(n) /\ Records(n)
  BY InvOfEach
<1>1. run[n] # Null /\ at[n] = "queued" /\ note[n] # Null /\ job[n] \in Job
  BY <1>0, AtWork
<1>2. ~run[n].ok /\ run[n].step = "failed"
  BY <1>0, <1>1 DEF Shapes, RunShape
<1>3. /\ listening' \in [Ids -> [completed: Nat, failed: Nat]]
      /\ listening'[n].completed = listening[n].completed
  BY <1>0 DEF TypeOK
<1> DEFINE j == [job[n] EXCEPT !.state = "delayed", !.failed = TRUE,
                              !.made = IF @ < Attempts THEN @ + 1 ELSE @]
<1>4. j \in Job /\ j.state = "delayed"
  <2>1. (IF job[n].made < Attempts THEN job[n].made + 1 ELSE job[n].made) \in 0..Attempts
    BY <1>1, DeliveryAssumption DEF Job
  <2> QED
    BY <1>1, <2>1 DEF Job
<1>5. j # Null
  BY <1>4, NullIsNoRecord
<1>6. \/ job' = [job EXCEPT ![n] = j] /\ at' = at
      \/ job' = [job EXCEPT ![n] = Null] /\ at' = [at EXCEPT ![n] = "exhausted"]
  OBVIOUS
<1> HIDE DEF j
<1>7. run'[n] = Null
  BY <1>0 DEF TypeOK
<1>8. TypeOK'
  <2>1. at' \in [Ids -> {"unsent", "refused", "unqueued", "lost"} \cup Requesting \cup AtQueue]
    BY <1>0, <1>6 DEF TypeOK, AtQueue
  <2>2. job' \in [Ids -> Job \cup {Null}]
    BY <1>0, <1>4, <1>6 DEF TypeOK
  <2>3. run' \in [Ids -> Run \cup {Null}]
    BY <1>0 DEF TypeOK
  <2>4. UNCHANGED <<asked, note, store, handed, overtaken, faults>>
    OBVIOUS
  <2> HIDE DEF FailJob
  <2> QED
    BY <1>0, <1>3, <2>1, <2>2, <2>3, <2>4 DEF TypeOK
<1>9. WayShape(n)' /\ RunShape(n)'
  BY <1>0, <1>1, <1>4, <1>5, <1>6, <1>7
     DEF TypeOK, Shapes, WayShape, RunShape, HasStatus, AtQueue, Requesting
<1>10. at'[n] \in {"queued", "exhausted"}
  BY <1>0, <1>1, <1>6 DEF TypeOK
<1>11. Evidence(n)'
  BY <1>0, <1>1, <1>2, <1>3, <1>7, <1>10 DEF Shapes, Evidence, Handled
<1>12. CleanSuccess(n)'
  BY <1>0, <1>1, <1>2, <1>7, <1>10 DEF Shapes, CleanSuccess, HasStatus
<1>13. Records(n)'
  BY <1>0, <1>7 DEF Records, HasStatus
<1>14. faults' >= faults /\ \A m \in Ids \ {n} : Kept(m)
  BY <1>0, <1>6, DeliveryAssumption DEF Kept, TypeOK
<1> QED
  BY <1>8, <1>9, <1>11, <1>12, <1>13, <1>14 DEF ActsOn, Shapes

\* After its delay a job waits again.
LEMMA RetryJobStep ==
  ASSUME DeliveryInv, NEW n \in Ids, RetryJob(n)
  PROVE  ActsOn(n)
<1> USE DEF RetryJob
<1>0. TypeOK /\ Shapes(n) /\ Records(n)
  BY InvOfEach
<1> DEFINE j == [job[n] EXCEPT !.state = "waiting"]
<1>1. job[n] \in Job /\ job[n] # Null /\ job[n].state = "delayed"
  BY <1>0 DEF TypeOK
<1>2. j \in Job /\ j.state = "waiting" /\ job' = [job EXCEPT ![n] = j]
  BY <1>1 DEF Job
<1>3. j # Null /\ job'[n] = j /\ at[n] = "queued" /\ run[n] = Null
  BY <1>0, <1>1, <1>2, NullIsNoRecord DEF TypeOK, Shapes, WayShape
<1> HIDE DEF j
<1>4. TypeOK'
  BY <1>0, <1>2 DEF TypeOK
<1>5. WayShape(n)' /\ RunShape(n)'
  BY <1>0, <1>1, <1>2, <1>3 DEF Shapes, WayShape, RunShape, HasStatus
<1>6. Evidence(n)' /\ CleanSuccess(n)' /\ Records(n)'
  BY <1>0 DEF Shapes, Evidence, Handled, CleanSuccess, Records, HasStatus
<1>7. faults' >= faults /\ \A m \in Ids \ {n} : Kept(m)
  BY <1>0, <1>2, DeliveryAssumption DEF Kept, TypeOK
<1> QED
  BY <1>4, <1>5, <1>6, <1>7 DEF ActsOn, Shapes

\* What a listener may save: the notification as it was queued, marked as failed,
\* or as sent when it was handed over.
ListenerSaves(n, x) ==
  /\ x \in Notification
  /\ x.status = "FAILED" \/ (x.status = "SENT" /\ at[n] = "completed")
  /\ SaveAs(n, x)

\* Whatever a listener saves, and whenever, the invariant holds.
LEMMA ListenerStep ==
  ASSUME DeliveryInv, NEW n \in Ids, NEW x, ListenerSaves(n, x), at[n] \in AtQueue,
         listening' \in [Ids -> [completed: Nat, failed: Nat]],
         listening'[n].completed <= listening[n].completed,
         listening'[n].failed <= listening[n].failed,
         \A m \in Ids \ {n} : listening'[m] = listening[m],
         UNCHANGED <<asked, at, note, job, run, handed, overtaken>>
  PROVE  ActsOn(n)
<1>0. TypeOK /\ Shapes(n) /\ Records(n)
  BY InvOfEach
<1>1. /\ store' \in [Ids -> Notification \cup {Null}]
      /\ faults' \in 0..MaxFaults /\ faults' >= faults
      /\ store'[n] \in {store[n], x}
      /\ \A m \in Ids \ {n} : store'[m] = store[m]
  <2>1. CASE SaveNotification(n, x)
    BY <1>0, <2>1, SaveEffect DEF ListenerSaves
  <2>2. CASE UNCHANGED <<store, faults>>
    BY <1>0, <2>2, DeliveryAssumption DEF TypeOK
  <2> QED
    BY <2>1, <2>2 DEF ListenerSaves, SaveAs
<1>2. /\ x \in Notification /\ x # Null
      /\ x.status = "FAILED" \/ (x.status = "SENT" /\ at[n] = "completed")
  BY NullIsNoRecord DEF ListenerSaves
<1>3. TypeOK'
  BY <1>0, <1>1 DEF TypeOK
<1>4. WayShape(n)' /\ RunShape(n)'
  BY <1>0 DEF Shapes, WayShape, RunShape, HasStatus
<1>5. /\ listening[n] \in [completed: Nat, failed: Nat]
      /\ listening'[n] \in [completed: Nat, failed: Nat]
      /\ handed[n] \in Nat /\ faults \in Nat /\ faults' \in Nat
  BY <1>0, <1>1, DeliveryAssumption DEF TypeOK
<1>6. Evidence(n)'
  BY <1>0, <1>1, <1>5 DEF Shapes, Evidence, Handled
<1>7. CleanSuccess(n)'
  <2>1. faults' = 0 => faults = 0
    BY <1>1, <1>5
  <2>2. HasStatus(n, {"SENT"})' => HasStatus(n, {"SENT"}) \/ at[n] = "completed"
    BY <1>1, <1>2 DEF HasStatus
  <2>3. listening[n].failed = 0 => listening'[n].failed = 0
    BY <1>5
  <2> QED
    BY <1>0, <2>1, <2>2, <2>3 DEF Shapes, CleanSuccess
<1>8. Records(n)'
  BY <1>0, <1>1, <1>2 DEF Records, HasStatus, Shapes, Evidence
<1>9. \A m \in Ids \ {n} : Kept(m)
  BY <1>1 DEF Kept
<1> QED
  BY <1>1, <1>3, <1>4, <1>6, <1>7, <1>8, <1>9 DEF ActsOn, Shapes

\* The `failed' listener.
LEMMA OnFailedStep ==
  ASSUME DeliveryInv, NEW n \in Ids, OnFailed(n)
  PROVE  ActsOn(n)
<1> USE DEF OnFailed
<1>0. TypeOK /\ Shapes(n)
  BY InvOfEach
<1>1. listening[n] \in [completed: Nat, failed: Nat] /\ listening[n].failed > 0
  BY <1>0 DEF TypeOK
<1>2. at[n] \in AtQueue
  BY <1>0, <1>1 DEF Shapes, WayShape, Silent
<1>3. note[n] \in Notification
  BY <1>0, <1>2 DEF TypeOK, Shapes, WayShape, AtQueue
<1>4. ListenerSaves(n, MarkAsFailed(note[n], FALSE))
  BY <1>3, MarkedTyped DEF MarkAsFailed, ListenerSaves
<1>5. [listening[n] EXCEPT !.failed = @ - 1] \in [completed: Nat, failed: Nat]
  BY <1>1
<1>6. /\ listening' \in [Ids -> [completed: Nat, failed: Nat]]
      /\ listening'[n].completed <= listening[n].completed
      /\ listening'[n].failed <= listening[n].failed
      /\ \A m \in Ids \ {n} : listening'[m] = listening[m]
  BY <1>0, <1>1, <1>5 DEF TypeOK
<1> QED
  BY <1>2, <1>4, <1>6, ListenerStep

\* The `completed' listener: its job was done, so its message was handed over.
LEMMA OnCompletedStep ==
  ASSUME DeliveryInv, NEW n \in Ids, OnCompleted(n)
  PROVE  ActsOn(n)
<1> USE DEF OnCompleted
<1>0. TypeOK /\ Shapes(n)
  BY InvOfEach
<1>1. listening[n] \in [completed: Nat, failed: Nat] /\ listening[n].completed > 0
  BY <1>0 DEF TypeOK
<1>2. at[n] = "completed" /\ at[n] \in AtQueue
  BY <1>0, <1>1 DEF Shapes, Evidence, AtQueue
<1>3. note[n] \in Notification
  BY <1>0, <1>2 DEF TypeOK, Shapes, WayShape
<1>4. ListenerSaves(n, MarkAsSent(note[n]))
  BY <1>2, <1>3, MarkedTyped DEF MarkAsSent, ListenerSaves
<1>5. [listening[n] EXCEPT !.completed = @ - 1] \in [completed: Nat, failed: Nat]
  BY <1>1
<1>6. /\ listening' \in [Ids -> [completed: Nat, failed: Nat]]
      /\ listening'[n].completed <= listening[n].completed
      /\ listening'[n].failed <= listening[n].failed
      /\ \A m \in Ids \ {n} : listening'[m] = listening[m]
  BY <1>0, <1>1, <1>5 DEF TypeOK
<1> QED
  BY <1>2, <1>4, <1>6, ListenerStep

\* A crash: requests at work are lost, jobs at work are taken again or given up.
LEMMA CrashStep ==
  ASSUME DeliveryInv, Crash
  PROVE  DeliveryInv'
<1>0. TypeOK /\ \A n \in Ids : Shapes(n) /\ Records(n)
  BY InvOfEach
<1>1. /\ UNCHANGED <<asked, note, store, handed, overtaken>>
      /\ faults' \in 0..MaxFaults /\ faults' = faults + 1 /\ faults \in Nat
  <2>1. faults \in 0..MaxFaults /\ MaxFaults \in Nat
    BY <1>0, DeliveryAssumption DEF TypeOK
  <2>2. faults < MaxFaults /\ faults' = faults + 1
    BY DEF Crash, Fault
  <2>3. UNCHANGED <<asked, note, store, handed, overtaken>>
    BY DEF Crash
  <2> QED
    BY <2>1, <2>2, <2>3
<1>2. \A n \in Ids : run'[n] = Null /\ listening'[n] = Silent
  BY DEF Crash
<1>3. ASSUME NEW n \in Ids
      PROVE  /\ at'[n] = IF at[n] \in Requesting THEN "lost"
                         ELSE IF StalledTwice(n) THEN "exhausted" ELSE at[n]
             /\ job'[n] = IF run[n] = Null THEN job[n]
                          ELSE IF StalledTwice(n) THEN Null
                          ELSE [job[n] EXCEPT !.state = "waiting", !.stalled = TRUE]
  BY DEF Crash
<1>4. ASSUME NEW n \in Ids
      PROVE  \/ at[n] \in Requesting /\ at'[n] = "lost" /\ job'[n] = Null
             \/ run[n] = Null /\ at'[n] = at[n] /\ job'[n] = job[n]
             \/ run[n] # Null /\ at'[n] = "exhausted" /\ job'[n] = Null
             \/ /\ run[n] # Null /\ at'[n] = at[n] /\ job'[n] \in Job
                /\ job'[n].state = "waiting"
  <2>1. CASE run[n] = Null
    BY <1>0, <1>3, <2>1, NotQueuedYet DEF StalledTwice
  <2>2. CASE run[n] # Null
    <3>1. job[n] \in Job /\ at[n] \notin Requesting
      BY <1>0, <2>2, AtWork DEF Requesting
    <3>2. [job[n] EXCEPT !.state = "waiting", !.stalled = TRUE] \in Job
      BY <3>1 DEF Job
    <3>3. [job[n] EXCEPT !.state = "waiting", !.stalled = TRUE].state = "waiting"
      BY <3>1 DEF Job
    <3> QED
      BY <1>3, <2>2, <3>1, <3>2, <3>3
  <2> QED
    BY <2>1, <2>2
<1>5. TypeOK'
  <2>1. at' \in [Ids -> {"unsent", "refused", "unqueued", "lost"} \cup Requesting \cup AtQueue]
    <3>1. at' = [n \in Ids |-> at'[n]]
      BY DEF Crash
    <3>2. \A n \in Ids : at'[n] \in {"lost", "exhausted", at[n]}
      BY <1>4
    <3> QED
      BY <1>0, <3>1, <3>2 DEF TypeOK, AtQueue
  <2>2. job' \in [Ids -> Job \cup {Null}]
    <3>1. job' = [n \in Ids |-> job'[n]]
      BY DEF Crash
    <3>2. \A n \in Ids : job'[n] \in Job \cup {Null}
      BY <1>0, <1>4 DEF TypeOK
    <3> QED
      BY <3>1, <3>2
  <2>3. run' \in [Ids -> Run \cup {Null}]
    BY DEF Crash
  <2>4. listening' \in [Ids -> [completed: Nat, failed: Nat]]
    BY DEF Crash, Silent
  <2> QED
    BY <1>0, <1>1, <2>1, <2>2, <2>3, <2>4 DEF TypeOK
<1>6. ASSUME NEW n \in Ids
      PROVE  Shapes(n)' /\ Records(n)'
  <2>1. WayShape(n)' /\ RunShape(n)'
    <3>1. Shapes(n)
      BY <1>0
    <3>2. run[n] # Null => at[n] = "queued" /\ note[n] # Null
      BY <1>0, AtWork
    <3>3. job'[n] \in Job => job'[n] # Null
      BY NullIsNoRecord
    <3>4. run'[n] = Null /\ listening'[n] = Silent
      BY <1>2
    <3> QED
      BY <1>1, <1>4, <3>1, <3>2, <3>3, <3>4
         DEF Shapes, WayShape, RunShape, HasStatus, AtQueue, Requesting
  <2>2. at'[n] = "completed" <=> at[n] = "completed"
    BY <1>0, <1>4, AtWork DEF Requesting
  <2>3. handed[n] \in Nat /\ handed'[n] = handed[n] /\ handed[n] <= faults + 1
    BY <1>0, <1>1 DEF TypeOK, Shapes, Evidence
  <2>4. listening'[n].completed = 0 /\ listening'[n].failed = 0
    BY <1>2 DEF Silent
  <2>5. Evidence(n)'
    BY <1>0, <1>1, <2>2, <2>3, <2>4 DEF Shapes, Evidence
  <2>6. CleanSuccess(n)'
    BY <1>1, <2>4 DEF CleanSuccess
  <2>7. Records(n)'
    BY <1>0, <1>1, <1>2 DEF Records, HasStatus
  <2> QED
    BY <2>1, <2>5, <2>6, <2>7 DEF Shapes
<1> QED
  BY <1>5, <1>6 DEF DeliveryInv, Shapes, Records, SentIsSent

\* Every step preserves the invariant.
THEOREM NextDeliveryInv == DeliveryInv /\ [DeliveryNext]_nvars => DeliveryInv'
<1> SUFFICES ASSUME DeliveryInv, [DeliveryNext]_nvars PROVE DeliveryInv'
  OBVIOUS
<1>1. CASE UNCHANGED nvars
  BY <1>1 DEF nvars, DeliveryInv, TypeOK, WayShape, RunShape, Evidence, Handled, CleanSuccess,
              HasStatus, SentIsSent
<1>2. CASE Crash
  BY <1>2, CrashStep
<1>3. ASSUME NEW n \in Ids, (\E c \in Requests : SendNotification(n, c)) \/ Proceed(n)
      PROVE  ActsOn(n)
  BY <1>3, SendNotificationStep, SavePendingStep, SaveQueuedStep, AddJobStep DEF Proceed
<1>4. ASSUME NEW n \in Ids, Work(n) PROVE ActsOn(n)
  BY <1>4, TakeJobStep, SendStep, SaveOutcomeStep, CompleteJobStep, FailJobStep, RetryJobStep
     DEF Work
<1>5. ASSUME NEW n \in Ids, Listen(n) PROVE ActsOn(n)
  BY <1>5, OnFailedStep, OnCompletedStep DEF Listen
<1> QED
  BY <1>1, <1>2, <1>3, <1>4, <1>5, ActsOnPreserves DEF DeliveryNext

-------------------------------------------------------------------------------

\* The inductive invariant holds of every behaviour of the notification module.
THEOREM DeliveryInvHolds == DeliverySpec => []DeliveryInv
BY InitDeliveryInv, NextDeliveryInv, PTL DEF DeliverySpec

\* Its state is well-formed.
THEOREM DeliveryTypeCorrect == DeliverySpec => []TypeOK
<1>1. DeliveryInv => TypeOK
  BY DEF DeliveryInv
<1> QED
  BY <1>1, DeliveryInvHolds, PTL

\* A document says SENT only of a notification that was handed to its channel.
THEOREM SentIsSentHolds == DeliverySpec => []SentIsSent
<1>1. DeliveryInv => SentIsSent
  BY DEF DeliveryInv
<1> QED
  BY <1>1, DeliveryInvHolds, PTL

\* A notification is handed over again only after a fault, once more for each.
THEOREM NoDuplicateHolds == DeliverySpec => []NoDuplicateWithoutFault
<1>1. DeliveryInv => NoDuplicateWithoutFault
  <2> SUFFICES ASSUME DeliveryInv, NEW n \in Ids PROVE handed[n] <= 1 + faults
    BY DEF NoDuplicateWithoutFault
  <2>1. handed[n] \in Nat /\ faults \in Nat
    BY DeliveryAssumption DEF DeliveryInv, TypeOK
  <2> QED
    BY <2>1 DEF DeliveryInv, Evidence
<1> QED
  BY <1>1, DeliveryInvHolds, PTL

-------------------------------------------------------------------------------

\* what OutcomeStays says of one notification
OutcomeKept(n) ==
  /\ HasStatus(n, {"SENT", "FAILED"}) => HasStatus(n, {"SENT", "FAILED"})'
  /\ HasStatus(n, {"SENT"}) /\ ~HasStatus(n, {"SENT"})' => faults > 0 \/ overtaken[n]

\* A save of an outcome replaces no other status, and SENT only when that is said.
LEMMA SavedOutcome ==
  ASSUME TypeOK, NEW n \in Ids, NEW x \in Notification, x.status \in {"SENT", "FAILED"},
         store'[n] \in {store[n], x}, \A m \in Ids \ {n} : store'[m] = store[m],
         x.status = "FAILED" /\ HasStatus(n, {"SENT"}) => faults # 0 \/ overtaken[n]
  PROVE  \A m \in Ids : OutcomeKept(m)
<1>1. x # Null /\ faults \in Nat
  BY NullIsNoRecord, DeliveryAssumption DEF TypeOK
<1> QED
  BY <1>1 DEF OutcomeKept, HasStatus

\* The worker saves an outcome, which is a success when the attempt was one.
LEMMA SaveOutcomeKeeps ==
  ASSUME DeliveryInv, NEW n \in Ids, SaveOutcome(n)
  PROVE  \A m \in Ids : OutcomeKept(m)
<1>0. TypeOK /\ Shapes(n)
  BY InvOfEach
<1> DEFINE x == run[n].copy
<1>1. run[n] # Null /\ run[n].step = "save" /\ SaveNotification(n, x)
  BY DEF SaveOutcome
<1>2. x \in Notification /\ x.status \in {"SENT", "FAILED"} /\ at[n] = "queued"
  BY <1>0, <1>1, AtWork, NullIsNoRecord DEF Shapes, RunShape, Run
<1>3. HasStatus(n, {"SENT"}) => faults # 0
  BY <1>0, <1>1, <1>2 DEF Shapes, CleanSuccess
<1> HIDE DEF x
<1> QED
  BY <1>0, <1>1, <1>2, <1>3, SaveEffect, SavedOutcome

\* A listener saves an outcome; when that is a failure and the notification was
\* sent without a fault, its attempt had overtaken this listener.
LEMMA ListenKeeps ==
  ASSUME DeliveryInv, NEW n \in Ids, Listen(n)
  PROVE  \A m \in Ids : OutcomeKept(m)
<1>0. TypeOK /\ Shapes(n) /\ listening[n] \in [completed: Nat, failed: Nat]
  BY InvOfEach DEF TypeOK
<1>1. note[n] \in Notification
  <2>1. listening[n].failed > 0 \/ listening[n].completed > 0
    BY DEF Listen, OnFailed, OnCompleted
  <2>2. listening[n] # Silent
    BY <1>0, <2>1 DEF Silent
  <2>3. at[n] \in AtQueue
    BY <1>0, <2>2 DEF Shapes, WayShape
  <2> QED
    BY <1>0, <2>3 DEF TypeOK, Shapes, WayShape, AtQueue
<1>2. ASSUME NEW x \in Notification, SaveAs(n, x)
      PROVE  store'[n] \in {store[n], x} /\ \A m \in Ids \ {n} : store'[m] = store[m]
  BY <1>0, <1>2, SaveEffect DEF SaveAs
<1>3. CASE OnFailed(n)
  <2> DEFINE x == MarkAsFailed(note[n], FALSE)
  <2>1. x \in Notification /\ x.status = "FAILED" /\ SaveAs(n, x)
    BY <1>1, <1>3, MarkedTyped DEF MarkAsFailed, OnFailed
  <2>2. HasStatus(n, {"SENT"}) => faults # 0 \/ overtaken[n]
    BY <1>0, <1>3 DEF OnFailed, Shapes, CleanSuccess
  <2> HIDE DEF x
  <2> QED
    BY <1>0, <1>2, <2>1, <2>2, SavedOutcome
<1>4. CASE OnCompleted(n)
  <2> DEFINE x == MarkAsSent(note[n])
  <2>1. x \in Notification /\ x.status = "SENT" /\ SaveAs(n, x)
    BY <1>1, <1>4, MarkedTyped DEF MarkAsSent, OnCompleted
  <2> HIDE DEF x
  <2> QED
    BY <1>0, <1>2, <2>1, SavedOutcome
<1> QED
  BY <1>3, <1>4 DEF Listen

\* The request saves only as long as there is no outcome.
LEMMA RequestKeeps ==
  ASSUME DeliveryInv, NEW n \in Ids, SavePending(n) \/ SaveQueued(n)
  PROVE  \A m \in Ids : OutcomeKept(m)
<1>0. TypeOK /\ Shapes(n)
  BY InvOfEach
<1>1. at[n] \in Requesting /\ SaveNotification(n, note[n])
  BY DEF SavePending, SaveQueued, Requesting
<1>2. note[n] \in Notification /\ ~HasStatus(n, {"SENT", "FAILED"})
  BY <1>0, <1>1, NotQueuedYet
<1>3. \A m \in Ids \ {n} : store'[m] = store[m]
  BY <1>0, <1>1, <1>2, SaveEffect
<1> QED
  BY <1>2, <1>3 DEF OutcomeKept, HasStatus

\* An outcome is never replaced by an earlier status, and a success by a failure
\* only after a fault or by a listener that was late.
THEOREM OutcomeStaysHolds == DeliverySpec => OutcomeStays
<1>1. DeliveryInv /\ [DeliveryNext]_nvars => [\A n \in Ids : OutcomeKept(n)]_nvars
  <2> SUFFICES ASSUME DeliveryInv, DeliveryNext PROVE \A n \in Ids : OutcomeKept(n)
    OBVIOUS
  <2>1. CASE UNCHANGED store
    BY <2>1 DEF OutcomeKept, HasStatus
  <2>2. ASSUME NEW n \in Ids, Proceed(n), ~UNCHANGED store
        PROVE  SavePending(n) \/ SaveQueued(n)
    BY <2>2 DEF Proceed, AddJob
  <2>3. ASSUME NEW n \in Ids, Work(n), ~UNCHANGED store PROVE SaveOutcome(n)
    BY <2>3 DEF Work, TakeJob, Send, CompleteJob, FailJob, RetryJob
  <2>4. (Crash \/ \E n \in Ids : \E c \in Requests : SendNotification(n, c)) => UNCHANGED store
    BY DEF Crash, SendNotification
  <2> QED
    BY <2>1, <2>2, <2>3, <2>4, RequestKeeps, SaveOutcomeKeeps, ListenKeeps DEF DeliveryNext
<1>2. DeliverySpec => [][\A n \in Ids : OutcomeKept(n)]_nvars
  BY <1>1, DeliveryInvHolds, PTL DEF DeliverySpec
<1> QED
  BY <1>2 DEF OutcomeStays, OutcomeKept

-------------------------------------------------------------------------------

phases == [n \in Ids |-> Phase(n)]

\* A notification that does not come further stays in its phase.
LEMMA SamePhase ==
  ASSUME NEW n \in Ids, at'[n] = at[n]
  PROVE  Phase(n)' = Phase(n)
BY DEF Phase

\* When one notification comes further, its phase is the only one that changes.
LEMMA PhaseOf ==
  ASSUME NEW n \in Ids, \A m \in Ids \ {n} : at'[m] = at[m]
  PROVE  phases' = [phases EXCEPT ![n] = Phase(n)']
<1>1. \A m \in Ids \ {n} : Phase(m)' = Phase(m)
  BY SamePhase
<1> QED
  BY <1>1 DEF phases

\* A phase that follows another is a step of the promise.
LEMMA PhaseMoves ==
  ASSUME NEW n \in Ids, \A m \in Ids \ {n} : at'[m] = at[m], UNCHANGED handed,
         <<Phase(n), Phase(n)'>> \in D!Moves
  PROVE  D!Move(n)
<1>1. phases' = [phases EXCEPT ![n] = Phase(n)'] /\ phases[n] = Phase(n)
  BY PhaseOf DEF phases
<1>2. Phase(n)' \in {m[2] : m \in D!Moves}
  BY DEF D!Moves
<1> QED
  BY <1>1, <1>2 DEF D!Move, phases

\* Nothing of the promise changes.
LEMMA PhaseStays ==
  ASSUME \A m \in Ids : at'[m] = at[m], UNCHANGED handed
  PROVE  UNCHANGED D!dvars
BY SamePhase DEF D!dvars

\* The request's part: accepted or refused, then queued or lost.
LEMMA RequestImplements ==
  ASSUME DeliveryInv, NEW n \in Ids,
         (\E c \in Requests : SendNotification(n, c)) \/ Proceed(n)
  PROVE  D!Move(n) \/ UNCHANGED D!dvars
<1>1. TypeOK
  BY DEF DeliveryInv
<1>2. UNCHANGED handed /\ \A m \in Ids \ {n} : at'[m] = at[m]
  BY <1>1 DEF TypeOK, SendNotification, Proceed, SavePending, QueueNotification, SaveQueued, AddJob
<1>3. \/ at[n] = "unsent" /\ at'[n] \in {"save", "refused"}
      \/ at[n] = "save" /\ at'[n] \in {"queue.save", "unqueued"}
      \/ at[n] = "queue.save" /\ at'[n] = "queue.add"
      \/ at[n] = "queue.add" /\ at'[n] \in {"queued", "lost"}
  BY <1>1 DEF TypeOK, SendNotification, Proceed, SavePending, QueueNotification, SaveQueued, AddJob
<1>4. CASE at[n] \in Requesting /\ at'[n] \in Requesting
  <2>1. Phase(n)' = Phase(n)
    BY <1>4 DEF Phase, Requesting
  <2>2. phases' = phases
    BY <1>2, <2>1, SamePhase DEF phases
  <2> QED
    BY <1>2, <2>2 DEF D!dvars, phases
<1>5. CASE ~(at[n] \in Requesting /\ at'[n] \in Requesting)
  <2>1. <<Phase(n), Phase(n)'>> \in D!Moves
    BY <1>3, <1>5 DEF Phase, Requesting, D!Moves
  <2> QED
    BY <1>2, <2>1, PhaseMoves
<1> QED
  BY <1>4, <1>5

\* The worker's part: handing over, delivering and giving up.
LEMMA WorkImplements ==
  ASSUME DeliveryInv, NEW n \in Ids, Work(n)
  PROVE  D!Move(n) \/ D!Hand(n) \/ D!Deliver(n) \/ UNCHANGED D!dvars
<1>1. TypeOK /\ Shapes(n)
  BY InvOfEach
<1>2. CASE UNCHANGED at /\ UNCHANGED handed
  BY <1>2, PhaseStays
<1>3. CASE Send(n) /\ handed' # handed
  <2>1. at[n] = "queued" /\ UNCHANGED at
    BY <1>1, <1>3, AtWork DEF Send
  <2>2. HandOver(n)
    BY <1>3 DEF Send, SendEmail, SendSms, MailFails
  <2>3. UNCHANGED phases
    BY <2>1, SamePhase DEF phases
  <2>4. phases[n] = "open"
    BY <2>1 DEF phases, Phase, Requesting
  <2> QED
    BY <2>2, <2>3, <2>4 DEF D!Hand, HandOver, phases
<1>4. CASE CompleteJob(n)
  <2>1. /\ at[n] = "queued" /\ at' = [at EXCEPT ![n] = "completed"] /\ UNCHANGED handed
        /\ run[n] # Null /\ run[n].step = "completed"
    BY <1>1, <1>4, AtWork DEF CompleteJob
  <2>2. handed[n] > 0
    BY <1>1, <2>1 DEF Shapes, RunShape
  <2>3. at'[n] = "completed" /\ \A m \in Ids \ {n} : at'[m] = at[m]
    BY <1>1, <2>1 DEF TypeOK
  <2>4. Phase(n) = "open" /\ Phase(n)' = "delivered"
    BY <2>1, <2>3 DEF Phase, Requesting
  <2>5. phases' = [phases EXCEPT ![n] = "delivered"] /\ phases[n] = "open"
    BY <2>3, <2>4, PhaseOf DEF phases
  <2> QED
    BY <2>1, <2>2, <2>5 DEF D!Deliver, phases
<1>5. CASE FailJob(n) /\ at' # at
  <2>1. at[n] = "queued" /\ at' = [at EXCEPT ![n] = "exhausted"] /\ UNCHANGED handed
    BY <1>1, <1>5, AtWork DEF FailJob
  <2>2. at'[n] = "exhausted" /\ \A m \in Ids \ {n} : at'[m] = at[m]
    BY <1>1, <2>1 DEF TypeOK
  <2>3. <<Phase(n), Phase(n)'>> \in D!Moves
    BY <2>1, <2>2 DEF Phase, Requesting, D!Moves
  <2> QED
    BY <2>1, <2>2, <2>3, PhaseMoves
<1> QED
  BY <1>2, <1>3, <1>4, <1>5
     DEF Work, TakeJob, Send, SaveOutcome, CompleteJob, FailJob, RetryJob

\* A crash loses what was accepted, and gives up what had stalled before.
LEMMA CrashImplements ==
  ASSUME DeliveryInv, Crash
  PROVE  D!Stop
<1>1. TypeOK /\ \A n \in Ids : Shapes(n)
  BY InvOfEach
<1> DEFINE stopped == {n \in Ids : at[n] \in Requesting \/ StalledTwice(n)}
<1>2. ASSUME NEW n \in Ids
      PROVE  /\ at'[n] = IF at[n] \in Requesting THEN "lost"
                         ELSE IF StalledTwice(n) THEN "exhausted" ELSE at[n]
             /\ StalledTwice(n) => at[n] = "queued"
  BY <1>1, AtWork DEF Crash, StalledTwice
<1>3. ASSUME NEW n \in Ids
      PROVE  /\ n \in stopped => phases[n] \in {"accepted", "open"}
             /\ Phase(n)' = IF n \notin stopped THEN phases[n]
                            ELSE IF phases[n] = "accepted" THEN "lost" ELSE "given up"
  <2>1. CASE at[n] \in Requesting
    BY <1>2, <2>1 DEF Phase, phases, Requesting
  <2>2. CASE at[n] \notin Requesting /\ StalledTwice(n)
    BY <1>2, <2>2 DEF Phase, phases, Requesting
  <2>3. CASE n \notin stopped
    BY <1>2, <2>3, SamePhase DEF phases
  <2> QED
    BY <2>1, <2>2, <2>3
<1>4. stopped \in SUBSET {n \in Ids : phases[n] \in {"accepted", "open"}}
  BY <1>3
<1>5. phases' = [n \in Ids |-> IF n \notin stopped THEN phases[n]
                               ELSE IF phases[n] = "accepted" THEN "lost" ELSE "given up"]
  BY <1>3 DEF phases
<1>6. UNCHANGED handed
  BY DEF Crash
<1> HIDE DEF stopped
<1> QED
  BY <1>4, <1>5, <1>6 DEF D!Stop, phases

\* Requests, worker, listeners and crashes implement the promised life.
THEOREM ImplementsDeliveryHolds == DeliverySpec => ImplementsDelivery
<1>1. Init => D!Init
  <2>1. ASSUME Init, NEW n \in Ids PROVE Phase(n) = "none"
    <3>1. at[n] = "unsent"
      BY <2>1 DEF Init
    <3> QED
      BY <3>1 DEF Phase, Requesting
  <2>2. Init => handed = [n \in Ids |-> 0]
    BY DEF Init
  <2> QED
    BY <2>1, <2>2 DEF D!Init
<1>2. DeliveryInv /\ [DeliveryNext]_nvars => [D!Next]_(D!dvars)
  <2> SUFFICES ASSUME DeliveryInv, [DeliveryNext]_nvars PROVE D!Next \/ UNCHANGED D!dvars
    OBVIOUS
  <2>1. CASE UNCHANGED nvars
    BY <2>1, PhaseStays DEF nvars
  <2>2. CASE Crash
    BY <2>2, CrashImplements DEF D!Next
  <2>3. ASSUME NEW n \in Ids, Listen(n) PROVE UNCHANGED D!dvars
    BY <2>3, PhaseStays DEF Listen, OnFailed, OnCompleted
  <2> QED
    BY <2>1, <2>2, <2>3, RequestImplements, WorkImplements DEF DeliveryNext, D!Next
<1> QED
  BY <1>1, <1>2, DeliveryInvHolds, PTL DEF DeliverySpec, ImplementsDelivery, D!Spec

-------------------------------------------------------------------------------
(* The document says what became of the job, when the parts agree on the    *)
(* form of a channel.                                                       *)

Agreed == \A part \in {"schema", "factory", "store"} : Built \in Reads[part]

Succeeded(n) == at[n] = "completed" \/ (run[n] # Null /\ run[n].step = "completed")

\* a success is in the document; a failure is, or its listener is yet to save it
FinalShape(n) ==
  /\ at[n] \in {"unsent", "refused"} => store[n] = Null
  /\ at[n] # "unqueued"
  /\ faults = 0 => at[n] # "lost"
  /\ faults = 0 /\ ~overtaken[n] =>
       /\ Succeeded(n) => HasStatus(n, {"SENT"})
       /\ at[n] = "exhausted" => HasStatus(n, {"FAILED"}) \/ listening[n].failed > 0

\* The forms agree, so the notification of a job can be made, and is stored.
LEMMA AgreedMakes ==
  ASSUME Agreed
  PROVE  MakesNotification /\ \A n \in Ids : \A x : Stored(n, x) = [store EXCEPT ![n] = x]
  BY DEF Agreed, MakesNotification, Makes, Creates, Stored

\* A step leaves the notifications it does not act on as they were.
LEMMA OthersKept ==
  ASSUME TypeOK, NEW n \in Ids, NEW m \in Ids, m # n, faults' = 0 => faults = 0,
         FinalShape(m),
         \/ \E c \in Requests : SendNotification(n, c)
         \/ Proceed(n) \/ Work(n) \/ Listen(n)
  PROVE  FinalShape(m)'
<1>1. /\ at'[m] = at[m] /\ run'[m] = run[m] /\ store'[m] = store[m]
      /\ overtaken'[m] = overtaken[m] /\ listening'[m] = listening[m]
  <2>1. store'[m] = store[m]
    BY DEF TypeOK, Collection, Proceed, Work, Listen, SendNotification, SavePending, SaveQueued, AddJob, TakeJob,
       Send, SaveOutcome, CompleteJob, FailJob, RetryJob, OnFailed, OnCompleted, SaveAs, SaveNotification, Stored
  <2>2. at'[m] = at[m] /\ overtaken'[m] = overtaken[m]
    BY DEF TypeOK, Proceed, Work, Listen, SendNotification, SavePending, SaveQueued, AddJob, TakeJob, QueueNotification,
       Send, SaveOutcome, CompleteJob, FailJob, RetryJob, OnFailed, OnCompleted
  <2>3. listening'[m] = listening[m]
    BY DEF TypeOK, Proceed, Work, Listen, SendNotification, SavePending, SaveQueued, AddJob, TakeJob,
       Send, SaveOutcome, CompleteJob, FailJob, RetryJob, OnFailed, OnCompleted
  <2>4. run'[m] = run[m]
    BY DEF TypeOK, Proceed, Work, Listen, SendNotification, SavePending, SaveQueued, AddJob, TakeJob, GoOn,
       Send, SendEmail, SendSms, MailFails, SaveOutcome, CompleteJob, FailJob, RetryJob, OnFailed, OnCompleted
  <2> QED
    BY <2>1, <2>2, <2>3, <2>4
<1> QED
  BY <1>1 DEF FinalShape, Succeeded, HasStatus

\* The request, up to the job: nothing has succeeded or failed yet.
LEMMA RequestFinal ==
  ASSUME Agreed, DeliveryInv, NEW n \in Ids, FinalShape(n), faults' = 0 => faults = 0,
         (\E c \in Requests : SendNotification(n, c)) \/ Proceed(n)
  PROVE  FinalShape(n)'
<1>1. TypeOK /\ Shapes(n) /\ MakesNotification
  BY InvOfEach, AgreedMakes
<1>2. run'[n] = Null
  BY <1>1 DEF Shapes, WayShape, SendNotification, Proceed, SavePending, SaveQueued, AddJob, Requesting
<1>3. ASSUME NEW c \in Requests, SendNotification(n, c) PROVE FinalShape(n)'
  <2>1. at[n] = "unsent" /\ at'[n] \in {"save", "refused"} /\ store' = store
    BY <1>1, <1>3 DEF SendNotification, TypeOK
  <2> QED
    BY <1>2, <2>1 DEF FinalShape, Succeeded
<1>4. CASE SavePending(n) \/ SaveQueued(n)
  <2>1. at'[n] \in {"queue.save", "queue.add"}
    BY <1>1, <1>4 DEF SavePending, QueueNotification, SaveQueued, TypeOK
  <2> QED
    BY <1>2, <2>1 DEF FinalShape, Succeeded
<1>5. CASE AddJob(n)
  <2>1. at'[n] = "queued" \/ (at'[n] = "lost" /\ Fault)
    BY <1>1, <1>5 DEF AddJob, TypeOK
  <2>2. Fault => faults' # 0
    BY <1>1, DeliveryAssumption DEF Fault, TypeOK
  <2> QED
    BY <1>2, <2>1, <2>2 DEF FinalShape, Succeeded
<1> QED
  BY <1>3, <1>4, <1>5 DEF Proceed

\* An attempt that is not saved yet, and a job that waits, have not succeeded.
LEMMA NotYetSucceeded ==
  ASSUME DeliveryInv, NEW n \in Ids, TakeJob(n) \/ Send(n) \/ RetryJob(n)
  PROVE  at'[n] = "queued" /\ ~Succeeded(n)'
<1>1. TypeOK /\ Shapes(n)
  BY InvOfEach
<1>2. CASE TakeJob(n)
  <2>1. run'[n] # Null => run'[n].step # "completed"
    BY <1>1, <1>2 DEF TakeJob, NewRun, TypeOK
  <2>2. at'[n] = "queued"
    BY <1>1, <1>2 DEF TakeJob, Shapes, WayShape
  <2> QED
    BY <2>1, <2>2 DEF Succeeded
<1>3. CASE Send(n)
  <2>1. run[n] # Null /\ run[n].step = "send" /\ at'[n] = "queued"
    BY <1>1, <1>3, AtWork DEF Send
  <2>2. run[n] \in Run /\ run[n].copy \in Notification
    BY <1>1, <2>1, AtWork DEF Shapes, RunShape, Run
  <2>3. \E r : run' = [run EXCEPT ![n] = r] /\ r.step \in {"save", "failed"}
    <3>1. \/ run' = [run EXCEPT ![n] = Sent(run[n])]
          \/ run' = [run EXCEPT ![n] = NotSent(run[n])]
          \/ run' = [run EXCEPT ![n] = Thrown(run[n])]
      BY <1>3 DEF Send, SendEmail, SendSms, MailFails, GoOn
    <3>2. Sent(run[n]).step = "save" /\ NotSent(run[n]).step = "save"
      BY <2>2, Answered
    <3>3. Thrown(run[n]).step = "failed"
      BY <2>2 DEF Thrown, Run
    <3> QED
      BY <3>1, <3>2, <3>3
  <2>4. run'[n].step # "completed"
    BY <1>1, <2>3 DEF TypeOK
  <2> QED
    BY <2>1, <2>4 DEF Succeeded
<1>4. CASE RetryJob(n)
  <2>1. at'[n] = "queued" /\ run'[n] = Null
    BY <1>1, <1>4 DEF RetryJob, Shapes, WayShape
  <2> QED
    BY <2>1 DEF Succeeded
<1> QED
  BY <1>2, <1>3, <1>4

\* An attempt has succeeded only when its document says SENT, or a fault kept the
\* document as it was.
LEMMA SaveOutcomeTells ==
  ASSUME Agreed, DeliveryInv, NEW n \in Ids, SaveOutcome(n)
  PROVE  /\ at'[n] = "queued"
         /\ Succeeded(n)' => HasStatus(n, {"SENT"})' \/ faults' = faults + 1
<1>1. TypeOK /\ Shapes(n)
  BY InvOfEach
<1>2. /\ run[n] # Null /\ run[n].step = "save" /\ SaveNotification(n, run[n].copy)
      /\ at'[n] = "queued"
  BY <1>1, AtWork DEF SaveOutcome
<1>3. run[n] \in Run /\ run[n].copy \in Notification /\ run[n].copy # Null
  BY <1>1, <1>2, AtWork, NullIsNoRecord DEF Shapes, RunShape, Run
<1>4. run'[n].step = "completed" => run[n].ok
  <2> DEFINE step == IF run[n].ok THEN "completed" ELSE "failed"
             r == [run[n] EXCEPT !.step = step]
  <2>1. r.step = step
    BY <1>3 DEF Run
  <2>2. run' = [run EXCEPT ![n] = r]
    BY DEF SaveOutcome, GoOn
  <2> HIDE DEF r
  <2> QED
    BY <1>1, <2>1, <2>2 DEF TypeOK
<1>5. run[n].ok => run[n].copy.status = "SENT"
  BY <1>1, <1>2 DEF Shapes, RunShape
<1>6. store'[n] = run[n].copy \/ faults' = faults + 1
  BY <1>1, <1>2, AgreedMakes DEF SaveNotification, Fault, TypeOK, Collection
<1> QED
  BY <1>2, <1>3, <1>4, <1>5, <1>6 DEF Succeeded, HasStatus

\* The worker: a success is saved before the job completes.
LEMMA WorkFinal ==
  ASSUME Agreed, DeliveryInv, NEW n \in Ids, FinalShape(n), faults' = 0 => faults = 0, Work(n)
  PROVE  FinalShape(n)'
<1>1. TypeOK /\ Shapes(n) /\ MakesNotification
  BY InvOfEach, AgreedMakes
<1>2. CASE TakeJob(n) \/ Send(n) \/ RetryJob(n)
  BY <1>2, NotYetSucceeded DEF FinalShape
<1>4. CASE SaveOutcome(n)
  <2>1. faults' = 0 => faults' # faults + 1
    BY <1>1, DeliveryAssumption DEF TypeOK
  <2> QED
    BY <1>4, <2>1, SaveOutcomeTells DEF FinalShape
<1>5. CASE CompleteJob(n)
  <2>1. Succeeded(n) /\ at'[n] = "completed" /\ UNCHANGED <<store, overtaken>>
    BY <1>1, <1>5 DEF CompleteJob, Succeeded, TypeOK
  <2> QED
    BY <2>1 DEF FinalShape, HasStatus
<1>6. CASE FailJob(n)
  <2>1. /\ run'[n] = Null /\ at'[n] \in {at[n], "exhausted"} /\ at[n] = "queued"
        /\ listening'[n].failed = listening[n].failed + 1
    <3>1. run[n] # Null /\ listening[n] \in [completed: Nat, failed: Nat]
      BY <1>1, <1>6 DEF FailJob, TypeOK
    <3>2. at[n] = "queued" /\ run'[n] = Null
      BY <1>1, <1>6, <3>1, AtWork DEF FailJob, TypeOK
    <3>3. at'[n] \in {at[n], "exhausted"}
      BY <1>1, <1>6 DEF FailJob, TypeOK
    <3>4. listening'[n].failed = listening[n].failed + 1
      BY <1>1, <1>6, <3>1 DEF FailJob, TypeOK
    <3> QED
      BY <3>2, <3>3, <3>4
  <2>2. listening[n].failed \in Nat
    BY <1>1 DEF TypeOK
  <2> QED
    BY <2>1, <2>2 DEF FinalShape, Succeeded
<1> QED
  BY <1>2, <1>4, <1>5, <1>6 DEF Work

\* The listeners: none of a failed attempt is left when a success is saved in
\* time, and each saves what became of the job.
LEMMA ListenFinal ==
  ASSUME Agreed, DeliveryInv, NEW n \in Ids, FinalShape(n), faults' = 0 => faults = 0, Listen(n)
  PROVE  FinalShape(n)'
<1>1. TypeOK /\ Shapes(n)
  BY InvOfEach
<1>2. /\ UNCHANGED <<at, run, overtaken>> /\ listening[n] # Silent
      /\ listening[n].completed \in Nat /\ listening[n].failed \in Nat
  <2>1. UNCHANGED <<at, run, overtaken>> /\ (listening[n].failed > 0 \/ listening[n].completed > 0)
    BY DEF Listen, OnFailed, OnCompleted
  <2>2. listening[n].completed \in Nat /\ listening[n].failed \in Nat
    BY <1>1 DEF TypeOK
  <2>3. Silent.failed = 0 /\ Silent.completed = 0
    BY DEF Silent
  <2> QED
    BY <2>1, <2>2, <2>3
<1>3. at[n] \in AtQueue /\ note[n] \in Notification /\ note[n] # Null
  <2>1. at[n] \in AtQueue
    BY <1>1, <1>2 DEF Shapes, WayShape
  <2>2. note[n] # Null
    BY <1>1, <2>1 DEF Shapes, WayShape, AtQueue
  <2> QED
    BY <1>1, <2>1, <2>2 DEF TypeOK
<1>4. ASSUME NEW x \in Notification, SaveAs(n, x), faults' = 0
      PROVE  store'[n] = x /\ x # Null
  BY <1>1, <1>4, AgreedMakes, DeliveryAssumption, NullIsNoRecord
     DEF SaveAs, SaveNotification, Fault, TypeOK, Collection
<1>5. CASE OnFailed(n)
  <2> DEFINE x == MarkAsFailed(note[n], FALSE)
  <2>1. x \in Notification /\ x.status = "FAILED" /\ SaveAs(n, x)
    BY <1>3, <1>5, MarkedTyped DEF OnFailed, MarkAsFailed
  <2>2. Succeeded(n) => overtaken[n]
    BY <1>1, <1>2, <1>5 DEF OnFailed, Shapes, CleanSuccess, Succeeded
  <2> HIDE DEF x
  <2>3. faults' = 0 => HasStatus(n, {"FAILED"})'
    BY <1>4, <2>1 DEF HasStatus
  <2> QED
    BY <1>2, <1>3, <2>2, <2>3 DEF FinalShape, Succeeded, AtQueue
<1>6. CASE OnCompleted(n)
  <2> DEFINE x == MarkAsSent(note[n])
  <2>1. x \in Notification /\ x.status = "SENT" /\ SaveAs(n, x)
    BY <1>3, <1>6, MarkedTyped DEF OnCompleted, MarkAsSent
  <2>2. at[n] = "completed"
    BY <1>1, <1>6 DEF OnCompleted, Shapes, Evidence
  <2> HIDE DEF x
  <2>3. faults' = 0 => HasStatus(n, {"SENT"})'
    BY <1>4, <2>1 DEF HasStatus
  <2> QED
    BY <1>2, <2>2, <2>3 DEF FinalShape, Succeeded
<1> QED
  BY <1>5, <1>6 DEF Listen

\* Every step keeps FinalShape of every notification.
LEMMA NextFinal ==
  ASSUME Agreed, DeliveryInv, [DeliveryNext]_nvars, \A n \in Ids : FinalShape(n)
  PROVE  \A n \in Ids : FinalShape(n)'
<1>1. TypeOK /\ faults \in Nat
  BY DeliveryAssumption DEF DeliveryInv, TypeOK
<1>2. CASE UNCHANGED nvars
  BY <1>2 DEF nvars, FinalShape, Succeeded, HasStatus
<1>3. CASE Crash
  <2>1. faults' # 0 /\ store' = store
    <3>1. Fault /\ store' = store
      BY <1>3 DEF Crash
    <3> QED
      BY <1>1, <3>1 DEF Fault
  <2>2. ASSUME NEW n \in Ids PROVE FinalShape(n)'
    <3>1. at'[n] \in {at[n], "lost", "exhausted"}
      BY <1>3 DEF Crash
    <3> QED
      BY <2>1, <3>1 DEF FinalShape
  <2> QED
    BY <2>2
<1>4. ASSUME NEW n \in Ids,
             \/ \E c \in Requests : SendNotification(n, c)
             \/ Proceed(n) \/ Work(n) \/ Listen(n)
      PROVE  \A m \in Ids : FinalShape(m)'
  <2>1. ActsOn(n)
    BY <1>4, SendNotificationStep, SavePendingStep, SaveQueuedStep, AddJobStep, TakeJobStep, SendStep,
       SaveOutcomeStep, CompleteJobStep, FailJobStep, RetryJobStep, OnFailedStep, OnCompletedStep
       DEF Proceed, Work, Listen
  <2>2. faults' = 0 => faults = 0
    BY <1>1, <2>1, DeliveryAssumption DEF ActsOn, TypeOK
  <2>3. FinalShape(n)'
    BY <1>4, <2>2, RequestFinal, WorkFinal, ListenFinal
  <2>4. \A m \in Ids : m # n => FinalShape(m)'
    BY <1>1, <1>4, <2>2, OthersKept
  <2> QED
    BY <2>3, <2>4
<1> QED
  BY <1>2, <1>3, <1>4 DEF DeliveryNext

\* When nothing is at work on a notification any more and nothing failed, its
\* document tells what became of its job, if the parts agree on its channel.
THEOREM FinalDocumentHolds == ASSUME Agreed PROVE DeliverySpec => []FinalDocument
<1> DEFINE FinalInv == \A n \in Ids : FinalShape(n)
<1>1. Init => FinalInv
  BY DEF Init, FinalShape, Succeeded
<1>2. Agreed /\ DeliveryInv /\ FinalInv /\ [DeliveryNext]_nvars => FinalInv'
  BY NextFinal
<1>3. DeliveryInv /\ FinalInv => FinalDocument
  <2> SUFFICES ASSUME DeliveryInv, FinalInv, NEW n \in Ids, Quiet(n), store[n] # Null,
                      faults = 0, ~overtaken[n]
               PROVE  \/ at[n] = "completed" /\ store[n].status = "SENT"
                      \/ at[n] = "exhausted" /\ store[n].status = "FAILED"
    BY DEF FinalDocument
  <2>1. at[n] # "queued" /\ listening[n].failed = 0 /\ at[n] \notin Requesting
    BY InvOfEach DEF Quiet, Shapes, WayShape, Silent
  <2>2. at[n] \in {"completed", "exhausted"}
    BY <2>1 DEF FinalShape, DeliveryInv, TypeOK, AtQueue
  <2> QED
    BY <2>1, <2>2 DEF FinalShape, Succeeded, HasStatus
<1> QED
  BY <1>1, <1>2, <1>3, DeliveryInvHolds, PTL DEF DeliverySpec

-------------------------------------------------------------------------------
(* A delivery is told in spite of one fault: the save of the worker and that *)
(* of the listener stand in for one another.                                 *)

Told(n) == HasStatus(n, {"SENT"}) \/ overtaken[n]

\* a success that is not told has met a fault already; once its job is completed
\* the listener is still to tell it, or a second fault has kept it from doing so
TellShape(n) ==
  /\ Succeeded(n) /\ ~Told(n) => faults > 0
  /\ at[n] = "completed" /\ ~Told(n) => faults > 1 \/ listening[n].completed > 0

\* What is told stays so for a success: a listener that could undo it was late.
LEMMA StaysTold ==
  ASSUME DeliveryInv, NEW n \in Ids, Succeeded(n), Told(n), Listen(n)
  PROVE  Told(n)'
<1>1. TypeOK /\ Shapes(n) /\ listening[n].failed \in Nat /\ UNCHANGED overtaken
  BY InvOfEach DEF TypeOK, Listen, OnFailed, OnCompleted
<1>2. CASE OnFailed(n)
  BY <1>1, <1>2 DEF OnFailed, Shapes, CleanSuccess, Succeeded, Told
<1>3. CASE OnCompleted(n)
  <2> DEFINE x == MarkAsSent(note[n])
  <2>1. at[n] = "completed"
    BY <1>1, <1>3 DEF OnCompleted, Shapes, Evidence
  <2>2. note[n] \in Notification
    BY <1>1, <2>1 DEF TypeOK, Shapes, WayShape
  <2>3. x \in Notification /\ x.status = "SENT" /\ SaveAs(n, x)
    BY <1>3, <2>2, MarkedTyped DEF OnCompleted, MarkAsSent
  <2>4. x # Null
    BY <2>3, NullIsNoRecord
  <2> HIDE DEF x
  <2>5. store'[n] \in {store[n], x}
    BY <1>1, <2>3, SaveEffect DEF SaveAs
  <2> QED
    BY <1>1, <2>3, <2>4, <2>5 DEF Told, HasStatus
<1> QED
  BY <1>2, <1>3 DEF Listen

\* The `completed' listener tells the success, or meets a fault of its own.
LEMMA CompletedTells ==
  ASSUME Agreed, DeliveryInv, NEW n \in Ids, OnCompleted(n)
  PROVE  at[n] = "completed" /\ (HasStatus(n, {"SENT"})' \/ faults' = faults + 1)
<1>1. TypeOK /\ Shapes(n)
  BY InvOfEach
<1>2. at[n] = "completed"
  BY <1>1 DEF OnCompleted, Shapes, Evidence
<1>3. note[n] \in Notification
  BY <1>1, <1>2 DEF TypeOK, Shapes, WayShape
<1> DEFINE x == MarkAsSent(note[n])
<1>4. x \in Notification /\ x.status = "SENT" /\ SaveAs(n, x)
  BY <1>3, MarkedTyped DEF OnCompleted, MarkAsSent
<1>5. x # Null
  BY <1>4, NullIsNoRecord
<1> HIDE DEF x
<1>6. store'[n] = x \/ faults' = faults + 1
  BY <1>1, <1>4, AgreedMakes DEF SaveAs, SaveNotification, Fault, TypeOK, Collection
<1> QED
  BY <1>2, <1>4, <1>5, <1>6 DEF HasStatus

\* The worker does not complete a job it has not told of without a fault.
LEMMA WorkTells ==
  ASSUME Agreed, DeliveryInv, NEW n \in Ids, TellShape(n), Work(n)
  PROVE  TellShape(n)'
<1>1. TypeOK /\ Shapes(n) /\ faults \in Nat
  BY InvOfEach, DeliveryAssumption DEF TypeOK
<1>2. CASE TakeJob(n) \/ Send(n) \/ RetryJob(n)
  BY <1>2, NotYetSucceeded DEF TellShape
<1>3. CASE SaveOutcome(n)
  <2>1. at'[n] = "queued" /\ (Succeeded(n)' => HasStatus(n, {"SENT"})' \/ faults' = faults + 1)
    BY <1>3, SaveOutcomeTells
  <2> QED
    BY <1>1, <2>1 DEF TellShape, Told
<1>4. CASE CompleteJob(n)
  <2>1. Succeeded(n) /\ UNCHANGED <<store, overtaken, faults>>
    BY <1>4 DEF CompleteJob, Succeeded
  <2>2. listening'[n].completed > 0
    BY <1>1, <1>4 DEF CompleteJob, TypeOK
  <2> QED
    BY <2>1, <2>2 DEF TellShape, Told, HasStatus
<1>5. CASE FailJob(n)
  <2>1. run[n] # Null /\ at[n] = "queued"
    BY <1>1, <1>5, AtWork DEF FailJob
  <2>2. run'[n] = Null /\ at'[n] \in {"queued", "exhausted"}
    BY <1>1, <1>5, <2>1 DEF FailJob, TypeOK
  <2> QED
    BY <2>2 DEF TellShape, Succeeded
<1> QED
  BY <1>2, <1>3, <1>4, <1>5 DEF Work

\* The listeners: what one of them fails to tell costs a second fault.
LEMMA ListenTells ==
  ASSUME Agreed, DeliveryInv, NEW n \in Ids, TellShape(n), faults' >= faults, Listen(n)
  PROVE  TellShape(n)'
<1>1. /\ TypeOK /\ Shapes(n) /\ faults \in Nat /\ faults' \in Nat
      /\ UNCHANGED <<at, run, overtaken>>
  <2>1. TypeOK /\ Shapes(n) /\ faults \in Nat
    BY InvOfEach, DeliveryAssumption DEF TypeOK
  <2>2. UNCHANGED <<at, run, overtaken>>
    BY DEF Listen, OnFailed, OnCompleted
  <2>3. faults' \in {faults, faults + 1}
    BY DEF Listen, OnFailed, OnCompleted, SaveAs, SaveNotification, NoFault, Fault
  <2> QED
    BY <2>1, <2>2, <2>3
<1>2. Succeeded(n)' <=> Succeeded(n)
  BY <1>1 DEF Succeeded
<1>3. ASSUME Succeeded(n), ~Told(n)' PROVE ~Told(n)
  BY <1>3, StaysTold
<1>4. CASE OnFailed(n)
  <2>1. Succeeded(n) => Told(n)'
    BY <1>1, <1>4 DEF OnFailed, Shapes, CleanSuccess, Succeeded, Told, TypeOK
  <2> QED
    BY <1>1, <1>2, <2>1 DEF TellShape, Succeeded
<1>5. CASE OnCompleted(n)
  <2>1. at[n] = "completed" /\ (~Told(n)' => faults' = faults + 1)
    BY <1>5, CompletedTells DEF Told
  <2>2. Succeeded(n)
    BY <2>1 DEF Succeeded
  <2>3. ~Told(n)' => faults > 0
    BY <1>3, <2>2 DEF TellShape
  <2> QED
    BY <1>1, <2>1, <2>3 DEF TellShape
<1> QED
  BY <1>4, <1>5 DEF Listen

\* The request has no success to tell of, and a crash is a fault.
LEMMA RequestTells ==
  ASSUME DeliveryInv, NEW n \in Ids,
         (\E c \in Requests : SendNotification(n, c)) \/ Proceed(n)
  PROVE  TellShape(n)'
<1>1. TypeOK /\ Shapes(n)
  BY InvOfEach
<1>2. run'[n] = Null
  BY <1>1 DEF Shapes, WayShape, SendNotification, Proceed, SavePending, SaveQueued, AddJob, Requesting
<1>3. at'[n] # "completed"
  BY <1>1 DEF TypeOK, SendNotification, Proceed, SavePending, QueueNotification, SaveQueued, AddJob
<1> QED
  BY <1>2, <1>3 DEF TellShape, Succeeded

\* Every step keeps TellShape of every notification.
LEMMA NextTells ==
  ASSUME Agreed, DeliveryInv, [DeliveryNext]_nvars, \A n \in Ids : TellShape(n)
  PROVE  \A n \in Ids : TellShape(n)'
<1>1. TypeOK /\ faults \in Nat
  BY DeliveryAssumption DEF DeliveryInv, TypeOK
<1>2. CASE UNCHANGED nvars
  BY <1>2 DEF nvars, TellShape, Told, Succeeded, HasStatus
<1>3. CASE Crash
  <2>1. faults' = faults + 1 /\ UNCHANGED <<store, overtaken>> /\ \A n \in Ids : run'[n] = Null
    BY <1>3 DEF Crash, Fault
  <2>2. ASSUME NEW n \in Ids PROVE TellShape(n)'
    <3>1. at'[n] = "completed" => at[n] = "completed"
      BY <1>3 DEF Crash
    <3>2. Told(n)' <=> Told(n)
      BY <2>1 DEF Told, HasStatus
    <3>3. at[n] = "completed" /\ ~Told(n) => faults > 0
      BY DEF TellShape, Succeeded
    <3> QED
      BY <1>1, <2>1, <3>1, <3>2, <3>3 DEF TellShape, Succeeded
  <2> QED
    BY <2>2
<1>4. ASSUME NEW n \in Ids,
             \/ \E c \in Requests : SendNotification(n, c)
             \/ Proceed(n) \/ Work(n) \/ Listen(n)
      PROVE  \A m \in Ids : TellShape(m)'
  <2>1. ActsOn(n)
    BY <1>4, SendNotificationStep, SavePendingStep, SaveQueuedStep, AddJobStep, TakeJobStep, SendStep,
       SaveOutcomeStep, CompleteJobStep, FailJobStep, RetryJobStep, OnFailedStep, OnCompletedStep
       DEF Proceed, Work, Listen
  <2>2. faults' \in Nat /\ faults' >= faults
    BY <2>1, DeliveryAssumption DEF ActsOn, TypeOK
  <2>3. TellShape(n)'
    BY <1>4, <2>2, RequestTells, WorkTells, ListenTells
  <2>4. ASSUME NEW m \in Ids, m # n PROVE TellShape(m)'
    <3>1. Kept(m) /\ TellShape(m)
      BY <2>1, <2>4 DEF ActsOn
    <3> QED
      BY <1>1, <2>2, <3>1 DEF Kept, TellShape, Told, Succeeded, HasStatus
  <2> QED
    BY <2>3, <2>4
<1> QED
  BY <1>2, <1>3, <1>4 DEF DeliveryNext

\* A completed delivery is in its document once nothing is at work on it, with one
\* fault too, if the parts agree on the form of a channel.
THEOREM DeliveredIsToldHolds == ASSUME Agreed PROVE DeliverySpec => []DeliveredIsTold
<1> DEFINE TellInv == \A n \in Ids : TellShape(n)
<1>1. Init => TellInv
  BY DEF Init, TellShape, Succeeded
<1>2. Agreed /\ DeliveryInv /\ TellInv /\ [DeliveryNext]_nvars => TellInv'
  BY NextTells
<1>3. DeliveryInv /\ TellInv => DeliveredIsTold
  <2> SUFFICES ASSUME DeliveryInv, TellInv, NEW n \in Ids, Quiet(n), at[n] = "completed",
                      faults <= 1, ~overtaken[n]
               PROVE  HasStatus(n, {"SENT"})
    BY DEF DeliveredIsTold
  <2>1. ~(listening[n].completed > 0) /\ faults \in Nat
    BY DeliveryAssumption DEF Quiet, Silent, DeliveryInv, TypeOK
  <2> QED
    BY <2>1 DEF TellShape, Told
<1> QED
  BY <1>1, <1>2, <1>3, DeliveryInvHolds, PTL DEF DeliverySpec

-------------------------------------------------------------------------------
(* What hangs on the form of a channel.                                     *)

\* nobody ever got further than the request
NothingSent ==
  \A n \in Ids : at[n] \in {"unsent", "refused"} /\ store[n] = Null /\ handed[n] = 0

\* As the code ships them, the schema does not take the form the factory builds:
\* no notification is ever stored, queued or handed to its channel, whoever asks
\* and for whatever template (notification.aggregate.ts create).
THEOREM NothingSentAsShipped ==
  ASSUME ~Creates PROVE DeliverySpec => []NothingSent
<1>1. Init => NothingSent
  BY DEF Init, NothingSent
<1>2. ASSUME DeliveryInv, NothingSent, [DeliveryNext]_nvars PROVE NothingSent'
  <2>1. \A n \in Ids : job[n] = Null /\ run[n] = Null /\ listening[n] = Silent /\ at[n] \notin Requesting
    BY <1>2 DEF DeliveryInv, WayShape, NothingSent, AtQueue, Requesting
  <2>2. ~Crash
    BY <2>1 DEF Crash
  <2>3. \A n \in Ids : ~Proceed(n)
    BY <2>1 DEF Proceed, SavePending, SaveQueued, AddJob, Requesting
  <2>4. \A n \in Ids : ~Work(n)
    BY <2>1 DEF Work, TakeJob, Send, SaveOutcome, CompleteJob, FailJob, RetryJob
  <2>5. \A n \in Ids : ~Listen(n)
    <3>1. Silent.failed = 0 /\ Silent.completed = 0 /\ ~(0 > 0)
      BY DEF Silent
    <3> QED
      BY <2>1, <3>1 DEF Listen, OnFailed, OnCompleted
  <2>6. ASSUME NEW n \in Ids, NEW c \in Requests, SendNotification(n, c) PROVE NothingSent'
    <3>1. at' = [at EXCEPT ![n] = "refused"] /\ UNCHANGED <<store, handed>>
      BY <2>6 DEF SendNotification, Accepts, Makes
    <3> QED
      BY <1>2, <3>1 DEF NothingSent, DeliveryInv, TypeOK
  <2> QED
    BY <1>2, <2>2, <2>3, <2>4, <2>5, <2>6 DEF DeliveryNext, nvars, NothingSent
<1> QED
  BY <1>1, <1>2, DeliveryInvHolds, PTL DEF DeliverySpec
===============================================================================
