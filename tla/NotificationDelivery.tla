------------------------- MODULE NotificationDelivery --------------------------
(***************************************************************************)
(* A notification on its way from SendNotificationHandler through the      *)
(* BullMQ queue to its channel.  As in AuthSessions, an action is one      *)
(* awaited call with the code that runs on its result, up to the next one. *)
(*                                                                         *)
(* Of one notification there can be at work at the same time: the request  *)
(* with the event handler it started, one run of the worker, and the       *)
(* listeners of `completed' and `failed', which nobody waits for.  All of  *)
(* them save whole notifications, and ignore what save answers.            *)
(*                                                                         *)
(* A channel is handed on in one of two forms: the name of the channel     *)
(* with channelData beside it ("literal"), or a Channel value object       *)
(* ("object").  The parts of the code do not agree on one; Reads says      *)
(* which forms each part understands.                                      *)
(***************************************************************************)
EXTENDS NotificationTemplates, Naturals, FiniteSets

CONSTANTS
  Requests,     \* the commands callers send
  Ids,          \* ids ID.create() may draw for a notification
  Null,         \* no document, no job, no request
  Attempts,     \* the attempts a job is given
  Concurrency,  \* the jobs a worker processes at a time
  Reads,        \* [part |-> the forms of a channel it understands]
  MaxFaults     \* bound: failed saves, lost jobs, unclear answers and crashes

Forms == {"literal", "object"}

ASSUME DeliveryAssumption ==
  /\ Attempts \in Nat \ {0} /\ Concurrency \in Nat \ {0} /\ MaxFaults \in Nat
  /\ IsFiniteSet(Ids)
  /\ Reads \in [{"schema", "factory", "store"} -> SUBSET Forms]

VARIABLES
  asked,      \* the command of each notification
  at,         \* how far each one has come
  note,       \* the notification the request works on, and that is queued
  store,      \* the notifications collection
  job,        \* the queue in Redis
  run,        \* what the worker does for each job
  listening,  \* listeners whose save is still to come
  handed,     \* history: messages handed to the channel
  overtaken,  \* history: a run saved its result before an earlier listener did
  faults      \* faults so far

nvars == <<asked, at, note, store, job, run, listening, handed, overtaken, faults>>

Command == [template: TemplateIds, channel: Channels, given: SUBSET VarNames,
            address: {"valid", "invalid"}]

\* error: a lastError is kept.  sentAt is set exactly when status is SENT; it, the
\* dates, the recipient and the redacted templateVariables are left out.
Notification == [template: TemplateIds, channel: Channels,
                 status: {"PENDING", "QUEUED", "SENT", "FAILED"},
                 attempts: 0..Attempts, error: BOOLEAN]

\* made: attemptsMade; failed: there is a failedReason; stalled: its worker died
Job == [state: {"waiting", "active", "delayed"}, made: 0..Attempts, failed: BOOLEAN,
        stalled: BOOLEAN]

Run == [step: {"send", "save", "completed", "failed"}, copy: Notification \cup {Null}, ok: BOOLEAN]

\* the notifications collection
Collection == [Ids -> Notification \cup {Null}]

ASSUME RequestsAssumption == Requests \subseteq Command

ASSUME NullIsNoRecord == Null \notin Command \cup Notification \cup Job \cup Run

Silent == [completed |-> 0, failed |-> 0]

AtQueue == {"queued", "completed", "exhausted"}
Requesting == {"save", "queue.save", "queue.add"}

TypeOK ==
  /\ asked \in [Ids -> Command \cup {Null}]
  /\ at \in [Ids -> {"unsent", "refused", "unqueued", "lost"} \cup Requesting \cup AtQueue]
  /\ note \in [Ids -> Notification \cup {Null}]
  /\ store \in Collection
  /\ job \in [Ids -> Job \cup {Null}]
  /\ run \in [Ids -> Run \cup {Null}]
  /\ listening \in [Ids -> [completed: Nat, failed: Nat]]
  /\ handed \in [Ids -> Nat]
  /\ overtaken \in [Ids -> BOOLEAN]
  /\ faults \in 0..MaxFaults

Init ==
  /\ asked = [n \in Ids |-> Null]
  /\ at = [n \in Ids |-> "unsent"]
  /\ note = [n \in Ids |-> Null]
  /\ store = [n \in Ids |-> Null]
  /\ job = [n \in Ids |-> Null]
  /\ run = [n \in Ids |-> Null]
  /\ listening = [n \in Ids |-> Silent]
  /\ handed = [n \in Ids |-> 0]
  /\ overtaken = [n \in Ids |-> FALSE]
  /\ faults = 0

Fault == faults < MaxFaults /\ faults' = faults + 1
NoFault == UNCHANGED faults

-------------------------------------------------------------------------------
(* The aggregate, its factory and its repository.                          *)

\* the form NotificationFactory gives to the Channel it builds
Built == "object"

\* Notification.create, which looks at the channel only
Creates == Built \in Reads.schema

\* NotificationFactory.make of data with the channel in this form
Makes(form) == form \in Reads.factory /\ Creates

\* makeNotification of toObject() or of a job's data: the channel is a Channel
MakesNotification == Makes(Built)

MarkAs(x, status, error) == [x EXCEPT !.status = status, !.error = x.error \/ error]

MarkAsQueued(x) == MarkAs(x, "QUEUED", FALSE)
MarkAsSent(x) == MarkAs(x, "SENT", FALSE)
MarkAsFailed(x, error) == MarkAs(x, "FAILED", error)

\* save: an upsert, unless the schema cannot cast the channel
Stored(n, x) == IF Built \in Reads.store THEN [store EXCEPT ![n] = x] ELSE store

\* save as every caller uses it: whatever it answers is ignored
SaveNotification(n, x) ==
  \/ store' = Stored(n, x) /\ NoFault
  \/ UNCHANGED store /\ Fault

-------------------------------------------------------------------------------
(* The request: SendNotificationHandler, then QueueNotificationEventHandler  *)
(* and queueNotification, which go on when the request was answered.         *)

\* EmailChannelData.create, SmsChannelData.create; unwrap throws if it refuses
ValidChannelData(c) == c.address = "valid"

Accepts(c) ==
  /\ ValidTemplateRequest(c.template, c.channel, c.given)
  /\ ValidChannelData(c)
  /\ Makes("literal")

\* the one request SendNotificationController makes: the token is not allowed
ControllerRequest ==
  [template |-> "user-created", channel |-> "EMAIL", given |-> {"user", "token"},
   address |-> "valid"]

NewNotification(c) ==
  [template |-> c.template, channel |-> c.channel, status |-> "PENDING",
   attempts |-> 0, error |-> FALSE]

SendNotification(n, c) ==
  /\ at[n] = "unsent"
  /\ asked' = [asked EXCEPT ![n] = c]
  /\ \/ /\ Accepts(c)
        /\ at' = [at EXCEPT ![n] = "save"]
        /\ note' = [note EXCEPT ![n] = NewNotification(c)]
     \/ /\ ~Accepts(c)
        /\ at' = [at EXCEPT ![n] = "refused"]
        /\ UNCHANGED note
  /\ UNCHANGED <<store, job, run, listening, handed, overtaken, faults>>

\* queueNotification, up to its save
QueueNotification(n) ==
  \/ /\ MakesNotification
     /\ note' = [note EXCEPT ![n] = MarkAsQueued(@)]
     /\ at' = [at EXCEPT ![n] = "queue.save"]
  \/ /\ ~MakesNotification
     /\ at' = [at EXCEPT ![n] = "unqueued"]
     /\ UNCHANGED note

\* the pending notification is saved, and the event is published
SavePending(n) ==
  /\ at[n] = "save"
  /\ SaveNotification(n, note[n])
  /\ QueueNotification(n)
  /\ UNCHANGED <<asked, job, run, listening, handed, overtaken>>

SaveQueued(n) ==
  /\ at[n] = "queue.save"
  /\ SaveNotification(n, note[n])
  /\ at' = [at EXCEPT ![n] = "queue.add"]
  /\ UNCHANGED <<asked, note, job, run, listening, handed, overtaken>>

AddJob(n) ==
  /\ at[n] = "queue.add"
  /\ \/ /\ job' = [job EXCEPT ![n] = [state |-> "waiting", made |-> 0,
                                     failed |-> FALSE, stalled |-> FALSE]]
        /\ at' = [at EXCEPT ![n] = "queued"]
        /\ NoFault
     \/ /\ at' = [at EXCEPT ![n] = "lost"]
        /\ Fault
        /\ UNCHANGED job
  /\ UNCHANGED <<asked, note, store, run, listening, handed, overtaken>>

-------------------------------------------------------------------------------
(* The worker.                                                             *)

\* processNotification: the notification of the job's data, with the attempts and
\* the error of the job
NewRun(n) ==
  IF MakesNotification
  THEN [step |-> "send", ok |-> FALSE,
        copy |-> [note[n] EXCEPT !.attempts = job[n].made, !.error = job[n].failed]]
  ELSE [step |-> "failed", ok |-> FALSE, copy |-> Null]

\* a worker takes the job and starts NotificationProcessor.process
TakeJob(n) ==
  /\ job[n] # Null /\ job[n].state = "waiting"
  /\ Cardinality({m \in Ids : job[m] # Null /\ job[m].state = "active"}) < Concurrency
  /\ job' = [job EXCEPT ![n].state = "active"]
  /\ run' = [run EXCEPT ![n] = NewRun(n)]
  /\ UNCHANGED <<asked, at, note, store, listening, handed, overtaken, faults>>

\* what a run goes on with
GoOn(n, r) == run' = [run EXCEPT ![n] = r]

HandOver(n) == handed' = [handed EXCEPT ![n] = @ + 1]

Sent(r) == [r EXCEPT !.step = "save", !.copy = MarkAsSent(@), !.ok = TRUE]
NotSent(r) == [r EXCEPT !.step = "save", !.copy = MarkAsFailed(@, TRUE)]
Thrown(r) == [r EXCEPT !.step = "failed"]

\* mutated form: an answered mail is reported as a failure
SendDenied(n) ==
  /\ run[n] # Null /\ run[n].step = "send"
  /\ HandOver(n) /\ GoOn(n, NotSent(run[n])) /\ NoFault
  /\ UNCHANGED <<asked, at, note, store, job, listening, overtaken>>

\* mutated form: sent without looking at the answer
SendUnchecked(n) ==
  /\ run[n] # Null /\ run[n].step = "send"
  /\ HandOver(n) \/ UNCHANGED handed
  /\ GoOn(n, Sent(run[n])) /\ NoFault
  /\ UNCHANGED <<asked, at, note, store, job, listening, overtaken>>

\* sendEmail gets no answer it likes: an error without a body makes parseError throw
MailFails(n) ==
  /\ GoOn(n, NotSent(run[n])) \/ GoOn(n, Thrown(run[n]))
  /\ \/ UNCHANGED handed /\ NoFault
     \/ HandOver(n) /\ Fault   \* the mail went out, its answer did not come

SendEmail(n) ==
  /\ run[n].copy.channel = "EMAIL"
  /\ \/ HandOver(n) /\ GoOn(n, Sent(run[n])) /\ NoFault
     \/ MailFails(n)

\* a text message is only logged, and succeeds
SendSms(n) ==
  /\ run[n].copy.channel = "SMS"
  /\ HandOver(n) /\ GoOn(n, Sent(run[n])) /\ NoFault

\* send: the strategy that supports the channel.  Its template is there, as it
\* was when the request was accepted, and each channel has a strategy.
Send(n) ==
  /\ run[n] # Null /\ run[n].step = "send"
  /\ SendEmail(n) \/ SendSms(n)
  /\ UNCHANGED <<asked, at, note, store, job, listening, overtaken>>

\* mutated form: the error of an attempt is not passed on
SaveOutcomeSwallowing(n) ==
  /\ run[n] # Null /\ run[n].step = "save"
  /\ SaveNotification(n, run[n].copy)
  /\ GoOn(n, [run[n] EXCEPT !.step = "completed"])
  /\ overtaken' = [overtaken EXCEPT ![n] = @ \/ listening[n].failed > 0]
  /\ UNCHANGED <<asked, at, note, job, listening, handed>>

\* the save of the outcome, then the result or the error for the worker
SaveOutcome(n) ==
  /\ run[n] # Null /\ run[n].step = "save"
  /\ SaveNotification(n, run[n].copy)
  /\ GoOn(n, [run[n] EXCEPT !.step = IF run[n].ok THEN "completed" ELSE "failed"])
  /\ overtaken' = [overtaken EXCEPT ![n] = @ \/ listening[n].failed > 0]
  /\ UNCHANGED <<asked, at, note, job, listening, handed>>

\* the job is removed and `completed' emitted
CompleteJob(n) ==
  /\ run[n] # Null /\ run[n].step = "completed"
  /\ job' = [job EXCEPT ![n] = Null]
  /\ run' = [run EXCEPT ![n] = Null]
  /\ at' = [at EXCEPT ![n] = "completed"]
  /\ listening' = [listening EXCEPT ![n].completed = @ + 1]
  /\ UNCHANGED <<asked, note, store, handed, overtaken, faults>>

\* mutated form: no limit to the attempts
TriedAgainForever(j) == TRUE

\* the options of queue.add: another attempt after a delay, or removal
TriedAgain(j) == j.made + 1 < Attempts

\* the attempt failed and `failed' is emitted
FailJob(n) ==
  /\ run[n] # Null /\ run[n].step = "failed"
  /\ run' = [run EXCEPT ![n] = Null]
  /\ \/ /\ TriedAgain(job[n])
        /\ job' = [job EXCEPT ![n].state = "delayed", ![n].failed = TRUE,
                   ![n].made = IF @ < Attempts THEN @ + 1 ELSE @]
        /\ UNCHANGED at
     \/ /\ ~TriedAgain(job[n])
        /\ job' = [job EXCEPT ![n] = Null]
        /\ at' = [at EXCEPT ![n] = "exhausted"]
  /\ listening' = [listening EXCEPT ![n].failed = @ + 1]
  /\ UNCHANGED <<asked, note, store, handed, overtaken, faults>>

RetryJob(n) ==
  /\ job[n] # Null /\ job[n].state = "delayed"
  /\ job' = [job EXCEPT ![n].state = "waiting"]
  /\ UNCHANGED <<asked, at, note, store, run, listening, handed, overtaken, faults>>

-------------------------------------------------------------------------------
(* The listeners of the worker's events.  Both make the notification of the  *)
(* job's data, as it was when it was queued.                                 *)

\* a save of the job's notification, when it can be made
SaveAs(n, x) ==
  \/ MakesNotification /\ SaveNotification(n, x)
  \/ ~MakesNotification /\ UNCHANGED <<store, faults>>

\* mutated form: a notification without a lastError is left alone
OnFailedWithError(n) ==
  /\ listening[n].failed > 0
  /\ listening' = [listening EXCEPT ![n].failed = @ - 1]
  /\ note[n].error => SaveAs(n, MarkAsFailed(note[n], FALSE))
  /\ ~note[n].error => UNCHANGED <<store, faults>>
  /\ UNCHANGED <<asked, at, note, job, run, handed, overtaken>>

OnFailed(n) ==
  /\ listening[n].failed > 0
  /\ listening' = [listening EXCEPT ![n].failed = @ - 1]
  /\ SaveAs(n, MarkAsFailed(note[n], FALSE))
  /\ UNCHANGED <<asked, at, note, job, run, handed, overtaken>>

\* mutated form: saved as it was queued
OnCompletedUnmarked(n) ==
  /\ listening[n].completed > 0
  /\ listening' = [listening EXCEPT ![n].completed = @ - 1]
  /\ SaveAs(n, note[n])
  /\ UNCHANGED <<asked, at, note, job, run, handed, overtaken>>

\* mutated form: the listener leaves the document to processNotification
OnCompletedUnsaved(n) ==
  /\ listening[n].completed > 0
  /\ listening' = [listening EXCEPT ![n].completed = @ - 1]
  /\ UNCHANGED <<asked, at, note, store, job, run, handed, overtaken, faults>>

OnCompleted(n) ==
  /\ listening[n].completed > 0
  /\ listening' = [listening EXCEPT ![n].completed = @ - 1]
  /\ SaveAs(n, MarkAsSent(note[n]))
  /\ UNCHANGED <<asked, at, note, job, run, handed, overtaken>>

-------------------------------------------------------------------------------
\* The process stops and starts again.  What it had in memory is gone; a job it
\* worked on has stalled and is taken again, but only once: then it is removed,
\* and the listener is handed no job.
StalledTwice(n) == run[n] # Null /\ job[n].stalled

Crash ==
  /\ \E n \in Ids : at[n] \in Requesting \/ run[n] # Null \/ listening[n] # Silent
  /\ Fault
  /\ at' = [n \in Ids |-> IF at[n] \in Requesting THEN "lost"
                         ELSE IF StalledTwice(n) THEN "exhausted" ELSE at[n]]
  /\ job' = [n \in Ids |-> IF run[n] = Null THEN job[n]
                          ELSE IF StalledTwice(n) THEN Null
                          ELSE [job[n] EXCEPT !.state = "waiting", !.stalled = TRUE]]
  /\ run' = [n \in Ids |-> Null]
  /\ listening' = [n \in Ids |-> Silent]
  /\ UNCHANGED <<asked, note, store, handed, overtaken>>

Proceed(n) == SavePending(n) \/ SaveQueued(n) \/ AddJob(n)

Work(n) ==
  \/ TakeJob(n) \/ Send(n) \/ SaveOutcome(n)
  \/ CompleteJob(n) \/ FailJob(n) \/ RetryJob(n)

Listen(n) == OnFailed(n) \/ OnCompleted(n)

DeliveryNext ==
  \/ Crash
  \/ \E n \in Ids :
       \/ \E c \in Requests : SendNotification(n, c)
       \/ Proceed(n) \/ Work(n) \/ Listen(n)

DeliverySpec == Init /\ [][DeliveryNext]_nvars

\* awaited calls come back, the worker polls and delays end
FairDeliverySpec ==
  /\ DeliverySpec
  /\ \A n \in Ids : WF_nvars(Proceed(n)) /\ WF_nvars(Work(n)) /\ WF_nvars(Listen(n))
===============================================================================
