# inpro-api in TLA+

A verification project for the inpro-api server: TLA+ models of its
components, the instances on which TLC checks them, and theorems that tlapm
proves about them. File names below are relative to the repository root.

## The system

inpro-api is one NestJS process. Every HTTP request becomes a command or a
query handled by an async handler; handlers of different requests interleave at
every `await`. There is no locking, no transaction and no version check:
repositories read whole documents and save whole documents.

| Component | Where | State | Operations | Correct when |
| --- | --- | --- | --- | --- |
| Session aggregate, mapper | `src/modules/auth/domain`, `infra/mappers` | one session in memory | create, revoke, refresh, to and from a document | every copy of a session agrees on owner, device and expiry; nothing is lost on the way |
| Session repository | `src/modules/auth/infra/repositories` | MongoDB collection `sessions` | save (upsert), delete, three finds | a device finds its active session; removed stays removed |
| Tokens | `generate-tokens.service.ts`, `shared/security/jwt`, `encrypt` | none (tokens live in clients) | sign a pair, verify, digest, compare | a token is of one session, user and device; each refresh token is good once |
| Authentication requests | `application/commands`, `jwt.strategy.ts`, controllers | requests in flight, browser cookies | sign-in, refresh, guard, revoke, sign-out | see "What is checked" |
| Session events | `application/events/session` | none | log | published exactly when the change was stored |
| Session listing | `list-user-sessions.query.impl.ts` | none | find one page, count | page and total agree |
| Accounts | `src/modules/account` | PostgreSQL table `users` | create, find by email or id | one account per email; an account can be created at all |
| Notifications: sending, queue | `src/modules/notifications` (`send-notification.handler.ts`, `notification-queue.service.ts`, `notification.processor.ts`) | MongoDB `notifications`, BullMQ queue in Redis | send, queue, process, completed, failed | each queued notification ends sent or given up, and its document says which |
| Notifications: templates, senders | `template-manager.service.ts`, `notification-template.entity.ts`, strategies, `mail-sender.gateway.ts` | none | validate variables, redact, hand over | a template's requests are accepted; a failure to hand over is told |
| Gateways, plumbing, config | `src/shared`, `src/config`, `main.ts` | connections | - | - |

How they interact: `JwtAuthGuard` is installed for every route
(`app.module.ts`), and asks `ValidateSessionHandler` over the command bus unless
the route is `@Public` (sign-in and refresh-token only). Sign-in runs
`SignInHandler`, then `CreateSessionHandler` over the command bus. Both read
users through the account module. Sessions and notifications share no state.

What is hard: requests that overlap on one session (stale whole-document saves,
upserts after deletes, check-then-act), results that are dropped, answers that
are lost after the store changed, expiry that strikes between two awaits, and
for notifications at-least-once jobs with asynchronous listeners. The list,
line by line, is under "hazards" in `PROJECT.json`.

## The modules

```
SessionAggregate                      the aggregate, as operators on values
  |-- SessionRepository               the collection, as operators on a function
  |-- JwtTokens                       token pairs
        |
   AuthSessions                       requests in flight: the state machine
        |
   AuthSessionsProps --- INSTANCE ---> SessionLifecycle   (abstract)
        |-- MCAuthSessions
        |-- SessionListing ---- MCSessionListing          the list request beside them
        |-- AuthSessionsProofs                            any number of requests
              |-- SessionIdentityProofs
                    |-- ActiveSessionsProofs
                          |-- LifecycleProofs             requests that do not overlap
                                |-- SessionListingProofs  (EXTENDS SessionListing)

   Accounts ---- MCAccounts, AccountsProofs               creating accounts
        |
   InproApi (EXTENDS AuthSessions, INSTANCE Accounts) ---- MCInproApi
        |-- InproApiProofs (EXTENDS LifecycleProofs, INSTANCE AccountsProofs)

   NotificationTemplates              what a template accepts
        |
   NotificationDelivery               request, worker and listeners: the state machine
        |
   NotificationDeliveryProps --- INSTANCE ---> Delivery   (abstract)
        |-- MCNotificationDelivery
        |-- NotificationDeliveryProofs
```

**SessionAggregate** (`session.aggregate.ts`, `session.mapper.ts`). A session is
a record; `digest` stands for the HMAC of the refresh token with that token id,
HMAC being taken as injective. Fields no property tells apart (ip, user agent,
device type, createdAt, updatedAt) are left out. `FromModelToDomain` loses
`lastRefreshAt`, as the mapper does by calling a factory that takes none: it
imports that of the tests (`@test/factories/fake-session.factory`).

**SessionRepository** (`session.repository.impl.ts`). The collection is a
function from session ids to a session or `Null`. `Save` inserts what is not
there: the code's upsert. `FindActiveSession` uses `expiresAt > now` and
`IsExpired` uses `expiresAt < now`, so the instant of expiry is neither.

**JwtTokens**. An access and a refresh token are signed with one payload, one
secret and one token id; they differ in lifetime only, so a pair is kept as its
payload and issue time, and whoever presents a token says which of the two it
is. Both kinds are accepted by `verify`; only the digest comparison of the
refresh route tells them apart.

**AuthSessions**. One action is one database call, with the JavaScript that runs
on its result up to the next call: that code is never interrupted. The query of
`findActiveSession` asks for the instant it was sent, the `iat` of the pair made
just before, not that of its result. A request is a slot of `req` and its `at`
names the call it waits for:

| Request | Steps |
| --- | --- |
| sign-in | `SignIn` -> `CreateSession` -> `SaveNewSession` -> `AnswerTokens` |
| refresh | `GetRefreshTokenSession` -> `RefreshSession` -> `SaveRefreshedSession` -> `AnswerTokens` |
| sign-out | `BeginSignOut` -> `SignOut` -> `DeleteSession` -> `AnswerSignOut` |
| revoke | `BeginRevoke` -> `RevokeSession` -> `SaveRevokedSession` -> `CommitRevokedSession` |

A request refused before it changed anything is not a step. Faults: a database
call fails (`FailedQuery`, and the `Fault` disjuncts of the saves, the delete
and findActiveSession), an answer is lost (`LoseAnswer`), the process stops
(`Crash`). A failed save of a new session may or may not have been applied;
for the calls whose result is ignored this makes no difference. `Tick` is the
clock. `rotated` is a history variable: the refresh tokens whose successor was
stored. `published` holds the domain events that reached the event bus.

**SessionLifecycle** is the promise to a client: a session is opened once, hands
its token on to a token never expected before, and ends for good by revocation
or removal. `AuthSessionsProps` maps the collection to it (`Lifecycle`).

**Accounts** (`create-user.handler.ts`, `user.repository.impl.ts`,
`schema.prisma`). A create-user request is `BeginCreate` -> `FindUser` ->
`HashPassword` -> `SaveUser` -> `AnswerCreated`: a look-up, a bcrypt hash on
another thread and an upsert, each an await. A failed look-up is read as "no
such user". `EmailTaken` is the unique index of the table, which makes the
upsert throw. `created` is a history variable: the accounts whose creation was
answered with success.

**InproApi** puts both in one process. `JwtAuthGuard` stands before `POST
/users` (`CreateUserRoute`) and, inside `AuthSessions`, before sign-out and
revocation; sign-in finds its user by email and password
(`ValidateUserCredentials`), a refresh by id. `faults` is shared, and a crash
ends the requests of both.

**SessionListing** puts `GET /sessions` beside the requests of `AuthSessions`:
`RetrieveUserSessions` (guard and query schema) -> `FindSessions` ->
`CountDocuments` -> `PresentSessions`, with `FailedListing` for either query. Sessions that
are equal in the sort come in any order, a take of 0 is no limit, and the page
number it is divided by is then no number (`Null`).

**NotificationTemplates** (`template-manager.service.ts`,
`notification-template.entity.ts`). A template is a function from its channels
to their definitions, and variables are names. `Validates` is what the json-schema
package, version 0.4, does with the schema as the template writes it: `required`
is read as a boolean of a property, so the list in it demands nothing.

**NotificationDelivery** follows one notification from the command to its channel:

| Who | Steps |
| --- | --- |
| request, then the event handler it started | `SendNotification` -> `SavePending` -> `SaveQueued` -> `AddJob` |
| worker | `TakeJob` -> `Send` -> `SaveOutcome` -> `CompleteJob` or `FailJob`; `RetryJob` after the delay |
| listeners, awaited by nobody | `OnFailed`, `OnCompleted` |
| faults | `Crash`; a failed save (`SaveNotification`), a failed `AddJob`, a mail that went out whose answer is lost (`MailFails`) |

`note` is the job's data, the notification as it was queued, which the worker
and both listeners rebuild. The queue, its retries, its check for stalled jobs and its events
are BullMQ's and are modelled from the options and events the code uses
(external in "map"). A job whose worker died is taken once more
(`maxStalledCount` is 1 by default); the second time it is removed
(`StalledTwice`). `Reads` says which form of a channel the schema of the
aggregate, its factory and the collection understand. As shipped they disagree,
and no request gets past `Notification.create` (run `send_refused`); everything
behind it is checked for the forms the parts would have to agree on
(`AgreedReads`), and proved for every `Reads` (`FinalDocument` and `DeliveredIsTold`:
for every one that agrees). A message given to the SMS strategy counts as handed
over, although it is only logged. `handed` and `overtaken` are history variables.

**Delivery** is the promise about one notification: accepted, it is queued or
lost; queued, it ends delivered or given up; delivered only if it was handed
over, perhaps more than once.

## What is checked

The runs are instances of `MCAuthSessions`, `MCSessionListing`, `MCAccounts`,
`MCInproApi` and `MCNotificationDelivery`. Deadlock is not checked: a model
stops when tokens, ids, time and faults are used up and clients stay silent.

| Run | Instance | Question |
| --- | --- | --- |
| `rotation` | 1 session, 3 token pairs, 2 overlapping requests, 1 fault, time to 3 | Can a stale save revive a rotated token, orphan a session or move its expiry? No. Can anything but a refresh in flight undo the end of a session? No (`UndoneOnlyByRefresh`), and once no request of its tokens is in flight, nothing can (`EndedForGood`). Are `IndInv` and `OneExpiry` invariants? Yes. |
| `ownership` | 2 users, 3 sessions, 3 pairs, 2 overlapping requests | Can requests of two users mix or end each other's sessions? No. Can sign-ins that race pile up active sessions? No more than requests in flight (`ActiveBounded`). |
| `lifecycle` (MCSessionListing) | 2 users and sessions, 1 request at a time and 1 list request, 1 fault, time to 2 | `AuthSessions` implements `SessionLifecycle`. Until something fails, one active session per user and device, the cookie is the token expected, and an announced revocation is stored. A list shows only the caller's sessions, and its page agrees with its total unless a session came or went between the two queries; `ListingInv` is an invariant. |
| `lockout` | 1 session, 2 overlapping requests, 1 fault, fairness | A device barred by a session whose token nobody holds is barred until expiry only. |
| `sign_up` (MCAccounts) | 3 user ids, 2 emails, 2 passwords, 2 overlapping requests, 2 faults | One account per email; an account answered for is never taken over; `IndInv` is an invariant. |
| `api` (MCInproApi) | 2 users, one of them seeded, 2 sessions, 3 pairs, 1 request of each kind, 1 fault | A session stays one of an existing account while others are created. |
| `delivery` (MCNotificationDelivery) | 2 notifications, 5 commands, 2 attempts, 2 faults, fairness, `AgreedReads` | SENT is never untrue, an outcome is not replaced by an earlier status, a mail is repeated only after a fault, jobs end, documents tell how (`FinalDocument`), and that a job was completed even after a fault (`DeliveredIsTold`). `Delivery` is implemented. |

Violations, each a behaviour of the code that a test or an API description
excludes (quoted under "findings"):

| Run | What happens |
| --- | --- |
| `signout_undone` | refresh reads, sign-out deletes, refresh saves: the upsert inserts the session again, live |
| `revocation_undone` | refresh reads, revoke saves, refresh saves its copy with `revokedAt` null |
| `double_sign_in` | two sign-ins both pass findActiveSession, both save |
| `no_first_account` | creating an account takes a session, a session takes an account |
| `send_refused` | a valid request to a valid address is refused: the aggregate's schema wants the name of a channel and is given an object |

### Bounds

`MaxTime`, `LastSignIn`, `MaxFaults`, `Procs` and the id sets bound every run.
Two requests are enough for a read and a save to be separated by another save,
which is the only interaction there is: an action touches one document. Three
token pairs give a sign-in and two refreshes, so that two refreshes can race
with one token, or follow one another. A `SessionTTL` of 2 in a time of 3, with
`LastSignIn = 0` or 1, lets a session reach its last instant (neither active
nor expired) and expire while requests are in flight; tokens expire before
(`AccessTTL = 1`) and with (`RefreshTTL = 2`) their session. `LastSignIn` also
stops the clock while a sign-in has not fixed its expiry yet, or that expiry
would lie beyond the model's time. Users, devices, ids and slots are symmetric;
the liveness runs use no symmetry. `ownership` has a third
session so that its bound of two active ones could be exceeded. It has one
device and no faults: that devices do not mix, and that a failed look-up adds one
active session, is left to `TokenBindingHolds` and `ActiveBoundedHolds`. In `sign_up` two requests race for one email
and a third id is left for a later attempt; `api` needs one account to sign in
with and one to create.

`lifecycle` asks for three pages: one session, the rest without a limit after
one, and a take of 51, which is refused. Two sessions of one user are enough to
come or go between the queries. `delivery` has two attempts instead of 3, so that
one fails for retry and one for good, and a concurrency of 1 instead of 10, so that
one job waits for another; two faults let a job stall twice. Two notifications share nothing but the worker. The
theorems hold for every number of each. `send_refused` asks every command there is, with the numbers
of the code.

### Fairness

`FairSpec` assumes that time passes and that the event loop runs a request in
flight (`Proceed`); it obliges no client to call and no fault to happen or stay
away. Node runs every settled promise, and a database driver settles every
call, with an error if need be. `FairDeliverySpec` likewise assumes that the calls of a request come back, that
the worker polls and its delays end (BullMQ's promise), and that started
listeners are run; it obliges nobody to send, and the mail API to answer but not to
succeed. Crashes are bounded by `MaxFaults`: a process that stops for ever
delivers nothing. `ApiSpec`, used only by `no_first_account`, also
assumes clients that keep trying: the run shows that trying does not help.

## What is proved

`AuthSessionsProofs` proves, for every value of the constants that meets the
named assumptions (`Null` is none of the values, bounds are naturals, TTLs are
positive), with overlapping requests and faults:

- `TypeCorrect`: `Spec => []TypeOK`
- `TokenBindingHolds`: token pairs, stored sessions and sessions in memory of a
  session id agree on user and device
- `RotatedStaysDeadHolds`: no live session expects a token whose successor was
  stored
- `RotatedNeverAcceptedHolds`: the refresh service accepts no such token
- `EndedOnlyByOwnerHolds`: only a request of the owner ends a live session

The argument. None of these is inductive: a save writes whatever copy the
request holds, so the invariant must speak of copies. `IndInv` adds

- `RequestsWellFormed`: which fields a request holds at each step;
- `RequestTokens`: a token presented was delivered before, a pair generated is
  held by one request and was delivered to nobody;
- `DeliveredPairs`: rotated tokens are delivered ones;
- `PendingSaves`: what the copies hold. A sign-in or refresh will save a digest
  only it knows, or an expired session; a revocation saves a revoked session.

So whatever is saved over a document is not live, or carries a token nobody was
given: it cannot be a rotated one. That is lemma `StoreStep`, on which the lemma
of each saving action rests. `NextIndInv` puts the actions together;
`AcceptedByService` and `EndedByOwnerStep` give the action properties.

`SessionIdentityProofs` adds the properties that compare a document with what it
was or with its other copies: `OneExpiryHolds` and `NoOrphanedSessionHolds`.
`IndInv` is not enough for them: it says that copies belong to their session, not when they expire, nor
that a sign-in that is refused has left nothing behind. `OneExpiry` says so: all copies
of a session and its document agree on its expiry, and a session not opened yet
is in nobody's hands. One lemma (`EffectStep`) covers every step that is not a
sign-in's: it leaves the document, removes it or writes the copy in memory, and
what it then holds comes from memory or from the collection.

The same module says what is left of an end that a stale save undoes
(`signout_undone`, `revocation_undone`). `UndoneOnlyByRefreshHolds`: only the
save of a refresh does, and the session then expects the token of that refresh,
which nobody was given. It takes `SoleSignIns`: a session about to be opened
is in no other request's hands and none of its tokens was given to anybody, so
the save of a sign-in brings nothing back.

`EndedForGoodHolds` says when such an end is final: once no request that
presented a token of the session is in flight. Then no refresh of it can
save, a new request with one of its tokens is refused by the guard
(`OverArrival`), and no request comes by a token of another session
(`TokensKept`); only a sign-out with such a token would remove the document
(`OnlyDeleteRemoves`), and a revocation from another session may still hold a
copy, but what it saves is revoked (`OverStep`).

`ActiveSessionsProofs` says how far the check of `CreateSessionHandler` can be
missed. `ActiveBoundedHolds`: for finitely many request slots, a device has at
most one active session per slot, and one more per fault. Counting the active
sessions is not inductive, for a refresh can save a session that has ended;
`CountInv` bounds `Holders`, the sessions that are active or that a request in
flight can make so. Only a sign-in past its check adds one. It passes while
nothing is stored, and then every holder but its own is another request in
flight, or because its query failed, which is a fault. With one slot and no
fault the bound is 1: `OneActivePerDeviceHolds`.

`LifecycleProofs` proves what holds while requests do not overlap, under
`OneSlot` (any two slots are the same one), again for every value of the other
constants. Nothing runs between a read and the save that follows it;
`Undisturbed` says what each step still knows of the document.

- `ImplementsLifecycleHolds`, with faults: a save or a deletion is one
  step of `SessionLifecycle` (`SaveNewOpens`, `SaveRefreshedRotates`,
  `SaveRevokedRevokes`, `DeleteRemoves`), and every other step none.
- `RemovedStaysUnusableHolds` and `RevokedStaysRevokedHolds`, with faults: what
  `signout_undone` and `revocation_undone` refute hangs on the overlap alone.
- `CookieUsableHolds` and `AnnouncedIsRevokedHolds`: `AnswersInv` adds that a
  request about to answer holds the token its session expects, and that a
  session about to be opened was never announced.

All of this is proved of `OpenSpec`, in which faults also strike requests of
other parts of the process (`FaultElsewhere`); `Spec` is a case of it, and so
are the two modules that put other requests beside these.

`SessionListingProofs` proves of `SessionListing`, for every set of pages,
`ListingInvHolds`, `OnlyOwnSessionsListedHolds` and `PageAgreesWithTotalHolds`.
`ListingInv` says that the page in hand is the caller's sessions, each once, and
as long as `PageLength` of the sessions there were when it was read. That rests
on lemmas about the operators: whatever order the sort picks for equals is a
sequence of all the caller's sessions (`SortedHolds`), and `Page` cuts
`PageLength` of them out of it (`PageOf`, `ShownOf`); the store holds finitely
many sessions, since every step stores at most one (`OpenStored`).
`ListingDisturbsNothing` and `ListingDisturbsNoLife` carry what the requests
promise over to `ListSpec`: a list request changes nothing of theirs, and its
failed queries are faults elsewhere.

`AccountsProofs` proves of `Accounts`, for any number of overlapping requests
and faults, `TypeCorrect`, `IndInvHolds`, `OneAccountPerEmailHolds` and
`CreatedStaysTheirsHolds`. Its `IndInv` adds what a request holds (`Held`): the
id it drew is in no row and in no other request until it is saved. `StoreStep`
is the core: the row written is new and its email is nobody's.

`InproApiProofs` carries both inductive invariants over to the composition,
which shares `faults` between them, and adds `SessionsOfAccountsHolds`: a pair is
signed for a user just read, a row is never removed, and sessions belong to
their pairs. `ApiAssumption` is what it needs beyond the assumptions of the
parts. `PartsKeepTheirPromises` and `SerialPromisesKept` state that what sessions
and accounts promise alone they promise together. `FirstAccountNeverCreated` is
the finding of `no_first_account` for every number of users and clients: with
neither accounts nor tokens (`NobodyIn`), every request there is, is refused.

`NotificationDeliveryProofs` proves, for every number of notifications, attempts,
concurrent jobs and faults, and for every `Reads` and set of templates:

- `DeliveryTypeCorrect`, `DeliveryInvHolds`
- `SentIsSentHolds`: no document says SENT of what was not handed over
- `NoDuplicateHolds`: handed over at most once more than there were faults
- `OutcomeStaysHolds`: SENT and FAILED never go back to an earlier status, and
  SENT to FAILED only by a fault or a late listener
- `FinalDocumentHolds`: under `Agreed`, which says of `Reads` that every part
  understands the form the factory builds, the document tells the end of its job
- `DeliveredIsToldHolds`: under `Agreed`, one fault does not keep the document of a
  completed job from saying SENT, unless a `failed` listener was late
- `ImplementsDeliveryHolds`: every step is a step of `Delivery` or a stutter

`DeliveryInv` adds what a notification has at each point of its way
(`WayShape`), what an attempt holds and has done (`RunShape`), that each message
beyond the faults is that of the successful attempt (`Evidence`), and that a success
without faults is not followed by another attempt (`CleanSuccess`). `FinalShape` adds for `FinalDocument` that
a success is saved before its job completes, and that after the last failure
FAILED is saved or its listener is still to come. `TellShape` does the same for
`DeliveredIsTold` with a fault: SENT is saved by the attempt or by the
`completed` listener, and one fault can hit only one of the two.

`NothingSentAsShipped` is about the finding of `send_refused`: as long as the
schema does not take the form the factory builds (`~Creates`, as in the code), no
notification is ever stored, queued or handed over, whatever the templates.

Only model-checked: liveness (`LockoutEnds`, `JobsEnd`), since tlapm proves
neither liveness under fairness nor ENABLED.

## Not modelled

- Connections (`src/shared/gateways/db`), configuration, pipes, filters and
  decorators: I/O and wiring without state. `RedisGateway` is provided by no module.
- Texts: rendering a template with Mustache, and the messages of errors.
- `findByRefreshToken`, `findAllByUserId` and `User.verify` have no caller.
- Of a list request: negative and fractional skip and take, which the schema lets
  pass, and `orderBy` and `search`, which the query ignores. Pages over several
  requests, which the unstable order may make overlap.
- `redactData` and the `templateVariables` a notification keeps. It stores a mark
  for each secure placeholder of the channel and none of the values given, while
  `notification.e2e-spec.ts:47,104-114` expects those, and `TODO.md:49` has "Fix
  redacted mapping" among the things to do: the code has no settled promise to check.
- An acknowledgement of a job that fails, and a lock that stalls without a
  crash: to the job either is what `Crash` does. A missing template or strategy
  in the sender (`notification-sender.service.ts`), which cannot be missing once
  the notification was created.
- Dates of a notification, and the attempts and error that a `failed` listener
  writes back over those of the attempt (`onFailed`, hazard at line 144): they
  are read by nobody.

## Met on the way

Read in the code and kept in the models, though no run is about them:

- `create-session.handler.ts:78` commits a session no publisher was merged
  into: `SessionCreated` is never published.
- Rehydration (`session.mapper.ts:18`) drops `lastRefreshAt`; the next save erases it,
  and the list sorts by it. The mapper takes its factory from the tests' factories.
- The senders are injected into a provider
  (`notification-strategies.provider.ts`), but the module provides neither of
  them; a text message is only logged, and counts as sent.
- The collection's schema of a text message keeps `channelData.to`, while its
  data have a `phone` (`notification.schema.ts:88`).
- The shipped template requires `token`, does not name it among its properties,
  and allows no other: a request with it is refused, one without it passes.
- A job's data keep the variables as they were given, in Redis, until the job is removed.

## Plan

Done: sessions, their list, accounts, notifications, and the composition of accounts
and sessions, with a proof of every safety property the runs check. Left:

1. A list over several pages, against a reference definition.
2. How many messages too many a run with faults can produce per kind of fault:
   `NoDuplicateWithoutFault` counts them together.
