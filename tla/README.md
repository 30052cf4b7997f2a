# SignalStack SMS — TLA+ models and proofs

SignalStack SMS is a multi-tenant messaging service: a Next.js application with
PostgreSQL as its only shared state, worker processes that poll it, one live
message provider (Twilio) and signed webhooks in both directions. This directory
holds TLA+ models of the parts whose correctness depends on the order of events,
the TLC configurations that check them and the TLAPS proofs about them.
Paths below are relative to the repository root.

## The system

| Component | Where | State it keeps | Operations |
|---|---|---|---|
| Direct-message outbox | `lib/messaging/outbox/`, `lib/db/message-attempt-dispatch.ts`, migrations `2026071201[89]000`, `20260712020000` | `Message` (application status, attempt count, provider SID and status), `MessageAttempt` (status, due and lease times, processing token, provider-call frontier) | recover expired, claim due, prepare, call the provider, finalize, mark persistence ambiguous |
| Reservation | `lib/messaging/direct-message-reservation.ts` | the same rows, keyed by an idempotency key | accept a message with its first attempt; settle a dummy message |
| Cancellation | `lib/messaging/direct-message-cancellation.ts` | — | snapshot, lock, recheck, cancel |
| Delivery-attempt review | `lib/messaging/delivery-attempt-review.ts` | reconciliation evidence of an attempt | fetch and reconcile, attest not sent, retry attested |
| Status callbacks | `app/api/webhooks/twilio/status`, `lib/db/repositories/webhooks.ts`, `lib/messaging/twilio-webhooks.ts`, `status-callback-correlation.ts` | `WebhookEvent` (processed, claim), the rows above | correlated and legacy projection of a provider status |
| Inbound messages, inbox | `app/api/webhooks/twilio/inbound`, `lib/db/repositories/inbox.ts` | `Conversation`, `Contact`, `WebhookEvent` claim lease | receive, opt out, reply |
| Customer webhooks | `lib/integrations/customer-webhooks/`, migrations `2026071104–06` | endpoints, deliveries, attempts, signing secrets | enqueue, claim, reserve an attempt, send, finalize, auto-disable, replay |
| Campaign queue | `lib/queue/`, `lib/db/repositories/campaigns.ts`, `lib/db/queue-dispatch.ts` | `Campaign`, `QueueJob` (token, lease, generation), recipients, BullMQ copies | schedule, cancel, claim, renew, send, complete, fail |
| Public API | `lib/public-api/` | API keys, idempotency records | authenticate, reserve, execute, replay |
| Authentication and team | `lib/auth/` | users, sessions, memberships, invites, throttles, reset tokens | log in, revoke, invite, change roles, reset |
| Provider accounts | `lib/integrations/provider-accounts/` | accounts, credential versions, phone numbers | verify, rotate, choose a default |
| Contacts, consent, compliance | `lib/compliance/`, `lib/db/repositories/contacts.ts` | contacts, consent evidence, profile | opt in, opt out, gate a send |
| Live test SMS | `lib/messaging/live-test-sms.ts` | a reserved `Message` | reserve, send, review |
| Rate limits | `lib/auth/auth-throttle.ts`, `lib/rate-limit/` | `AuthThrottle` rows, keys in Redis | inspect, consume, count, expire |
| Route handlers | `app/api/**/route.ts`, `lib/auth/api-rbac-matrix.ts`, `lib/public-api/openapi-registry.ts` | — | the gates and transactions of some hundred routes, and the tables that declare them |
| Collections | `lib/public-api/resource-pagination.ts`, `lib/public-api/cursor.ts`, `lib/messaging/delivery-attempt-review.ts` | cursors, held by clients | one page of a collection |
| Tenant isolation | `lib/db/tenant-context.ts`, `lib/db/runtime-posture.ts` | session settings of pooled connections | tenant, control, worker and routing transactions; inspection of the posture |
| Runtime configuration | `lib/env/runtime-config.ts`, `lib/deployment/production-gate.ts`, `lib/compliance/gates.ts`, readiness of both workers | environment variables | read them, accept or refuse a message, start or refuse to |
| AI, billing, CSV, analytics, operations, UI, scripts | `lib/…`, `app`, `components`, `scripts` | usage rows | single-request computations |

Components meet in the database only. A web request and a worker never call each
other: the request commits rows, a worker's poll finds them through a
`SECURITY DEFINER` dispatch function, and each tenant transaction locks the rows
it decides about. The provider is called between two transactions, never inside
one. Everything hard follows from that: what a worker read before the call may be
stale after it; a process may die, stall past its lease or lose the connection
between any two transactions; the provider answers late, twice, out of order or
never; and an operator may intervene at any time.

### What makes each component correct

* **Outbox.** An attempt is handed to the provider at most once; a message
  reaches its recipient twice only if an operator attested that the first was not
  sent; message and attempts always tell one story; what the tenant is shown is
  what the provider did; no transaction runs into the database's state-machine
  triggers; nothing stays open for ever.
* **Cancellation.** A cancelled message was not and will not be sent.
* **Review.** Evidence stays with the attempt it belongs to, through attestation,
  retry and late callbacks.
* **Callbacks.** Order and repetition do not matter: the furthest report is
  shown, an outcome is final, and the two rows never disagree so that every
  redelivery fails.
* **Campaign queue.** A scheduled campaign always has a live job; through the public API a
  job that waits is the current schedule and one that runs the latest; completion reached every recipient who stayed
  opted in; a worker that lost its claim closes nothing; a completed campaign is
  final; a due campaign completes or pauses.
* **Customer webhooks.** A delivery is tried a bounded number of times, under one
  secret, and called delivered only if its receiver acknowledged a try; the attempt
  numbers never get a gap, which would stop the delivery for ever, unless the endpoint
  changes in the middle of a poll; an endpoint is
  disabled in time and nothing waits at a disabled one; every delivery settles.
* **Public API.** Under one idempotency key effects lie a whole retention apart and
  a message is sent once for ever; a success names what this very request made; a
  key spends no more than its budget; every route requires what is declared for it;
  whoever is told of an error may take it that nothing was changed; whoever walks a
  collection misses nothing that stayed and sees nothing twice.
* **Authentication and team.** An organization keeps an active owner; a pending
  invitation has an issuer who may still grant it; a usable session was opened with
  the account's present password.
* **Consent.** Evidence is written once; nobody is opted in without it by a keyword
  or a merge; a keyword takes effect once.
* **Provider accounts.** What is recorded was answered under the credential in
  force; one default each; a revoked account authorises nothing; a callback that
  passed its recheck keeps its authority until it commits.
* **Live test SMS.** The carrier is called once per request id, and nobody is told of
  an outcome the carrier does not have.
* **Throttles.** Whoever is refused is let in again when told so.
* **Tenants.** A statement reads the rows of the organization its call asked for;
  connections keep nothing.
* **Configuration.** However the operator changes the environment between the
  acceptance of a message and its dispatch, work of the demo never leaves live.

## Modules

| Module | Models | Runs |
|---|---|---|
| `ProviderStatus` | the order of provider statuses, the `where` guard of a status update, what a status makes of message and attempt | (used by the next two) |
| `StatusProjection` | one provider message, its two rows and their three writers | `components` |
| `MessageOutbox` | the outbox with requests, workers, provider, callbacks, operator, faults | `outbox`, `known_sid` |
| `DirectMessageContract` | what the outbox promises a tenant | refined by `MessageOutbox` in `outbox` |
| `CampaignQueue` | one campaign, its jobs, console and public requests, workers, contacts, faults | `public_requests`, `queue_liveness`, `queue_stale_schedule`, `queue_paused_active` |
| `WebhookPolicy` | what one signed request may address, how an exchange is classified, retry delays | (used by the next) |
| `CustomerWebhooks` | endpoints, fan-out, deliveries, attempts, workers, administration | `customer_webhooks`, `torn_poll` |
| `WebhookDeliveryContract` | what the webhooks promise about one delivery | refined by `CustomerWebhooks` |
| `Identity` | accounts, memberships, invitations, resets, sessions | `identity`, `open_sessions` |
| `PublicApi` | keys, their budget, idempotent mutations | `public_requests` |
| `PublicRequests` | the public API's admission (`PublicApi`) and its campaign routes (`CampaignQueue`), side by side | `public_requests` |
| `ContactConsent` | consent columns of contacts under keywords, edits, imports, merges | `components`, `lost_opt_out` |
| `ProviderAccounts` | accounts, credentials, numbers, services, callbacks' authority | `components` |
| `LiveTestSms` | one request id and its copies | `components` |
| `Throttles` | the two counters | `components` |
| `ApiRoutes`, `ApiHandlers` | the steps of every route and the tables that declare them; one request that executes a route | `components` |
| `Pages` | one walk of one collection | `components` |
| `TenantContext` | tasks, pooled connections, nested transactions | `components` |
| `RuntimeSettings`, `Deployment` | the readers of the environment; one message across a reconfiguration | `components` |
| `Components` | `ContactConsent` and the eight modules above that share no state with it, side by side | `components` |
| `MessageOutbox_proofs`, `DirectMessageContract_proofs`, `CampaignQueue_proofs`, `CustomerWebhooks_proofs`, `Identity_proofs`, `ContactConsent_proofs`, `PublicApi_proofs`, `Components_proofs` | theorems | tlapm |
| `MCMessageOutbox`, `MCCampaignQueue`, `MCCustomerWebhooks`, `MCIdentity`, `MCPublicRequests`, `MCContactConsent`, `MCComponents` | instances for TLC | |

### MessageOutbox and the code

One action is one database transaction or one exchange with the provider.

| State | Code |
|---|---|
| `message[m]` | `Message`: `applicationStatus`, `attemptCount`, `providerMessageId` (as the number of the attempt it came from), `providerStatus` |
| `attempt[<<m,k>>]` | `MessageAttempt` k: `status`, `dueAt <= now`, `processingToken`, `processingExpiresAt <= now`, `providerCallStartedAt`, `providerMessageId`, `providerStatus` |
| `worker[w]` | a worker process: its claim token, the claims of its batch, the attempt in hand and the decision it made |
| `cancelling[m]` | the attempt a cancel request read before it took its locks |
| `truth`, `calls` | what the provider did and how often it was asked: the reality the properties compare the rows with |

| Actions | Code |
|---|---|
| `Accept` | `reserveDirectMessage` |
| `CancelReads`, `CancelCommits` | the two halves of `cancelDirectMessage` |
| `Attest`, `RetryAttested` | `delivery-attempt-review.ts` |
| `Callback` | `updateCorrelatedMessageFromTwilioStatus` |
| `RecoverExpired`, `Claim` | `recover_expired_message_attempts`, `claim_due_message_attempts` |
| `PrepareSkips`, `PrepareCancels`, `PrepareAuthorises`, `PrepareErrors` | the exits of `prepareClaimedDirectMessageAttempt`; the third commits the frontier |
| `AdapterUnavailable`, `SendRequest`, `Reply*` | adapter creation, `createMessage`, `policy.ts` |
| `Finalize`, `FinalizeErrors`, `MarkPersistenceAmbiguous`, `MarkErrors` | `finalizeClaimedDirectMessageAttempt` and the catch around it; an error may come after the commit |
| `Crash`, `LeaseLapses`, `LeaseOutrun`, `RetryBecomesDue` | the environment |
| `ProviderMoves` | the provider; a request may be acted on long after its sender gave up |

Deadlines are the booleans the code compares them to. Time passes freely: a lease
may lapse as soon as nobody holds it, and while its owner still works at the price
of one fault. Payload, tenant and account identity are immutable and left out, and
so are the timestamps that every writer sets together with a status. A callback is
modelled without its event row, that is, as if every report could be applied again.
The contract's `Grant` is a committed frontier; `Refused` and `Attested` excuse it.

### StatusProjection and the code

One provider message; each callback request is one step, because the route claims
the event, updates both rows and marks the event processed in one tenant
transaction. `processed` is the set of dedupe keys. The module adds to the outbox
what that one abstracts: all ten statuses, timestamps and the legacy path.

### CampaignQueue and the code

| State | Code |
|---|---|
| `campaign`, `recipients` | `Campaign` (`status`, `scheduledAt`) and its `CampaignRecipient` rows |
| `job[t]` | the `QueueJob` scheduled for time `t`: `status`, `processingToken`, `processingExpiresAt <= now` |
| `messages` | `Message` rows, by the idempotency key made of job and contact |
| `consenting`, `everBlocked` | the contacts a preflight allows; those it blocked at any time (history) |
| `worker[w]` | what a worker holds: the claimed job, the recipients left, why it fails |
| `request[r]` | what an open request has read, and the rows it has locked |

| Actions | Code |
|---|---|
| `EditRead`, `EditCommit` | `updateCampaign` of the console |
| `ScheduleRead`, `ScheduleCheck`, `ScheduleCollect`, `ScheduleCommit` | `scheduleCampaign` |
| `CancelRead`, `CancelCollect`, `CancelLock`, `CancelCheck`, `CancelCommit` | `cancelCampaign` |
| `PublicEdit`, `PublicSchedule*`, `PublicCancel*` | `lib/public-api/campaigns.ts` |
| `Claim` | `claim_due_queue_jobs` and the claim by id of a BullMQ delivery |
| `Load`, `Prepare`, `Renew`, `Record`, `Complete`, `CloseJob` | `processClaimedScheduledCampaignQueueJob` |
| `Fail`, `DatabaseError` | `failClaimedQueueJob` and the catch that calls it |
| `ResolveDeadlock`, `Abort`, `Crash`, `ExpireLease`, `OutrunLease`, `Tick`, `OptOut`, `OptIn` | PostgreSQL, the processes, the clock and inbound keywords |

The transactions run at READ COMMITTED, so a request is split at every statement
that reads rows it holds no lock on, and at every lock it may wait for. The rows a locking
statement waits for are those of its own snapshot (`CancelCollect`, `PublicCancelCollect`):
a row inserted while it waits is not locked. The last step of a request
evaluates the conditions of its updates on the rows as they then are, writes and
commits. A worker's transactions touch one job and the campaign and are one step
each. A statement that meets a row lock waits; a cycle of waits is resolved by
aborting one of the two. The console writes a campaign it edits or schedules by id
alone, without a condition on its status, and so does the model.

A schedule's job is keyed by campaign and time, so the time is its name, and its
payload, which never changes, is left out. A token is the worker that drew it: a
worker processes one claim at a time and forgets earlier ones. `generation` only
names BullMQ copies and events, and is left out. The recipients'
`sendStatus` reports the last preflight and decides nothing. Readiness switches and
the BullMQ retry schedule are left out: any idle worker may claim a due job.

### CustomerWebhooks and the code

| State | Code |
|---|---|
| `endpoint` | `CustomerWebhookEndpoint`: status, consecutive terminal failures, active secret version, subscriptions |
| `delivery`, `attempt` | `CustomerWebhookDelivery` by endpoint, event and generation; its attempt rows |
| `fanout` | a domain transaction between reading subscriptions and committing deliveries |
| `worker` | the batch a worker claimed, the attempt in hand and what the exchange came to |
| `acked` | which attempts the receiver acknowledged: the reality |

| Actions | Code |
|---|---|
| `EnqueueReads`, `EnqueueCommits` | `outbox.ts` inside the domain transaction |
| `CreateCustomerWebhookEndpoint`, `EnableOrResubscribe`, `DisableByOperator`, `RotateCustomerWebhookSigningSecret`, `ReplayCustomerWebhookDelivery` | `service.ts` |
| `PollStarts`, `PollCommits` | the claim functions of `20260711060000`: which deliveries, then the update |
| `Prepare*` | `prepareDelivery`: recover the attempts of a lost worker, exhaust or reserve the next |
| `Posts` | the signed request; `WebhookPolicy` classifies the exchange |
| `Finalizes*` | `finalizeDelivery`, the automatic disablement included |
| `Abandons`, `Crashes`, `Lapses` | failed transactions, deaths and leases |

An address is a sequence of four numbers and the blocked networks are prefixes, so
that the arithmetic of `endpoint-security.ts` is checked at the edges and proved for every
address; IPv6 is left out. The statements of a poll have a snapshot each (the claim function
runs at READ COMMITTED), so any endpoint may be disabled or enabled between `PollStarts` and
`PollCommits`. `endpoint[e].torn` is history: it says that this happened to `e`.

### Identity and the code

`account`, `member`, `session`, `invite` and `reset` are the rows of `User` and
`PasswordCredential`, `Membership`, `AuthSession` and `AuthToken`. Team mutations and
reset redemptions are SERIALIZABLE and take the organization's or the subject's
advisory lock: they are one action each, except the three that end sessions (`BeginEnd`
and `CommitSuspend`, `CommitRemove`; `BeginReset` and `CommitReset`). Those act on the
snapshot of their first statement, while logins, acceptances and switches (`request`)
run READ COMMITTED and are not ordered with them by the isolation level. A session
remembers the generation of the password it was opened with; that is history and no
guard reads it.

### PublicApi, ApiRoutes, ApiHandlers, Pages and the code

`PublicApi`: a request is resolved by hash, charged under the row lock, and executed in
a third transaction under the advisory lock of credential and idempotency key. `Begin`
is what that transaction reads, `Execute` what it commits; `made` is every committed
effect with the request that made it. Messages keep a fingerprint of their own beyond
the retention of the record, the other routes do not.

`ApiRoutes` gives every route of `app/api` except the two Twilio callbacks (which are
`StatusProjection` and `ProviderAccounts`) the steps of its module in their order, and
beside them the three tables that declare gates: `RoleGates` (`api-rbac-matrix.ts`),
`KeyGates` and `Documented` (`openapi-registry.ts`). `ApiHandlers` sends one request to
a route with any session, key or origin, lets every step that can fail do so, lets the
caller lose the authority meanwhile and the answer be lost. A commit whose outcome the
server does not learn counts as a lost answer. `FailsAfterFirst` and `FailsAfterSecond`
name the routes that go on after a change (with another transaction, with reading a
delivery attempt again after its attestation, retry or reconciliation, with comparing the
role after an organization switch) and may therefore report an error after it;
`MayLeave` says how many changes such an error leaves at most.

`Pages` is one walk: rows appear, leave the collection's filter and return between two
pages; a cursor carries a position (public API) or names a row (review list).

### ContactConsent, ProviderAccounts, LiveTestSms, Throttles and the code

Each transaction that decides on rows it read is two steps, the read and the commit;
what was read is in `work` (contacts), `task` (accounts), `caller` (live test) or
`client` (Redis). `ContactConsent` models the database's trigger and CHECK on evidence
(`DatabaseAccepts`) apart from the code's decisions; `stopped`, `decided` and `applied`
are history. In `ProviderAccounts` a question to the carrier and the transaction that
records its answer are separate, and rotations, revocations and other answers come
between. `LiveTestSms.carrier` is what the carrier did. `Throttles` lets any server's
clock lag.

### TenantContext, RuntimeSettings, Deployment and the code

`TenantContext`: `stack[t]` are the calls of one asynchronous task (the
`AsyncLocalStorage` of `tenant-context.ts`), `pool` what `SET LOCAL` put in force on
each connection; `reads` collects which organization's rows a statement saw for whom.
The row policies are one predicate (`Visible`). `RuntimeSettings` has one operator per
reader of the environment, each with its own idea of which word is true, and
`Deployment` follows one message from the request that accepted it, under one
environment, to the worker that finds it under another.

## Runs

| Run | Bounds | Shows |
|---|---|---|
| `outbox` | 1 message, 2 workers, 3 tokens, 2 attempts, 2 faults, no symmetry | one call, no second copy without attestation, no send after cancel, true outcomes, evidence, trigger conformance, the invariant of the proofs, the refinement of `DirectMessageContract`; accepted messages settle |
| `known_sid` | 1 message, 1 worker, 1 attempt, 2 faults | expected violation, see Findings |
| `queue_liveness` | 2 requests, both interfaces, 1 contact, 2 workers, 1 time, 1 fault, no symmetry | what survives the console's unlocked reads: the campaign keeps a live job, stale workers close stale jobs only, a due campaign leaves its schedule |
| `queue_stale_schedule` | 2 console requests, 1 contact, 1 worker, 2 times, no fault | expected violation, see Findings |
| `queue_paused_active` | 2 public requests, 1 contact, 1 worker, 2 times, no fault | expected violation, see Findings |
| `customer_webhooks` | 2 endpoints (one subscribes to the domain event, one to the notice of the other's disablement), 2 workers, batches of 2, 2 attempts, disabled after 2 failures, 2 generations, 2 secrets, 1 change, 1 fault, no symmetry | attempt numbers unless torn, disablement, the policy as documented, the refinement of `WebhookDeliveryContract`, every delivery but a torn one settles |
| `torn_poll` | 1 endpoint, 2 workers, 2 attempts, 1 change, 1 fault | expected violation, see Findings |
| `identity` | 3 users, 2 organizations, 1 session, 2 invitations, 1 reset token, 1 request, 3 membership changes, 2 generations of credentials | owners, invitations, sessions |
| `open_sessions` | 2 users, 1 organization, 2 changes | expected violation, see Findings |
| `public_requests` | two scenes: 2 requests in flight, 3 sent, 1 credential, 1 key, 2 bodies, 3 secrets, retention 2, limit 2, clock to 2; 2 campaign requests, 2 contacts, 2 workers, 2 times, 1 fault | type invariant (with the rate budget), effects a retention apart, true answers; jobs are current, completion reached everyone, only drafts are edited |
| `components` | nine scenes, below | eleven invariants and three action properties of nine components |
| `lost_opt_out` | 2 contacts, 3 inbound messages, 5 transactions | expected violation, see Findings |

`components` runs the components that share no state side by side: the first state
chooses the one that moves (`scene`), so their behaviours are added up and not
multiplied; every disjunct of every component's next-state relation is in it. Its
bounds are: consent, 2 contacts, 3 inbound messages (STOP and START of one contact, START of the other), 2
occasions, 2 workers, 4 transactions; accounts, 1 organization, 2 accounts, 2 numbers, 1
service, 2 credential versions, 3 questions or callbacks; status, 10 reports (every
rank, one pair of equal rank, both failures, one unknown), 4 that may be legacy; live
test, 3 callers of whom 2 ask for the same; throttles, 2 clients, limit 2, window 3,
block 2, clock to 8; handlers, every route, 2 tries; pages, 3 rows, 2 creation times,
pages of 1 or 2; tenants, 2 organizations, 2 tasks, 2 connections, 1 user, depth 2;
settings, every environment that differs in at most one variable from one of the four
documented postures.

`public_requests` is composed in the same way. Its VIEW (`WithoutPast`) drops of an answered
request what no step and no property reads. The VIEW of `queue_liveness` (`WithoutHistory`)
drops messages and opt-out history, which none of its properties mentions.

Bounds. The outbox allows three attempts (`DIRECT_MESSAGE_MAX_ATTEMPTS`); two give a retry,
a successor and a limit that is met, and the theorems hold for every limit. `MaxFaults` counts crashes, outrun leases and
database errors: one lets every single fault happen in every state, two let a stall and
a crash meet in one attempt. Tokens are UUIDs: there is one more than the two attempts can hold, so that a fresh one
always exists. They are only compared, so a claim takes one unused token for all of them. Messages interact only
inside a batch. In the campaign queue two times give a schedule and its replacement,
two contacts a half-sent campaign, two requests every race between a read and another's
commit; campaigns share no row. Two endpoints are needed for the notice of one's
disablement to be another's delivery, two generations for a replay that meets the first
generation's worker, two failures for the counter to be reset in between. One change is
not enough for two deliveries to fall due at once, so batches of two are covered by the
theorems only. Of the answers one stands for each effect on the rows; a refusal such
as 404 has that of a last retry. Three users
give two owners who act on each other and a third who is invited or demoted. The API's
clock of 2 with a retention of 2 lets a record expire and its key be used again. Two
rows of equal creation time and one of another are what the tie-break needs. Symmetry
over interchangeable names is used in runs without temporal properties that need
fairness. Deadlock is checked in `queue_liveness`; elsewhere the system rightly stops when
everything is settled or a bound is reached.

Fairness (`FairSpec`). Worker steps are weakly fair because
`runContinuousDirectMessageWorker` polls for ever, its provider calls have a
timeout and its transactions return or fail; recovery is fair for the same reason
(every poll starts with it); leases lapse and retries become due because clocks
advance. Users, operators, the provider and callbacks are under no obligation.

In the campaign queue worker steps, open requests, the deadlock detector and the
end of an abandoned lease are weakly fair. The polls and the updates by a claim's
owner are strongly fair, because a request may lock the job's row again and again:
PostgreSQL queues the waiters of a row lock, so an update gets its turn, and polls,
which skip locked rows, do not for ever fall on the moments at which another
request holds them. Time, clients, contacts and faults are under no obligation.

In the customer webhooks each worker's next step is weakly fair, a poll that claims
something is strongly fair (a delivery that is due again and again is claimed by one of
the polls, which take the oldest first), and an abandoned lease lapses. Administration,
receivers and faults are under no obligation; `EveryDeliverySettles` excuses a delivery that a
torn poll left broken (Findings) and needs their number
bounded, as the run's bounds do: an operator who replays for ever keeps a delivery open.

## Proofs

`MessageOutbox_proofs` proves for all messages, workers, tokens, attempt limits and
fault bounds that satisfy `OutboxAssumption`:

* `OutboxInvariant`: `Spec => []OutboxInv`. `TypeOK`, `RowsAgree` and `AtMostOneCall`
  are not inductive by themselves. `RowsAgree` needs to know that a worker which
  decided to retry saw a refusal and has an attempt number left (`DecisionsAreTrue`);
  `AtMostOneCall` that a permission to call is held by one worker whose attempt has
  not been called (`PermissionIsUnique`), that calls and provider activity exist only
  beyond a frontier (`CallsFollowFrontier`); and double sends that an attempt with a
  successor was refused or attested (`PastIsExcused`). The proof has one lemma per
  action.
* `TypeCorrect`, `OneCallPerAttempt`, `RowsAlwaysAgree`, `SecondCopyWasAttested`,
  `CancelledIsNeverSent` follow from it.
* `TruthInvariant`: `Spec => [](OutboxInv /\ TruthInv)`, from which
  `EvidenceAlwaysAgrees` and `OutcomeIsAlwaysTrue` follow. `TruthInv` adds that what a
  worker decided and has not stored yet it heard from the provider (`RepliesAreTrue`),
  that a message without a SID shows no provider status (`BlankEvidence`), that an attempt
  with one is settled (`EvidenceSettles`), and that what is settled or in doubt had passed
  the frontier (`SettledWasCalled`). Every
  transaction is reduced to one of a few kinds of change of the two rows.
* `NoStepRefused`: `Spec => NoStepIsRefused`. No writer asks for what the triggers
  refuse. This is what makes the one-action transactions of the model sound.
* `OutboxKeepsContract`: `Spec => ImplementsContract`. Each action is a step of
  `DirectMessageContract` for one message, or shows the tenant nothing.

`DirectMessageContract_proofs` proves `ContractKept`, the contract's promise.

`CampaignQueue_proofs` proves, for all contacts, workers, requests of either or both
interfaces, times and faults that satisfy `QueueAssumption`, `TypeCorrect`,
`ScheduledCampaignKeepsItsJob` and `StaleJobsOnly`. The invariant joins `TypeOK`,
both properties, and `NamesTimes` (what a scheduled campaign, a busy worker and a
scheduling request name is a time that can have a job). Neither property is inductive
alone. A worker that found its job stale closes it without looking at the campaign
again, which would leave the campaign without a job if it had been scheduled for that
time since: `ClosesOnlyStaleJobs` excludes it as long as the worker owns the job. It
stays true because a processing job is not reopened, and a request that cancels queued
jobs never cancels the one it schedules.

Four further theorems assume `PublicOnly`, that nobody uses the console:
`LiveJobsAreCurrent` (`LiveJobIsCurrent`), `CompletionReachesEveryone`
(`CompletedReachedEveryone`), `DraftsOnlyChange` (`OnlyDraftsChange`) and
`PublicCompletionIsFinal` (`CompletedIsFinal`). The console breaks the first and the last
two (Findings): it schedules and edits by id what it read without a lock. A job may go on
under a campaign that was paused (`queue_paused_active`), so `LiveJobIsCurrent` says
less of a running job than of a waiting one: its campaign is scheduled at its time
or was when it was paused. Their invariant `Pub` adds what a public request between its
reads and its commit may rely on because it holds the row (`RequestsRely`, `OneHolder`),
and that a worker between its snapshot and its last send has, for every recipient whose
consent never lapsed, a message recorded or the send to do (`SendersCover`).

`CustomerWebhooks_proofs` proves, for all endpoints, events, workers, exchanges and
attempt limits, and any bound on failures, secrets, generations, changes and faults,
under assumptions on bounds, names and the shape of an exchange (`ExchangeAssumption`):

* of every delivery `TypeCorrect`, `EndpointsDisabledInTime` (`DisabledInTime`),
  `AttemptsWithoutGap` and `DeliveriesKeepContract` (`ImplementsContract`, the refinement
  of `WebhookDeliveryContract`);
* of the deliveries of an endpoint that no poll met half changed also `AttemptsInSequence`
  (`SequenceValidUnlessTorn`); of the others TLC refutes it (`torn_poll`).

The invariant has two parts. `Base` holds however a poll's statements interleave with
administration: `Shapes`, that attempts are closed up to `count` and none lies beyond the next;
`Births`, that a delivery that does not exist left no trace, so that
fan-outs, notices and replays cannot overwrite one; `Workers`, that whoever makes or made
a request owns an attempt that no other worker is at; `Buffers`, that what a poll is about
to close exists. `Strict` is `Sequences`, the exact agreement of delivery and attempts, and
`Polls`, that what a poll saw of abandoned deliveries is still so when it commits, or they
are settled, both for endpoints that are not torn. A step is reduced to what it does to rows, to workers and to endpoints; it
preserves `Base`, and `Strict` where nothing is torn. For the contract, `Heard` says that a
worker about to record a delivery heard it acknowledged, and `NextPromised` that every
row is left alone, opened, tried or settled. From `Heard` also `DeliveredIsAcknowledged`: what
is called delivered was answered with a 2xx in an attempt of its own.

`AttemptsFollowThePolicy` states `PolicyAsDocumented`. The run evaluates it at the edges of the
refused networks and on chosen headers; three theorems about the operators cover
the rest: `RefusedAddresses`, that every IPv4 address of all is refused just when it
lies between the first and the last of a refused network (a prefix splits each octet into
blocks of one size, and bounds that agree up to one octet and then run from 0 to 255 order
addresses octet by octet); `AnswersFollowPolicy`, the documented classification of an
answer for every status, attempt and limit; `RetriesOnSchedule`, the delay of a retry
for every attempt, limit and Retry-After. The assumptions are the model's of an address, four
numbers below 256.

`PublicApi_proofs` proves for all requests, credentials, keys, budgets and retentions
`RowsTyped` (`TypeOK`), `EffectsApart` (`EffectsAreRetentionApart`) and `AnswersTrue`
(`AnswersAreTrue`). A request executes on what it read in an earlier step.
`FoundNothingLive` says that this had run out when it began, `MadeIsRecorded` that the
slot of everything made holds a record that outlasts its retention, and `RecordsAreTrue`
that a record replays something made under its slot by its route and body. Two more
theorems are about the advisory lock: `CommitsNeverCollide` (`ReadsStand`), that the record
a request read is still there when it commits, since whoever is between lookup
and commit holds the lock of the slot (`Locked`); and `StoredAnswersStand`, that an answer is
neither replaced nor deleted before it expires.

`Identity_proofs` proves, for all users, organizations, sessions, invitations, tokens and
requests and every bound, `OrganizationsKeepAnOwner` (`AlwaysAnOwner`), `InvitationsStand`
(`PendingInvitesStand`), `SessionsHoldThePresentPassword` (`UsableSessionsAreCurrent`) and
`TypeCorrect`. A suspension or removal decides on a snapshot and commits later, so the
first needs `EndsLeaveAnOwner` (while a member is being ended there is another owner) and
`OneEndAtATime` (the advisory lock: nobody else is ended in that organization meanwhile).
The last property needs that a session, or a login still on its way to one, was proven with a password of
a version the account has or had (`Passwords`): a reset raises the version, so what it
failed to revoke is of an old one.

`ContactConsent_proofs` proves, for all contacts, messages, occasions and workers and with
or without double opt-in, `EvidenceStays` (`EvidenceIsWrittenOnce`), `OptInsAreProved`
(`OptInIsProved`) and `OncePerKeyword` (`KeywordsTakeEffectOnce`). A merge or keyword
writes from what it read in an earlier step; `ReadsStayTrue` says that evidence it read is still
the row's, which holds because evidence is written once, which in turn the database's
trigger and CHECK only grant if evidence is always whole (`EvidenceIsWhole`).
`EditAssumption` gives the edits their types. `OnlyMergesOverruleStops` is what holds of
`StopBlocksSends`, which `lost_opt_out` refutes: a contact that may be sent to after a
STOP without a new opt-in got there by a merge, and by nothing else, however late an edit, an import
or a keyword commits.

`Components_proofs` proves the properties of the eight components that `Components`
sets beside consent, each from an invariant of its own, lifted to `ComponentsSpec`.
The `ASSUME`s of `Components` are the modules' demands on their constants; TLC evaluates
them in `components`.

* `AuthorityStaysCurrent`: `PInv` joins the four parts of `AuthorityIsCurrent` to what
  rows and tasks must be for them to be inductive (a row that exists has its owner, a
  running task its account).
* `FurthestIsShown`, `CallbacksNeverConflict`, `OutcomeStaysFinal`: while only known
  statuses were heard, what the rows show is among them, and whatever the message admits
  the attempt admits (`AttemptIsBehind`); until the worker has its response nothing was
  heard (`NothingYet`). The order of the statuses is a rank (`Ranks`, `Allowed`).
* `LiveTestsAnswerTruly`: one copy owns the row and is between reserving and storing; the
  row tells what the carrier did.
* `RefusalsAlwaysEnd`: a block outlasts its window, a counter that counts expires.
* `EffectsStayDeclared`, `ErrorsAlwaysLeaveNothing`: `HandlerTables` says of the tables
  that each route's checks come before its commit and cover what is declared for it, and
  that no step which can fail comes after more changes than `MayLeave` allows.
  It is a statement without parameters about the tables as written; TLC evaluates it. The
  theorems take from it that no interleaving of withdrawals and repetitions gets around
  the tables.
* `WalksAreComplete`: for every set of rows, positions and page size. Rows come in
  a strict order and finitely many exist, so a page has a last row, and of the rows that
  stayed those not yet given lie behind the cursor (`Stands`). That finite sets have a
  first row uses the library's well-foundedness of strict inclusion.
* `TenantsStayApart`, for any number of tasks, connections, organizations and users and
  any depth of nesting. `TenantsApart` is not inductive: `TInv` adds that no two tasks share a connection
  (`Exclusive`), that all calls of a task are on one connection (`CallsAgree`), that
  nothing nests in a transaction other than a tenant's (`OnlyTenantsNest`, without which
  rewriting the context of a control transaction would pull it from under an outer
  call), and that nobody works before the posture was attested of complete policies
  (`WorkIsPostured`).
* `DemoNeverLeaves`, for every set of environments, not only those near the documented
  postures. `DInv` adds which messages can be waiting at all: one of a visitor or of
  the demo organization was settled as simulated when it was accepted, because the readers
  of the environment that let it in exclude a live transport.

Model-checked only: the liveness properties `OpenMessageSettles`, `DueCampaignLeaves`
and `EveryDeliverySettles`, which with fairness and ENABLED are beyond the prover. Every
other property of a passing run is stated by a theorem.

## Findings

* `known_sid`: no path keeps a provider SID on an ambiguous attempt, so the fetch
  reconciliation that SPEC-033 and `docs/API_MAP.md` describe for a known-SID
  ambiguous attempt has no attempt to work on. The action is left out of the model
  for that reason.
* `queue_stale_schedule`: the console schedules a campaign by id after an unlocked
  read. A request that read a draft reschedules a campaign that another one scheduled
  and a worker completed in between, and it is sent again. In the same way
  `updateCampaign` replaces the recipients of a campaign that was scheduled in between;
  the public API's update repeats its condition, and `OnlyDraftsChange` holds there, as
  does `CompletedIsFinal` (`PublicCompletionIsFinal`).
* `queue_paused_active`: a cancellation that waits for row locks has chosen its job rows
  before. A schedule that commits meanwhile adds a job it does not lock, a worker
  claims that job between the check for processing jobs and the update of queued ones,
  and the campaign is paused over a running job, which `docs/DATA_MODEL.md:138` excludes.
  The run uses the public API alone, whose comment
  (`lib/public-api/campaigns.ts:277`) claims the lock order of the worker; the console's
  cancellation (`lib/db/repositories/campaigns.ts:335`) leaves the same gap. What holds of such a job
  is `LiveJobIsCurrent`: it runs for the time the campaign had, and when it ends, neither a
  completion nor a failure changes the paused campaign.
* `torn_poll`: `claim_due_customer_webhook_deliveries` (migration `20260711060000`) closes
  the open attempts of disabled endpoints in one statement and cancels their deliveries in the
  next, each with a snapshot of its own. An endpoint disabled between the two has a
  delivery cancelled whose attempt stays open, against `docs/WEBHOOKS.md:29-32`. One that is
  enabled again between the two has an attempt closed that its delivery does not count:
  the next preparation inserts that number again, the unique index refuses it, and so every
  later one, and the delivery never settles. `EveryDeliverySettles` excuses just
  such a delivery and says that all others still settle. Disablement, the gap-free numbering
  and the delivery contract hold regardless.
* `open_sessions`: a suspension or a reset revokes the sessions its snapshot shows; a
  login that checked the membership or the version before and inserts its row after the
  snapshot leaves a session unrevoked. The version stops the one a reset missed
  (`UsableSessionsAreCurrent` holds); the one a suspension missed resolves again after
  a reactivation.
* `lost_opt_out`: STOP is kept in a status and a mark. An edit of the status to UNKNOWN
  keeps the mark, a merge with an opted-in duplicate then looks at the status alone and
  clears it, and the contact is written to without a new opt-in. That no other path
  does this is the theorem `OnlyMergesOverruleStops`.

Divergences seen while modelling that no run checks:

* The public API's scheduling locks the campaign, then jobs (`lib/public-api/campaigns.ts`
  147, 159), its cancellation jobs, then the campaign, under a comment (277) that asks for
  one order. PostgreSQL aborts one of the two, and so does the model (`ResolveDeadlock`).
  `NoLockCycle` states it. Two automatic disablements that notify each other's endpoint
  can meet in the same way (`customer-webhooks/worker.ts:330`).
* A status callback without correlation evidence (`lib/db/repositories/webhooks.ts:200-225`)
  records an outcome on any message with that provider SID, outbox messages included,
  and leaves application status and attempt unchanged, although
  `contracts/CONTRACT-WEBHOOKS.md` says that the legacy lookup cannot bypass the binding.
* `contracts/CONTRACT-WEBHOOKS.md` says that any 2xx acknowledges, its body ignored; an
  oversized body makes it a permanent failure (`customer-webhooks/worker.ts:614`). It says
  that ten consecutive terminal failures disable an endpoint; a delivery whose last
  attempt was lost with its worker fails without being counted (`worker.ts:236-250`).
* A failed health check degrades an account, and callbacks of a degraded account are
  refused, STOP among them, until it is verified again. One default number per
  organization is what the index enforces; `contracts/CONTRACT-API.md:703` speaks of one
  per account. An upsert of a number that is bound to an account is refused by the
  `bound_capabilities` CHECK.
* `getRuntimeConfig` is read by the web process only; workers start without it.
  `DEMO_MODE=1` is a demo for the web process and none for the readiness of the worker;
  the acceptance of messages makes this harmless (`OnlyAsConfigured`).
* A nested tenant call silently drops the isolation level it asks for.

## Hazards without a property

Recipients are filtered once before a campaign job's loop, so one who opts out during
it is still sent to (`lib/queue/worker.ts:547`), and messages are keyed by job, so a
campaign scheduled again after half a run sends to the first half twice (`:590`): both
are what the code intends, and `CompletedReachedEveryone` says what remains. A lifecycle
event whose recording fails after a recovery is lost (`lib/messaging/outbox/worker.ts:123`).
BullMQ deliveries are copies whose loss the poll makes up for (`bullmq-worker.ts:78`): any
idle worker may claim. An authority that ends between a handler's check and its commit is
honoured (`api-authentication.ts:79`); `EffectsAsDeclared` speaks of the moment of the
check. A rejected inspection of the posture is remembered until the process restarts
(`runtime-posture.ts:70`, the model's `Restart`).

## Not modelled, and why

* AI, billing, CSV parsing, analytics: computations of one request over rows that other
  components own. The AI usage cap can be overshot by concurrent requests by as many as
  run at once, which its code accepts.
* The user interface, scripts, seeds and the OpenAPI document's schemas: no state of
  their own. DTO mapping, validation of formats, envelopes and cursors' signatures are
  conversions no property tells apart; a request's `input` step stands for all of them.
* Cryptography: signatures, tokens, hashes and encrypted secrets are compared as names.
* Conversations, notes, tags, lists and templates: rows written by single transactions
  of one request, present as the routes' commits only.
* Of live test messages the status callbacks to the stored row (`StatusProjection`
  covers them); of the tenant context, transactions opened inside another's callback.
* Time is a boolean where the code compares once and a small clock where it computes.

The definitions' source lines, listed in `PROJECT.json`, cover about a third of the implementation. Most
of the rest is the interface and the formats just named.

## What could follow

The console's cancellation and scheduling would need the same treatment as the public
ones once they lock what they read, and `PausedHasNoActiveWork` and `SequenceValid` could be
proved once cancellation locks the jobs again under the campaign's lock and the poll works on
one snapshot. Liveness could be reduced to leads-to lemmas per action
for a prover that handles ENABLED.
