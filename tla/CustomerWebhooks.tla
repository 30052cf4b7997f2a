--------------------------- MODULE CustomerWebhooks ---------------------------
(* Outbound customer webhooks: the events a tenant's transactions enqueue,  *)
(* the deliveries fanned out to the subscribed endpoints, the workers that  *)
(* claim, prepare, post and finalize them under leases, and the endpoint    *)
(* administration that runs beside them.                                    *)
(*                                                                          *)
(* A worker's processing token is the worker itself: it only ever acts on   *)
(* the deliveries of its latest poll.  Whether a retry is due yet is left   *)
(* to the poll, which may pick any of the deliveries it is allowed to pick. *)
EXTENDS WebhookPolicy

CONSTANTS
    Endpoint,       \* rows of CustomerWebhookEndpoint, present or yet to come
    DomainEvent,    \* events enqueued by domain transactions
    NoticeEvent,    \* webhook.endpoint.disabled events, one per disablement
    Worker,
    Exchange,       \* what can happen to one signed request
    MaxAttempts,    \* CUSTOMER_WEBHOOK_MAX_ATTEMPTS
    DisableAfter,   \* AUTO_DISABLE_TERMINAL_FAILURES
    MaxGeneration,  \* bound: generations of one delivery
    MaxSecret,      \* bound: signing secret versions of one endpoint
    MaxChanges,     \* bound: administrative changes, replays included
    MaxFaults,      \* bound: crashes, failed transactions, outrun leases
    BatchSize,      \* deliveries claimed by one poll
    Offered,        \* bound: the types of event each endpoint may subscribe to
    NoWorker

ASSUME AttemptAssumption == MaxAttempts \in 1..MAX_ATTEMPTS
ASSUME BoundAssumption ==
    /\ DisableAfter \in Nat \ {0} /\ MaxGeneration \in Nat \ {0}
    /\ MaxSecret \in Nat \ {0} /\ BatchSize \in Nat \ {0}
    /\ MaxChanges \in Nat /\ MaxFaults \in Nat
    /\ Offered \in [Endpoint -> SUBSET {"domain", "notice"}]
ASSUME NameAssumption ==
    /\ NoWorker \notin Worker
    /\ DomainEvent \cap NoticeEvent = {}
ASSUME ExchangeAssumption ==
    \A x \in Exchange : x.urlSafe \in BOOLEAN /\ x.dns \in Dns /\ x.transfer \in Transfer

VARIABLES
    endpoint,   \* [Endpoint -> status, consecutive failures, active secret, subscription;
                \*  torn, a history: disabled or enabled between the statements of a poll]
    delivery,   \* [Delivery -> row of CustomerWebhookDelivery]
    attempt,    \* [Delivery -> [1..MaxAttempts -> row of CustomerWebhookDeliveryAttempt]]
    fanout,     \* [Event -> the transaction that enqueues it]
    worker,     \* [Worker -> what the worker process holds]
    acked,      \* history: the attempts a receiver answered with 2xx
    changes, faults

vars == <<endpoint, delivery, attempt, fanout, worker, acked, changes, faults>>

Event == DomainEvent \cup NoticeEvent
Type == {"domain", "notice"}
TypeOf(ev) == IF ev \in NoticeEvent THEN "notice" ELSE "domain"
Delivery == Endpoint \X Event \X (1..MaxGeneration)
AttemptNumber == 1..MaxAttempts

NoDelivery == [status |-> "none", count |-> 0, owner |-> NoWorker, lapsed |-> FALSE, secret |-> 0]
NewDelivery(secret) == [NoDelivery EXCEPT !.status = "PENDING", !.secret = secret]
Idle == [pc |-> "idle", batch |-> {}, current |-> <<>>, number |-> 0, outcome |-> None,
         expired |-> {}, buffered |-> {}]

Terminal == {"DELIVERED", "FAILED", "CANCELED"}
Subscribed(e, type) == endpoint[e].status = "ACTIVE" /\ type \in endpoint[e].types
OpenAttempts(d) == {n \in AttemptNumber : attempt[d][n] = "open"}

\* Deliveries a worker has claimed and not yet dealt with.
Holds(w) == worker[w].batch \cup (IF worker[w].number = 0 THEN {} ELSE {worker[w].current})

Init ==
    /\ endpoint = [e \in Endpoint |->
                     [status |-> "ABSENT", failures |-> 0, secret |-> 1, types |-> {},
                      torn |-> FALSE]]
    /\ delivery = [d \in Delivery |-> NoDelivery]
    /\ attempt = [d \in Delivery |-> [n \in AttemptNumber |-> None]]
    /\ fanout = [ev \in Event |-> [pc |-> "new", candidates |-> {}]]
    /\ worker = [w \in Worker |-> Idle]
    /\ acked = {}
    /\ changes = 0
    /\ faults = 0

TypeOK ==
    /\ endpoint \in [Endpoint -> [status: {"ABSENT", "ACTIVE", "DISABLED"},
                                  failures: 0..DisableAfter,
                                  secret: 1..MaxSecret, types: SUBSET Type, torn: BOOLEAN]]
    /\ delivery \in [Delivery -> [status: {"none", "PENDING", "PROCESSING"} \cup Terminal,
                                  count: 0..MaxAttempts, owner: Worker \cup {NoWorker},
                                  lapsed: BOOLEAN, secret: 0..MaxSecret]]
    /\ attempt \in [Delivery -> [AttemptNumber ->
                     {None, "open", "delivered", "retry", "failed", "disable", "ambiguous"}]]
    /\ fanout \in [Event -> [pc: {"new", "read", "done"}, candidates: SUBSET Endpoint]]
    /\ worker \in [Worker -> [pc: {"idle", "polling", "working", "posting", "finalizing"},
                              batch: SUBSET Delivery, current: Delivery \cup {<<>>},
                              number: 0..MaxAttempts,
                              outcome: {None, "delivered", "retry", "failed", "disable"},
                              expired: SUBSET Delivery,
                              buffered: SUBSET (Delivery \X AttemptNumber)]]
    /\ acked \subseteq Delivery \X AttemptNumber
    /\ changes \in 0..MaxChanges
    /\ faults \in 0..MaxFaults

-----------------------------------------------------------------------------
(* Events and their fan-out.                                                *)

\* First-generation deliveries of ev for the endpoints in S, each bound to
\* the endpoint's active signing secret.
FannedOut(ev, S, ep) ==
    [d \in Delivery |-> IF d[1] \in S /\ d[2] = ev /\ d[3] = 1
                        THEN NewDelivery(ep[d[1]].secret) ELSE delivery[d]]

\* The candidate subscriptions are read before their endpoints are locked.
EnqueueReads(ev) ==
    /\ fanout[ev].pc = "new"
    /\ fanout' = [fanout EXCEPT ![ev] =
                    [pc |-> "read", candidates |-> {e \in Endpoint : Subscribed(e, TypeOf(ev))}]]
    /\ UNCHANGED <<endpoint, delivery, attempt, worker, acked, changes, faults>>

\* Mutant: the subscriptions are not read again under the lock.
EnqueueCommitsUnlocked(ev) ==
    /\ fanout[ev].pc = "read"
    /\ delivery' = FannedOut(ev, fanout[ev].candidates, endpoint)
    /\ fanout' = [fanout EXCEPT ![ev] = [pc |-> "done", candidates |-> {}]]
    /\ UNCHANGED <<endpoint, attempt, worker, acked, changes, faults>>

\* With the candidates locked they are read again; the rest of the domain
\* transaction commits with the event.
EnqueueCommits(ev) ==
    /\ fanout[ev].pc = "read"
    /\ LET S == {e \in fanout[ev].candidates : Subscribed(e, TypeOf(ev))}
       IN  delivery' = FannedOut(ev, S, endpoint)
    /\ fanout' = [fanout EXCEPT ![ev] = [pc |-> "done", candidates |-> {}]]
    /\ UNCHANGED <<endpoint, attempt, worker, acked, changes, faults>>

-----------------------------------------------------------------------------
(* Endpoint administration: one locked transaction each.                    *)

\* What the history says of an endpoint that gets this status.
Tears(e, status) ==
    \/ endpoint[e].torn
    \/ endpoint[e].status # status /\ \E w \in Worker : worker[w].pc = "polling"

Administers ==
    /\ changes < MaxChanges
    /\ changes' = changes + 1
    /\ UNCHANGED <<worker, acked, faults>>

CreateCustomerWebhookEndpoint(e, types) ==
    /\ endpoint[e].status = "ABSENT"
    /\ types # {}
    /\ endpoint' = [endpoint EXCEPT ![e] = [@ EXCEPT !.status = "ACTIVE", !.failures = 0,
                                                     !.secret = 1, !.types = types]]
    /\ UNCHANGED <<delivery, attempt, fanout, worker, acked, changes, faults>>

\* What disabling e does besides: cancel its pending deliveries, but for the
\* one being finalized, and tell the endpoints subscribed to such notices.
CancelPending(e, kept, del) ==
    [d \in Delivery |-> IF d[1] = e /\ d # kept /\ del[d].status = "PENDING"
                        THEN [del[d] EXCEPT !.status = "CANCELED"] ELSE del[d]]

NotifyDisabled(ev, del, ep) ==
    [d \in Delivery |-> IF d[2] = ev /\ d[3] = 1 /\ ep[d[1]].status = "ACTIVE"
                           /\ "notice" \in ep[d[1]].types
                        THEN NewDelivery(ep[d[1]].secret) ELSE del[d]]

EnableOrResubscribe(e, enabled, types) ==
    /\ Administers
    /\ endpoint[e].status # "ABSENT"
    /\ enabled \/ types # {}
    /\ endpoint' = [endpoint EXCEPT
         ![e].torn = IF enabled THEN Tears(e, "ACTIVE") ELSE @,
         ![e].status = IF enabled THEN "ACTIVE" ELSE @,
         ![e].failures = IF enabled THEN 0 ELSE @,
         ![e].types = IF types = {} THEN @ ELSE types]
    /\ UNCHANGED <<delivery, attempt, fanout>>

DisableByOperator(e, types, ev) ==
    /\ Administers
    /\ endpoint[e].status # "ABSENT"
    /\ fanout[ev].pc = "new"
    /\ endpoint' = [endpoint EXCEPT ![e].torn = Tears(e, "DISABLED"),
                                    ![e].status = "DISABLED",
                                    ![e].types = IF types = {} THEN @ ELSE types]
    /\ delivery' = NotifyDisabled(ev, CancelPending(e, <<>>, delivery), endpoint')
    /\ fanout' = [fanout EXCEPT ![ev].pc = "done"]
    /\ UNCHANGED attempt

\* Mutant: a rotation re-pins the deliveries still waiting.
RotateRepinsPending(e) ==
    /\ Administers
    /\ endpoint[e].status # "ABSENT"
    /\ endpoint[e].secret < MaxSecret
    /\ endpoint' = [endpoint EXCEPT ![e].secret = @ + 1]
    /\ delivery' = [d \in Delivery |-> IF d[1] = e /\ delivery[d].status = "PENDING"
                                       THEN [delivery[d] EXCEPT !.secret = @ + 1] ELSE delivery[d]]
    /\ UNCHANGED <<attempt, fanout>>

RotateCustomerWebhookSigningSecret(e) ==
    /\ Administers
    /\ endpoint[e].status # "ABSENT"
    /\ endpoint[e].secret < MaxSecret
    /\ endpoint' = [endpoint EXCEPT ![e].secret = @ + 1]
    /\ UNCHANGED <<delivery, attempt, fanout>>

Generations(e, ev) == {g \in 1..MaxGeneration : delivery[<<e, ev, g>>].status # "none"}

ReplayCustomerWebhookDelivery(d) ==
    /\ Administers
    /\ delivery[d].status = "FAILED"
    /\ endpoint[d[1]].status = "ACTIVE"
    /\ LET latest == CHOOSE g \in Generations(d[1], d[2]) :
                        \A h \in Generations(d[1], d[2]) : h <= g
       IN  /\ latest < MaxGeneration
           /\ delivery' = [delivery EXCEPT ![<<d[1], d[2], latest + 1>>] =
                             NewDelivery(endpoint[d[1]].secret)]
    /\ UNCHANGED <<endpoint, attempt, fanout>>

-----------------------------------------------------------------------------
(* A worker's poll: one database function of three statements, each with a  *)
(* snapshot of its own.  The second and the third may be one step: what one *)
(* takes for disabled and the other for active is cancelled or left alone.  *)

Expired(d) == delivery[d].status = "PROCESSING" /\ delivery[d].lapsed
Disabled(d) == endpoint[d[1]].status = "DISABLED"
\* Mutant: a delivery whose worker died is not claimed again.
ClaimableOnce(d) ==
    /\ endpoint[d[1]].status = "ACTIVE"
    /\ delivery[d].count < MaxAttempts
    /\ delivery[d].status = "PENDING"

Claimable(d) ==
    /\ endpoint[d[1]].status = "ACTIVE"
    /\ delivery[d].count < MaxAttempts
    /\ delivery[d].status = "PENDING" \/ Expired(d)

\* First statement: the attempts that abandoned leases of disabled endpoints
\* left open are completed; nobody sees it before the function returns.
PollStarts(w) ==
    /\ worker[w].pc = "idle"
    /\ \E d \in Delivery : Claimable(d) \/ (Disabled(d) /\ Expired(d))
                                        \/ (Disabled(d) /\ delivery[d].status = "PENDING")
    /\ worker' = [worker EXCEPT ![w] = [@ EXCEPT
         !.pc = "polling",
         !.expired = {d \in Delivery : Expired(d)},
         !.buffered = {a \in Delivery \X AttemptNumber :
                         /\ Disabled(a[1]) /\ Expired(a[1])
                         /\ a[2] = delivery[a[1]].count + 1
                         /\ attempt[a[1]][a[2]] = "open"}]]
    /\ UNCHANGED <<endpoint, delivery, attempt, fanout, acked, changes, faults>>

HighestAttempt(d) ==
    LET used == {n \in AttemptNumber : attempt[d][n] # None}
    IN  IF used = {} THEN 0 ELSE CHOOSE n \in used : \A m \in used : m <= n

\* Second and third statements, and the commit: deliveries of disabled
\* endpoints that nobody is at work on are cancelled, due ones are claimed.
PollCommits(w, claims) ==
    /\ worker[w].pc = "polling"
    /\ Cardinality(claims) <= BatchSize
    /\ LET stale(d) == Expired(d) /\ d \in worker[w].expired
       IN  /\ \A d \in claims : Claimable(d) /\ (delivery[d].status = "PENDING" \/ stale(d))
           /\ delivery' = [d \in Delivery |->
                IF d \in claims
                THEN [delivery[d] EXCEPT !.status = "PROCESSING", !.owner = w, !.lapsed = FALSE]
                ELSE IF Disabled(d) /\ (delivery[d].status = "PENDING" \/ stale(d))
                THEN [delivery[d] EXCEPT !.status = "CANCELED", !.owner = NoWorker, !.lapsed = FALSE,
                                         !.count = GreaterOf(@, HighestAttempt(d))]
                ELSE delivery[d]]
    /\ attempt' = [d \in Delivery |-> [n \in AttemptNumber |->
                     IF <<d, n>> \in worker[w].buffered THEN "ambiguous" ELSE attempt[d][n]]]
    /\ worker' = [worker EXCEPT ![w] = IF claims = {} THEN Idle
                                       ELSE [Idle EXCEPT !.pc = "working", !.batch = claims]]
    /\ UNCHANGED <<endpoint, fanout, acked, changes, faults>>

-----------------------------------------------------------------------------
(* Processing a claim: prepare, post, finalize, each in its own transaction.*)

After(w, batch) == IF batch = {} THEN Idle ELSE [Idle EXCEPT !.pc = "working", !.batch = batch]

Buffered(a) == \E w \in Worker : a \in worker[w].buffered

\* Still this worker's: the row, its lease and its endpoint.
MayPrepare(w, d) ==
    /\ delivery[d].status = "PROCESSING"
    /\ delivery[d].owner = w
    /\ endpoint[d[1]].status = "ACTIVE"
    /\ ~delivery[d].lapsed

\* The delivery's next attempt, counting one left open by a dead worker.
NextNumber(d) == delivery[d].count + Cardinality(OpenAttempts(d)) + 1

\* The rows contradict each other: the transaction throws, here and on every
\* later claim.
SequenceBroken(d) ==
    \/ OpenAttempts(d) # {} /\ OpenAttempts(d) # {delivery[d].count + 1}
    \/ NextNumber(d) <= MaxAttempts /\ attempt[d][NextNumber(d)] # None

PrepareSkips(w, d) ==
    /\ worker[w].pc = "working" /\ d \in worker[w].batch
    /\ ~MayPrepare(w, d) \/ SequenceBroken(d)
    /\ worker' = [worker EXCEPT ![w] = After(w, worker[w].batch \ {d})]
    /\ UNCHANGED <<endpoint, delivery, attempt, fanout, acked, changes, faults>>

\* Mutant: the attempt of a dead worker is left open.
RecoveredNothing(d) == attempt[d]

\* An open attempt's answer is unknown for ever; it counts against the budget.
Recovered(d) ==
    [n \in AttemptNumber |-> IF n \in OpenAttempts(d) THEN "ambiguous" ELSE attempt[d][n]]

PrepareExhausts(w, d) ==
    /\ worker[w].pc = "working" /\ d \in worker[w].batch
    /\ MayPrepare(w, d) /\ ~SequenceBroken(d)
    /\ NextNumber(d) > MaxAttempts
    /\ \A n \in OpenAttempts(d) : ~Buffered(<<d, n>>)
    /\ attempt' = [attempt EXCEPT ![d] = Recovered(d)]
    /\ delivery' = [delivery EXCEPT ![d] =
                      [@ EXCEPT !.status = "FAILED", !.count = NextNumber(d) - 1, !.owner = NoWorker]]
    /\ worker' = [worker EXCEPT ![w] = After(w, worker[w].batch \ {d})]
    /\ UNCHANGED <<endpoint, fanout, acked, changes, faults>>

\* Mutant: the open attempt of a dead worker does not count against the budget.
PrepareUnbounded(w, d) ==
    /\ worker[w].pc = "working" /\ d \in worker[w].batch
    /\ MayPrepare(w, d) /\ ~SequenceBroken(d)
    /\ delivery[d].count < MaxAttempts
    /\ attempt' = [attempt EXCEPT ![d] = [Recovered(d) EXCEPT ![NextNumber(d)] = "open"]]
    /\ delivery' = [delivery EXCEPT ![d].count = NextNumber(d) - 1]
    /\ worker' = [worker EXCEPT ![w] = [@ EXCEPT !.pc = "posting",
                                    !.batch = worker[w].batch \ {d},
                                    !.current = d, !.number = NextNumber(d)]]
    /\ UNCHANGED <<endpoint, fanout, acked, changes, faults>>

\* The attempt is reserved before the request is made.
PrepareReserves(w, d) ==
    /\ worker[w].pc = "working" /\ d \in worker[w].batch
    /\ MayPrepare(w, d) /\ ~SequenceBroken(d)
    /\ NextNumber(d) <= MaxAttempts
    /\ \A n \in OpenAttempts(d) : ~Buffered(<<d, n>>)
    /\ attempt' = [attempt EXCEPT ![d] = [Recovered(d) EXCEPT ![NextNumber(d)] = "open"]]
    /\ delivery' = [delivery EXCEPT ![d].count = NextNumber(d) - 1]
    /\ worker' = [worker EXCEPT ![w] = [@ EXCEPT !.pc = "posting",
                                    !.batch = worker[w].batch \ {d},
                                    !.current = d, !.number = NextNumber(d)]]
    /\ UNCHANGED <<endpoint, fanout, acked, changes, faults>>

\* The receiver read the request and answered 2xx, whether or not the worker
\* gets to see the whole answer.
Acknowledges(x) ==
    /\ x.signing = "signed" /\ x.urlSafe /\ x.dns = "safe"
    /\ x.transfer # "slow-head" /\ x.status \in 200..299

\* The request is made outside any transaction and with no look at the lease.
Posts(w, x) ==
    /\ worker[w].pc = "posting"
    /\ worker' = [worker EXCEPT ![w] = [@ EXCEPT !.pc = "finalizing",
         !.outcome = AttemptDecision(worker[w].number, MaxAttempts, x).outcome]]
    /\ acked' = IF Acknowledges(x)
                THEN acked \cup {<<worker[w].current, worker[w].number>>} ELSE acked
    /\ UNCHANGED <<endpoint, delivery, attempt, fanout, changes, faults>>

\* The delivery is as this worker prepared it.
StillReserved(w) ==
    LET d == worker[w].current
        n == worker[w].number
    IN  /\ delivery[d].status = "PROCESSING"
        /\ delivery[d].owner = w
        /\ delivery[d].count = n - 1
        /\ attempt[d][n] = "open"

Finalizes(w) ==
    /\ worker[w].pc = "finalizing"
    /\ ~Buffered(<<worker[w].current, worker[w].number>>)
    /\ worker' = [worker EXCEPT ![w] = After(w, worker[w].batch)]
    /\ UNCHANGED <<acked, changes, faults>>

FinalizesTooLate(w) ==
    /\ Finalizes(w)
    /\ ~StillReserved(w)
    /\ UNCHANGED <<endpoint, delivery, attempt, fanout>>

\* The attempt and its delivery are closed together.
Closes(w) ==
    /\ Finalizes(w)
    /\ StillReserved(w)
    /\ attempt' = [attempt EXCEPT ![worker[w].current][worker[w].number] = worker[w].outcome]

Closed(w, status) ==
    [delivery EXCEPT ![worker[w].current] =
       [@ EXCEPT !.status = status, !.count = worker[w].number,
                 !.owner = NoWorker, !.lapsed = FALSE]]

FinalizesDisabled(w) ==
    /\ Closes(w)
    /\ worker[w].outcome # "delivered"
    /\ endpoint[worker[w].current[1]].status # "ACTIVE"
    /\ delivery' = Closed(w, "CANCELED")
    /\ UNCHANGED <<endpoint, fanout>>

FinalizesDelivered(w) ==
    LET e == worker[w].current[1]
    IN  /\ Closes(w)
        /\ worker[w].outcome = "delivered"
        /\ delivery' = Closed(w, "DELIVERED")
        /\ endpoint' = [endpoint EXCEPT ![e].failures =
                          IF endpoint[e].status = "ACTIVE" THEN 0 ELSE @]
        /\ UNCHANGED fanout

FinalizesRetry(w) ==
    /\ Closes(w)
    /\ worker[w].outcome = "retry"
    /\ endpoint[worker[w].current[1]].status = "ACTIVE"
    /\ delivery' = Closed(w, "PENDING")
    /\ UNCHANGED <<endpoint, fanout>>

\* Mutant: one terminal failure too many before the endpoint is disabled.
DisablesLate(w) ==
    \/ worker[w].outcome = "disable"
    \/ endpoint[worker[w].current[1]].failures >= DisableAfter

Disables(w) ==
    \/ worker[w].outcome = "disable"
    \/ endpoint[worker[w].current[1]].failures + 1 >= DisableAfter

FinalizesFailed(w) ==
    LET e == worker[w].current[1]
    IN  /\ Closes(w)
        /\ worker[w].outcome \in {"failed", "disable"}
        /\ endpoint[e].status = "ACTIVE"
        /\ ~Disables(w)
        /\ delivery' = Closed(w, "FAILED")
        /\ endpoint' = [endpoint EXCEPT ![e].failures = @ + 1]
        /\ UNCHANGED fanout

\* The notice is enqueued under a savepoint: when that fails it is dropped
\* and the rest still commits.
FinalizesDisabling(w, notice) ==
    LET e == worker[w].current[1]
    IN  /\ Closes(w)
        /\ worker[w].outcome \in {"failed", "disable"}
        /\ endpoint[e].status = "ACTIVE"
        /\ Disables(w)
        /\ endpoint' = [endpoint EXCEPT ![e].torn = Tears(e, "DISABLED"),
                                        ![e].failures = @ + 1, ![e].status = "DISABLED"]
        /\ LET cancelled == CancelPending(e, worker[w].current, Closed(w, "FAILED"))
           IN  \/ /\ notice # None /\ fanout[notice].pc = "new"
                  /\ delivery' = NotifyDisabled(notice, cancelled, endpoint')
                  /\ fanout' = [fanout EXCEPT ![notice].pc = "done"]
               \/ /\ notice = None
                  /\ delivery' = cancelled
                  /\ UNCHANGED fanout

-----------------------------------------------------------------------------
(* Faults and the passing of time.                                          *)

\* A transaction of the current claim fails: the error is logged and the
\* worker goes on to the next claim.
Abandons(w) ==
    /\ worker[w].pc \in {"posting", "finalizing"}
    /\ faults < MaxFaults
    /\ faults' = faults + 1
    /\ worker' = [worker EXCEPT ![w] = After(w, worker[w].batch)]
    /\ UNCHANGED <<endpoint, delivery, attempt, fanout, acked, changes>>

\* The process dies; a poll under way is rolled back.
Crashes(w) ==
    /\ worker[w].pc # "idle"
    /\ faults < MaxFaults
    /\ faults' = faults + 1
    /\ worker' = [worker EXCEPT ![w] = Idle]
    /\ UNCHANGED <<endpoint, delivery, attempt, fanout, acked, changes>>

\* A lease runs out: that of a worker still at it costs a fault.
Lapses(d) ==
    /\ delivery[d].status = "PROCESSING" /\ ~delivery[d].lapsed
    /\ delivery' = [delivery EXCEPT ![d].lapsed = TRUE]
    /\ IF d \in Holds(delivery[d].owner)
       THEN faults < MaxFaults /\ faults' = faults + 1
       ELSE UNCHANGED faults
    /\ UNCHANGED <<endpoint, attempt, fanout, worker, acked, changes>>

WorkerNext(w) ==
    \/ PollStarts(w)
    \/ \E claims \in SUBSET {d \in Delivery : Claimable(d)} : PollCommits(w, claims)
    \/ \E d \in Delivery :
          \/ PrepareSkips(w, d)
          \/ PrepareExhausts(w, d)
          \/ PrepareReserves(w, d)
    \/ \E x \in Exchange : Posts(w, x)
    \/ FinalizesTooLate(w)
    \/ FinalizesDisabled(w)
    \/ FinalizesDelivered(w)
    \/ FinalizesRetry(w)
    \/ FinalizesFailed(w)
    \/ \E notice \in NoticeEvent \cup {None} : FinalizesDisabling(w, notice)

AdministrationNext ==
    \E e \in Endpoint :
       \/ \E types \in SUBSET Offered[e] :
             \/ CreateCustomerWebhookEndpoint(e, types)
             \/ \E enabled \in BOOLEAN : EnableOrResubscribe(e, enabled, types)
             \/ \E ev \in NoticeEvent : DisableByOperator(e, types, ev)
       \/ RotateCustomerWebhookSigningSecret(e)

Next ==
    \/ \E ev \in DomainEvent : EnqueueReads(ev) \/ EnqueueCommits(ev)
    \/ AdministrationNext
    \/ \E d \in Delivery : ReplayCustomerWebhookDelivery(d)
    \/ \E w \in Worker : WorkerNext(w) \/ Abandons(w) \/ Crashes(w)
    \/ \E d \in Delivery : Lapses(d)

Spec == Init /\ [][Next]_vars

-----------------------------------------------------------------------------
(* Fairness: workers poll and work through what they claimed, abandoned     *)
(* leases run out, and a delivery that stays claimable falls due and is     *)
(* sooner or later among the claims of a poll; one that no worker can       *)
(* prepare is leased again with each claim, so it does not keep others out. *)
(* Nobody need administer.                                                  *)

ClaimsSome(w) ==
    \E claims \in SUBSET {d \in Delivery : Claimable(d)} :
        /\ \E d \in claims : ~SequenceBroken(d)
        /\ PollCommits(w, claims)

Abandoned(d) == delivery[d].status = "PROCESSING" /\ d \notin Holds(delivery[d].owner)

Fairness ==
    /\ \A w \in Worker : WF_vars(WorkerNext(w)) /\ SF_vars(ClaimsSome(w))
    /\ \A d \in Delivery : WF_vars(Abandoned(d) /\ Lapses(d))

FairSpec == Spec /\ Fairness

-----------------------------------------------------------------------------
(* Properties.                                                              *)

\* The attempts recorded for a delivery are 1..count, all closed, and at most
\* one more that is open; only a delivery being processed has an open one.
\* Otherwise the next preparation throws, and every one after it.
InSequence(d) ==
    /\ ~SequenceBroken(d)
    /\ \A n \in 1..delivery[d].count : attempt[d][n] \notin {None, "open"}
    /\ OpenAttempts(d) # {} => delivery[d].status = "PROCESSING"
    /\ \A v, w \in Worker : worker[v].current = d /\ worker[w].current = d /\ v # w
                          => worker[v].number # worker[w].number

\* Each attempt is reserved before its request and completed exactly once, an
\* expired reservation before the delivery is cancelled.
SequenceValid == \A d \in Delivery : InSequence(d)

\* That much is so for an endpoint that was never disabled or enabled between
\* the statements of a poll, whatever becomes of the others: workers that die,
\* outrun their leases, take over or answer late do not break the sequence.
SequenceValidUnlessTorn == \A d \in Delivery : ~endpoint[d[1]].torn => InSequence(d)

\* No endpoint stays active past its budget of consecutive terminal failures,
\* and a disabled one has nothing waiting: whoever was creating, replaying or
\* rescheduling a delivery for it either came first or saw it disabled.
DisabledInTime ==
    /\ \A e \in Endpoint : endpoint[e].status = "ACTIVE" => endpoint[e].failures < DisableAfter
    /\ \A d \in Delivery : delivery[d].status = "PENDING" => endpoint[d[1]].status = "ACTIVE"

\* A request about to be made is judged by the policy the documentation
\* describes: the addresses it refuses, what each answer comes to, the delays.
PolicyAsDocumented == \A w \in Worker : worker[w].pc = "posting" => DocumentedPolicy

\* However deliveries come about, there is always a later time when all of
\* them are delivered, failed or cancelled: with events, replays and changes
\* bounded this says that each one settles, whatever crashes and outrun
\* leases interrupt.  Only a poll torn by its endpoint leaves one that never
\* does, and it does not hold up the others.
EveryDeliverySettles ==
    []<>(\A d \in Delivery : \/ delivery[d].status \notin {"PENDING", "PROCESSING"}
                             \/ endpoint[d[1]].torn /\ SequenceBroken(d))

\* The deliveries keep the promises of WebhookDeliveryContract.
Contract == INSTANCE WebhookDeliveryContract WITH
    Slot <- Endpoint \X Event,
    phase <- [p \in (Endpoint \X Event) \X (1..MaxGeneration) |->
        LET status == delivery[<<p[1][1], p[1][2], p[2]>>].status
        IN  CASE status = "none" -> "none"
              [] status \in {"PENDING", "PROCESSING"} -> "open"
              [] status = "DELIVERED" -> "delivered"
              [] status = "FAILED" -> "failed"
              [] status = "CANCELED" -> "cancelled"],
    tries <- [p \in (Endpoint \X Event) \X (1..MaxGeneration) |->
        Cardinality({n \in AttemptNumber : attempt[<<p[1][1], p[1][2], p[2]>>][n] # None})],
    secret <- [p \in (Endpoint \X Event) \X (1..MaxGeneration) |->
        delivery[<<p[1][1], p[1][2], p[2]>>].secret],
    acked <- [p \in (Endpoint \X Event) \X (1..MaxGeneration) |->
        {n \in AttemptNumber : <<<<p[1][1], p[1][2], p[2]>>, n>> \in acked}]

ImplementsContract == Contract!Spec
=============================================================================
