----------------------- MODULE CustomerWebhooks_proofs -----------------------
(* Proofs about module CustomerWebhooks, for any endpoints, events, workers  *)
(* and exchanges, any attempt limit and budget, and any bound on faults,     *)
(* generations and administrative changes.                                   *)
EXTENDS CustomerWebhooks, FiniteSetTheorems, WellFoundedInduction, TLAPS

\* The attempts of a delivery are those it counts, closed, and at most the
\* next one, open while it is processed.
Sequence(d) ==
    \A n \in AttemptNumber :
        /\ n <= delivery[d].count => attempt[d][n] \notin {None, "open"}
        /\ n = delivery[d].count + 1 => attempt[d][n] \in {None, "open"}
        /\ n > delivery[d].count + 1 => attempt[d][n] = None
        /\ attempt[d][n] = "open" => delivery[d].status = "PROCESSING"

\* What is left of that when endpoints change between the statements of a
\* poll: a cancelled delivery may keep an attempt open, and the attempt after
\* the last one counted may be closed already.
Shape(d) ==
    \A n \in AttemptNumber :
        /\ n <= delivery[d].count => attempt[d][n] # None
        /\ n > delivery[d].count + 1 => attempt[d][n] = None
        /\ attempt[d][n] = "open" =>
              \/ delivery[d].status = "CANCELED"
              \/ delivery[d].status = "PROCESSING" /\ n > delivery[d].count
Shapes == \A d \in Delivery : Shape(d)

\* A delivery that does not exist has left no trace, and none exists of an
\* event that is not enqueued yet.
Blank(d) == delivery[d].count = 0 /\ \A n \in AttemptNumber : attempt[d][n] = None
Births ==
    /\ \A d \in Delivery : delivery[d].status = "none" => Blank(d)
    /\ \A ev \in Event, d \in Delivery :
          fanout[ev].pc # "done" /\ d[2] = ev => delivery[d].status = "none"

\* A worker with a request to make or made has an attempt of its own.
Busy(w) == worker[w].pc \in {"posting", "finalizing"}
Workers ==
    /\ \A w \in Worker :
          /\ Busy(w) => /\ worker[w].current \in Delivery /\ worker[w].number \in AttemptNumber
                        /\ attempt[worker[w].current][worker[w].number] # None
          /\ ~Busy(w) => worker[w].current = <<>>
          /\ worker[w].pc = "finalizing" => worker[w].outcome # None
    /\ \A v, w \in Worker :
          Busy(v) /\ Busy(w) /\ worker[v].current = worker[w].current /\ v # w
            => worker[v].number # worker[w].number

\* What a poll is about to close had been tried.
Buffers ==
    \A w \in Worker : worker[w].pc = "polling" =>
        \A d \in Delivery, n \in AttemptNumber :
            <<d, n>> \in worker[w].buffered => attempt[d][n] # None

\* What a poll under way saw of a delivery of a disabled endpoint is still so,
\* or somebody else has closed it.
Polled(w, d) ==
    /\ d \in worker[w].expired /\ Disabled(d) =>
          \/ /\ Expired(d)
             /\ \A n \in AttemptNumber : attempt[d][n] = "open" => <<d, n>> \in worker[w].buffered
          \/ delivery[d].status \in Terminal
    /\ \A n \in AttemptNumber : <<d, n>> \in worker[w].buffered =>
          d \in worker[w].expired /\ Disabled(d) /\ attempt[d][n] # None

\* What holds whatever happens between the statements of a poll, and what
\* holds besides of the deliveries of an endpoint that nothing happens to there.
Base == TypeOK /\ DisabledInTime /\ Shapes /\ Births /\ Workers /\ Buffers
Strict(d) == Sequence(d) /\ \A w \in Worker : worker[w].pc = "polling" => Polled(w, d)
Stricts == \A d \in Delivery : ~endpoint[d[1]].torn => Strict(d)

EndpointType == [status: {"ABSENT", "ACTIVE", "DISABLED"}, failures: 0..DisableAfter,
                 secret: 1..MaxSecret, types: SUBSET Type, torn: BOOLEAN]
DeliveryType == [status: {"none", "PENDING", "PROCESSING"} \cup Terminal,
                 count: 0..MaxAttempts, owner: Worker \cup {NoWorker},
                 lapsed: BOOLEAN, secret: 0..MaxSecret]
Outcome == {"delivered", "retry", "failed", "disable"}
AttemptState == {None, "open", "delivered", "retry", "failed", "disable", "ambiguous"}
FanoutType == [pc: {"new", "read", "done"}, candidates: SUBSET Endpoint]
WorkerType == [pc: {"idle", "polling", "working", "posting", "finalizing"},
               batch: SUBSET Delivery, current: Delivery \cup {<<>>},
               number: 0..MaxAttempts, outcome: {None} \cup Outcome,
               expired: SUBSET Delivery, buffered: SUBSET (Delivery \X AttemptNumber)]

\* What a worker keeps of its type when it polls or is answered.
LEMMA PollingRow ==
    ASSUME NEW x \in WorkerType, NEW e \in SUBSET Delivery,
           NEW b \in SUBSET (Delivery \X AttemptNumber)
    PROVE  [x EXCEPT !.pc = "polling", !.expired = e, !.buffered = b] \in WorkerType
BY DEF WorkerType
LEMMA AnsweredRow ==
    ASSUME NEW x \in WorkerType, NEW o \in Outcome
    PROVE  [x EXCEPT !.pc = "finalizing", !.outcome = o] \in WorkerType
BY DEF WorkerType

\* And a delivery when a poll claims or cancels it.
LEMMA ClaimedRow ==
    ASSUME NEW x \in DeliveryType, NEW w \in Worker
    PROVE  [x EXCEPT !.status = "PROCESSING", !.owner = w, !.lapsed = FALSE] \in DeliveryType
BY DEF DeliveryType
LEMMA CanceledRow ==
    ASSUME NEW x \in DeliveryType, NEW n \in 0..MaxAttempts
    PROVE  [x EXCEPT !.status = "CANCELED", !.owner = NoWorker, !.lapsed = FALSE, !.count = n]
              \in DeliveryType
BY DEF DeliveryType, Terminal

\* Types of every variable, by name.
Typed ==
    /\ endpoint \in [Endpoint -> EndpointType]
    /\ delivery \in [Delivery -> DeliveryType]
    /\ attempt \in [Delivery -> [AttemptNumber -> AttemptState]]
    /\ fanout \in [Event -> FanoutType]
    /\ worker \in [Worker -> WorkerType]
    /\ acked \subseteq Delivery \X AttemptNumber
    /\ changes \in 0..MaxChanges
    /\ faults \in 0..MaxFaults

LEMMA TypedIsTypeOK == Typed <=> TypeOK
BY DEF Typed, TypeOK, EndpointType, DeliveryType, AttemptState, FanoutType, WorkerType, Outcome

LEMMA TypedIsTypeOKNext == Typed' <=> TypeOK'
BY DEF Typed, TypeOK, EndpointType, DeliveryType, AttemptState, FanoutType, WorkerType, Outcome

LEMMA Numbers ==
    /\ MaxAttempts \in Nat /\ 1 \in AttemptNumber /\ 0 \in 0..MaxAttempts
    /\ DisableAfter \in Nat /\ 1 <= DisableAfter /\ 0 \in 0..DisableAfter
    /\ MaxSecret \in Nat /\ 1 \in 1..MaxSecret /\ 0 \in 0..MaxSecret
    /\ MaxGeneration \in Nat /\ 1 \in 1..MaxGeneration
    /\ MaxChanges \in Nat /\ MaxFaults \in Nat
BY AttemptAssumption, BoundAssumption DEF MAX_ATTEMPTS, AttemptNumber

\* Whatever came of a request, the policy decides, and it decides on success
\* only when the receiver acknowledged.
LEMMA Decisions ==
    ASSUME NEW n, NEW m, NEW x \in Exchange
    PROVE  /\ AttemptDecision(n, m, x).outcome \in Outcome
           /\ AttemptDecision(n, m, x).outcome = "delivered" => Acknowledges(x)
<1>1. ASSUME NEW result
      PROVE  LET c == ClassifyCustomerWebhookAttempt(n, m, result).outcome
             IN  /\ c \in Outcome
                 /\ c = "delivered" => "status" \in DOMAIN result /\ result.status \in 200..299
    BY DEF ClassifyCustomerWebhookAttempt, Decision, Outcome
<1>2. ASSUME NEW failure
      PROVE  LET c == ClassifyCustomerWebhookAttempt(n, m, [failure |-> failure]).outcome
             IN  c \in Outcome /\ c # "delivered"
    <2>1. "status" \notin DOMAIN [failure |-> failure] OBVIOUS
    <2> QED BY <1>1, <2>1
<1>3. PermanentFailureDecision.outcome = "failed" BY DEF PermanentFailureDecision, Decision
<1>4. CASE x.signing # "signed"
    BY <1>2, <1>3, <1>4 DEF AttemptDecision, ClassifyPreparationFailure, Outcome
<1>5. CASE x.signing = "signed"
    <2> DEFINE result == PostCustomerWebhook(x)
    <2>1. CASE "code" \in DOMAIN result
        <3>1. AttemptDecision(n, m, x) = ClassifyTransportFailure(n, m, result.code)
            BY <1>5, <2>1 DEF AttemptDecision
        <3> HIDE DEF result
        <3> QED BY <1>2, <1>3, <3>1 DEF ClassifyTransportFailure, Outcome
    <2>2. CASE "code" \notin DOMAIN result
        <3>1. AttemptDecision(n, m, x) = ClassifyCustomerWebhookAttempt(n, m, result)
            BY <1>5, <2>2 DEF AttemptDecision
        <3>2. /\ x.urlSafe /\ x.dns = "safe" /\ x.transfer = "whole"
              /\ result.status = x.status
            BY <2>2, ExchangeAssumption DEF PostCustomerWebhook, Dns, Transfer
        <3> HIDE DEF result
        <3> QED BY <1>1, <1>5, <3>1, <3>2 DEF Acknowledges
    <2> QED BY <2>1, <2>2
<1> QED BY <1>4, <1>5

LEMMA NotADelivery == <<>> \notin Delivery
BY DEF Delivery

\* A set of numbers with a bound has a greatest one.
LEMMA GreatestExists ==
    ASSUME NEW n \in Nat, NEW G, G \subseteq 1..n, G # {}
    PROVE  \E g \in G : \A h \in G : h <= g
<1> DEFINE T == {m \in Nat : \E g \in G : m = n - g}
<1>1. \A h \in G : h \in Nat /\ n - h \in Nat OBVIOUS
<1>2. T \subseteq Nat /\ T # {} BY <1>1
<1>3. PICK x \in T : \A y \in T : ~(<<y, x>> \in OpToRel(<, Nat))
    <2> HIDE DEF T
    <2> QED BY <1>2, NatLessThanWellFounded, WFMin
<1>4. \A y \in T : ~(y < x) BY <1>2, <1>3 DEF OpToRel
<1>5. PICK g \in G : x = n - g OBVIOUS
<1>6. \A h \in G : n - h \in T BY <1>1
<1> HIDE DEF T
<1>7. \A h \in G : ~(n - h < n - g) BY <1>4, <1>5, <1>6
<1> QED BY <1>1, <1>7

LEMMA NewDeliveries ==
    ASSUME NEW s \in 1..MaxSecret
    PROVE  /\ NewDelivery(s) \in DeliveryType
           /\ NewDelivery(s).status = "PENDING" /\ NewDelivery(s).count = 0
<1>1. NoDelivery \in DeliveryType /\ NoDelivery.count = 0
    BY Numbers DEF NoDelivery, DeliveryType
<1>2. s \in 0..MaxSecret BY Numbers
<1> QED BY <1>1, <1>2 DEF NewDelivery, DeliveryType

LEMMA IdleWorkers == Idle \in WorkerType /\ Idle.pc = "idle" /\ Idle.current = <<>>
BY Numbers DEF Idle, WorkerType

LEMMA AfterIsIdle ==
    ASSUME NEW w, NEW batch \in SUBSET Delivery
    PROVE  /\ After(w, batch) \in WorkerType /\ After(w, batch).pc \in {"idle", "working"}
           /\ After(w, batch).current = <<>>
BY Numbers DEF After, Idle, WorkerType

LEMMA SequenceShapes ==
    ASSUME NEW d \in Delivery, Sequence(d), delivery[d].count \in Nat
    PROVE  Shape(d)
<1> SUFFICES ASSUME NEW n \in AttemptNumber
             PROVE  /\ n <= delivery[d].count => attempt[d][n] # None
                    /\ n > delivery[d].count + 1 => attempt[d][n] = None
                    /\ attempt[d][n] = "open" =>
                          delivery[d].status = "PROCESSING" /\ n > delivery[d].count
    BY DEF Shape
<1>1. n \in Nat BY DEF AttemptNumber
<1> QED BY <1>1 DEF Sequence

LEMMA SequenceShapesNext ==
    ASSUME NEW d \in Delivery, Sequence(d)', delivery'[d].count \in Nat
    PROVE  Shape(d)'
<1> SUFFICES ASSUME NEW n \in AttemptNumber
             PROVE  /\ n <= delivery'[d].count => attempt'[d][n] # None
                    /\ n > delivery'[d].count + 1 => attempt'[d][n] = None
                    /\ attempt'[d][n] = "open" =>
                          delivery'[d].status = "PROCESSING" /\ n > delivery'[d].count
    BY DEF Shape
<1>1. n \in Nat BY DEF AttemptNumber
<1> QED BY <1>1 DEF Sequence

LEMMA InitInv == Init => Base /\ Stricts
<1> SUFFICES ASSUME Init PROVE Base /\ Stricts OBVIOUS
<1>1. NoDelivery \in DeliveryType /\ NoDelivery.status = "none" /\ NoDelivery.count = 0
    BY Numbers DEF NoDelivery, DeliveryType
<1>2. Typed
    <2>1. endpoint \in [Endpoint -> EndpointType] BY Numbers DEF Init, EndpointType
    <2>2. delivery \in [Delivery -> DeliveryType] BY <1>1 DEF Init
    <2>3. fanout \in [Event -> FanoutType] BY DEF Init, FanoutType
    <2>4. worker \in [Worker -> WorkerType] BY IdleWorkers DEF Init
    <2>5. attempt \in [Delivery -> [AttemptNumber -> AttemptState]] BY DEF Init, AttemptState
    <2> QED BY <2>1, <2>2, <2>3, <2>4, <2>5, Numbers DEF Init, Typed
<1>3. DisabledInTime BY <1>1 DEF Init, DisabledInTime
<1>4. \A d \in Delivery : Sequence(d)
    <2> SUFFICES ASSUME NEW d \in Delivery, NEW n \in AttemptNumber
                 PROVE  /\ n <= delivery[d].count => attempt[d][n] \notin {None, "open"}
                        /\ n = delivery[d].count + 1 => attempt[d][n] \in {None, "open"}
                        /\ n > delivery[d].count + 1 => attempt[d][n] = None
                        /\ attempt[d][n] = "open" => delivery[d].status = "PROCESSING"
        BY DEF Sequence
    <2>1. attempt[d][n] = None /\ None # "open" BY DEF Init, None
    <2>2. delivery[d].count = 0 BY <1>1 DEF Init
    <2>3. ~(n <= 0) BY Numbers DEF AttemptNumber
    <2> QED BY <2>1, <2>2, <2>3
<1>5. Births BY <1>1 DEF Init, Births, Blank
<1>6. Workers BY IdleWorkers DEF Init, Workers, Busy
<1>7. Buffers /\ \A d \in Delivery : Strict(d) BY <1>4, IdleWorkers DEF Init, Strict, Buffers
<1>8. Shapes
    <2>1. \A d \in Delivery : delivery[d].count \in Nat BY <1>1 DEF Init
    <2> QED BY <1>4, <2>1, SequenceShapes DEF Shapes
<1> QED BY <1>2, <1>3, <1>5, <1>6, <1>7, <1>8, TypedIsTypeOK DEF Base, Stricts

-----------------------------------------------------------------------------
(* Types.                                                                    *)

LEMMA BaseFacts ==
    ASSUME Base
    PROVE  /\ Typed /\ DisabledInTime /\ Shapes /\ Births /\ Workers /\ Buffers
           /\ endpoint \in [Endpoint -> EndpointType]
           /\ delivery \in [Delivery -> DeliveryType]
           /\ attempt \in [Delivery -> [AttemptNumber -> AttemptState]]
           /\ fanout \in [Event -> FanoutType]
           /\ worker \in [Worker -> WorkerType]
BY TypedIsTypeOK DEF Base, Typed

\* The steps that write no delivery and no attempt.
LEMMA QuietTypes ==
    ASSUME Base, delivery' = delivery, attempt' = attempt,
           endpoint' \in [Endpoint -> EndpointType], fanout' \in [Event -> FanoutType],
           worker' \in [Worker -> WorkerType], acked' \subseteq Delivery \X AttemptNumber,
           changes' \in 0..MaxChanges, faults' \in 0..MaxFaults
    PROVE  Typed'
BY BaseFacts DEF Typed

LEMMA FannedOutTypes ==
    ASSUME Base, NEW ev, NEW S
    PROVE  FannedOut(ev, S, endpoint) \in [Delivery -> DeliveryType]
<1> SUFFICES ASSUME NEW d \in Delivery PROVE NewDelivery(endpoint[d[1]].secret) \in DeliveryType
    BY BaseFacts DEF FannedOut
<1>1. d[1] \in Endpoint BY DEF Delivery
<1>2. endpoint[d[1]].secret \in 1..MaxSecret BY <1>1, BaseFacts DEF EndpointType
<1> QED BY <1>2, NewDeliveries

LEMMA CancelPendingTypes ==
    ASSUME NEW del \in [Delivery -> DeliveryType], NEW e, NEW kept
    PROVE  CancelPending(e, kept, del) \in [Delivery -> DeliveryType]
<1>1. \A d \in Delivery : [del[d] EXCEPT !.status = "CANCELED"] \in DeliveryType
    BY DEF DeliveryType, Terminal
<1> QED BY <1>1 DEF CancelPending

LEMMA NotifyDisabledTypes ==
    ASSUME NEW del \in [Delivery -> DeliveryType], NEW ep \in [Endpoint -> EndpointType], NEW ev
    PROVE  NotifyDisabled(ev, del, ep) \in [Delivery -> DeliveryType]
<1> SUFFICES ASSUME NEW d \in Delivery PROVE NewDelivery(ep[d[1]].secret) \in DeliveryType
    BY DEF NotifyDisabled
<1>1. d[1] \in Endpoint BY DEF Delivery
<1>2. ep[d[1]].secret \in 1..MaxSecret BY <1>1 DEF EndpointType
<1> QED BY <1>2, NewDeliveries

LEMMA ClosedTypes ==
    ASSUME Base, NEW w \in Worker, NEW status \in {"PENDING"} \cup Terminal, Closes(w)
    PROVE  /\ worker[w].current \in Delivery /\ worker[w].number \in AttemptNumber
           /\ worker[w].outcome \in Outcome
           /\ Closed(w, status) \in [Delivery -> DeliveryType]
           /\ attempt' \in [Delivery -> [AttemptNumber -> AttemptState]]
           /\ worker' \in [Worker -> WorkerType]
           /\ acked' = acked /\ changes' = changes /\ faults' = faults
<1>1. worker[w].pc = "finalizing" BY DEF Closes, Finalizes
<1>2. /\ worker[w].current \in Delivery /\ worker[w].number \in AttemptNumber
      /\ worker[w].outcome # None /\ worker[w] \in WorkerType
    BY <1>1, BaseFacts DEF Workers, Busy
<1>3. worker[w].outcome \in Outcome /\ worker[w].number \in 0..MaxAttempts
    BY <1>2 DEF WorkerType
<1>4. Closed(w, status) \in [Delivery -> DeliveryType]
    <2> DEFINE c == worker[w].current
               n == worker[w].number
               row == [delivery[c] EXCEPT !.status = status, !.count = n,
                                          !.owner = NoWorker, !.lapsed = FALSE]
    <2>1. Closed(w, status) = [delivery EXCEPT ![c] = row] BY DEF Closed
    <2>2. delivery[c] \in DeliveryType /\ n \in 0..MaxAttempts BY <1>2, <1>3, BaseFacts
    <2> HIDE DEF c, n
    <2>3. row \in DeliveryType BY <2>2 DEF DeliveryType
    <2> HIDE DEF row
    <2> QED BY <2>1, <2>3, BaseFacts
<1>5. attempt' \in [Delivery -> [AttemptNumber -> AttemptState]]
    BY <1>3, BaseFacts DEF Closes, Outcome, AttemptState
<1>6. worker' \in [Worker -> WorkerType]
    <2>1. worker[w].batch \in SUBSET Delivery BY <1>2 DEF WorkerType
    <2>2. After(w, worker[w].batch) \in WorkerType BY <2>1, AfterIsIdle
    <2> QED BY <2>2, BaseFacts DEF Closes, Finalizes
<1> QED BY <1>2, <1>3, <1>4, <1>5, <1>6 DEF Closes, Finalizes

LEMMA TearsType ==
    ASSUME NEW e, endpoint[e].torn \in BOOLEAN, NEW status
    PROVE  Tears(e, status) \in BOOLEAN
BY DEF Tears

LEMMA NextTyped == ASSUME Base, Next PROVE Typed'
<1>t. /\ endpoint \in [Endpoint -> EndpointType] /\ delivery \in [Delivery -> DeliveryType]
      /\ attempt \in [Delivery -> [AttemptNumber -> AttemptState]]
      /\ fanout \in [Event -> FanoutType] /\ worker \in [Worker -> WorkerType]
      /\ acked \subseteq Delivery \X AttemptNumber
      /\ changes \in 0..MaxChanges /\ faults \in 0..MaxFaults
    BY BaseFacts DEF Typed
<1>c. Administers => changes' \in 0..MaxChanges BY <1>t, Numbers DEF Administers
<1>d. ASSUME faults < MaxFaults, faults' = faults + 1 PROVE faults' \in 0..MaxFaults
    BY <1>d, <1>t, Numbers
<1>e. \A ev \in DomainEvent : ev \in Event BY DEF Event
<1>o. \A e \in Endpoint : \A types \in SUBSET Offered[e] : types \in SUBSET Type
    BY BoundAssumption DEF Type
<1>w. ASSUME NEW w \in Worker, NEW batch \in SUBSET Delivery,
             worker' = [worker EXCEPT ![w] = After(w, batch)]
      PROVE  worker' \in [Worker -> WorkerType]
    BY <1>w, <1>t, AfterIsIdle
<1>b. \A w \in Worker : worker[w].batch \in SUBSET Delivery BY <1>t DEF WorkerType
<1>1. ASSUME NEW ev \in DomainEvent, EnqueueReads(ev) PROVE Typed'
    <2>1. fanout' \in [Event -> FanoutType] BY <1>1, <1>t DEF EnqueueReads, FanoutType
    <2> QED BY <1>1, <1>t, <2>1 DEF EnqueueReads, Typed
<1>2. ASSUME NEW ev \in DomainEvent, EnqueueCommits(ev) PROVE Typed'
    <2>1. fanout' \in [Event -> FanoutType] BY <1>2, <1>t DEF EnqueueCommits, FanoutType
    <2>2. delivery' \in [Delivery -> DeliveryType] BY <1>2, FannedOutTypes DEF EnqueueCommits
    <2> QED BY <1>2, <1>t, <2>1, <2>2 DEF EnqueueCommits, Typed
<1>3. ASSUME NEW e \in Endpoint, NEW types \in SUBSET Offered[e],
             CreateCustomerWebhookEndpoint(e, types)
      PROVE  Typed'
    <2> DEFINE row == [endpoint[e] EXCEPT !.status = "ACTIVE", !.failures = 0, !.secret = 1,
                                          !.types = types]
    <2>p. endpoint[e] \in EndpointType BY <1>t
    <2>2. row \in EndpointType BY <1>o, <2>p, Numbers DEF EndpointType
    <2>3. endpoint' = [endpoint EXCEPT ![e] = row] BY <1>3, <1>t DEF CreateCustomerWebhookEndpoint
    <2> HIDE DEF row
    <2>1. endpoint' \in [Endpoint -> EndpointType] BY <1>t, <2>2, <2>3
    <2> QED BY <1>3, <1>t, <2>1 DEF CreateCustomerWebhookEndpoint, Typed
<1>4. ASSUME NEW e \in Endpoint, NEW types \in SUBSET Offered[e], NEW enabled \in BOOLEAN,
             EnableOrResubscribe(e, enabled, types)
      PROVE  Typed'
    <2> DEFINE status == IF enabled THEN "ACTIVE" ELSE endpoint[e].status
               failures == IF enabled THEN 0 ELSE endpoint[e].failures
               kinds == IF types = {} THEN endpoint[e].types ELSE types
               torn == IF enabled THEN Tears(e, "ACTIVE") ELSE endpoint[e].torn
               row == [endpoint[e] EXCEPT !.torn = torn, !.status = status, !.failures = failures,
                                          !.types = kinds]
    <2>1. endpoint' = [endpoint EXCEPT ![e] = row] BY <1>4, <1>t DEF EnableOrResubscribe
    <2>p. endpoint[e] \in EndpointType BY <1>t
    <2>q. status \in {"ABSENT", "ACTIVE", "DISABLED"} /\ failures \in 0..DisableAfter
            /\ kinds \in SUBSET Type
        BY <1>o, <2>p, Numbers DEF EndpointType
    <2>r. torn \in BOOLEAN BY <2>p, TearsType DEF EndpointType
    <2> HIDE DEF status, failures, kinds, torn
    <2>2. row \in EndpointType BY <2>p, <2>q, <2>r DEF EndpointType
    <2> HIDE DEF row
    <2>3. endpoint' \in [Endpoint -> EndpointType] BY <1>t, <2>1, <2>2
    <2> QED BY <1>4, <1>c, <1>t, <2>3 DEF EnableOrResubscribe, Administers, Typed
<1>5. ASSUME NEW e \in Endpoint, NEW types \in SUBSET Offered[e], NEW ev \in NoticeEvent,
             DisableByOperator(e, types, ev)
      PROVE  Typed'
    <2> DEFINE kinds == IF types = {} THEN endpoint[e].types ELSE types
               torn == Tears(e, "DISABLED")
               row == [endpoint[e] EXCEPT !.torn = torn, !.status = "DISABLED", !.types = kinds]
    <2>1. endpoint' = [endpoint EXCEPT ![e] = row] BY <1>5, <1>t DEF DisableByOperator
    <2>p. endpoint[e] \in EndpointType BY <1>t
    <2>q. kinds \in SUBSET Type /\ torn \in BOOLEAN BY <1>o, <2>p, TearsType DEF EndpointType
    <2> HIDE DEF kinds, torn
    <2>2. row \in EndpointType BY <2>p, <2>q DEF EndpointType
    <2> HIDE DEF row
    <2>3. endpoint' \in [Endpoint -> EndpointType] BY <1>t, <2>1, <2>2
    <2>4. delivery' \in [Delivery -> DeliveryType]
        BY <1>5, <1>t, <2>3, CancelPendingTypes, NotifyDisabledTypes DEF DisableByOperator
    <2>5. fanout' \in [Event -> FanoutType] BY <1>5, <1>t DEF DisableByOperator, FanoutType
    <2> QED BY <1>5, <1>c, <1>t, <2>3, <2>4, <2>5 DEF DisableByOperator, Administers, Typed
<1>6. ASSUME NEW e \in Endpoint, RotateCustomerWebhookSigningSecret(e) PROVE Typed'
    <2> DEFINE row == [endpoint[e] EXCEPT !.secret = endpoint[e].secret + 1]
    <2>1. endpoint' = [endpoint EXCEPT ![e] = row]
        BY <1>6, <1>t DEF RotateCustomerWebhookSigningSecret
    <2>2. endpoint[e].secret + 1 \in 1..MaxSecret
        BY <1>6, <1>t, Numbers DEF RotateCustomerWebhookSigningSecret, EndpointType
    <2>3. row \in EndpointType BY <1>t, <2>2 DEF EndpointType
    <2> HIDE DEF row
    <2>4. endpoint' \in [Endpoint -> EndpointType] BY <1>t, <2>1, <2>3
    <2> QED BY <1>6, <1>c, <1>t, <2>4 DEF RotateCustomerWebhookSigningSecret, Administers, Typed
<1>7. ASSUME NEW d \in Delivery, ReplayCustomerWebhookDelivery(d) PROVE Typed'
    <2>1. d[1] \in Endpoint BY DEF Delivery
    <2>2. endpoint[d[1]].secret \in 1..MaxSecret BY <1>t, <2>1 DEF EndpointType
    <2>3. NewDelivery(endpoint[d[1]].secret) \in DeliveryType BY <2>2, NewDeliveries
    <2>4. delivery' \in [Delivery -> DeliveryType]
        BY <1>7, <1>t, <2>3 DEF ReplayCustomerWebhookDelivery
    <2> QED BY <1>7, <1>c, <1>t, <2>4 DEF ReplayCustomerWebhookDelivery, Administers, Typed
<1>8. ASSUME NEW w \in Worker, PollStarts(w) PROVE Typed'
    <2> DEFINE expired == {d \in Delivery : Expired(d)}
               buffered == {a \in Delivery \X AttemptNumber :
                              /\ Disabled(a[1]) /\ Expired(a[1])
                              /\ a[2] = delivery[a[1]].count + 1
                              /\ attempt[a[1]][a[2]] = "open"}
               row == [worker[w] EXCEPT !.pc = "polling", !.expired = expired, !.buffered = buffered]
    <2>1. worker' = [worker EXCEPT ![w] = row] BY <1>8 DEF PollStarts
    <2>2. expired \in SUBSET Delivery /\ buffered \in SUBSET (Delivery \X AttemptNumber) OBVIOUS
    <2> HIDE DEF expired, buffered
    <2>3. row \in WorkerType BY <1>t, <2>2, PollingRow
    <2> HIDE DEF row
    <2>4. worker' \in [Worker -> WorkerType] BY <1>t, <2>1, <2>3
    <2> QED BY <1>8, <1>t, <2>4 DEF PollStarts, Typed
<1>9. ASSUME NEW w \in Worker, NEW claims \in SUBSET {d \in Delivery : Claimable(d)},
             PollCommits(w, claims)
      PROVE  Typed'
    <2>1. worker' \in [Worker -> WorkerType]
        <3>1. [Idle EXCEPT !.pc = "working", !.batch = claims] \in WorkerType
            BY Numbers DEF Idle, WorkerType
        <3> QED BY <1>9, <1>t, <3>1, IdleWorkers DEF PollCommits
    <2>2. attempt' \in [Delivery -> [AttemptNumber -> AttemptState]]
        BY <1>9, <1>t DEF PollCommits, AttemptState
    <2>3. ASSUME NEW d \in Delivery
          PROVE  /\ [delivery[d] EXCEPT !.status = "PROCESSING", !.owner = w, !.lapsed = FALSE]
                       \in DeliveryType
                 /\ \A n \in 0..MaxAttempts :
                       [delivery[d] EXCEPT !.status = "CANCELED", !.owner = NoWorker,
                                           !.lapsed = FALSE, !.count = n] \in DeliveryType
        BY <1>t, ClaimedRow, CanceledRow
    <2>4. ASSUME NEW d \in Delivery
          PROVE  GreaterOf(delivery[d].count, HighestAttempt(d)) \in 0..MaxAttempts
        <3> DEFINE used == {n \in AttemptNumber : attempt[d][n] # None}
        <3>1. HighestAttempt(d) \in 0..MaxAttempts
            <4>1. CASE used = {} BY <4>1, Numbers DEF HighestAttempt
            <4>2. CASE used # {}
                <5>1. \E n \in used : \A m \in used : m <= n
                    <6>1. used \subseteq 1..MaxAttempts BY DEF AttemptNumber
                    <6> HIDE DEF used
                    <6> QED BY <4>2, <6>1, Numbers, GreatestExists
                <5>2. HighestAttempt(d) \in used BY <4>2, <5>1 DEF HighestAttempt
                <5> QED BY <5>2, Numbers DEF AttemptNumber
            <4> QED BY <4>1, <4>2
        <3>2. delivery[d].count \in 0..MaxAttempts BY <1>t DEF DeliveryType
        <3> QED BY <3>1, <3>2 DEF GreaterOf
    <2>5. \A d \in Delivery : delivery'[d] \in DeliveryType
        <3> TAKE d \in Delivery
        <3>1. \/ delivery'[d] = [delivery[d] EXCEPT !.status = "PROCESSING", !.owner = w,
                                                    !.lapsed = FALSE]
              \/ delivery'[d] = [delivery[d] EXCEPT !.status = "CANCELED", !.owner = NoWorker,
                                    !.lapsed = FALSE,
                                    !.count = GreaterOf(delivery[d].count, HighestAttempt(d))]
              \/ delivery'[d] = delivery[d]
            BY <1>9 DEF PollCommits
        <3> QED BY <1>t, <2>3, <2>4, <3>1
    <2>6. delivery' \in [Delivery -> DeliveryType] BY <1>9, <2>5 DEF PollCommits
    <2> QED BY <1>9, <1>t, <2>1, <2>2, <2>6 DEF PollCommits, Typed
<1>10. ASSUME NEW w \in Worker, NEW d \in Delivery, PrepareSkips(w, d) PROVE Typed'
    <2>1. worker' \in [Worker -> WorkerType] BY <1>10, <1>b, <1>w DEF PrepareSkips
    <2> QED BY <1>10, <1>t, <2>1 DEF PrepareSkips, Typed
\* The count of a delivery and its next attempt's number.
<1>n. ASSUME NEW d \in Delivery, ~SequenceBroken(d)
      PROVE  /\ Recovered(d) \in [AttemptNumber -> AttemptState]
             /\ NextNumber(d) - 1 \in 0..MaxAttempts
             /\ NextNumber(d) \in Nat /\ NextNumber(d) > 0
    <2>1. Recovered(d) \in [AttemptNumber -> AttemptState] BY <1>t DEF Recovered, AttemptState
    <2>2. delivery[d].count \in 0..MaxAttempts BY <1>t DEF DeliveryType
    <2>3. CASE OpenAttempts(d) = {}
        <3>1. NextNumber(d) = delivery[d].count + 1
            BY <2>2, <2>3, FS_EmptySet DEF NextNumber
        <3> QED BY <2>1, <2>2, <3>1, Numbers
    <2>4. CASE OpenAttempts(d) # {}
        <3>1. OpenAttempts(d) = {delivery[d].count + 1} BY <1>n, <2>4 DEF SequenceBroken
        <3>2. Cardinality(OpenAttempts(d)) = 1 BY <3>1, FS_Singleton
        <3>3. delivery[d].count + 1 \in AttemptNumber BY <3>1 DEF OpenAttempts
        <3>4. NextNumber(d) = delivery[d].count + 2 BY <2>2, <3>2 DEF NextNumber
        <3> QED BY <2>1, <2>2, <3>3, <3>4, Numbers DEF AttemptNumber
    <2> QED BY <2>3, <2>4
<1>11. ASSUME NEW w \in Worker, NEW d \in Delivery, PrepareExhausts(w, d) PROVE Typed'
    <2>1. worker' \in [Worker -> WorkerType]
        <3> DEFINE batch == worker[w].batch \ {d}
        <3>1. worker' = [worker EXCEPT ![w] = After(w, batch)] BY <1>11 DEF PrepareExhausts
        <3>2. batch \in SUBSET Delivery BY <1>b
        <3> HIDE DEF batch
        <3> QED BY ONLY <1>w, <3>1, <3>2, w \in Worker
    <2>2. attempt' \in [Delivery -> [AttemptNumber -> AttemptState]]
        BY <1>11, <1>n, <1>t DEF PrepareExhausts
    <2> DEFINE n == NextNumber(d) - 1
               row == [delivery[d] EXCEPT !.status = "FAILED", !.count = n, !.owner = NoWorker]
    <2>3. n \in 0..MaxAttempts BY <1>11, <1>n DEF PrepareExhausts
    <2>4. delivery' = [delivery EXCEPT ![d] = row] BY <1>11 DEF PrepareExhausts
    <2> HIDE DEF n
    <2>5. row \in DeliveryType BY <1>t, <2>3 DEF DeliveryType, Terminal
    <2> HIDE DEF row
    <2>6. delivery' \in [Delivery -> DeliveryType] BY <1>t, <2>4, <2>5
    <2> QED BY <1>11, <1>t, <2>1, <2>2, <2>6 DEF PrepareExhausts, Typed
<1>12. ASSUME NEW w \in Worker, NEW d \in Delivery, PrepareReserves(w, d) PROVE Typed'
    <2> DEFINE n == NextNumber(d)
               row == [delivery[d] EXCEPT !.count = n - 1]
               batch == worker[w].batch \ {d}
               busy == [worker[w] EXCEPT !.pc = "posting", !.batch = batch, !.current = d,
                                         !.number = n]
    <2>1. n \in 0..MaxAttempts /\ n - 1 \in 0..MaxAttempts /\ n \in AttemptNumber
        BY <1>12, <1>n, Numbers DEF PrepareReserves, AttemptNumber
    <2>2. attempt' = [attempt EXCEPT ![d] = [Recovered(d) EXCEPT ![n] = "open"]]
        BY <1>12 DEF PrepareReserves
    <2>3. delivery' = [delivery EXCEPT ![d] = row]
        BY <1>12, <1>t DEF PrepareReserves
    <2>4. worker' = [worker EXCEPT ![w] = busy] BY <1>12 DEF PrepareReserves
    <2>5. batch \in SUBSET Delivery /\ worker[w] \in WorkerType BY <1>b, <1>t
    <2>6. ~SequenceBroken(d) BY <1>12 DEF PrepareReserves
    <2> HIDE DEF n, batch
    <2>7. row \in DeliveryType BY <1>t, <2>1 DEF DeliveryType
    <2>8. busy \in WorkerType BY <2>1, <2>5 DEF WorkerType
    <2>9. attempt' \in [Delivery -> [AttemptNumber -> AttemptState]]
        BY <1>n, <1>t, <2>2, <2>6 DEF AttemptState
    <2> HIDE DEF row, busy
    <2>10. delivery' \in [Delivery -> DeliveryType] /\ worker' \in [Worker -> WorkerType]
        BY <1>t, <2>3, <2>4, <2>7, <2>8
    <2> QED BY <1>12, <1>t, <2>9, <2>10 DEF PrepareReserves, Typed
<1>13. ASSUME NEW w \in Worker, NEW x \in Exchange, Posts(w, x) PROVE Typed'
    <2> DEFINE n == worker[w].number
               c == worker[w].current
               o == AttemptDecision(n, MaxAttempts, x).outcome
               row == [worker[w] EXCEPT !.pc = "finalizing", !.outcome = o]
    <2>1. worker[w].pc = "posting" BY <1>13 DEF Posts
    <2>2. c \in Delivery /\ n \in AttemptNumber BY <2>1, BaseFacts DEF Workers, Busy
    <2>3. o \in Outcome BY Decisions
    <2>4. worker' = [worker EXCEPT ![w] = row] BY <1>13 DEF Posts
    <2>5. acked' \subseteq Delivery \X AttemptNumber BY <1>13, <1>t, <2>2 DEF Posts
    <2> HIDE DEF o, n, c
    <2>6. row \in WorkerType BY <1>t, <2>3, AnsweredRow
    <2> HIDE DEF row
    <2>7. worker' \in [Worker -> WorkerType] BY <1>t, <2>4, <2>6
    <2> QED BY <1>13, <1>t, <2>5, <2>7 DEF Posts, Typed
<1>14. ASSUME NEW w \in Worker, FinalizesTooLate(w) PROVE Typed'
    <2>1. worker' \in [Worker -> WorkerType]
        BY <1>14, <1>b, <1>w DEF FinalizesTooLate, Finalizes
    <2> QED BY <1>14, <1>t, <2>1 DEF FinalizesTooLate, Finalizes, Typed
<1>15. ASSUME NEW w \in Worker, FinalizesDisabled(w) \/ FinalizesRetry(w) PROVE Typed'
    <2>1. /\ Closes(w) /\ endpoint' = endpoint /\ fanout' = fanout
          /\ delivery' = Closed(w, "CANCELED") \/ delivery' = Closed(w, "PENDING")
        BY <1>15 DEF FinalizesDisabled, FinalizesRetry
    <2> QED BY <1>t, <2>1, ClosedTypes DEF Typed, Terminal
<1>16. ASSUME NEW w \in Worker, FinalizesDelivered(w) PROVE Typed'
    <2> DEFINE e == worker[w].current[1]
               row == [endpoint[e] EXCEPT !.failures =
                         IF endpoint[e].status = "ACTIVE" THEN 0 ELSE endpoint[e].failures]
    <2>1. Closes(w) /\ delivery' = Closed(w, "DELIVERED") /\ fanout' = fanout
        BY <1>16 DEF FinalizesDelivered
    <2>2. e \in Endpoint BY <2>1, ClosedTypes DEF Delivery, Terminal
    <2>3. endpoint' = [endpoint EXCEPT ![e] = row] BY <1>16, <1>t, <2>2 DEF FinalizesDelivered
    <2> HIDE DEF e
    <2>4. row \in EndpointType BY <1>t, <2>2, Numbers DEF EndpointType
    <2> HIDE DEF row
    <2>5. endpoint' \in [Endpoint -> EndpointType] BY <1>t, <2>3, <2>4
    <2> QED BY <1>t, <2>1, <2>5, ClosedTypes DEF Typed, Terminal
\* A failure more, of an active endpoint.
<1>f. ASSUME NEW e \in Endpoint, endpoint[e].status = "ACTIVE"
      PROVE  endpoint[e].failures + 1 \in 0..DisableAfter
    <2>1. endpoint[e].failures \in 0..DisableAfter BY <1>t DEF EndpointType
    <2>2. endpoint[e].failures < DisableAfter BY <1>f, BaseFacts DEF DisabledInTime
    <2> QED BY <2>1, <2>2, Numbers
<1>17. ASSUME NEW w \in Worker, FinalizesFailed(w) PROVE Typed'
    <2> DEFINE e == worker[w].current[1]
               row == [endpoint[e] EXCEPT !.failures = endpoint[e].failures + 1]
    <2>1. Closes(w) /\ delivery' = Closed(w, "FAILED") /\ fanout' = fanout
            /\ endpoint[e].status = "ACTIVE"
        BY <1>17 DEF FinalizesFailed
    <2>2. e \in Endpoint BY <2>1, ClosedTypes DEF Delivery, Terminal
    <2>3. endpoint' = [endpoint EXCEPT ![e] = row] BY <1>17, <1>t, <2>2 DEF FinalizesFailed
    <2> HIDE DEF e
    <2>4. row \in EndpointType BY <1>f, <1>t, <2>1, <2>2 DEF EndpointType
    <2> HIDE DEF row
    <2>5. endpoint' \in [Endpoint -> EndpointType] BY <1>t, <2>3, <2>4
    <2> QED BY <1>t, <2>1, <2>5, ClosedTypes DEF Typed, Terminal
<1>18. ASSUME NEW w \in Worker, NEW notice \in NoticeEvent \cup {None}, FinalizesDisabling(w, notice)
       PROVE  Typed'
    <2> DEFINE e == worker[w].current[1]
               torn == Tears(e, "DISABLED")
               row == [endpoint[e] EXCEPT !.torn = torn, !.failures = endpoint[e].failures + 1,
                                          !.status = "DISABLED"]
               cancelled == CancelPending(e, worker[w].current, Closed(w, "FAILED"))
    <2>1. Closes(w) /\ endpoint[e].status = "ACTIVE" BY <1>18 DEF FinalizesDisabling
    <2>2. e \in Endpoint BY <2>1, ClosedTypes DEF Delivery, Terminal
    <2>3. endpoint' = [endpoint EXCEPT ![e] = row] BY <1>18, <1>t, <2>2 DEF FinalizesDisabling
    <2>4. cancelled \in [Delivery -> DeliveryType]
        BY <2>1, ClosedTypes, CancelPendingTypes DEF Terminal
    <2>5. \/ delivery' = NotifyDisabled(notice, cancelled, endpoint')
             /\ fanout' = [fanout EXCEPT ![notice].pc = "done"]
          \/ delivery' = cancelled /\ fanout' = fanout
        BY <1>18 DEF FinalizesDisabling
    <2>t. torn \in BOOLEAN BY <1>t, <2>2, TearsType DEF EndpointType
    <2> HIDE DEF e, cancelled, torn
    <2>6. row \in EndpointType BY <1>f, <1>t, <2>1, <2>2, <2>t DEF EndpointType
    <2> HIDE DEF row
    <2>7. endpoint' \in [Endpoint -> EndpointType] BY <1>t, <2>3, <2>6
    <2>8. delivery' \in [Delivery -> DeliveryType] BY <2>4, <2>5, <2>7, NotifyDisabledTypes
    <2>9. fanout' \in [Event -> FanoutType] BY <1>t, <2>5 DEF FanoutType
    <2> QED BY <1>t, <2>1, <2>7, <2>8, <2>9, ClosedTypes DEF Typed, Terminal
<1>19. ASSUME NEW w \in Worker, Abandons(w) PROVE Typed'
    <2>1. worker' \in [Worker -> WorkerType] BY <1>19, <1>b, <1>w DEF Abandons
    <2> QED BY <1>19, <1>d, <1>t, <2>1 DEF Abandons, Typed
<1>20. ASSUME NEW w \in Worker, Crashes(w) PROVE Typed'
    <2>1. worker' \in [Worker -> WorkerType] BY <1>20, <1>t, IdleWorkers DEF Crashes
    <2> QED BY <1>20, <1>d, <1>t, <2>1 DEF Crashes, Typed
<1>21. ASSUME NEW d \in Delivery, Lapses(d) PROVE Typed'
    <2> DEFINE row == [delivery[d] EXCEPT !.lapsed = TRUE]
    <2>1. delivery' = [delivery EXCEPT ![d] = row] BY <1>21 DEF Lapses
    <2>2. row \in DeliveryType BY <1>t DEF DeliveryType
    <2> HIDE DEF row
    <2>3. delivery' \in [Delivery -> DeliveryType] BY <1>t, <2>1, <2>2
    <2> QED BY <1>21, <1>d, <1>t, <2>3 DEF Lapses, Typed
<1> QED
    BY <1>1, <1>2, <1>3, <1>4, <1>5, <1>6, <1>7, <1>8, <1>9, <1>10, <1>11, <1>12, <1>13,
       <1>14, <1>15, <1>16, <1>17, <1>18, <1>19, <1>20, <1>21
    DEF Next, AdministrationNext, WorkerNext

-----------------------------------------------------------------------------
(* What the steps do to the rows.                                            *)

\* As it was, or no longer pending.
KeptRow(d) ==
    /\ attempt'[d] = attempt[d] /\ delivery'[d].count = delivery[d].count
    /\ \/ /\ delivery'[d].status = delivery[d].status
          /\ delivery[d].lapsed /\ Disabled(d) => delivery'[d].lapsed
       \/ delivery[d].status = "PENDING" /\ delivery'[d].status # "none"
BornRow(d) ==
    /\ delivery[d].status = "none" /\ attempt'[d] = attempt[d]
    /\ delivery'[d].status = "PENDING" /\ delivery'[d].count = 0
    /\ fanout'[d[2]].pc = "done"
WorkedRow(d) ==
    /\ delivery[d].status # "none" /\ delivery'[d].status # "none" /\ Shape(d)'
    /\ Strict(d) => Sequence(d)' /\ (Disabled(d) => delivery'[d].status \in Terminal)
    /\ \A n \in AttemptNumber : attempt[d][n] # None => attempt'[d][n] # None
Rows == \A d \in Delivery : KeptRow(d) \/ BornRow(d) \/ WorkedRow(d)
FanoutsKept == \A ev \in Event : fanout[ev].pc = "done" => fanout'[ev].pc = "done"

Tried(d) == {n \in AttemptNumber : attempt[d][n] # None}
NothingForgotten ==
    \A d \in Delivery, n \in AttemptNumber : attempt[d][n] # None => attempt'[d][n] # None

LEMMA RowsKept ==
    ASSUME Base, Rows, FanoutsKept
    PROVE  Shapes' /\ Births' /\ NothingForgotten
<1>i. Shapes /\ Births BY BaseFacts
<1>c. \A d \in Delivery : d[2] \in Event BY DEF Delivery
<1>1. ASSUME NEW d \in Delivery PROVE Shape(d)'
    <2>1. Shape(d) BY <1>i DEF Shapes
    <2>2. CASE KeptRow(d)
        <3> SUFFICES ASSUME NEW n \in AttemptNumber
                     PROVE  /\ n <= delivery'[d].count => attempt'[d][n] # None
                            /\ n > delivery'[d].count + 1 => attempt'[d][n] = None
                            /\ attempt'[d][n] = "open" =>
                                  \/ delivery'[d].status = "CANCELED"
                                  \/ delivery'[d].status = "PROCESSING" /\ n > delivery'[d].count
            BY DEF Shape
        <3>1. attempt'[d][n] = attempt[d][n] /\ delivery'[d].count = delivery[d].count
            BY <2>2 DEF KeptRow
        <3>2. attempt[d][n] = "open" => delivery'[d].status = delivery[d].status
            BY <2>1, <2>2 DEF KeptRow, Shape
        <3> QED BY <2>1, <3>1, <3>2 DEF Shape
    <2>3. CASE BornRow(d)
        <3>1. \A n \in AttemptNumber : attempt'[d][n] = None
            BY <1>i, <2>3 DEF BornRow, Births, Blank
        <3>2. delivery'[d].count = 0 BY <2>3 DEF BornRow
        <3>3. \A n \in AttemptNumber : ~(n <= 0) BY Numbers DEF AttemptNumber
        <3>4. None # "open" BY DEF None
        <3> QED BY <3>1, <3>2, <3>3, <3>4 DEF Shape
    <2> QED BY <2>2, <2>3 DEF WorkedRow, Rows
<1>2. ASSUME NEW d \in Delivery, delivery'[d].status = "none" PROVE Blank(d)'
    <2>1. KeptRow(d) /\ delivery[d].status = "none" BY <1>2 DEF KeptRow, BornRow, WorkedRow, Rows
    <2> QED BY <1>i, <2>1 DEF KeptRow, Births, Blank
<1>3. ASSUME NEW ev \in Event, NEW d \in Delivery, fanout'[ev].pc # "done", d[2] = ev
      PROVE  delivery'[d].status = "none"
    <2>1. fanout[ev].pc # "done" BY <1>3 DEF FanoutsKept
    <2>2. delivery[d].status = "none" BY <1>3, <1>i, <2>1 DEF Births
    <2> QED BY <1>3, <2>2, <1>c DEF KeptRow, BornRow, WorkedRow, Rows
<1>4. NothingForgotten BY DEF NothingForgotten, Rows, KeptRow, BornRow, WorkedRow
<1> QED BY <1>1, <1>2, <1>3, <1>4 DEF Shapes, Births

\* And in sequence, if it was and the polls see what they saw.
LEMMA SequenceKept ==
    ASSUME Base, Rows, NEW d \in Delivery, Strict(d)
    PROVE  Sequence(d)'
<1>1. Sequence(d) BY DEF Strict
<1>2. CASE KeptRow(d)
    <2> SUFFICES ASSUME NEW n \in AttemptNumber
                 PROVE  /\ n <= delivery'[d].count => attempt'[d][n] \notin {None, "open"}
                        /\ n = delivery'[d].count + 1 => attempt'[d][n] \in {None, "open"}
                        /\ n > delivery'[d].count + 1 => attempt'[d][n] = None
                        /\ attempt'[d][n] = "open" => delivery'[d].status = "PROCESSING"
        BY DEF Sequence
    <2>1. attempt'[d][n] = attempt[d][n] /\ delivery'[d].count = delivery[d].count
        BY <1>2 DEF KeptRow
    <2>2. attempt[d][n] = "open" => delivery'[d].status = delivery[d].status
        BY <1>1, <1>2 DEF KeptRow, Sequence
    <2> QED BY <1>1, <2>1, <2>2 DEF Sequence
<1>3. CASE BornRow(d)
    <2>1. \A n \in AttemptNumber : attempt'[d][n] = None
        BY <1>3, BaseFacts DEF BornRow, Births, Blank
    <2>2. delivery'[d].count = 0 BY <1>3 DEF BornRow
    <2>3. \A n \in AttemptNumber : ~(n <= 0) BY Numbers DEF AttemptNumber
    <2>4. None # "open" BY DEF None
    <2> QED BY <2>1, <2>2, <2>3, <2>4 DEF Sequence
<1> QED BY <1>2, <1>3 DEF WorkedRow, Rows

\* A delivery whose next attempt can be reserved or closed is in sequence.
LEMMA WorkableSequence ==
    ASSUME Base, NEW d \in Delivery, delivery[d].status = "PROCESSING",
           ~SequenceBroken(d) \/ attempt[d][delivery[d].count + 1] = "open"
    PROVE  Sequence(d)
<1> DEFINE k == delivery[d].count
<1>1. Shape(d) BY BaseFacts DEF Shapes
<1>2. k \in Nat /\ \A n \in AttemptNumber : n \in Nat
    BY BaseFacts, Numbers DEF DeliveryType, AttemptNumber
<1>3. None # "open" BY DEF None
<1>4. ASSUME NEW n \in AttemptNumber
      PROVE  /\ n <= k => attempt[d][n] \notin {None, "open"}
             /\ n > k + 1 => attempt[d][n] = None
    <2>1. /\ n <= k => attempt[d][n] # None
          /\ n > k + 1 => attempt[d][n] = None
          /\ attempt[d][n] = "open" => n > k
        BY <1>1 DEF Shape
    <2> HIDE DEF k
    <2>2. ~(n <= k /\ n > k) BY <1>2
    <2> QED BY <2>1, <2>2
<1>5. ASSUME k + 1 \in AttemptNumber PROVE attempt[d][k + 1] \in {None, "open"}
    <2>1. CASE attempt[d][k + 1] = "open" BY <2>1
    <2>2. CASE ~SequenceBroken(d) /\ attempt[d][k + 1] # "open"
        <3>1. OpenAttempts(d) = {}
            <4>1. k + 1 \notin OpenAttempts(d) BY <2>2 DEF OpenAttempts
            <4> QED BY <2>2, <4>1 DEF SequenceBroken
        <3>2. NextNumber(d) = k + 1 BY <1>2, <3>1, FS_EmptySet DEF NextNumber
        <3>3. NextNumber(d) <= MaxAttempts BY <1>2, <1>5, <3>2, Numbers DEF AttemptNumber
        <3> QED BY <2>2, <3>2, <3>3 DEF SequenceBroken
    <2> QED BY <2>1, <2>2
<1> QED BY <1>4, <1>5 DEF Sequence

LEMMA NextNumbers ==
    ASSUME Base, NEW d \in Delivery, Sequence(d)
    PROVE  /\ ~SequenceBroken(d)
           /\ \/ OpenAttempts(d) = {} /\ NextNumber(d) = delivery[d].count + 1
              \/ /\ OpenAttempts(d) = {delivery[d].count + 1}
                 /\ delivery[d].count + 1 \in AttemptNumber
                 /\ NextNumber(d) = delivery[d].count + 2
<1>1. Sequence(d) OBVIOUS
<1>2. delivery[d].count \in Nat BY BaseFacts, Numbers DEF DeliveryType
<1>3. OpenAttempts(d) \subseteq {delivery[d].count + 1}
    BY <1>1, <1>2 DEF OpenAttempts, Sequence, None, AttemptNumber
<1>4. CASE OpenAttempts(d) = {}
    <2>1. NextNumber(d) = delivery[d].count + 1 BY <1>2, <1>4, FS_EmptySet DEF NextNumber
    <2>2. ASSUME NextNumber(d) \in AttemptNumber PROVE attempt[d][NextNumber(d)] = None
        <3>1. attempt[d][NextNumber(d)] \in {None, "open"} BY <1>1, <2>1, <2>2 DEF Sequence
        <3> QED BY <1>4, <2>2, <3>1 DEF OpenAttempts
    <2>3. NextNumber(d) <= MaxAttempts => NextNumber(d) \in AttemptNumber
        BY <1>2, <2>1, Numbers DEF AttemptNumber
    <2> QED BY <1>4, <2>1, <2>2, <2>3 DEF SequenceBroken
<1>5. CASE OpenAttempts(d) = {delivery[d].count + 1}
    <2>1. Cardinality(OpenAttempts(d)) = 1 BY <1>5, FS_Singleton
    <2>2. NextNumber(d) = delivery[d].count + 2 BY <1>2, <2>1 DEF NextNumber
    <2>3. delivery[d].count + 1 \in AttemptNumber BY <1>5 DEF OpenAttempts
    <2>4. NextNumber(d) <= MaxAttempts => NextNumber(d) \in AttemptNumber
        BY <1>2, <2>2, Numbers DEF AttemptNumber
    <2>5. NextNumber(d) > delivery[d].count + 1 BY <1>2, <2>2
    <2>6. NextNumber(d) <= MaxAttempts => attempt[d][NextNumber(d)] = None
        BY <1>1, <2>4, <2>5 DEF Sequence
    <2> QED BY <1>5, <2>2, <2>3, <2>6 DEF SequenceBroken
<1> QED BY <1>3, <1>4, <1>5

LEMMA ClosedRow ==
    ASSUME Base, NEW w \in Worker, NEW status \in {"PENDING"} \cup Terminal, Closes(w)
    PROVE  LET c == worker[w].current
               n == worker[w].number
           IN  /\ c \in Delivery /\ n \in AttemptNumber /\ c[1] \in Endpoint
               /\ delivery[c].status = "PROCESSING" /\ delivery[c].count = n - 1
               /\ attempt[c][n] = "open"
               /\ \A d \in Delivery : d # c => Closed(w, status)[d] = delivery[d]
                                               /\ attempt'[d] = attempt[d]
               /\ Closed(w, status)[c].status = status /\ Closed(w, status)[c].count = n
               /\ \A m \in AttemptNumber :
                     attempt'[c][m] = IF m = n THEN worker[w].outcome ELSE attempt[c][m]
               /\ worker[w].outcome \notin {None, "open"}
<1> DEFINE c == worker[w].current
           n == worker[w].number
<1>1. c \in Delivery /\ n \in AttemptNumber /\ worker[w].outcome \in Outcome BY ClosedTypes
<1>2. c[1] \in Endpoint BY <1>1 DEF Delivery
<1>3. StillReserved(w) BY DEF Closes
<1>4. delivery[c] \in DeliveryType BY <1>1, BaseFacts
<1>5. attempt' = [attempt EXCEPT ![c][n] = worker[w].outcome] BY DEF Closes
<1> DEFINE row == [delivery[c] EXCEPT !.status = status, !.count = n,
                                      !.owner = NoWorker, !.lapsed = FALSE]
<1>6. Closed(w, status) = [delivery EXCEPT ![c] = row] BY DEF Closed
<1> HIDE DEF c, n
<1>7. row.status = status /\ row.count = n BY <1>4 DEF DeliveryType
<1> HIDE DEF row
<1>8. Closed(w, status)[c] = row /\ \A d \in Delivery : d # c => Closed(w, status)[d] = delivery[d]
    BY <1>1, <1>6, BaseFacts
<1>9. /\ \A d \in Delivery : d # c => attempt'[d] = attempt[d]
      /\ \A m \in AttemptNumber :
            attempt'[c][m] = IF m = n THEN worker[w].outcome ELSE attempt[c][m]
    BY <1>1, <1>5, BaseFacts
<1>10. worker[w].outcome \notin {None, "open"} BY <1>1 DEF Outcome, None
<1> QED BY <1>1, <1>2, <1>3, <1>7, <1>8, <1>9, <1>10 DEF StillReserved, c, n

\* The attempt that a worker closes is the last one.
LEMMA ClosedSequence ==
    ASSUME Base, NEW w \in Worker, Closes(w),
           delivery'[worker[w].current].count = worker[w].number
    PROVE  \A d \in Delivery : d = worker[w].current =>
              /\ Sequence(d)' /\ Shape(d)'
              /\ \A n \in AttemptNumber : attempt[d][n] # None => attempt'[d][n] # None
<1> SUFFICES ASSUME NEW c \in Delivery, c = worker[w].current
             PROVE  /\ Sequence(c)' /\ Shape(c)'
                    /\ \A n \in AttemptNumber : attempt[c][n] # None => attempt'[c][n] # None
    OBVIOUS
<1> DEFINE n == worker[w].number
<1>1. /\ c \in Delivery /\ n \in AttemptNumber
      /\ delivery[c].count = n - 1 /\ attempt[c][n] = "open"
      /\ \A d \in Delivery : d # c => attempt'[d] = attempt[d]
      /\ \A m \in AttemptNumber :
            attempt'[c][m] = IF m = n THEN worker[w].outcome ELSE attempt[c][m]
      /\ worker[w].outcome \notin {None, "open"}
    BY ClosedRow
<1>2. Sequence(c)
    <2>1. delivery[c].status = "PROCESSING" BY ClosedRow
    <2>2. n \in Nat BY <1>1 DEF AttemptNumber
    <2> HIDE DEF n
    <2>3. delivery[c].count + 1 = n BY <1>1, <2>2
    <2> QED BY <1>1, <2>1, <2>3, WorkableSequence
<1>3. n \in Nat /\ \A m \in AttemptNumber : m \in Nat BY <1>1 DEF AttemptNumber
<1>4. delivery'[c].count = n OBVIOUS
<1> HIDE DEF n
<1>5. Sequence(c)'
    <2> SUFFICES ASSUME NEW m \in AttemptNumber
                 PROVE  /\ m <= n => attempt'[c][m] \notin {None, "open"}
                        /\ m > n => attempt'[c][m] = None
        <3>1. ASSUME NEW m \in AttemptNumber,
                     m <= n => attempt'[c][m] \notin {None, "open"},
                     m > n => attempt'[c][m] = None
              PROVE  /\ m <= n => attempt'[c][m] \notin {None, "open"}
                     /\ m = n + 1 => attempt'[c][m] \in {None, "open"}
                     /\ m > n + 1 => attempt'[c][m] = None
                     /\ attempt'[c][m] # "open"
            <4>1. None # "open" BY DEF None
            <4>2. CASE m <= n
                <5>1. m # n + 1 /\ ~(m > n + 1) BY <1>3, <4>2
                <5> QED BY <3>1, <4>2, <5>1
            <4>3. CASE m > n
                <5>1. attempt'[c][m] = None /\ ~(m <= n) BY <1>3, <3>1, <4>3
                <5> QED BY <4>1, <5>1
            <4>4. m <= n \/ m > n
                <5>1. m \in Nat /\ n \in Nat BY <1>3, <3>1
                <5> QED BY <5>1
            <4> QED BY <4>2, <4>3, <4>4
        <3> QED BY <1>4, <3>1 DEF Sequence
    <2>1. CASE m = n BY <1>1, <1>3, <2>1
    <2>2. CASE m < n
        <3>1. m <= delivery[c].count BY <1>1, <1>3, <2>2
        <3> QED BY <1>1, <1>2, <1>3, <2>2, <3>1 DEF Sequence
    <2>3. CASE m > n
        <3>1. m > delivery[c].count + 1 BY <1>1, <1>3, <2>3
        <3> QED BY <1>1, <1>2, <1>3, <2>3, <3>1 DEF Sequence
    <2> QED BY <1>3, <2>1, <2>2, <2>3
<1>6. Shape(c)' BY <1>3, <1>4, <1>5, SequenceShapesNext
<1>7. \A m \in AttemptNumber : attempt[c][m] # None => attempt'[c][m] # None BY <1>1
<1> QED BY <1>5, <1>6, <1>7

\* A notice fans out to deliveries that did not exist.
LEMMA NotifiedRows ==
    ASSUME NEW del, NEW ep \in [Endpoint -> EndpointType], NEW ev, NEW d \in Delivery
    PROVE  \/ NotifyDisabled(ev, del, ep)[d] = del[d]
           \/ /\ d[2] = ev /\ ep[d[1]].status = "ACTIVE"
              /\ NotifyDisabled(ev, del, ep)[d].status = "PENDING"
              /\ NotifyDisabled(ev, del, ep)[d].count = 0
<1>1. d[1] \in Endpoint BY DEF Delivery
<1>2. ep[d[1]].secret \in 1..MaxSecret BY <1>1 DEF EndpointType
<1> QED BY <1>2, NewDeliveries DEF NotifyDisabled

LEMMA CancelledRows ==
    ASSUME NEW del \in [Delivery -> DeliveryType], NEW e, NEW kept, NEW d \in Delivery
    PROVE  \/ CancelPending(e, kept, del)[d] = del[d] /\ ~(d[1] = e /\ d # kept /\ del[d].status = "PENDING")
           \/ /\ del[d].status = "PENDING" /\ d[1] = e /\ d # kept
              /\ CancelPending(e, kept, del)[d].status = "CANCELED"
              /\ CancelPending(e, kept, del)[d].count = del[d].count
<1>1. del[d] \in DeliveryType OBVIOUS
<1>2. [del[d] EXCEPT !.status = "CANCELED"].status = "CANCELED"
        /\ [del[d] EXCEPT !.status = "CANCELED"].count = del[d].count
    BY <1>1 DEF DeliveryType
<1> QED BY <1>2 DEF CancelPending

-----------------------------------------------------------------------------
(* What each step does to the rows, and to the endpoints' budgets.           *)

Stepped == Rows /\ FanoutsKept /\ DisabledInTime'

LEMMA QuietRows ==
    ASSUME Base, NEW d \in Delivery, delivery'[d] = delivery[d], attempt'[d] = attempt[d]
    PROVE  KeptRow(d)
BY DEF KeptRow

\* Nothing is disabled and nothing made pending for an endpoint not active.
LEMMA InTimeKept ==
    ASSUME Base,
           \A e \in Endpoint : endpoint'[e].status = "ACTIVE" => endpoint'[e].failures < DisableAfter,
           \A e \in Endpoint : endpoint[e].status = "ACTIVE" => endpoint'[e].status = "ACTIVE",
           \A d \in Delivery : delivery'[d].status = "PENDING" =>
               delivery[d].status = "PENDING" \/ endpoint'[d[1]].status = "ACTIVE"
    PROVE  DisabledInTime'
<1>1. \A d \in Delivery : d[1] \in Endpoint BY DEF Delivery
<1>2. \A d \in Delivery : delivery[d].status = "PENDING" => endpoint[d[1]].status = "ACTIVE"
    BY BaseFacts DEF DisabledInTime
<1> QED BY <1>1, <1>2 DEF DisabledInTime

LEMMA QuietStep ==
    ASSUME Base, delivery' = delivery, attempt' = attempt, FanoutsKept,
           \A e \in Endpoint : endpoint'[e].status = "ACTIVE" => endpoint'[e].failures < DisableAfter,
           \A e \in Endpoint : endpoint[e].status = "ACTIVE" => endpoint'[e].status = "ACTIVE"
    PROVE  Stepped
<1>1. Rows BY QuietRows DEF Rows
<1>2. DisabledInTime' BY InTimeKept
<1> QED BY <1>1, <1>2 DEF Stepped

LEMMA Budgets ==
    ASSUME Base
    PROVE  \A e \in Endpoint : endpoint[e].status = "ACTIVE" => endpoint[e].failures < DisableAfter
BY BaseFacts DEF DisabledInTime

\* With the endpoints and the fan-outs as they were.
LEMMA RowStep ==
    ASSUME Base, Rows, UNCHANGED <<endpoint, fanout>>,
           \A d \in Delivery : delivery'[d].status = "PENDING" =>
               delivery[d].status = "PENDING" \/ endpoint[d[1]].status = "ACTIVE"
    PROVE  Stepped
<1>1. DisabledInTime' BY Budgets, InTimeKept
<1> QED BY <1>1 DEF Stepped, FanoutsKept

LEMMA EnqueueSteps ==
    ASSUME Base, NEW ev \in Event, EnqueueReads(ev) \/ EnqueueCommits(ev)
    PROVE  Stepped
<1>1. CASE EnqueueReads(ev)
    <2>1. FanoutsKept BY <1>1, BaseFacts DEF EnqueueReads, FanoutsKept
    <2> QED BY <1>1, <2>1, Budgets, QuietStep DEF EnqueueReads
<1>2. CASE EnqueueCommits(ev)
    <2>1. PICK S \in SUBSET Endpoint :
             /\ \A e \in S : endpoint[e].status = "ACTIVE"
             /\ delivery' = FannedOut(ev, S, endpoint)
        <3>1. fanout[ev].candidates \subseteq Endpoint BY BaseFacts DEF FanoutType
        <3> QED BY <1>2, <3>1 DEF EnqueueCommits, Subscribed
    <2>2. fanout' = [fanout EXCEPT ![ev] = [pc |-> "done", candidates |-> {}]]
            /\ fanout[ev].pc = "read" /\ attempt' = attempt /\ endpoint' = endpoint
        BY <1>2 DEF EnqueueCommits
    <2>3. FanoutsKept /\ fanout'[ev].pc = "done" BY <2>2, BaseFacts DEF FanoutsKept
    <2>4. ASSUME NEW d \in Delivery
          PROVE  \/ KeptRow(d) /\ delivery'[d] = delivery[d]
                 \/ BornRow(d) /\ endpoint[d[1]].status = "ACTIVE"
        <3>1. CASE d[1] \in S /\ d[2] = ev /\ d[3] = 1
            <4>1. delivery'[d] = NewDelivery(endpoint[d[1]].secret) BY <2>1, <3>1 DEF FannedOut
            <4>2. d[1] \in Endpoint /\ endpoint[d[1]].secret \in 1..MaxSecret
                BY <3>1, BaseFacts DEF EndpointType
            <4>3. delivery'[d].status = "PENDING" /\ delivery'[d].count = 0
                BY <4>1, <4>2, NewDeliveries
            <4>4. delivery[d].status = "none" BY <2>2, <3>1, BaseFacts DEF Births
            <4> QED BY <2>1, <2>2, <2>3, <3>1, <4>3, <4>4 DEF BornRow
        <3>2. CASE ~(d[1] \in S /\ d[2] = ev /\ d[3] = 1)
            <4>1. delivery'[d] = delivery[d] BY <2>1, <3>2 DEF FannedOut
            <4> QED BY <2>2, <4>1, QuietRows
        <3> QED BY <3>1, <3>2
    <2>5. Rows BY <2>4 DEF Rows
    <2>6. DisabledInTime' BY <2>2, <2>4, Budgets, InTimeKept
    <2> QED BY <2>3, <2>5, <2>6 DEF Stepped
<1> QED BY <1>1, <1>2

LEMMA CreateStep ==
    ASSUME Base, NEW e \in Endpoint, NEW types, CreateCustomerWebhookEndpoint(e, types)
    PROVE  Stepped
<1> DEFINE row == [endpoint[e] EXCEPT !.status = "ACTIVE", !.failures = 0, !.secret = 1,
                                      !.types = types]
<1>1. endpoint' = [endpoint EXCEPT ![e] = row] BY BaseFacts DEF CreateCustomerWebhookEndpoint
<1>r. row.status = "ACTIVE" /\ row.failures = 0 BY BaseFacts DEF EndpointType
<1> HIDE DEF row
<1>2. endpoint'[e].status = "ACTIVE" /\ endpoint'[e].failures = 0
        /\ \A f \in Endpoint : f # e => endpoint'[f] = endpoint[f]
    BY <1>1, <1>r, BaseFacts
<1>3. 0 < DisableAfter BY Numbers
<1>4. \A f \in Endpoint : endpoint'[f].status = "ACTIVE" => endpoint'[f].failures < DisableAfter
    BY <1>2, <1>3, Budgets
<1>5. \A f \in Endpoint : endpoint[f].status = "ACTIVE" => endpoint'[f].status = "ACTIVE"
    BY <1>2
<1> QED BY <1>4, <1>5, QuietStep DEF CreateCustomerWebhookEndpoint, FanoutsKept

LEMMA EnableStep ==
    ASSUME Base, NEW e \in Endpoint, NEW types, NEW enabled \in BOOLEAN,
           EnableOrResubscribe(e, enabled, types)
    PROVE  Stepped
<1> DEFINE status == IF enabled THEN "ACTIVE" ELSE endpoint[e].status
           failures == IF enabled THEN 0 ELSE endpoint[e].failures
           kinds == IF types = {} THEN endpoint[e].types ELSE types
           torn == IF enabled THEN Tears(e, "ACTIVE") ELSE endpoint[e].torn
           row == [endpoint[e] EXCEPT !.torn = torn, !.status = status, !.failures = failures,
                                      !.types = kinds]
<1>1. endpoint' = [endpoint EXCEPT ![e] = row] BY BaseFacts DEF EnableOrResubscribe
<1>2. endpoint[e] \in EndpointType BY BaseFacts
<1>3. /\ status = "ACTIVE" => failures < DisableAfter
      /\ endpoint[e].status = "ACTIVE" => status = "ACTIVE"
    BY Budgets, Numbers
<1> HIDE DEF status, failures, kinds, torn
<1>4. row.status = status /\ row.failures = failures BY <1>2 DEF EndpointType
<1> HIDE DEF row
<1>5. endpoint'[e] = row /\ \A f \in Endpoint : f # e => endpoint'[f] = endpoint[f]
    BY <1>1, BaseFacts
<1>6. \A f \in Endpoint : endpoint'[f].status = "ACTIVE" => endpoint'[f].failures < DisableAfter
    BY <1>3, <1>4, <1>5, Budgets
<1>7. \A f \in Endpoint : endpoint[f].status = "ACTIVE" => endpoint'[f].status = "ACTIVE"
    BY <1>3, <1>4, <1>5
<1> QED BY <1>6, <1>7, QuietStep DEF EnableOrResubscribe, FanoutsKept

LEMMA RotateStep ==
    ASSUME Base, NEW e \in Endpoint, RotateCustomerWebhookSigningSecret(e)
    PROVE  Stepped
<1> DEFINE row == [endpoint[e] EXCEPT !.secret = endpoint[e].secret + 1]
<1>1. endpoint' = [endpoint EXCEPT ![e] = row] BY BaseFacts DEF RotateCustomerWebhookSigningSecret
<1>2. endpoint[e] \in EndpointType BY BaseFacts
<1>3. row.status = endpoint[e].status /\ row.failures = endpoint[e].failures
    BY <1>2 DEF EndpointType
<1> HIDE DEF row
<1>4. endpoint'[e] = row /\ \A f \in Endpoint : f # e => endpoint'[f] = endpoint[f]
    BY <1>1, BaseFacts
<1>5. \A f \in Endpoint : /\ endpoint'[f].status = endpoint[f].status
                         /\ endpoint'[f].failures = endpoint[f].failures
    BY <1>3, <1>4
<1> QED BY <1>5, Budgets, QuietStep DEF RotateCustomerWebhookSigningSecret, FanoutsKept

LEMMA DisableStep ==
    ASSUME Base, NEW e \in Endpoint, NEW types \in SUBSET Offered[e], NEW ev \in NoticeEvent,
           DisableByOperator(e, types, ev)
    PROVE  Stepped
<1> DEFINE kinds == IF types = {} THEN endpoint[e].types ELSE types
           torn == Tears(e, "DISABLED")
           row == [endpoint[e] EXCEPT !.torn = torn, !.status = "DISABLED", !.types = kinds]
           cancelled == CancelPending(e, <<>>, delivery)
<1>1. endpoint' = [endpoint EXCEPT ![e] = row] BY BaseFacts DEF DisableByOperator
<1>2. endpoint[e] \in EndpointType BY BaseFacts
<1> HIDE DEF kinds, torn
<1>3. row.status = "DISABLED" BY <1>2 DEF EndpointType
<1> HIDE DEF row
<1>4. endpoint'[e].status = "DISABLED" /\ \A f \in Endpoint : f # e => endpoint'[f] = endpoint[f]
    BY <1>1, <1>3, BaseFacts
<1>5. /\ delivery' = NotifyDisabled(ev, cancelled, endpoint') /\ attempt' = attempt
      /\ fanout[ev].pc = "new" /\ fanout' = [fanout EXCEPT ![ev].pc = "done"]
    BY DEF DisableByOperator
<1>6. ev \in Event BY DEF Event
<1>7. FanoutsKept /\ fanout'[ev].pc = "done" BY <1>5, <1>6, BaseFacts DEF FanoutsKept, FanoutType
<1>8. endpoint' \in [Endpoint -> EndpointType]
    <2>1. Next BY DEF Next, AdministrationNext
    <2> QED BY <2>1, NextTyped DEF Typed
<1>9. ASSUME NEW d \in Delivery
      PROVE  /\ KeptRow(d) \/ BornRow(d)
             /\ delivery'[d].status = "PENDING" => endpoint'[d[1]].status = "ACTIVE"
    <2>1. d[1] \in Endpoint /\ d # <<>> BY NotADelivery DEF Delivery
    <2>2. CASE delivery'[d] # cancelled[d]
        <3>1. /\ d[2] = ev /\ endpoint'[d[1]].status = "ACTIVE"
              /\ delivery'[d].status = "PENDING" /\ delivery'[d].count = 0
            BY <1>5, <1>8, <2>2, NotifiedRows
        <3>2. delivery[d].status = "none" BY <1>5, <1>6, <3>1, BaseFacts DEF Births
        <3> QED BY <1>5, <1>7, <3>1, <3>2 DEF BornRow
    <2>3. CASE delivery'[d] = cancelled[d]
        <3>1. \/ cancelled[d] = delivery[d] /\ ~(d[1] = e /\ delivery[d].status = "PENDING")
              \/ /\ delivery[d].status = "PENDING" /\ cancelled[d].status = "CANCELED"
                 /\ cancelled[d].count = delivery[d].count
            BY <2>1, CancelledRows, BaseFacts
        <3>2. delivery[d].status = "PENDING" => endpoint[d[1]].status = "ACTIVE"
            BY BaseFacts DEF DisabledInTime
        <3> QED BY <1>4, <1>5, <2>1, <2>3, <3>1, <3>2 DEF KeptRow
    <2> QED BY <2>2, <2>3
<1>10. DisabledInTime' BY <1>4, <1>9, Budgets DEF DisabledInTime
<1> QED BY <1>7, <1>9, <1>10 DEF Stepped, Rows

LEMMA ReplayStep ==
    ASSUME Base, NEW d \in Delivery, ReplayCustomerWebhookDelivery(d)
    PROVE  Stepped
<1> DEFINE G == Generations(d[1], d[2])
           latest == CHOOSE g \in G : \A h \in G : h <= g
           r == <<d[1], d[2], latest + 1>>
<1>1. d[1] \in Endpoint /\ d[2] \in Event /\ d[3] \in 1..MaxGeneration /\ d = <<d[1], d[2], d[3]>>
    BY DEF Delivery
<1>2. delivery[d].status = "FAILED" /\ endpoint[d[1]].status = "ACTIVE"
    BY DEF ReplayCustomerWebhookDelivery
<1>3. /\ latest < MaxGeneration
      /\ delivery' = [delivery EXCEPT ![r] = NewDelivery(endpoint[d[1]].secret)]
      /\ attempt' = attempt /\ UNCHANGED <<endpoint, fanout>>
    BY DEF ReplayCustomerWebhookDelivery
<1>4. G \subseteq 1..MaxGeneration /\ G # {} BY <1>1, <1>2 DEF Generations
<1>5. latest \in G /\ \A h \in G : h <= latest
    <2> HIDE DEF G
    <2>1. \E g \in G : \A h \in G : h <= g BY <1>4, Numbers, GreatestExists
    <2> QED BY <2>1
<1> HIDE DEF latest
<1>6. latest + 1 \in 1..MaxGeneration /\ latest + 1 \notin G
    <2> HIDE DEF G
    <2> QED BY <1>3, <1>4, <1>5, Numbers
<1>7. r \in Delivery /\ r[1] = d[1] /\ r[2] = d[2] BY <1>1, <1>6 DEF Delivery
<1>8. delivery[r].status = "none" BY <1>6 DEF Generations
<1> HIDE DEF r
<1>9. endpoint[d[1]].secret \in 1..MaxSecret BY <1>1, BaseFacts DEF EndpointType
<1>10. delivery'[r].status = "PENDING" /\ delivery'[r].count = 0
         /\ \A x \in Delivery : x # r => delivery'[x] = delivery[x]
    BY <1>3, <1>7, <1>9, NewDeliveries, BaseFacts
<1>11. fanout'[r[2]].pc = "done" BY <1>1, <1>2, <1>3, <1>7, BaseFacts DEF Births
<1>12. BornRow(r) BY <1>3, <1>8, <1>10, <1>11 DEF BornRow
<1>13. \A x \in Delivery : x # r => KeptRow(x) BY <1>3, <1>10, QuietRows
<1>14. Rows BY <1>12, <1>13 DEF Rows
<1>15. \A x \in Delivery : delivery'[x].status = "PENDING" =>
          delivery[x].status = "PENDING" \/ endpoint[x[1]].status = "ACTIVE"
    BY <1>2, <1>7, <1>10
<1> QED BY <1>3, <1>14, <1>15, RowStep

LEMMA LapseStep ==
    ASSUME Base, NEW d \in Delivery, Lapses(d)
    PROVE  Stepped
<1> DEFINE row == [delivery[d] EXCEPT !.lapsed = TRUE]
<1>1. delivery' = [delivery EXCEPT ![d] = row] /\ attempt' = attempt /\ UNCHANGED <<endpoint, fanout>>
    BY DEF Lapses
<1>2. row.status = delivery[d].status /\ row.count = delivery[d].count /\ row.lapsed
    BY BaseFacts DEF DeliveryType
<1> HIDE DEF row
<1>3. delivery'[d] = row /\ \A x \in Delivery : x # d => delivery'[x] = delivery[x]
    BY <1>1, BaseFacts
<1>4. KeptRow(d) BY <1>1, <1>2, <1>3 DEF KeptRow
<1>5. Rows BY <1>1, <1>3, <1>4, QuietRows DEF Rows
<1> QED BY <1>1, <1>2, <1>3, <1>5, RowStep

\* What is left of the attempts once an open one is given up.
LEMMA RecoveredNumbers ==
    ASSUME Base, NEW d \in Delivery, NEW n \in AttemptNumber, Sequence(d)
    PROVE  /\ n < NextNumber(d) => Recovered(d)[n] \notin {None, "open"}
           /\ n >= NextNumber(d) => Recovered(d)[n] = None
           /\ attempt[d][n] # None => Recovered(d)[n] # None
<1> DEFINE k == delivery[d].count
<1>1. Sequence(d) OBVIOUS
<1>2. k \in Nat /\ n \in Nat BY BaseFacts, Numbers DEF DeliveryType, AttemptNumber
<1>3. Recovered(d)[n] = IF n \in OpenAttempts(d) THEN "ambiguous" ELSE attempt[d][n]
    BY DEF Recovered
<1>4. "ambiguous" \notin {None, "open"} BY DEF None
<1>5. n \in OpenAttempts(d) <=> attempt[d][n] = "open" BY DEF OpenAttempts
<1>6. /\ n <= k => attempt[d][n] \notin {None, "open"}
      /\ n = k + 1 => attempt[d][n] \in {None, "open"}
      /\ n > k + 1 => attempt[d][n] = None
    BY <1>1 DEF Sequence
<1>7. \/ OpenAttempts(d) = {} /\ NextNumber(d) = k + 1
      \/ OpenAttempts(d) = {k + 1} /\ NextNumber(d) = k + 2
    BY NextNumbers
<1>8. "open" # None BY DEF None
<1> HIDE DEF k
<1>9. CASE n <= k BY <1>2, <1>3, <1>5, <1>6, <1>7, <1>9
<1>10. CASE n = k + 1 BY <1>2, <1>3, <1>4, <1>5, <1>6, <1>7, <1>8, <1>10
<1>11. CASE n > k + 1 BY <1>2, <1>3, <1>5, <1>6, <1>7, <1>11
<1> QED BY <1>2, <1>9, <1>10, <1>11

LEMMA ExhaustsStep ==
    ASSUME Base, NEW w \in Worker, NEW d \in Delivery, PrepareExhausts(w, d)
    PROVE  Stepped
<1> DEFINE n == NextNumber(d)
           row == [delivery[d] EXCEPT !.status = "FAILED", !.count = n - 1, !.owner = NoWorker]
<1>1. /\ delivery' = [delivery EXCEPT ![d] = row] /\ UNCHANGED <<endpoint, fanout>>
      /\ attempt' = [attempt EXCEPT ![d] = Recovered(d)]
      /\ delivery[d].status = "PROCESSING" /\ n > MaxAttempts /\ ~SequenceBroken(d)
    BY DEF PrepareExhausts, MayPrepare
<1>s. Sequence(d) BY <1>1, WorkableSequence
<1>2. n \in Nat BY <1>s, NextNumbers, BaseFacts, Numbers DEF DeliveryType
<1> HIDE DEF n
<1>3. row.status = "FAILED" /\ row.count = n - 1 BY BaseFacts DEF DeliveryType
<1> HIDE DEF row
<1>4. delivery'[d] = row /\ attempt'[d] = Recovered(d)
        /\ \A x \in Delivery : x # d => delivery'[x] = delivery[x] /\ attempt'[x] = attempt[x]
    BY <1>1, BaseFacts
<1>5. ASSUME NEW m \in AttemptNumber
      PROVE  /\ attempt'[d][m] \notin {None, "open"} /\ m <= n - 1
             /\ m # (n - 1) + 1 /\ ~(m > (n - 1) + 1)
    <2>1. m \in Nat /\ m < n BY <1>1, <1>2, Numbers DEF AttemptNumber
    <2>2. Recovered(d)[m] \notin {None, "open"} BY <1>s, <2>1, RecoveredNumbers DEF n
    <2> QED BY <1>2, <1>4, <2>1, <2>2
<1>6. Sequence(d)' BY <1>3, <1>4, <1>5 DEF Sequence
<1>6a. Shape(d)'
    <2>1. n - 1 \in Nat BY <1>1, <1>2, Numbers
    <2> QED BY <1>3, <1>4, <1>6, <2>1, SequenceShapesNext
<1>7. WorkedRow(d) BY <1>1, <1>3, <1>4, <1>5, <1>6, <1>6a DEF WorkedRow, Terminal
<1>8. Rows BY <1>4, <1>7, QuietRows DEF Rows
<1> QED BY <1>1, <1>3, <1>4, <1>8, RowStep

LEMMA ReservesStep ==
    ASSUME Base, NEW w \in Worker, NEW d \in Delivery, PrepareReserves(w, d)
    PROVE  /\ Stepped
           /\ NextNumber(d) \in AttemptNumber /\ attempt[d][NextNumber(d)] = None
           /\ attempt'[d][NextNumber(d)] = "open"
<1> DEFINE n == NextNumber(d)
           row == [delivery[d] EXCEPT !.count = n - 1]
<1>1. /\ delivery' = [delivery EXCEPT ![d] = row] /\ UNCHANGED <<endpoint, fanout>>
      /\ attempt' = [attempt EXCEPT ![d] = [Recovered(d) EXCEPT ![n] = "open"]]
      /\ delivery[d].status = "PROCESSING" /\ n <= MaxAttempts
      /\ endpoint[d[1]].status = "ACTIVE" /\ ~SequenceBroken(d)
    BY BaseFacts DEF PrepareReserves, MayPrepare
<1>s. Sequence(d) BY <1>1, WorkableSequence
<1>2. n \in Nat /\ n >= 1 BY <1>s, NextNumbers, BaseFacts, Numbers DEF DeliveryType
<1>2a. n \in AttemptNumber BY <1>1, <1>2, Numbers DEF AttemptNumber
<1>2b. attempt[d][n] = None
    BY <1>1, <1>2a DEF SequenceBroken
<1> HIDE DEF n
<1>3. row.status = delivery[d].status /\ row.count = n - 1 BY BaseFacts DEF DeliveryType
<1> HIDE DEF row
<1>4. delivery'[d] = row /\ attempt'[d] = [Recovered(d) EXCEPT ![n] = "open"]
        /\ \A x \in Delivery : x # d => delivery'[x] = delivery[x] /\ attempt'[x] = attempt[x]
    BY <1>1, BaseFacts
<1>5. ASSUME NEW m \in AttemptNumber
      PROVE  attempt'[d][m] = IF m = n THEN "open" ELSE Recovered(d)[m]
    BY <1>2a, <1>4 DEF Recovered
<1>6. ASSUME NEW m \in AttemptNumber
      PROVE  /\ m <= n - 1 => attempt'[d][m] \notin {None, "open"}
             /\ m = (n - 1) + 1 => attempt'[d][m] \in {None, "open"}
             /\ m > (n - 1) + 1 => attempt'[d][m] = None
             /\ attempt[d][m] # None => attempt'[d][m] # None
    <2>1. m \in Nat BY DEF AttemptNumber
    <2>2. /\ m < n => Recovered(d)[m] \notin {None, "open"}
          /\ m >= n => Recovered(d)[m] = None
          /\ attempt[d][m] # None => Recovered(d)[m] # None
        BY <1>s, RecoveredNumbers DEF n
    <2>3. "open" # None BY DEF None
    <2> QED BY <1>2, <1>5, <2>1, <2>2, <2>3
<1>7. delivery'[d].status = "PROCESSING" /\ delivery'[d].count = n - 1 BY <1>1, <1>3, <1>4
<1>8. Sequence(d)' BY <1>6, <1>7 DEF Sequence
<1>9. WorkedRow(d)
    <2>1. ~Disabled(d) BY <1>1 DEF Disabled
    <2>2. n - 1 \in Nat BY <1>2
    <2>3. Shape(d)' BY <1>7, <1>8, <2>2, SequenceShapesNext
    <2> QED BY <1>1, <1>6, <1>7, <1>8, <2>1, <2>3 DEF WorkedRow
<1>10. Rows BY <1>4, <1>9, QuietRows DEF Rows
<1>11. Stepped BY <1>1, <1>4, <1>7, <1>10, RowStep
<1> QED BY <1>2a, <1>2b, <1>5, <1>11 DEF n

\* The greatest number used, against the count of a row.
LEMMA HighestCounts ==
    ASSUME Base, NEW d \in Delivery
    PROVE  GreaterOf(delivery[d].count, HighestAttempt(d)) =
             IF delivery[d].count + 1 \in Tried(d) THEN delivery[d].count + 1 ELSE delivery[d].count
<1> DEFINE k == delivery[d].count
           used == {n \in AttemptNumber : attempt[d][n] # None}
           h == HighestAttempt(d)
<1>1. k \in Nat /\ \A n \in AttemptNumber : n \in Nat
    BY BaseFacts, Numbers DEF DeliveryType, AttemptNumber
<1>2. \A n \in used : n \in Nat /\ n <= k + 1
    <2>1. Shape(d) BY BaseFacts DEF Shapes
    <2>2. \A n \in AttemptNumber : n > k + 1 => attempt[d][n] = None BY <2>1 DEF Shape
    <2>3. \A n \in used : n \in AttemptNumber /\ n \in Nat /\ attempt[d][n] # None BY <1>1
    <2> HIDE DEF used, k
    <2> QED BY <1>1, <2>2, <2>3
<1>3. used \subseteq 1..MaxAttempts BY DEF AttemptNumber
<1>4. h = IF used = {} THEN 0 ELSE CHOOSE n \in used : \A m \in used : m <= n
    BY DEF HighestAttempt
<1>c. used = Tried(d) BY DEF Tried
<1> HIDE DEF used, h
<1>5. used # {} => h \in used /\ \A m \in used : m <= h
    <2>1. used # {} => \E n \in used : \A m \in used : m <= n BY <1>3, Numbers, GreatestExists
    <2> QED BY <1>4, <2>1
<1>6. used = {} => h = 0 BY <1>4
<1>7. h \in Nat BY <1>2, <1>5, <1>6
<1> HIDE DEF k
<1>8. CASE k + 1 \notin used
    <2>1. \A n \in used : n <= k
        <3>1. ASSUME NEW n \in used PROVE n <= k
            <4>1. n # k + 1 /\ n \in Nat /\ n <= k + 1 BY <1>2, <1>8
            <4> QED BY <1>1, <4>1
        <3> QED BY <3>1
    <2>2. h <= k BY <1>1, <1>5, <1>6, <2>1
    <2> QED BY <1>1, <1>7, <1>8, <1>c, <2>2 DEF GreaterOf, k, h
<1>9. CASE k + 1 \in used
    <2>1. h <= k + 1 /\ k + 1 <= h BY <1>2, <1>5, <1>9
    <2>2. h = k + 1 BY <1>1, <1>7, <2>1
    <2> QED BY <1>1, <1>9, <1>c, <2>2 DEF GreaterOf, k, h
<1> QED BY <1>8, <1>9

\* A poll closes what abandoned leases of disabled endpoints left open, and
\* no claim or cancellation of its loses an attempt.
LEMMA CommitsStep ==
    ASSUME Base, NEW w \in Worker, NEW claims \in SUBSET Delivery, PollCommits(w, claims)
    PROVE  Stepped
<1> DEFINE stale(d) == Expired(d) /\ d \in worker[w].expired
           claimed(d) == [delivery[d] EXCEPT !.status = "PROCESSING", !.owner = w, !.lapsed = FALSE]
           count(d) == GreaterOf(delivery[d].count, HighestAttempt(d))
           dropped(d) == [delivery[d] EXCEPT !.status = "CANCELED", !.owner = NoWorker,
                                             !.lapsed = FALSE, !.count = count(d)]
           closed(d) == Disabled(d) /\ (delivery[d].status = "PENDING" \/ stale(d))
<1>1. /\ worker[w].pc = "polling"
      /\ \A d \in claims : Claimable(d)
      /\ delivery' = [d \in Delivery |-> IF d \in claims THEN claimed(d)
                                        ELSE IF closed(d) THEN dropped(d) ELSE delivery[d]]
      /\ attempt' = [d \in Delivery |-> [n \in AttemptNumber |->
                        IF <<d, n>> \in worker[w].buffered THEN "ambiguous" ELSE attempt[d][n]]]
      /\ UNCHANGED <<endpoint, fanout>>
    BY Zenon DEF PollCommits
<1>2. \A d \in Delivery :
         /\ claimed(d).status = "PROCESSING" /\ claimed(d).count = delivery[d].count
         /\ dropped(d).status = "CANCELED" /\ dropped(d).count = count(d)
    BY BaseFacts DEF DeliveryType
<1> HIDE DEF claimed, dropped
<1>3. \A d \in Delivery : delivery'[d] = IF d \in claims THEN claimed(d)
                                        ELSE IF closed(d) THEN dropped(d) ELSE delivery[d]
    BY <1>1
<1>4. \A d \in Delivery, n \in AttemptNumber :
         attempt'[d][n] = IF <<d, n>> \in worker[w].buffered THEN "ambiguous" ELSE attempt[d][n]
    BY <1>1
<1>5. \A d \in Delivery :
         (\A n \in AttemptNumber : <<d, n>> \notin worker[w].buffered) => attempt'[d] = attempt[d]
    BY <1>1, BaseFacts
<1>6. \A d \in Delivery, n \in AttemptNumber :
         <<d, n>> \in worker[w].buffered => attempt[d][n] # None
    BY <1>1, BaseFacts DEF Buffers
<1>7. \A d \in claims : delivery[d].status \in {"PENDING", "PROCESSING"} /\ ~Disabled(d)
    BY <1>1 DEF Claimable, Disabled, Expired
<1>n. "ambiguous" \notin {None, "open"} BY DEF None
\* What was claimed, what was dropped, and what was left alone.
<1>8. ASSUME NEW d \in Delivery
      PROVE  \/ /\ d \in claims /\ delivery'[d].status = "PROCESSING"
                /\ delivery'[d].count = delivery[d].count
             \/ /\ d \notin claims /\ closed(d) /\ delivery'[d].status = "CANCELED"
                /\ delivery'[d].count = count(d)
             \/ d \notin claims /\ delivery'[d] = delivery[d]
    <2>1. CASE d \in claims BY <1>2, <1>3, <2>1
    <2>2. CASE d \notin claims /\ closed(d)
        <3>1. delivery'[d] = dropped(d) BY <1>3, <2>2
        <3> HIDE DEF count, closed
        <3> QED BY <1>2, <2>2, <3>1
    <2>3. CASE d \notin claims /\ ~closed(d) BY <1>3, <2>3
    <2> QED BY <2>1, <2>2, <2>3
<1>9. ASSUME NEW d \in Delivery, NEW n \in AttemptNumber
      PROVE  /\ attempt'[d][n] # None <=> attempt[d][n] # None
             /\ attempt'[d][n] = "open" => attempt[d][n] = "open"
    BY <1>4, <1>6, <1>n
<1>c. \A d \in Delivery :
         count(d) = IF delivery[d].count + 1 \in Tried(d) THEN delivery[d].count + 1
                    ELSE delivery[d].count
    BY HighestCounts
<1> HIDE DEF count
<1>10. ASSUME NEW d \in Delivery PROVE Shape(d)'
    <2> DEFINE k == delivery[d].count
    <2>1. k \in Nat BY BaseFacts, Numbers DEF DeliveryType
    <2>2. ASSUME NEW n \in AttemptNumber
          PROVE  /\ n \in Nat
                 /\ n <= k => attempt[d][n] # None
                 /\ n > k + 1 => attempt[d][n] = None
                 /\ attempt[d][n] = "open" => \/ delivery[d].status = "CANCELED"
                                              \/ delivery[d].status = "PROCESSING" /\ n > k
        <3>1. Shape(d) BY BaseFacts DEF Shapes
        <3> QED BY <3>1 DEF Shape, AttemptNumber
    <2>3. CASE d \in claims
        <3>1. delivery'[d].status = "PROCESSING" /\ delivery'[d].count = k BY <1>8, <2>3
        <3>2. delivery[d].status # "CANCELED" BY <1>7, <2>3
        <3> HIDE DEF k
        <3> QED BY <1>9, <2>2, <3>1, <3>2 DEF Shape
    <2>4. CASE d \notin claims /\ delivery'[d] = delivery[d]
        <3>1. delivery'[d].status = delivery[d].status /\ delivery'[d].count = k BY <2>4
        <3> HIDE DEF k
        <3> QED BY <1>9, <2>2, <3>1 DEF Shape
    <2>5. CASE delivery'[d].status = "CANCELED" /\ delivery'[d].count = count(d)
        <3>1. delivery'[d].count = IF k + 1 \in Tried(d) THEN k + 1 ELSE k BY <1>c, <2>5
        <3>2. ASSUME NEW n \in AttemptNumber
              PROVE  /\ n <= delivery'[d].count => attempt[d][n] # None
                     /\ n > delivery'[d].count + 1 => attempt[d][n] = None
            <4>1. k + 1 \in Tried(d) => attempt[d][k + 1] # None BY DEF Tried
            <4> HIDE DEF k
            <4>2. CASE k + 1 \in Tried(d)
                <5>1. n = k + 1 => attempt[d][n] # None BY <4>1, <4>2
                <5> QED BY <2>1, <2>2, <3>1, <4>2, <5>1
            <4>3. CASE k + 1 \notin Tried(d) BY <2>1, <2>2, <3>1, <4>3
            <4> QED BY <4>2, <4>3
        <3> QED BY <1>9, <2>5, <3>2 DEF Shape
    <2> QED BY <1>8, <2>3, <2>4, <2>5
\* In sequence besides, when what the poll saw of a row is still so.
<1>11. ASSUME NEW d \in Delivery, Strict(d), d \notin claims, Disabled(d), d \in worker[w].expired
       PROVE  delivery'[d].status \in Terminal /\ Sequence(d)'
    <2> DEFINE k == delivery[d].count
    <2>1. Sequence(d) BY <1>11 DEF Strict
    <2>2. k \in Nat /\ \A n \in AttemptNumber : n \in Nat
        BY BaseFacts, Numbers DEF DeliveryType, AttemptNumber
    <2>3. \/ /\ Expired(d)
             /\ \A n \in AttemptNumber : attempt[d][n] = "open" => <<d, n>> \in worker[w].buffered
          \/ delivery[d].status \in Terminal
        BY <1>1, <1>11 DEF Strict, Polled
    <2>4. \A n \in AttemptNumber : attempt'[d][n] # "open"
        <3>1. ASSUME NEW n \in AttemptNumber, attempt[d][n] = "open"
              PROVE  attempt'[d][n] = "ambiguous"
            <4>1. <<d, n>> \in worker[w].buffered
                BY <2>1, <2>3, <3>1 DEF Sequence, Terminal
            <4> QED BY <1>4, <4>1
        <3> QED BY <1>9, <1>n, <3>1
    <2>5. ASSUME NEW n \in AttemptNumber
          PROVE  /\ n <= k => attempt[d][n] # None
                 /\ n = k + 1 => attempt[d][n] \in {None, "open"}
                 /\ n > k + 1 => attempt[d][n] = None
        BY <2>1 DEF Sequence
    <2>6. /\ delivery'[d].status \in Terminal
          /\ delivery'[d].count = IF k + 1 \in Tried(d) THEN k + 1 ELSE k
        <3>1. CASE Expired(d)
            <4>1. closed(d) /\ delivery'[d] = dropped(d) BY <1>3, <1>11, <3>1
            <4> QED BY <1>2, <1>c, <4>1 DEF Terminal
        <3>2. CASE ~Expired(d)
            <4>1. delivery[d].status \in Terminal BY <2>3, <3>2
            <4>2. delivery'[d] = delivery[d] BY <1>3, <1>11, <3>2, <4>1 DEF Terminal
            <4>3. k + 1 \notin Tried(d)
                BY <2>1, <2>5, <4>1 DEF Tried, Sequence, Terminal
            <4> QED BY <4>1, <4>2, <4>3
        <3> QED BY <3>1, <3>2
    <2>7. ASSUME NEW n \in AttemptNumber
          PROVE  /\ n <= delivery'[d].count => attempt'[d][n] \notin {None, "open"}
                 /\ n = delivery'[d].count + 1 => attempt'[d][n] \in {None, "open"}
                 /\ n > delivery'[d].count + 1 => attempt'[d][n] = None
        <3>1. n \in Tried(d) <=> attempt[d][n] # None BY DEF Tried
        <3>2. attempt'[d][n] # None <=> attempt[d][n] # None BY <1>9
        <3> HIDE DEF k
        <3>3. CASE k + 1 \in Tried(d)
            <4>1. n = k + 1 => n \in Tried(d) BY <3>3
            <4> QED BY <2>2, <2>4, <2>5, <2>6, <3>1, <3>2, <3>3, <4>1
        <3>4. CASE k + 1 \notin Tried(d)
            <4>1. n = k + 1 => n \notin Tried(d) BY <3>4
            <4> QED BY <2>2, <2>4, <2>5, <2>6, <3>1, <3>2, <3>4, <4>1
        <3> QED BY <3>3, <3>4
    <2> QED BY <2>4, <2>6, <2>7 DEF Sequence
<1>12. ASSUME NEW d \in Delivery PROVE KeptRow(d) \/ WorkedRow(d)
    <2>1. CASE delivery[d].status = "none"
        <3>1. \A n \in AttemptNumber : attempt[d][n] = None
            BY <2>1, BaseFacts DEF Births, Blank
        <3>2. attempt'[d] = attempt[d] BY <1>5, <1>6, <3>1
        <3>3. d \notin claims /\ ~closed(d) BY <1>7, <2>1 DEF Expired
        <3>4. delivery'[d] = delivery[d] BY <1>3, <3>3
        <3> QED BY <3>2, <3>4, QuietRows
    <2>2. CASE delivery[d].status # "none"
        <3>1. /\ delivery'[d].status # "none" /\ Shape(d)'
              /\ \A n \in AttemptNumber : attempt[d][n] # None => attempt'[d][n] # None
            BY <1>8, <1>9, <1>10, <2>2
        <3>2. CASE ~Strict(d) BY <2>2, <3>1, <3>2 DEF WorkedRow
        <3>3. CASE Strict(d) /\ (d \in claims \/ ~Disabled(d) \/ d \notin worker[w].expired)
            <4>1. ~(Disabled(d) /\ d \in worker[w].expired) BY <1>7, <3>3
            <4>2. \A n \in AttemptNumber : <<d, n>> \notin worker[w].buffered
                BY <1>1, <3>3, <4>1 DEF Strict, Polled
            <4>3. attempt'[d] = attempt[d] BY <1>5, <4>2
            <4>4. CASE d \in claims BY <1>7, <1>8, <4>3, <4>4 DEF KeptRow
            <4>5. CASE d \notin claims
                <5>1. delivery[d].status = "PENDING" => ~Disabled(d)
                    BY BaseFacts DEF DisabledInTime, Disabled
                <5>2. delivery'[d] = delivery[d] BY <1>3, <4>1, <4>5, <5>1
                <5> QED BY <4>3, <5>2, QuietRows
            <4> QED BY <4>4, <4>5
        <3>4. CASE Strict(d) /\ d \notin claims /\ Disabled(d) /\ d \in worker[w].expired
            <4>1. delivery'[d].status \in Terminal /\ Sequence(d)' BY <1>11, <3>4
            <4> QED BY <2>2, <3>1, <4>1 DEF WorkedRow
        <3> QED BY <3>2, <3>3, <3>4
    <2> QED BY <2>1, <2>2
<1>13. \A d \in Delivery : delivery'[d].status = "PENDING" => delivery[d].status = "PENDING"
    BY <1>8
<1>14. Rows BY <1>12 DEF Rows
<1> QED BY <1>1, <1>13, <1>14, RowStep

\* A step that closes an attempt and leaves every other row alone.
LEMMA ClosingRows ==
    ASSUME Base, NEW w \in Worker, NEW status \in {"PENDING"} \cup Terminal, Closes(w),
           delivery' = Closed(w, status),
           Disabled(worker[w].current) => status # "PENDING"
    PROVE  /\ Rows
           /\ \A d \in Delivery : delivery'[d].status = "PENDING" =>
                 delivery[d].status = "PENDING" \/ (d = worker[w].current /\ status = "PENDING")
<1> DEFINE c == worker[w].current
<1>1. /\ c \in Delivery /\ delivery[c].status = "PROCESSING"
      /\ \A d \in Delivery : d # c => delivery'[d] = delivery[d] /\ attempt'[d] = attempt[d]
      /\ delivery'[c].status = status /\ delivery'[c].count = worker[w].number
    BY ClosedRow
<1>2. \A d \in Delivery : d = c => /\ Sequence(d)' /\ Shape(d)'
                                   /\ \A n \in AttemptNumber :
                                         attempt[d][n] # None => attempt'[d][n] # None
    BY <1>1, ClosedSequence
<1>3. status # "none" BY DEF Terminal
<1> HIDE DEF c
<1>4. \A d \in Delivery : d = c => WorkedRow(d) BY <1>1, <1>2, <1>3 DEF WorkedRow, c
<1>5. \A d \in Delivery : d # c => KeptRow(d) BY <1>1, QuietRows
<1>6. Rows BY <1>4, <1>5 DEF Rows
<1> QED BY <1>1, <1>6 DEF c

LEMMA ClosingSteps ==
    ASSUME Base, NEW w \in Worker, FinalizesDisabled(w) \/ FinalizesRetry(w)
    PROVE  Stepped
<1>1. CASE FinalizesDisabled(w)
    <2>1. Closes(w) /\ delivery' = Closed(w, "CANCELED") /\ UNCHANGED <<endpoint, fanout>>
        BY <1>1 DEF FinalizesDisabled
    <2>2. "CANCELED" \in {"PENDING"} \cup Terminal BY DEF Terminal
    <2> QED BY <2>1, <2>2, ClosingRows, RowStep
<1>2. CASE FinalizesRetry(w)
    <2>1. /\ Closes(w) /\ delivery' = Closed(w, "PENDING") /\ UNCHANGED <<endpoint, fanout>>
          /\ endpoint[worker[w].current[1]].status = "ACTIVE"
        BY <1>2 DEF FinalizesRetry
    <2>2. "PENDING" \in {"PENDING"} \cup Terminal /\ ~Disabled(worker[w].current)
        BY <2>1 DEF Disabled
    <2> QED BY <2>1, <2>2, ClosingRows, RowStep
<1> QED BY <1>1, <1>2

LEMMA DeliveredStep ==
    ASSUME Base, NEW w \in Worker, FinalizesDelivered(w)
    PROVE  Stepped
<1> DEFINE e == worker[w].current[1]
           failures == IF endpoint[e].status = "ACTIVE" THEN 0 ELSE endpoint[e].failures
           row == [endpoint[e] EXCEPT !.failures = failures]
<1>1. Closes(w) /\ delivery' = Closed(w, "DELIVERED") /\ fanout' = fanout
    BY DEF FinalizesDelivered
<1>2. "DELIVERED" \in {"PENDING"} \cup Terminal /\ "DELIVERED" # "PENDING" BY DEF Terminal
<1>3. e \in Endpoint BY <1>1, <1>2, ClosedRow
<1>4. endpoint' = [endpoint EXCEPT ![e] = row] BY <1>3, BaseFacts DEF FinalizesDelivered
<1>5. endpoint[e].status = "ACTIVE" => failures = 0 OBVIOUS
<1> HIDE DEF e, failures
<1>6. endpoint[e] \in EndpointType BY <1>3, BaseFacts
<1>7. row.status = endpoint[e].status /\ row.failures = failures BY <1>6 DEF EndpointType
<1> HIDE DEF row
<1>8. endpoint'[e] = row /\ \A f \in Endpoint : f # e => endpoint'[f] = endpoint[f]
    BY <1>3, <1>4, BaseFacts
<1>9. /\ Rows
      /\ \A d \in Delivery : delivery'[d].status = "PENDING" => delivery[d].status = "PENDING"
    BY <1>1, <1>2, ClosingRows
<1>10. 0 < DisableAfter BY Numbers
<1>11. \A f \in Endpoint : endpoint'[f].status = "ACTIVE" => endpoint'[f].failures < DisableAfter
    BY <1>5, <1>7, <1>8, <1>10, Budgets
<1>12. \A f \in Endpoint : endpoint[f].status = "ACTIVE" => endpoint'[f].status = "ACTIVE"
    BY <1>7, <1>8
<1>13. DisabledInTime' BY <1>9, <1>11, <1>12, InTimeKept
<1> QED BY <1>1, <1>9, <1>13 DEF Stepped, FanoutsKept

LEMMA FailedStep ==
    ASSUME Base, NEW w \in Worker, FinalizesFailed(w)
    PROVE  Stepped
<1> DEFINE e == worker[w].current[1]
           row == [endpoint[e] EXCEPT !.failures = endpoint[e].failures + 1]
<1>1. /\ Closes(w) /\ delivery' = Closed(w, "FAILED") /\ fanout' = fanout
      /\ endpoint[e].status = "ACTIVE" /\ ~(endpoint[e].failures + 1 >= DisableAfter)
    BY DEF FinalizesFailed, Disables
<1>2. "FAILED" \in {"PENDING"} \cup Terminal /\ "FAILED" # "PENDING" BY DEF Terminal
<1>3. e \in Endpoint BY <1>1, <1>2, ClosedRow
<1>4. endpoint' = [endpoint EXCEPT ![e] = row] BY <1>3, BaseFacts DEF FinalizesFailed
<1> HIDE DEF e
<1>5. endpoint[e] \in EndpointType BY <1>3, BaseFacts
<1>6. row.status = "ACTIVE" /\ row.failures = endpoint[e].failures + 1
    BY <1>1, <1>5 DEF EndpointType
<1> HIDE DEF row
<1>7. endpoint'[e] = row /\ \A f \in Endpoint : f # e => endpoint'[f] = endpoint[f]
    BY <1>3, <1>4, BaseFacts
<1>8. /\ Rows
      /\ \A d \in Delivery : delivery'[d].status = "PENDING" => delivery[d].status = "PENDING"
    BY <1>1, <1>2, ClosingRows
<1>9. endpoint[e].failures + 1 < DisableAfter
    <2>1. endpoint[e].failures \in 0..DisableAfter BY <1>5 DEF EndpointType
    <2>2. endpoint[e].failures \in Nat BY <2>1, Numbers
    <2> QED BY <1>1, <2>2, Numbers
<1>10. \A f \in Endpoint : endpoint'[f].status = "ACTIVE" => endpoint'[f].failures < DisableAfter
    BY <1>6, <1>7, <1>9, Budgets
<1>11. \A f \in Endpoint : endpoint[f].status = "ACTIVE" => endpoint'[f].status = "ACTIVE"
    BY <1>6, <1>7
<1>12. DisabledInTime' BY <1>8, <1>10, <1>11, InTimeKept
<1> QED BY <1>1, <1>8, <1>12 DEF Stepped, FanoutsKept

LEMMA DisablingStep ==
    ASSUME Base, NEW w \in Worker, NEW notice \in NoticeEvent \cup {None},
           FinalizesDisabling(w, notice)
    PROVE  Stepped
<1> DEFINE c == worker[w].current
           e == c[1]
           torn == Tears(e, "DISABLED")
           row == [endpoint[e] EXCEPT !.torn = torn, !.failures = endpoint[e].failures + 1,
                                      !.status = "DISABLED"]
           closed == Closed(w, "FAILED")
           cancelled == CancelPending(e, c, closed)
<1>1. Closes(w) BY DEF FinalizesDisabling
<1>2. "FAILED" \in {"PENDING"} \cup Terminal /\ "FAILED" # "PENDING" /\ "FAILED" # "none"
    BY DEF Terminal
<1>3. /\ c \in Delivery /\ e \in Endpoint /\ delivery[c].status = "PROCESSING"
      /\ \A d \in Delivery : d # c => closed[d] = delivery[d] /\ attempt'[d] = attempt[d]
      /\ closed[c].status = "FAILED" /\ closed[c].count = worker[w].number
    BY <1>1, <1>2, ClosedRow
<1>4. endpoint' = [endpoint EXCEPT ![e] = row] /\ endpoint[e].status = "ACTIVE"
    BY <1>3, BaseFacts DEF FinalizesDisabling
<1>5. \/ /\ notice \in NoticeEvent /\ fanout[notice].pc = "new"
         /\ delivery' = NotifyDisabled(notice, cancelled, endpoint')
         /\ fanout' = [fanout EXCEPT ![notice].pc = "done"]
      \/ delivery' = cancelled /\ fanout' = fanout
    BY DEF FinalizesDisabling
<1>6. closed \in [Delivery -> DeliveryType] BY <1>1, <1>2, ClosedTypes
<1>7. endpoint' \in [Endpoint -> EndpointType]
    <2>1. Next BY DEF Next, WorkerNext
    <2> QED BY <2>1, NextTyped DEF Typed
<1>8. endpoint[e] \in EndpointType BY <1>3, BaseFacts
<1> HIDE DEF e, closed, cancelled, torn
<1>9. row.status = "DISABLED" BY <1>8 DEF EndpointType
<1> HIDE DEF row
<1>10. endpoint'[e].status = "DISABLED" /\ \A f \in Endpoint : f # e => endpoint'[f] = endpoint[f]
    BY <1>3, <1>4, <1>9, BaseFacts
<1>11. \A ev \in NoticeEvent : ev \in Event BY DEF Event
<1>12. FanoutsKept BY <1>5, <1>11, BaseFacts DEF FanoutsKept, FanoutType
<1>13. /\ cancelled[c] = closed[c]
       /\ \A d \in Delivery :
             \/ cancelled[d] = closed[d] /\ ~(d[1] = e /\ d # c /\ closed[d].status = "PENDING")
             \/ /\ closed[d].status = "PENDING" /\ d[1] = e /\ d # c
                /\ cancelled[d].status = "CANCELED" /\ cancelled[d].count = closed[d].count
    BY <1>3, <1>6, CancelledRows DEF cancelled
<1>14. ASSUME NEW d \in Delivery, delivery'[d] # cancelled[d]
       PROVE  /\ d # c /\ BornRow(d) /\ endpoint'[d[1]].status = "ACTIVE"
    <2>1. /\ notice \in NoticeEvent /\ fanout[notice].pc = "new"
          /\ delivery' = NotifyDisabled(notice, cancelled, endpoint')
          /\ fanout' = [fanout EXCEPT ![notice].pc = "done"]
        BY <1>5, <1>14
    <2>2. /\ d[2] = notice /\ endpoint'[d[1]].status = "ACTIVE"
          /\ delivery'[d].status = "PENDING" /\ delivery'[d].count = 0
        BY <1>7, <1>14, <2>1, NotifiedRows
    <2>3. delivery[d].status = "none" BY <1>11, <2>1, <2>2, BaseFacts DEF Births
    <2>4. d # c BY <1>3, <2>3
    <2>5. fanout'[notice].pc = "done" BY <1>11, <2>1, BaseFacts DEF FanoutType
    <2> QED BY <1>3, <2>2, <2>3, <2>4, <2>5 DEF BornRow
<1>15. delivery'[c] = closed[c] BY <1>3, <1>13, <1>14
<1>16. ASSUME NEW d \in Delivery, d = c PROVE WorkedRow(d)
    <2>1. delivery'[c].count = worker[w].number BY <1>3, <1>15
    <2>2. /\ Sequence(d)' /\ Shape(d)'
          /\ \A n \in AttemptNumber : attempt[d][n] # None => attempt'[d][n] # None
        BY <1>1, <1>16, <2>1, ClosedSequence
    <2>3. delivery'[d].status = "FAILED" BY <1>3, <1>15, <1>16
    <2> HIDE DEF c
    <2> QED BY <1>2, <1>3, <1>16, <2>2, <2>3 DEF WorkedRow, Terminal
<1> HIDE DEF c
<1>17. ASSUME NEW d \in Delivery, d # c PROVE KeptRow(d) \/ BornRow(d)
    <2>1. CASE delivery'[d] = cancelled[d]
        BY <1>3, <1>13, <1>17, <2>1 DEF KeptRow
    <2>2. CASE delivery'[d] # cancelled[d] BY <1>14, <2>2
    <2> QED BY <2>1, <2>2
<1>18. Rows BY <1>16, <1>17 DEF Rows
<1>19. ASSUME NEW d \in Delivery, delivery'[d].status = "PENDING"
       PROVE  endpoint'[d[1]].status = "ACTIVE"
    <2>1. CASE delivery'[d] # cancelled[d] BY <1>14, <2>1
    <2>2. CASE delivery'[d] = cancelled[d]
        <3>1. d # c BY <1>2, <1>3, <1>15, <1>19
        <3>2. d[1] # e /\ delivery[d].status = "PENDING" BY <1>3, <1>13, <1>19, <2>2, <3>1
        <3>3. d[1] \in Endpoint BY DEF Delivery
        <3>4. endpoint[d[1]].status = "ACTIVE" BY <3>2, BaseFacts DEF DisabledInTime
        <3> QED BY <1>10, <3>2, <3>3, <3>4
    <2> QED BY <2>1, <2>2
<1>20. DisabledInTime'
    <2>1. \A f \in Endpoint : endpoint'[f].status = "ACTIVE" => endpoint'[f].failures < DisableAfter
        BY <1>10, Budgets
    <2> QED BY <1>19, <2>1 DEF DisabledInTime
<1> QED BY <1>12, <1>18, <1>20 DEF Stepped

-----------------------------------------------------------------------------
(* What each step does to the workers and to the polls under way.            *)

\* As it was; through with what it was doing; or answered.
Handed(w) ==
    \/ worker'[w] = worker[w]
    \/ worker'[w].pc \in {"idle", "working"} /\ worker'[w].current = <<>>
    \/ /\ Busy(w) /\ worker'[w].pc = "finalizing" /\ worker'[w].outcome # None
       /\ worker'[w].current = worker[w].current /\ worker'[w].number = worker[w].number

LEMMA WorkersKept ==
    ASSUME Base, NothingForgotten,
           \A w \in Worker : Handed(w) \/ (worker'[w].pc = "polling" /\ worker'[w].current = <<>>)
    PROVE  Workers'
<1>1. ASSUME NEW w \in Worker
      PROVE  /\ Busy(w)' => /\ Busy(w) /\ worker'[w].current = worker[w].current
                            /\ worker'[w].number = worker[w].number
             /\ ~Busy(w)' => worker'[w].current = <<>>
             /\ worker'[w].pc = "finalizing" => worker'[w].outcome # None
    BY BaseFacts DEF Handed, Workers, Busy
<1>2. ASSUME NEW w \in Worker, Busy(w)'
      PROVE  /\ worker'[w].current \in Delivery /\ worker'[w].number \in AttemptNumber
             /\ attempt'[worker'[w].current][worker'[w].number] # None
    <2>1. /\ worker[w].current \in Delivery /\ worker[w].number \in AttemptNumber
          /\ attempt[worker[w].current][worker[w].number] # None
        BY <1>1, <1>2, BaseFacts DEF Workers
    <2>2. worker'[w].current = worker[w].current /\ worker'[w].number = worker[w].number
        BY <1>1, <1>2
    <2> QED BY <2>1, <2>2 DEF NothingForgotten
<1>3. ASSUME NEW v \in Worker, NEW w \in Worker, Busy(v)', Busy(w)',
             worker'[v].current = worker'[w].current, v # w
      PROVE  worker'[v].number # worker'[w].number
    <2>1. Busy(v) /\ worker'[v].current = worker[v].current /\ worker'[v].number = worker[v].number
        BY <1>1, <1>3
    <2>2. Busy(w) /\ worker'[w].current = worker[w].current /\ worker'[w].number = worker[w].number
        BY <1>1, <1>3
    <2> QED BY <1>3, <2>1, <2>2, BaseFacts DEF Workers
<1> QED BY <1>1, <1>2, <1>3 DEF Workers

\* What is still so for a poll under way.
LEMMA PolledKept ==
    ASSUME Base, Rows, NothingForgotten, NEW d \in Delivery, Strict(d), Disabled(d)' <=> Disabled(d),
           NEW w \in Worker, worker[w].pc = "polling", worker'[w] = worker[w]
    PROVE  /\ d \in worker'[w].expired /\ Disabled(d)' =>
                \/ /\ Expired(d)'
                   /\ \A n \in AttemptNumber :
                         attempt'[d][n] = "open" => <<d, n>> \in worker'[w].buffered
                \/ delivery'[d].status \in Terminal
           /\ \A n \in AttemptNumber : <<d, n>> \in worker'[w].buffered =>
                d \in worker'[w].expired /\ Disabled(d)' /\ attempt'[d][n] # None
<1>1. Polled(w, d) BY DEF Strict
<1>2. ASSUME d \in worker[w].expired, Disabled(d)
      PROVE  \/ /\ Expired(d)'
                /\ \A n \in AttemptNumber : attempt'[d][n] = "open" => <<d, n>> \in worker[w].buffered
             \/ delivery'[d].status \in Terminal
    <2>1. \/ /\ Expired(d)
             /\ \A n \in AttemptNumber : attempt[d][n] = "open" => <<d, n>> \in worker[w].buffered
          \/ delivery[d].status \in Terminal
        BY <1>1, <1>2 DEF Polled
    <2>2. delivery[d].status \notin {"none", "PENDING"} BY <2>1 DEF Expired, Terminal
    <2>3. KeptRow(d) \/ WorkedRow(d) BY <2>2 DEF Rows, BornRow
    <2>4. CASE WorkedRow(d) BY <1>2, <2>4 DEF WorkedRow
    <2>5. CASE KeptRow(d)
        <3>1. /\ attempt'[d] = attempt[d] /\ delivery'[d].status = delivery[d].status
              /\ delivery[d].lapsed => delivery'[d].lapsed
            BY <1>2, <2>2, <2>5 DEF KeptRow
        <3> QED BY <2>1, <3>1 DEF Expired
    <2> QED BY <2>3, <2>4, <2>5
<1>3. ASSUME NEW n \in AttemptNumber, <<d, n>> \in worker[w].buffered
      PROVE  d \in worker[w].expired /\ Disabled(d) /\ attempt'[d][n] # None
    BY <1>1, <1>3 DEF Polled, NothingForgotten
<1> QED BY <1>2, <1>3

\* An endpoint is torn for good, and by whatever enables or disables it while
\* some poll is under way.
Calm == \A w \in Worker : worker[w].pc # "polling"
Unmoved(e) == endpoint'[e].status = "DISABLED" <=> endpoint[e].status = "DISABLED"
Tearing(e) == ~endpoint'[e].torn => ~endpoint[e].torn /\ (Unmoved(e) \/ Calm)

LEMMA NotTorn ==
    ASSUME NEW e, NEW status, ~Tears(e, status)
    PROVE  ~endpoint[e].torn /\ (endpoint[e].status = status \/ Calm)
BY DEF Tears, Calm

LEMMA TearingStep == ASSUME Base, Next, NEW f \in Endpoint PROVE Tearing(f)
<1>t. endpoint \in [Endpoint -> EndpointType] BY BaseFacts
<1>k. endpoint'[f] = endpoint[f] => Tearing(f) BY DEF Tearing, Unmoved
<1>1. ASSUME NEW e \in Endpoint, NEW types, CreateCustomerWebhookEndpoint(e, types)
      PROVE  Tearing(f)
    <2> DEFINE row == [endpoint[e] EXCEPT !.status = "ACTIVE", !.failures = 0, !.secret = 1,
                                          !.types = types]
    <2>1. endpoint' = [endpoint EXCEPT ![e] = row] /\ endpoint[e].status = "ABSENT"
        BY <1>1, <1>t DEF CreateCustomerWebhookEndpoint
    <2>2. row.status = "ACTIVE" /\ row.torn = endpoint[e].torn BY <1>t DEF EndpointType
    <2> HIDE DEF row
    <2> QED BY <1>k, <1>t, <2>1, <2>2 DEF Tearing, Unmoved
<1>2. ASSUME NEW e \in Endpoint, NEW types, NEW enabled \in BOOLEAN,
             EnableOrResubscribe(e, enabled, types)
      PROVE  Tearing(f)
    <2> DEFINE status == IF enabled THEN "ACTIVE" ELSE endpoint[e].status
               failures == IF enabled THEN 0 ELSE endpoint[e].failures
               kinds == IF types = {} THEN endpoint[e].types ELSE types
               torn == IF enabled THEN Tears(e, "ACTIVE") ELSE endpoint[e].torn
               row == [endpoint[e] EXCEPT !.torn = torn, !.status = status, !.failures = failures,
                                          !.types = kinds]
    <2>1. endpoint' = [endpoint EXCEPT ![e] = row] BY <1>2, <1>t DEF EnableOrResubscribe
    <2>2. ~torn => /\ ~endpoint[e].torn
                   /\ (status = "DISABLED" <=> endpoint[e].status = "DISABLED") \/ Calm
        BY NotTorn
    <2> HIDE DEF status, failures, kinds, torn
    <2>3. row.torn = torn /\ row.status = status BY <1>t DEF EndpointType
    <2> HIDE DEF row
    <2> QED BY <1>k, <1>t, <2>1, <2>2, <2>3 DEF Tearing, Unmoved
<1>3. ASSUME NEW e \in Endpoint, NEW types, NEW ev, DisableByOperator(e, types, ev)
      PROVE  Tearing(f)
    <2> DEFINE kinds == IF types = {} THEN endpoint[e].types ELSE types
               torn == Tears(e, "DISABLED")
               row == [endpoint[e] EXCEPT !.torn = torn, !.status = "DISABLED", !.types = kinds]
    <2>1. endpoint' = [endpoint EXCEPT ![e] = row] BY <1>3, <1>t DEF DisableByOperator
    <2>2. ~torn => ~endpoint[e].torn /\ (endpoint[e].status = "DISABLED" \/ Calm) BY NotTorn
    <2> HIDE DEF kinds, torn
    <2>3. row.torn = torn /\ row.status = "DISABLED" BY <1>t DEF EndpointType
    <2> HIDE DEF row
    <2> QED BY <1>k, <1>t, <2>1, <2>2, <2>3 DEF Tearing, Unmoved
<1>4. ASSUME NEW e \in Endpoint, RotateCustomerWebhookSigningSecret(e) PROVE Tearing(f)
    <2> DEFINE row == [endpoint[e] EXCEPT !.secret = endpoint[e].secret + 1]
    <2>1. endpoint' = [endpoint EXCEPT ![e] = row]
        BY <1>4, <1>t DEF RotateCustomerWebhookSigningSecret
    <2>2. row.torn = endpoint[e].torn /\ row.status = endpoint[e].status BY <1>t DEF EndpointType
    <2> HIDE DEF row
    <2> QED BY <1>k, <1>t, <2>1, <2>2 DEF Tearing, Unmoved
\* The endpoint of the delivery a worker closes.
<1>c. ASSUME NEW w \in Worker, Closes(w) PROVE worker[w].current[1] \in Endpoint
    BY <1>c, ClosedTypes DEF Delivery, Terminal
<1>5. ASSUME NEW w \in Worker, FinalizesDelivered(w) \/ FinalizesFailed(w) PROVE Tearing(f)
    <2> DEFINE e == worker[w].current[1]
    <2>1. e \in Endpoint BY <1>5, <1>c DEF FinalizesDelivered, FinalizesFailed
    <2>2. PICK failures : endpoint' = [endpoint EXCEPT ![e] = [@ EXCEPT !.failures = failures]]
        BY <1>5 DEF FinalizesDelivered, FinalizesFailed
    <2> DEFINE row == [endpoint[e] EXCEPT !.failures = failures]
    <2>3. endpoint' = [endpoint EXCEPT ![e] = row] BY <2>2
    <2> HIDE DEF e
    <2>4. row.torn = endpoint[e].torn /\ row.status = endpoint[e].status
        BY <1>t, <2>1 DEF EndpointType
    <2> HIDE DEF row
    <2> QED BY <1>k, <1>t, <2>1, <2>3, <2>4 DEF Tearing, Unmoved
<1>6. ASSUME NEW w \in Worker, NEW notice, FinalizesDisabling(w, notice) PROVE Tearing(f)
    <2> DEFINE e == worker[w].current[1]
               torn == Tears(e, "DISABLED")
               row == [endpoint[e] EXCEPT !.torn = torn, !.failures = endpoint[e].failures + 1,
                                          !.status = "DISABLED"]
    <2>1. e \in Endpoint BY <1>6, <1>c DEF FinalizesDisabling
    <2>2. endpoint' = [endpoint EXCEPT ![e] = row] BY <1>6, <1>t, <2>1 DEF FinalizesDisabling
    <2>3. ~torn => ~endpoint[e].torn /\ (endpoint[e].status = "DISABLED" \/ Calm) BY NotTorn
    <2> HIDE DEF e, torn
    <2>4. row.torn = torn /\ row.status = "DISABLED" BY <1>t, <2>1 DEF EndpointType
    <2> HIDE DEF row
    <2> QED BY <1>k, <1>t, <2>1, <2>2, <2>3, <2>4 DEF Tearing, Unmoved
<1>7. ASSUME AdministrationNext PROVE Tearing(f)
    BY <1>1, <1>2, <1>3, <1>4, <1>7 DEF AdministrationNext
<1>8. ASSUME NEW w \in Worker, WorkerNext(w) PROVE Tearing(f)
    <2>1. \/ endpoint' = endpoint
          \/ FinalizesDelivered(w) \/ FinalizesFailed(w)
          \/ \E notice \in NoticeEvent \cup {None} : FinalizesDisabling(w, notice)
        <3>1. ASSUME NEW d \in Delivery, PrepareSkips(w, d) \/ PrepareExhausts(w, d) \/ PrepareReserves(w, d)
              PROVE  endpoint' = endpoint
            BY <3>1 DEF PrepareSkips, PrepareExhausts, PrepareReserves
        <3>2. ASSUME PollStarts(w) PROVE endpoint' = endpoint BY <3>2 DEF PollStarts
        <3>3. ASSUME NEW claims, PollCommits(w, claims) PROVE endpoint' = endpoint
            BY <3>3, Zenon DEF PollCommits
        <3>4. ASSUME NEW x \in Exchange, Posts(w, x) PROVE endpoint' = endpoint BY <3>4 DEF Posts
        <3>5. ASSUME FinalizesTooLate(w) \/ FinalizesDisabled(w) \/ FinalizesRetry(w)
              PROVE  endpoint' = endpoint
            BY <3>5 DEF FinalizesTooLate, FinalizesDisabled, FinalizesRetry
        <3> QED BY <1>8, <3>1, <3>2, <3>3, <3>4, <3>5, Zenon DEF WorkerNext
    <2> QED BY <1>k, <1>5, <1>6, <2>1
<1>9. ASSUME ~AdministrationNext, \A w \in Worker : ~WorkerNext(w) PROVE endpoint' = endpoint
    <2>1. ASSUME NEW ev \in DomainEvent, EnqueueReads(ev) \/ EnqueueCommits(ev)
          PROVE  endpoint' = endpoint
        BY <2>1 DEF EnqueueReads, EnqueueCommits
    <2>2. ASSUME NEW d \in Delivery, ReplayCustomerWebhookDelivery(d) \/ Lapses(d)
          PROVE  endpoint' = endpoint
        BY <2>2 DEF ReplayCustomerWebhookDelivery, Lapses
    <2>3. ASSUME NEW w \in Worker, Abandons(w) \/ Crashes(w) PROVE endpoint' = endpoint
        BY <2>3 DEF Abandons, Crashes
    <2> QED BY <1>9, <2>1, <2>2, <2>3, Zenon DEF Next
<1> QED BY <1>k, <1>7, <1>8, <1>9

\* What is to be preserved.
Preserved ==
    /\ Base'
    /\ \A d \in Delivery :
          ~endpoint'[d[1]].torn => ~endpoint[d[1]].torn /\ (Strict(d) => Strict(d)')

LEMMA StepInv ==
    ASSUME Base, Next, Stepped, \A w \in Worker : Handed(w)
    PROVE  Preserved
<1>1. Rows /\ NothingForgotten /\ Shapes' /\ Births' BY RowsKept DEF Stepped
<1>2. Workers' BY <1>1, WorkersKept
<1>3. \A w \in Worker : worker'[w].pc = "polling" => worker'[w] = worker[w] BY DEF Handed
<1>4. Buffers' BY <1>1, <1>3, BaseFacts DEF Buffers, NothingForgotten
<1>5. TypeOK' BY NextTyped, TypedIsTypeOKNext
<1>6. ASSUME NEW d \in Delivery, ~endpoint'[d[1]].torn
      PROVE  ~endpoint[d[1]].torn /\ (Strict(d) => Strict(d)')
    <2>1. d[1] \in Endpoint BY DEF Delivery
    <2>2. ~endpoint[d[1]].torn /\ (Unmoved(d[1]) \/ Calm) BY <1>6, <2>1, TearingStep DEF Tearing
    <2>3. ASSUME Strict(d) PROVE Strict(d)'
        <3>1. Sequence(d)' BY <1>1, <2>3, SequenceKept
        <3>2. ASSUME NEW w \in Worker, worker'[w].pc = "polling"
              PROVE  worker[w].pc = "polling" /\ worker'[w] = worker[w]
                       /\ (Disabled(d)' <=> Disabled(d))
            BY <1>3, <2>2, <3>2 DEF Calm, Unmoved, Disabled
        <3> QED BY <1>1, <2>3, <3>1, <3>2, PolledKept DEF Strict, Polled
    <2> QED BY <2>2, <2>3
<1> QED BY <1>1, <1>2, <1>4, <1>5, <1>6 DEF Preserved, Base, Stepped

LEMMA AfterHands ==
    ASSUME Base, NEW w \in Worker, NEW batch \in SUBSET Delivery,
           worker' = [worker EXCEPT ![w] = After(w, batch)]
    PROVE  \A v \in Worker : Handed(v)
BY AfterIsIdle, BaseFacts DEF Handed

LEMMA StartsInv ==
    ASSUME Base, NEW w \in Worker, PollStarts(w)
    PROVE  Preserved
<1> DEFINE expired == {d \in Delivery : Expired(d)}
           buffered == {a \in Delivery \X AttemptNumber :
                          /\ Disabled(a[1]) /\ Expired(a[1])
                          /\ a[2] = delivery[a[1]].count + 1
                          /\ attempt[a[1]][a[2]] = "open"}
           row == [worker[w] EXCEPT !.pc = "polling", !.expired = expired, !.buffered = buffered]
<1>1. /\ worker[w].pc = "idle" /\ worker' = [worker EXCEPT ![w] = row]
      /\ delivery' = delivery /\ attempt' = attempt /\ UNCHANGED <<endpoint, fanout>>
    BY DEF PollStarts
<1>2. worker[w].current = <<>> BY <1>1, BaseFacts DEF Workers, Busy
<1>3. /\ expired \subseteq Delivery
      /\ \A d \in expired : Expired(d)
      /\ \A d \in Delivery, n \in AttemptNumber :
            <<d, n>> \in buffered <=> /\ Disabled(d) /\ Expired(d)
                                     /\ n = delivery[d].count + 1 /\ attempt[d][n] = "open"
    OBVIOUS
<1>4. \A d \in Delivery : Expired(d) => d \in expired OBVIOUS
<1> HIDE DEF expired, buffered
<1>5. row.pc = "polling" /\ row.current = <<>> /\ row.expired = expired /\ row.buffered = buffered
    BY <1>2, BaseFacts DEF WorkerType
<1> HIDE DEF row
<1>6. worker'[w] = row /\ \A v \in Worker : v # w => worker'[v] = worker[v]
    BY <1>1, BaseFacts
<1>7. Next BY DEF Next, WorkerNext
<1>8. Stepped BY <1>1, Budgets, QuietStep DEF FanoutsKept
<1>9. Rows /\ NothingForgotten /\ Shapes' /\ Births' BY <1>8, RowsKept DEF Stepped
<1>10. \A d \in Delivery : Disabled(d)' <=> Disabled(d) BY <1>1 DEF Disabled
<1>11. \A v \in Worker : Handed(v) \/ (worker'[v].pc = "polling" /\ worker'[v].current = <<>>)
    BY <1>5, <1>6 DEF Handed
<1>12. Workers' BY <1>9, <1>11, WorkersKept
<1>13. \A v \in Worker : v # w /\ worker'[v].pc = "polling" =>
          worker[v].pc = "polling" /\ worker'[v] = worker[v]
    BY <1>6
<1>14. worker'[w].expired = expired /\ worker'[w].buffered = buffered BY <1>5, <1>6
<1>15. Buffers'
    <2>1. ASSUME NEW d \in Delivery, NEW n \in AttemptNumber, <<d, n>> \in buffered
          PROVE  attempt'[d][n] # None
        BY <1>1, <1>3, <2>1 DEF None
    <2> QED BY <1>9, <1>13, <1>14, <2>1, BaseFacts DEF Buffers, NothingForgotten
<1>16. ASSUME NEW d \in Delivery, Strict(d) PROVE Strict(d)'
    <2>1. Sequence(d)' BY <1>9, <1>16, SequenceKept
    <2>2. /\ d \in expired /\ Disabled(d)' =>
                /\ Expired(d)'
                /\ \A n \in AttemptNumber : attempt'[d][n] = "open" => <<d, n>> \in buffered
          /\ \A n \in AttemptNumber : <<d, n>> \in buffered =>
                d \in expired /\ Disabled(d)' /\ attempt'[d][n] # None
        <3>1. Expired(d)' <=> Expired(d) BY <1>1 DEF Expired
        <3>2. ASSUME d \in expired, Disabled(d), NEW n \in AttemptNumber, attempt[d][n] = "open"
              PROVE  <<d, n>> \in buffered
            <4>1. Expired(d) BY <1>3, <3>2
            <4>s. Sequence(d) BY <1>16 DEF Strict
            <4>2. OpenAttempts(d) = {delivery[d].count + 1}
                BY <3>2, <4>s, NextNumbers DEF OpenAttempts
            <4>3. n = delivery[d].count + 1 BY <3>2, <4>2 DEF OpenAttempts
            <4> QED BY <1>3, <3>2, <4>1, <4>3
        <3>3. "open" # None BY DEF None
        <3> QED BY <1>1, <1>3, <1>4, <1>10, <3>1, <3>2, <3>3
    <2>3. ASSUME NEW v \in Worker, worker'[v].pc = "polling" PROVE Polled(v, d)'
        <3>1. CASE v = w BY <1>14, <2>2, <3>1 DEF Polled
        <3>2. CASE v # w
            <4>1. worker[v].pc = "polling" /\ worker'[v] = worker[v] BY <1>13, <2>3, <3>2
            <4> QED BY <1>9, <1>10, <1>16, <4>1, PolledKept DEF Polled
        <3> QED BY <3>1, <3>2
    <2> QED BY <2>1, <2>3 DEF Strict
<1>17. TypeOK' BY <1>7, NextTyped, TypedIsTypeOKNext
<1> QED BY <1>1, <1>8, <1>9, <1>12, <1>15, <1>16, <1>17 DEF Preserved, Base, Stepped

LEMMA ReservesInv ==
    ASSUME Base, NEW w \in Worker, NEW d \in Delivery, PrepareReserves(w, d)
    PROVE  Preserved
<1> DEFINE n == NextNumber(d)
           row == [worker[w] EXCEPT !.pc = "posting", !.batch = worker[w].batch \ {d},
                                    !.current = d, !.number = n]
<1>1. Stepped /\ n \in AttemptNumber /\ attempt[d][n] = None /\ attempt'[d][n] = "open"
    BY ReservesStep
<1>2. worker' = [worker EXCEPT ![w] = row] /\ endpoint' = endpoint BY DEF PrepareReserves
<1> HIDE DEF n
<1>3. row.pc = "posting" /\ row.current = d /\ row.number = n BY BaseFacts DEF WorkerType
<1> HIDE DEF row
<1>4. worker'[w] = row /\ \A v \in Worker : v # w => worker'[v] = worker[v] BY <1>2, BaseFacts
<1>5. Rows /\ NothingForgotten /\ Shapes' /\ Births' BY <1>1, RowsKept DEF Stepped
<1>6. \A x \in Delivery : Disabled(x)' <=> Disabled(x) BY <1>2 DEF Disabled
<1>7. ASSUME NEW v \in Worker, v # w, Busy(v)
      PROVE  /\ worker[v].current \in Delivery /\ worker[v].number \in AttemptNumber
             /\ attempt'[worker[v].current][worker[v].number] # None
             /\ worker[v].current = d => worker[v].number # n
    <2>1. /\ worker[v].current \in Delivery /\ worker[v].number \in AttemptNumber
          /\ attempt[worker[v].current][worker[v].number] # None
        BY <1>7, BaseFacts DEF Workers
    <2> QED BY <1>1, <1>5, <2>1 DEF NothingForgotten
<1>8. Workers'
    <2>1. Busy(w)' BY <1>3, <1>4 DEF Busy
    <2>2. \A v \in Worker : v # w => (Busy(v)' <=> Busy(v)) BY <1>4 DEF Busy
    <2>3. ASSUME NEW v \in Worker
          PROVE  /\ Busy(v)' => /\ worker'[v].current \in Delivery
                                /\ worker'[v].number \in AttemptNumber
                                /\ attempt'[worker'[v].current][worker'[v].number] # None
                 /\ ~Busy(v)' => worker'[v].current = <<>>
                 /\ worker'[v].pc = "finalizing" => worker'[v].outcome # None
        <3>1. CASE v = w
            <4>1. worker'[w].current = d /\ worker'[w].number = n /\ worker'[w].pc = "posting"
                BY <1>3, <1>4
            <4>2. "open" # None BY DEF None
            <4> QED BY <1>1, <2>1, <3>1, <4>1, <4>2
        <3>2. CASE v # w BY <1>4, <1>7, <2>2, <3>2, BaseFacts DEF Workers
        <3> QED BY <3>1, <3>2
    <2>4. ASSUME NEW u \in Worker, NEW v \in Worker, Busy(u)', Busy(v)',
                 worker'[u].current = worker'[v].current, u # v
          PROVE  worker'[u].number # worker'[v].number
        <3>1. CASE u = w BY <1>3, <1>4, <1>7, <2>2, <2>4, <3>1
        <3>2. CASE v = w BY <1>3, <1>4, <1>7, <2>2, <2>4, <3>2
        <3>3. CASE u # w /\ v # w BY <1>4, <2>2, <2>4, <3>3, BaseFacts DEF Workers
        <3> QED BY <3>1, <3>2, <3>3
    <2> QED BY <2>3, <2>4 DEF Workers
<1>9. \A v \in Worker : worker'[v].pc = "polling" =>
          worker[v].pc = "polling" /\ worker'[v] = worker[v]
    BY <1>3, <1>4
<1>10. Buffers' BY <1>5, <1>9, BaseFacts DEF Buffers, NothingForgotten
<1>11. ASSUME NEW x \in Delivery, Strict(x) PROVE Strict(x)'
    <2>1. Sequence(x)' BY <1>5, <1>11, SequenceKept
    <2>2. ASSUME NEW v \in Worker, worker'[v].pc = "polling" PROVE Polled(v, x)'
        <3>1. worker[v].pc = "polling" /\ worker'[v] = worker[v] BY <1>9, <2>2
        <3> QED BY <1>5, <1>6, <1>11, <3>1, PolledKept DEF Polled
    <2> QED BY <2>1, <2>2 DEF Strict
<1>12. TypeOK'
    <2>1. Next BY DEF Next, WorkerNext
    <2> QED BY <2>1, NextTyped, TypedIsTypeOKNext
<1> QED BY <1>1, <1>2, <1>5, <1>8, <1>10, <1>11, <1>12 DEF Preserved, Base, Stepped

-----------------------------------------------------------------------------
(* The invariant, and what follows from it.                                  *)

\* The steps of the workers, but for those that start a poll or reserve.
LEMMA WorkInv ==
    ASSUME Base, NEW w \in Worker, WorkerNext(w),
           ~PollStarts(w), \A d \in Delivery : ~PrepareReserves(w, d)
    PROVE  Preserved
<1>n. Next BY DEF Next
<1>b. worker[w].batch \in SUBSET Delivery BY BaseFacts DEF WorkerType
\* Steps after which the worker goes on to the next delivery.
<1>a. ASSUME NEW batch \in SUBSET Delivery, worker' = [worker EXCEPT ![w] = After(w, batch)],
             Stepped
      PROVE  Preserved
    BY <1>a, <1>n, AfterHands, StepInv
<1>1. ASSUME NEW claims \in SUBSET {d \in Delivery : Claimable(d)}, PollCommits(w, claims) PROVE Preserved
    <2>1. Stepped BY <1>1, CommitsStep
    <2>2. worker' = [worker EXCEPT ![w] = After(w, claims)]
        BY <1>1 DEF PollCommits, After
    <2> QED BY <1>a, <2>1, <2>2
<1>2. ASSUME NEW d \in Delivery, PrepareSkips(w, d) PROVE Preserved
    <2>1. Stepped BY <1>2, Budgets, QuietStep DEF PrepareSkips, FanoutsKept
    <2> QED BY <1>2, <1>a, <1>b, <2>1 DEF PrepareSkips
<1>3. ASSUME NEW d \in Delivery, PrepareExhausts(w, d) PROVE Preserved
    <2>1. Stepped BY <1>3, ExhaustsStep
    <2> QED BY <1>3, <1>a, <1>b, <2>1 DEF PrepareExhausts
<1>4. ASSUME NEW x \in Exchange, Posts(w, x) PROVE Preserved
    <2> DEFINE c == worker[w].current
               n == worker[w].number
               o == AttemptDecision(n, MaxAttempts, x).outcome
               row == [worker[w] EXCEPT !.pc = "finalizing", !.outcome = o]
    <2>1. worker[w].pc = "posting" /\ worker' = [worker EXCEPT ![w] = row] BY <1>4 DEF Posts
    <2>2. n \in AttemptNumber BY <2>1, BaseFacts DEF Workers, Busy
    <2>3. o # None BY Decisions DEF Outcome, None
    <2>4. Stepped BY <1>4, Budgets, QuietStep DEF Posts, FanoutsKept
    <2> HIDE DEF c, n, o
    <2>5. row.pc = "finalizing" /\ row.outcome = o
            /\ row.current = worker[w].current /\ row.number = worker[w].number
        BY BaseFacts DEF WorkerType
    <2> HIDE DEF row
    <2>6. worker'[w] = row /\ \A v \in Worker : v # w => worker'[v] = worker[v] BY <2>1, BaseFacts
    <2>7. \A v \in Worker : Handed(v) BY <2>1, <2>3, <2>5, <2>6 DEF Handed, Busy
    <2> QED BY <1>4, <1>n, <2>4, <2>7, StepInv DEF Posts
<1>5. CASE FinalizesTooLate(w)
    <2>1. Stepped BY <1>5, Budgets, QuietStep DEF FinalizesTooLate, FanoutsKept
    <2> QED BY <1>5, <1>a, <1>b, <2>1 DEF FinalizesTooLate, Finalizes
<1>6. CASE FinalizesDisabled(w) \/ FinalizesRetry(w)
    <2>1. Stepped BY <1>6, ClosingSteps
    <2> QED BY <1>6, <1>a, <1>b, <2>1
        DEF FinalizesDisabled, FinalizesRetry, Closes, Finalizes
<1>7. CASE FinalizesDelivered(w)
    <2>1. Stepped BY <1>7, DeliveredStep
    <2> QED BY <1>7, <1>a, <1>b, <2>1 DEF FinalizesDelivered, Closes, Finalizes
<1>8. CASE FinalizesFailed(w)
    <2>1. Stepped BY <1>8, FailedStep
    <2> QED BY <1>8, <1>a, <1>b, <2>1 DEF FinalizesFailed, Closes, Finalizes
<1>9. ASSUME NEW notice \in NoticeEvent \cup {None}, FinalizesDisabling(w, notice) PROVE Preserved
    <2>1. Stepped BY <1>9, DisablingStep
    <2> QED BY <1>9, <1>a, <1>b, <2>1 DEF FinalizesDisabling, Closes, Finalizes
<1> QED
    BY <1>1, <1>2, <1>3, <1>4, <1>5, <1>6, <1>7, <1>8, <1>9 DEF WorkerNext

LEMMA NextInv == ASSUME Base, Next PROVE Preserved
\* Steps that leave the workers alone.
<1>a. ASSUME worker' = worker, Stepped
      PROVE  Preserved
    BY <1>a, StepInv DEF Handed
<1>1. ASSUME NEW ev \in DomainEvent, EnqueueReads(ev) \/ EnqueueCommits(ev) PROVE Preserved
    <2>1. Stepped BY <1>1, EnqueueSteps DEF Event
    <2> QED BY <1>1, <1>a, <2>1 DEF EnqueueReads, EnqueueCommits
<1>2. ASSUME NEW e \in Endpoint, NEW types \in SUBSET Offered[e],
             CreateCustomerWebhookEndpoint(e, types)
      PROVE  Preserved
    <2>1. Stepped BY <1>2, CreateStep
    <2> QED BY <1>2, <1>a, <2>1 DEF CreateCustomerWebhookEndpoint
<1>3. ASSUME NEW e \in Endpoint, NEW types \in SUBSET Offered[e], NEW enabled \in BOOLEAN,
             EnableOrResubscribe(e, enabled, types)
      PROVE  Preserved
    <2>1. Stepped BY <1>3, EnableStep
    <2> QED BY <1>3, <1>a, <2>1 DEF EnableOrResubscribe, Administers
<1>4. ASSUME NEW e \in Endpoint, NEW types \in SUBSET Offered[e], NEW ev \in NoticeEvent,
             DisableByOperator(e, types, ev)
      PROVE  Preserved
    <2>1. Stepped BY <1>4, DisableStep
    <2> QED BY <1>4, <1>a, <2>1 DEF DisableByOperator, Administers
<1>5. ASSUME NEW e \in Endpoint, RotateCustomerWebhookSigningSecret(e) PROVE Preserved
    <2>1. Stepped BY <1>5, RotateStep
    <2> QED BY <1>5, <1>a, <2>1 DEF RotateCustomerWebhookSigningSecret, Administers
<1>6. ASSUME NEW d \in Delivery, ReplayCustomerWebhookDelivery(d) PROVE Preserved
    <2>1. Stepped BY <1>6, ReplayStep
    <2> QED BY <1>6, <1>a, <2>1 DEF ReplayCustomerWebhookDelivery, Administers
<1>7. ASSUME NEW d \in Delivery, Lapses(d) PROVE Preserved
    <2>1. Stepped BY <1>7, LapseStep
    <2> QED BY <1>7, <1>a, <2>1 DEF Lapses
<1>8. ASSUME NEW w \in Worker, WorkerNext(w) PROVE Preserved
    BY <1>8, StartsInv, ReservesInv, WorkInv
<1>9. ASSUME NEW w \in Worker, Abandons(w) PROVE Preserved
    <2>1. Stepped BY <1>9, Budgets, QuietStep DEF Abandons, FanoutsKept
    <2>2. worker[w].batch \in SUBSET Delivery BY BaseFacts DEF WorkerType
    <2>3. \A v \in Worker : Handed(v) BY <1>9, <2>2, AfterHands DEF Abandons
    <2> QED BY <1>9, <2>1, <2>3, StepInv DEF Abandons
<1>10. ASSUME NEW w \in Worker, Crashes(w) PROVE Preserved
    <2>1. Stepped BY <1>10, Budgets, QuietStep DEF Crashes, FanoutsKept
    <2>2. \A v \in Worker : Handed(v) BY <1>10, IdleWorkers, BaseFacts DEF Crashes, Handed
    <2> QED BY <1>10, <2>1, <2>2, StepInv DEF Crashes
<1> QED
    BY <1>1, <1>2, <1>3, <1>4, <1>5, <1>6, <1>7, <1>8, <1>9, <1>10 DEF Next, AdministrationNext

LEMMA StutterInv == ASSUME Base, UNCHANGED vars PROVE Preserved
<1>1. Base' BY DEF vars, Base, TypeOK, DisabledInTime, Shapes, Shape, Births, Blank, Workers, Busy,
                   Buffers
<1>2. ASSUME NEW d \in Delivery, Strict(d) PROVE Strict(d)'
    BY <1>2 DEF vars, Strict, Sequence, Polled, Disabled, Expired
<1> QED BY <1>1, <1>2 DEF vars, Preserved

LEMMA SpecBase == Spec => []Base
<1>1. Base /\ [Next]_vars => Base' BY NextInv, StutterInv DEF Preserved
<1> QED BY <1>1, InitInv, PTL DEF Spec

LEMMA SpecStrict == Spec => [](Base /\ Stricts)
<1>1. Base /\ Stricts /\ [Next]_vars => Base' /\ Stricts' BY NextInv, StutterInv DEF Preserved, Stricts
<1> QED BY <1>1, InitInv, PTL DEF Spec

LEMMA StrictInSequence ==
    ASSUME Base, NEW d \in Delivery, Strict(d)
    PROVE  InSequence(d)
<1>1. Sequence(d) BY DEF Strict
<1>2. delivery[d].count \in 0..MaxAttempts BY BaseFacts DEF DeliveryType
<1>3. \A n \in 1..delivery[d].count : n \in AttemptNumber /\ n <= delivery[d].count
    BY <1>2, Numbers DEF AttemptNumber
<1>4. \A w \in Worker : worker[w].current = d => Busy(w)
    BY NotADelivery, BaseFacts DEF Workers
<1>5. \A v, w \in Worker : worker[v].current = d /\ worker[w].current = d /\ v # w
                           => worker[v].number # worker[w].number
    BY <1>4, BaseFacts DEF Workers
<1> QED BY <1>1, <1>3, <1>5, NextNumbers DEF Sequence, OpenAttempts, InSequence

\* Every step preserves the types: no failure count passes the budget, no
\* attempt number the limit.
THEOREM TypeCorrect == Spec => []TypeOK
BY SpecBase, PTL DEF Base

\* No endpoint stays active past its budget of failures, and nothing waits
\* to be delivered to a disabled one, whatever changes between the statements
\* of a poll.
THEOREM EndpointsDisabledInTime == Spec => []DisabledInTime
BY SpecBase, PTL DEF Base

\* The attempts made for a delivery are its counted ones, or one more.
LEMMA Counted ==
    ASSUME Base, NEW d \in Delivery
    PROVE  /\ delivery[d].count \in 0..MaxAttempts
           /\ Tried(d) \in {1..delivery[d].count, 1..(delivery[d].count + 1)}
           /\ \E m \in 0..MaxAttempts : Tried(d) = 1..m
<1> DEFINE k == delivery[d].count
<1>1. Shape(d) BY BaseFacts DEF Shapes
<1>2. k \in 0..MaxAttempts BY BaseFacts DEF DeliveryType
<1>3. CASE k + 1 \in AttemptNumber /\ attempt[d][k + 1] # None
    <2>1. ASSUME NEW n \in AttemptNumber PROVE attempt[d][n] # None <=> n <= k + 1
        <3>1. CASE n <= k BY <1>1, <1>2, <3>1, Numbers DEF Shape, AttemptNumber
        <3>2. CASE n = k + 1 BY <1>2, <1>3, <3>2, Numbers
        <3>3. CASE n > k + 1 BY <1>1, <1>2, <3>3, Numbers DEF Shape, AttemptNumber
        <3> QED BY <1>2, <3>1, <3>2, <3>3, Numbers DEF AttemptNumber
    <2>2. k + 1 \in 0..MaxAttempts BY <1>2, <1>3, Numbers DEF AttemptNumber
    <2> HIDE DEF k
    <2>3. Tried(d) = 1..(k + 1) BY <2>1, <2>2, Numbers DEF Tried, AttemptNumber
    <2> QED BY <1>2, <2>2, <2>3 DEF k
<1>4. CASE ~(k + 1 \in AttemptNumber /\ attempt[d][k + 1] # None)
    <2>1. ASSUME NEW n \in AttemptNumber PROVE attempt[d][n] # None <=> n <= k
        <3>1. CASE n <= k BY <1>1, <1>2, <3>1, Numbers DEF Shape, AttemptNumber
        <3>2. CASE n = k + 1 BY <1>2, <1>4, <3>2, Numbers
        <3>3. CASE n > k + 1 BY <1>1, <1>2, <3>3, Numbers DEF Shape, AttemptNumber
        <3> QED BY <1>2, <3>1, <3>2, <3>3, Numbers DEF AttemptNumber
    <2> HIDE DEF k
    <2>3. Tried(d) = 1..k BY <1>2, <2>1, Numbers DEF Tried, AttemptNumber
    <2> QED BY <1>2, <2>3 DEF k
<1> QED BY <1>3, <1>4

\* The attempts of a delivery are numbered from one, at most the last uncounted.
AttemptsNumbered ==
    \A d \in Delivery : Tried(d) \in {1..delivery[d].count, 1..(delivery[d].count + 1)}

\* Two workers at one delivery are at different attempts.
WorkersApart ==
    \A v, w \in Worker :
        Busy(v) /\ Busy(w) /\ worker[v].current = worker[w].current /\ v # w
            => worker[v].number # worker[w].number

\* Whatever the polls see: the attempts made for a delivery are numbered without a
\* gap, at most one of them is not counted yet, and two workers at one delivery make
\* different attempts.
THEOREM AttemptsWithoutGap == Spec => [](AttemptsNumbered /\ WorkersApart)
<1>1. Base => AttemptsNumbered BY Counted DEF AttemptsNumbered
<1>2. Base => WorkersApart BY BaseFacts DEF Workers, WorkersApart
<1> QED BY <1>1, <1>2, SpecBase, PTL

\* The rows of a delivery and of its attempts never contradict each other,
\* however workers die, outrun their leases and take over from each other,
\* so that no claim of it is ever stuck for good; and two workers at one
\* delivery are always at different attempts.  Only the deliveries of an
\* endpoint that was enabled or disabled while a poll was under way are
\* excepted, and of those no others' (see run torn_poll for what can become
\* of them).
THEOREM AttemptsInSequence == Spec => []SequenceValidUnlessTorn
<1>1. Base /\ Stricts => SequenceValidUnlessTorn
    BY StrictInSequence DEF Stricts, SequenceValidUnlessTorn
<1> QED BY <1>1, SpecStrict, PTL

-----------------------------------------------------------------------------
(* The contract: what the steps do to a delivery as its promise sees it.     *)

InHand == {"PENDING", "PROCESSING"}

\* A worker about to report a success has had its attempt acknowledged.
Heard ==
    \A w \in Worker : worker[w].pc = "finalizing" /\ worker[w].outcome = "delivered"
        => <<worker[w].current, worker[w].number>> \in acked

\* As it was, to whoever looks at the promise only.
SameRow(d) ==
    /\ \/ delivery'[d].status = delivery[d].status
       \/ delivery[d].status \in InHand /\ delivery'[d].status \in InHand
    /\ Tried(d)' = Tried(d) /\ delivery'[d].secret = delivery[d].secret
OpenedRow(d) ==
    /\ delivery[d].status = "none" /\ delivery'[d].status = "PENDING"
    /\ d[3] = 1 \/ \E g \in 1..(d[3] - 1) : delivery[<<d[1], d[2], g>>].status = "FAILED"
    /\ Tried(d)' = Tried(d) /\ delivery'[d].secret # 0
TriedRow(d) ==
    /\ delivery[d].status \in InHand /\ delivery'[d].status \in InHand
    /\ \E n \in AttemptNumber : n \notin Tried(d) /\ Tried(d)' = Tried(d) \cup {n}
    /\ delivery'[d].secret = delivery[d].secret
SettledRow(d) ==
    /\ delivery[d].status \in InHand /\ delivery'[d].status \in Terminal
    /\ delivery'[d].status = "DELIVERED" => \E n \in AttemptNumber : <<d, n>> \in acked
    /\ Tried(d)' = Tried(d) /\ delivery'[d].secret = delivery[d].secret
Promised == \A d \in Delivery : SameRow(d) \/ OpenedRow(d) \/ TriedRow(d) \/ SettledRow(d)

LEMMA QuietPromise ==
    ASSUME NEW d \in Delivery, delivery'[d] = delivery[d], attempt'[d] = attempt[d]
    PROVE  SameRow(d)
BY DEF SameRow, Tried

LEMMA NewSecrets ==
    ASSUME NEW s \in 1..MaxSecret
    PROVE  NewDelivery(s).status = "PENDING" /\ NewDelivery(s).secret # 0
<1>1. NewDelivery(s).secret = s BY DEF NewDelivery, NoDelivery
<1> QED BY <1>1, NewDeliveries, Numbers

\* The first generations that a fan-out opens were not there before.
LEMMA FannedOutPromise ==
    ASSUME Base, NEW ev \in Event, EnqueueCommits(ev)
    PROVE  Promised
<1>1. PICK S \in SUBSET Endpoint : delivery' = FannedOut(ev, S, endpoint)
    <2>1. fanout[ev].candidates \subseteq Endpoint BY BaseFacts DEF FanoutType
    <2> QED BY <2>1 DEF EnqueueCommits, Subscribed
<1>2. fanout[ev].pc = "read" /\ attempt' = attempt BY DEF EnqueueCommits
<1> SUFFICES ASSUME NEW d \in Delivery PROVE SameRow(d) \/ OpenedRow(d) BY DEF Promised
<1>3. CASE d[1] \in S /\ d[2] = ev /\ d[3] = 1
    <2>1. delivery'[d] = NewDelivery(endpoint[d[1]].secret) BY <1>1, <1>3 DEF FannedOut
    <2>2. endpoint[d[1]].secret \in 1..MaxSecret BY <1>3, BaseFacts DEF EndpointType
    <2>3. delivery'[d].status = "PENDING" /\ delivery'[d].secret # 0 BY <2>1, <2>2, NewSecrets
    <2>4. delivery[d].status = "none" BY <1>2, <1>3, BaseFacts DEF Births
    <2> QED BY <1>2, <1>3, <2>3, <2>4 DEF OpenedRow, Tried
<1>4. CASE ~(d[1] \in S /\ d[2] = ev /\ d[3] = 1)
    <2>1. delivery'[d] = delivery[d] BY <1>1, <1>4 DEF FannedOut
    <2> QED BY <1>2, <2>1, QuietPromise
<1> QED BY <1>3, <1>4

\* So is what a notice opens, and cancelling settles what was pending.
LEMMA NotifiedPromise ==
    ASSUME Base, NEW ep \in [Endpoint -> EndpointType], NEW del, NEW ev \in Event,
           fanout[ev].pc # "done", NEW d \in Delivery,
           delivery'[d] = NotifyDisabled(ev, del, ep)[d], attempt'[d] = attempt[d]
    PROVE  delivery'[d] = del[d] \/ OpenedRow(d)
<1>1. CASE ~(d[2] = ev /\ d[3] = 1 /\ ep[d[1]].status = "ACTIVE" /\ "notice" \in ep[d[1]].types)
    BY <1>1 DEF NotifyDisabled
<1>2. CASE d[2] = ev /\ d[3] = 1 /\ ep[d[1]].status = "ACTIVE" /\ "notice" \in ep[d[1]].types
    <2>1. delivery'[d] = NewDelivery(ep[d[1]].secret) BY <1>2 DEF NotifyDisabled
    <2>2. d[1] \in Endpoint BY DEF Delivery
    <2>3. ep[d[1]].secret \in 1..MaxSecret BY <2>2 DEF EndpointType
    <2>4. delivery'[d].status = "PENDING" /\ delivery'[d].secret # 0 BY <2>1, <2>3, NewSecrets
    <2>5. delivery[d].status = "none" BY <1>2, BaseFacts DEF Births
    <2> QED BY <1>2, <2>4, <2>5 DEF OpenedRow, Tried
<1> QED BY <1>1, <1>2

LEMMA CancelledPromise ==
    ASSUME NEW del \in [Delivery -> DeliveryType], NEW e, NEW kept, NEW d \in Delivery,
           del[d] = delivery[d], attempt'[d] = attempt[d],
           delivery'[d] = CancelPending(e, kept, del)[d]
    PROVE  SameRow(d) \/ SettledRow(d)
<1>1. CASE d[1] = e /\ d # kept /\ del[d].status = "PENDING"
    <2>1. delivery'[d] = [del[d] EXCEPT !.status = "CANCELED"] BY <1>1 DEF CancelPending
    <2>2. delivery'[d].status = "CANCELED" /\ delivery'[d].secret = delivery[d].secret
        BY <2>1 DEF DeliveryType
    <2> QED BY <1>1, <2>2 DEF SettledRow, InHand, Terminal, Tried
<1>2. CASE ~(d[1] = e /\ d # kept /\ del[d].status = "PENDING")
    <2>1. delivery'[d] = delivery[d] BY <1>2 DEF CancelPending
    <2> QED BY <2>1, QuietPromise
<1> QED BY <1>1, <1>2

LEMMA DisabledPromise ==
    ASSUME Base, NEW e \in Endpoint, NEW types \in SUBSET Offered[e], NEW ev \in NoticeEvent,
           DisableByOperator(e, types, ev)
    PROVE  Promised
<1> DEFINE cancelled == CancelPending(e, <<>>, delivery)
<1>1. /\ delivery' = NotifyDisabled(ev, cancelled, endpoint') /\ attempt' = attempt
      /\ fanout[ev].pc = "new" /\ ev \in Event
    BY DEF DisableByOperator, Event
<1>2. endpoint' \in [Endpoint -> EndpointType]
    <2>1. Next BY DEF Next, AdministrationNext
    <2> QED BY <2>1, NextTyped DEF Typed
<1> SUFFICES ASSUME NEW d \in Delivery PROVE SameRow(d) \/ OpenedRow(d) \/ SettledRow(d)
    BY DEF Promised
<1>3. delivery'[d] = cancelled[d] \/ OpenedRow(d)
    <2> HIDE DEF cancelled
    <2>1. /\ delivery'[d] = NotifyDisabled(ev, cancelled, endpoint')[d]
          /\ attempt'[d] = attempt[d] /\ fanout[ev].pc # "done"
        BY <1>1
    <2> QED BY <1>1, <1>2, <2>1, NotifiedPromise
<1> QED BY <1>1, <1>3, CancelledPromise, BaseFacts

\* A replay opens the generation after the latest, and the one it replays failed.
LEMMA ReplayPromise ==
    ASSUME Base, NEW d \in Delivery, ReplayCustomerWebhookDelivery(d)
    PROVE  Promised
<1> DEFINE G == Generations(d[1], d[2])
           latest == CHOOSE g \in G : \A h \in G : h <= g
           r == <<d[1], d[2], latest + 1>>
<1>1. d[1] \in Endpoint /\ d[2] \in Event /\ d[3] \in 1..MaxGeneration /\ d = <<d[1], d[2], d[3]>>
    BY DEF Delivery
<1>2. delivery[d].status = "FAILED" BY DEF ReplayCustomerWebhookDelivery
<1>3. /\ latest < MaxGeneration
      /\ delivery' = [delivery EXCEPT ![r] = NewDelivery(endpoint[d[1]].secret)]
      /\ attempt' = attempt
    BY DEF ReplayCustomerWebhookDelivery
<1>4. G \subseteq 1..MaxGeneration /\ d[3] \in G BY <1>1, <1>2 DEF Generations
<1>5. latest \in G /\ \A h \in G : h <= latest
    <2> HIDE DEF G
    <2>1. \E g \in G : \A h \in G : h <= g BY <1>4, Numbers, GreatestExists
    <2> QED BY <2>1
<1> HIDE DEF latest
<1>6. latest + 1 \in 1..MaxGeneration /\ latest + 1 \notin G /\ d[3] \in 1..((latest + 1) - 1)
    <2>1. d[3] \in Nat /\ 1 <= d[3] /\ latest \in Nat /\ d[3] <= latest BY <1>4, <1>5, Numbers
    <2> HIDE DEF G
    <2>2. latest + 1 \in 1..MaxGeneration /\ latest + 1 \notin G BY <1>3, <1>4, <1>5, Numbers
    <2>3. (latest + 1) - 1 = latest BY <2>1
    <2>4. d[3] \in 1..latest BY <2>1
    <2> QED BY <2>2, <2>3, <2>4
<1>7. r \in Delivery /\ r[1] = d[1] /\ r[2] = d[2] /\ r[3] = latest + 1
    BY <1>1, <1>6 DEF Delivery
<1>8. delivery[r].status = "none" BY <1>6 DEF Generations
<1>9. \E g \in 1..(r[3] - 1) : delivery[<<r[1], r[2], g>>].status = "FAILED"
    BY <1>1, <1>2, <1>6, <1>7
<1> HIDE DEF r
<1>x. PICK x \in Delivery : x = r BY <1>7
<1>10. endpoint[d[1]].secret \in 1..MaxSecret BY <1>1, BaseFacts DEF EndpointType
<1>11. delivery'[x].status = "PENDING" /\ delivery'[x].secret # 0
         /\ \A y \in Delivery : y # x => delivery'[y] = delivery[y]
    BY <1>3, <1>x, <1>10, NewSecrets, BaseFacts
<1>12. OpenedRow(x)
    <2>1. delivery[x].status = "none" BY <1>8, <1>x
    <2>2. \E g \in 1..(x[3] - 1) : delivery[<<x[1], x[2], g>>].status = "FAILED" BY <1>9, <1>x
    <2>3. Tried(x)' = Tried(x) BY <1>3 DEF Tried
    <2> QED BY <1>11, <2>1, <2>2, <2>3 DEF OpenedRow
<1>13. \A y \in Delivery : y # x => SameRow(y) BY <1>3, <1>11, QuietPromise
<1> QED BY <1>12, <1>13 DEF Promised

LEMMA LapsePromise ==
    ASSUME Base, NEW d \in Delivery, Lapses(d)
    PROVE  Promised
<1> DEFINE row == [delivery[d] EXCEPT !.lapsed = TRUE]
<1>1. delivery' = [delivery EXCEPT ![d] = row] /\ attempt' = attempt BY DEF Lapses
<1>2. row.status = delivery[d].status /\ row.secret = delivery[d].secret
    BY BaseFacts DEF DeliveryType
<1> HIDE DEF row
<1>3. delivery'[d] = row /\ \A x \in Delivery : x # d => delivery'[x] = delivery[x]
    BY <1>1, BaseFacts
<1>4. SameRow(d) BY <1>1, <1>2, <1>3 DEF SameRow, Tried
<1> QED BY <1>1, <1>3, <1>4, QuietPromise DEF Promised

\* Claiming changes nothing that was promised; what a poll drops was pending
\* or abandoned, and the attempts it gives up had been made.
LEMMA CommitsPromise ==
    ASSUME Base, NEW w \in Worker, NEW claims \in SUBSET Delivery, PollCommits(w, claims)
    PROVE  Promised
<1> DEFINE stale(d) == Expired(d) /\ d \in worker[w].expired
           claimed(d) == [delivery[d] EXCEPT !.status = "PROCESSING", !.owner = w, !.lapsed = FALSE]
           count(d) == GreaterOf(delivery[d].count, HighestAttempt(d))
           dropped(d) == [delivery[d] EXCEPT !.status = "CANCELED", !.owner = NoWorker,
                                             !.lapsed = FALSE, !.count = count(d)]
           closed(d) == Disabled(d) /\ (delivery[d].status = "PENDING" \/ stale(d))
<1>1. /\ worker[w].pc = "polling"
      /\ \A d \in claims : Claimable(d)
      /\ delivery' = [d \in Delivery |-> IF d \in claims THEN claimed(d)
                                        ELSE IF closed(d) THEN dropped(d) ELSE delivery[d]]
      /\ attempt' = [d \in Delivery |-> [n \in AttemptNumber |->
                        IF <<d, n>> \in worker[w].buffered THEN "ambiguous" ELSE attempt[d][n]]]
      /\ UNCHANGED <<endpoint, fanout>>
    BY Zenon DEF PollCommits
<1>2. \A d \in Delivery :
         /\ claimed(d).status = "PROCESSING" /\ claimed(d).secret = delivery[d].secret
         /\ dropped(d).status = "CANCELED" /\ dropped(d).secret = delivery[d].secret
    BY BaseFacts DEF DeliveryType
<1> HIDE DEF claimed, dropped
<1>3. \A d \in Delivery : delivery'[d] = IF d \in claims THEN claimed(d)
                                        ELSE IF closed(d) THEN dropped(d) ELSE delivery[d]
    BY <1>1
<1>4. \A d \in Delivery, n \in AttemptNumber :
         attempt'[d][n] = IF <<d, n>> \in worker[w].buffered THEN "ambiguous" ELSE attempt[d][n]
    BY <1>1
<1>5. \A d \in Delivery, n \in AttemptNumber :
         <<d, n>> \in worker[w].buffered => attempt[d][n] # None
    BY <1>1, BaseFacts DEF Buffers
<1>6. ASSUME NEW d \in Delivery PROVE SameRow(d) \/ SettledRow(d)
    <2>1. Tried(d)' = Tried(d)
        <3>1. "ambiguous" # None BY DEF None
        <3>2. \A n \in AttemptNumber : attempt'[d][n] # None <=> attempt[d][n] # None
            BY <1>4, <1>5, <3>1
        <3> QED BY <3>2 DEF Tried
    <2>2. CASE d \in claims
        <3>1. delivery[d].status \in InHand BY <1>1, <2>2 DEF Claimable, Expired, InHand
        <3> QED BY <1>2, <1>3, <2>1, <2>2, <3>1 DEF SameRow, InHand
    <2>3. CASE d \notin claims /\ closed(d)
        <3>1. delivery[d].status \in InHand BY <2>3 DEF Expired, InHand
        <3>2. delivery'[d] = dropped(d) BY <1>3, <2>3
        <3> QED BY <1>2, <2>1, <3>1, <3>2 DEF SettledRow, Terminal
    <2>4. CASE d \notin claims /\ ~closed(d)
        <3>1. delivery'[d] = delivery[d] BY <1>3, <2>4
        <3> QED BY <2>1, <3>1 DEF SameRow
    <2> QED BY <2>2, <2>3, <2>4
<1> QED BY <1>6 DEF Promised

LEMMA ExhaustsPromise ==
    ASSUME Base, NEW w \in Worker, NEW d \in Delivery, PrepareExhausts(w, d)
    PROVE  Promised
<1> DEFINE n == NextNumber(d) - 1
           row == [delivery[d] EXCEPT !.status = "FAILED", !.count = n, !.owner = NoWorker]
<1>1. /\ delivery' = [delivery EXCEPT ![d] = row]
      /\ attempt' = [attempt EXCEPT ![d] = Recovered(d)]
      /\ delivery[d].status = "PROCESSING"
    BY DEF PrepareExhausts, MayPrepare
<1> HIDE DEF n
<1>2. row.status = "FAILED" /\ row.secret = delivery[d].secret BY BaseFacts DEF DeliveryType
<1> HIDE DEF row
<1>3. delivery'[d] = row /\ attempt'[d] = Recovered(d)
        /\ \A x \in Delivery : x # d => delivery'[x] = delivery[x] /\ attempt'[x] = attempt[x]
    BY <1>1, BaseFacts
<1>4. \A m \in AttemptNumber : Recovered(d)[m] # None <=> attempt[d][m] # None
    BY DEF Recovered, OpenAttempts, None
<1>5. SettledRow(d) BY <1>1, <1>2, <1>3, <1>4 DEF SettledRow, InHand, Terminal, Tried
<1> QED BY <1>3, <1>5, QuietPromise DEF Promised

\* A reservation is one more try, whatever is recovered on the way.
LEMMA ReservesPromise ==
    ASSUME Base, NEW w \in Worker, NEW d \in Delivery, PrepareReserves(w, d)
    PROVE  Promised
<1> DEFINE n == NextNumber(d)
           row == [delivery[d] EXCEPT !.count = n - 1]
<1>1. /\ delivery' = [delivery EXCEPT ![d] = row]
      /\ attempt' = [attempt EXCEPT ![d] = [Recovered(d) EXCEPT ![n] = "open"]]
      /\ delivery[d].status = "PROCESSING"
    BY BaseFacts DEF PrepareReserves, MayPrepare
<1>2. n \in AttemptNumber /\ attempt[d][n] = None BY ReservesStep
<1> HIDE DEF n
<1>3. row.status = delivery[d].status /\ row.secret = delivery[d].secret BY BaseFacts DEF DeliveryType
<1> HIDE DEF row
<1>4. delivery'[d] = row /\ attempt'[d] = [Recovered(d) EXCEPT ![n] = "open"]
        /\ \A x \in Delivery : x # d => delivery'[x] = delivery[x] /\ attempt'[x] = attempt[x]
    BY <1>1, BaseFacts
<1>5. \A m \in AttemptNumber : Recovered(d)[m] # None <=> attempt[d][m] # None
    BY DEF Recovered, OpenAttempts, None
<1>6. \A m \in AttemptNumber : attempt'[d][m] = IF m = n THEN "open" ELSE Recovered(d)[m]
    BY <1>2, <1>4 DEF Recovered
<1>7. \A m \in AttemptNumber : attempt'[d][m] # None <=> m = n \/ attempt[d][m] # None
    BY <1>5, <1>6 DEF None
<1>8. n \notin Tried(d) /\ Tried(d)' = Tried(d) \cup {n} BY <1>2, <1>7 DEF Tried
<1>9. TriedRow(d) BY <1>1, <1>2, <1>3, <1>4, <1>8 DEF TriedRow, InHand
<1> QED BY <1>4, <1>9, QuietPromise DEF Promised

\* Closing an attempt settles the delivery, or leaves it open for another;
\* it is called delivered only on an acknowledgement.
LEMMA ClosedPromise ==
    ASSUME Base, NEW w \in Worker, NEW status \in {"PENDING"} \cup Terminal, Closes(w),
           delivery'[worker[w].current] = Closed(w, status)[worker[w].current],
           status = "DELIVERED" => <<worker[w].current, worker[w].number>> \in acked
    PROVE  \A d \in Delivery : d = worker[w].current => SameRow(d) \/ SettledRow(d)
<1> SUFFICES ASSUME NEW c \in Delivery, c = worker[w].current
             PROVE  SameRow(c) \/ SettledRow(c)
    OBVIOUS
<1> DEFINE n == worker[w].number
<1>1. /\ n \in AttemptNumber
      /\ delivery[c].status = "PROCESSING" /\ attempt[c][n] = "open"
      /\ delivery'[c].status = status
      /\ \A m \in AttemptNumber :
            attempt'[c][m] = IF m = n THEN worker[w].outcome ELSE attempt[c][m]
      /\ worker[w].outcome \notin {None, "open"}
    BY ClosedRow
<1>2. delivery'[c].secret = delivery[c].secret
    <2> DEFINE row == [delivery[c] EXCEPT !.status = status, !.count = n,
                                          !.owner = NoWorker, !.lapsed = FALSE]
    <2>1. Closed(w, status) = [delivery EXCEPT ![c] = row] BY DEF Closed
    <2> HIDE DEF n
    <2>2. delivery[c] \in DeliveryType BY BaseFacts
    <2>3. row.secret = delivery[c].secret BY <2>2 DEF DeliveryType
    <2> HIDE DEF row
    <2>4. Closed(w, status)[c] = row BY <2>1, BaseFacts
    <2> QED BY <2>3, <2>4
<1>3. \A m \in AttemptNumber : attempt'[c][m] # None <=> attempt[c][m] # None
    BY <1>1 DEF None
<1>4. status = "DELIVERED" => <<c, n>> \in acked OBVIOUS
<1> HIDE DEF n
<1>5. Tried(c)' = Tried(c) BY <1>3 DEF Tried
<1>6. CASE status = "PENDING" BY <1>1, <1>2, <1>5, <1>6 DEF SameRow, InHand
<1>7. CASE status # "PENDING"
    BY <1>1, <1>2, <1>4, <1>5, <1>7 DEF SettledRow, InHand
<1> QED BY <1>6, <1>7

LEMMA ClosingPromise ==
    ASSUME Base, Heard, NEW w \in Worker,
           \/ FinalizesDisabled(w) \/ FinalizesDelivered(w)
           \/ FinalizesRetry(w) \/ FinalizesFailed(w)
    PROVE  Promised
<1>1. PICK status \in {"PENDING"} \cup Terminal :
         /\ Closes(w) /\ delivery' = Closed(w, status)
         /\ status = "DELIVERED" => worker[w].outcome = "delivered"
    <2>1. /\ {"CANCELED", "DELIVERED", "FAILED", "PENDING"} \subseteq {"PENDING"} \cup Terminal
        BY DEF Terminal
    <2>2. CASE FinalizesDisabled(w) BY <2>1, <2>2 DEF FinalizesDisabled
    <2>3. CASE FinalizesDelivered(w) BY <2>1, <2>3 DEF FinalizesDelivered
    <2>4. CASE FinalizesRetry(w) BY <2>1, <2>4 DEF FinalizesRetry
    <2>5. CASE FinalizesFailed(w) BY <2>1, <2>5 DEF FinalizesFailed
    <2> QED BY <2>2, <2>3, <2>4, <2>5
<1>2. status = "DELIVERED" => <<worker[w].current, worker[w].number>> \in acked
    BY <1>1 DEF Heard, Closes, Finalizes
<1>3. \A d \in Delivery : d = worker[w].current => SameRow(d) \/ SettledRow(d)
    BY <1>1, <1>2, ClosedPromise
<1>4. \A d \in Delivery : d # worker[w].current =>
          delivery'[d] = delivery[d] /\ attempt'[d] = attempt[d]
    BY <1>1, ClosedRow
<1> QED BY <1>3, <1>4, QuietPromise DEF Promised

LEMMA DisablingPromise ==
    ASSUME Base, NEW w \in Worker, NEW notice \in NoticeEvent \cup {None},
           FinalizesDisabling(w, notice)
    PROVE  Promised
<1> DEFINE c == worker[w].current
           closed == Closed(w, "FAILED")
           cancelled == CancelPending(c[1], c, closed)
<1>1. Closes(w) BY DEF FinalizesDisabling
<1>2. "FAILED" \in {"PENDING"} \cup Terminal /\ "FAILED" # "DELIVERED" BY DEF Terminal
<1>3. /\ c \in Delivery /\ delivery[c].status # "none"
      /\ \A d \in Delivery : d # c => closed[d] = delivery[d] /\ attempt'[d] = attempt[d]
    BY <1>1, <1>2, ClosedRow
<1>4. \/ /\ notice \in NoticeEvent /\ fanout[notice].pc = "new"
         /\ delivery' = NotifyDisabled(notice, cancelled, endpoint')
      \/ delivery' = cancelled
    BY DEF FinalizesDisabling
<1>5. closed \in [Delivery -> DeliveryType] BY <1>1, <1>2, ClosedTypes
<1>6. endpoint' \in [Endpoint -> EndpointType]
    <2>1. Next BY DEF Next, WorkerNext
    <2> QED BY <2>1, NextTyped DEF Typed
<1>7. cancelled[c] = closed[c] BY <1>3 DEF CancelPending
<1>8. delivery'[c] = closed[c]
    <2>1. ASSUME notice \in NoticeEvent, fanout[notice].pc = "new",
                 delivery' = NotifyDisabled(notice, cancelled, endpoint')
          PROVE  delivery'[c] = cancelled[c]
        <3>1. c[2] # notice
            BY <1>3, <2>1, BaseFacts DEF Births, Event
        <3> QED BY <1>3, <2>1, <3>1 DEF NotifyDisabled
    <2> QED BY <1>4, <1>7, <2>1
<1> HIDE DEF c, closed, cancelled
<1>9. ASSUME NEW d \in Delivery, d = c PROVE SameRow(d) \/ SettledRow(d)
    BY <1>1, <1>2, <1>8, <1>9, ClosedPromise DEF c, closed
<1>10. ASSUME NEW d \in Delivery, d # c PROVE SameRow(d) \/ OpenedRow(d) \/ SettledRow(d)
    <2>1. closed[d] = delivery[d] /\ attempt'[d] = attempt[d] BY <1>3, <1>10
    <2>2. delivery'[d] = cancelled[d] \/ OpenedRow(d)
        <3>1. ASSUME notice \in NoticeEvent, fanout[notice].pc = "new",
                     delivery' = NotifyDisabled(notice, cancelled, endpoint')
              PROVE  delivery'[d] = cancelled[d] \/ OpenedRow(d)
            <4>1. /\ notice \in Event /\ fanout[notice].pc # "done"
                  /\ delivery'[d] = NotifyDisabled(notice, cancelled, endpoint')[d]
                BY <3>1 DEF Event
            <4> QED BY <1>6, <2>1, <4>1, NotifiedPromise
        <3> QED BY <1>4, <3>1
    <2> QED BY <1>5, <2>1, <2>2, CancelledPromise DEF cancelled
<1> QED BY <1>9, <1>10 DEF Promised

-----------------------------------------------------------------------------
(* The refinement.                                                           *)

\* A request made adds at most its acknowledgement; nothing else does.
Acked ==
    \/ acked' = acked
    \/ /\ UNCHANGED <<delivery, attempt>>
       /\ \E w \in Worker : /\ Busy(w)
                            /\ acked' = acked \cup {<<worker[w].current, worker[w].number>>}

LEMMA NextPromised ==
    ASSUME Base, Heard, Next
    PROVE  Promised /\ Acked
<1>q. ASSUME delivery' = delivery, attempt' = attempt PROVE Promised
    BY <1>q, QuietPromise DEF Promised
<1>1. ASSUME NEW ev \in DomainEvent, EnqueueReads(ev) \/ EnqueueCommits(ev)
      PROVE  Promised /\ acked' = acked
    <2>1. CASE EnqueueReads(ev) BY <2>1, <1>q DEF EnqueueReads
    <2>2. CASE EnqueueCommits(ev)
        <3>1. ev \in Event BY DEF Event
        <3> QED BY <2>2, <3>1, FannedOutPromise DEF EnqueueCommits
    <2> QED BY <1>1, <2>1, <2>2
<1>2. ASSUME NEW e \in Endpoint, NEW types \in SUBSET Offered[e],
             CreateCustomerWebhookEndpoint(e, types)
      PROVE  Promised /\ acked' = acked
    BY <1>2, <1>q DEF CreateCustomerWebhookEndpoint
<1>3. ASSUME NEW e \in Endpoint, NEW types \in SUBSET Offered[e], NEW enabled \in BOOLEAN,
             EnableOrResubscribe(e, enabled, types)
      PROVE  Promised /\ acked' = acked
    BY <1>3, <1>q DEF EnableOrResubscribe, Administers
<1>4. ASSUME NEW e \in Endpoint, NEW types \in SUBSET Offered[e], NEW ev \in NoticeEvent,
             DisableByOperator(e, types, ev)
      PROVE  Promised /\ acked' = acked
    BY <1>4, DisabledPromise DEF DisableByOperator, Administers
<1>5. ASSUME NEW e \in Endpoint, RotateCustomerWebhookSigningSecret(e)
      PROVE  Promised /\ acked' = acked
    BY <1>5, <1>q DEF RotateCustomerWebhookSigningSecret, Administers
<1>6. ASSUME NEW d \in Delivery, ReplayCustomerWebhookDelivery(d)
      PROVE  Promised /\ acked' = acked
    BY <1>6, ReplayPromise DEF ReplayCustomerWebhookDelivery, Administers
<1>7. ASSUME NEW d \in Delivery, Lapses(d) PROVE Promised /\ acked' = acked
    BY <1>7, LapsePromise DEF Lapses
<1>8. ASSUME NEW w \in Worker, Abandons(w) \/ Crashes(w) PROVE Promised /\ acked' = acked
    BY <1>8, <1>q DEF Abandons, Crashes
<1>9. ASSUME NEW w \in Worker, PollStarts(w) PROVE Promised /\ acked' = acked
    BY <1>9, <1>q DEF PollStarts
<1>10. ASSUME NEW w \in Worker, NEW claims \in SUBSET {d \in Delivery : Claimable(d)},
              PollCommits(w, claims)
       PROVE  Promised /\ acked' = acked
    <2>1. claims \in SUBSET Delivery OBVIOUS
    <2>2. UNCHANGED <<endpoint, fanout, acked, changes, faults>>
        BY <1>10, Zenon DEF PollCommits
    <2> QED BY <1>10, <2>1, <2>2, CommitsPromise
<1>11. ASSUME NEW w \in Worker, NEW d \in Delivery, PrepareSkips(w, d)
       PROVE  Promised /\ acked' = acked
    BY <1>11, <1>q DEF PrepareSkips
<1>12. ASSUME NEW w \in Worker, NEW d \in Delivery, PrepareExhausts(w, d)
       PROVE  Promised /\ acked' = acked
    <2>1. acked' = acked BY <1>12 DEF PrepareExhausts
    <2> QED BY <1>12, <2>1, ExhaustsPromise
<1>13. ASSUME NEW w \in Worker, NEW d \in Delivery, PrepareReserves(w, d)
       PROVE  Promised /\ acked' = acked
    <2>1. acked' = acked BY <1>13 DEF PrepareReserves
    <2> QED BY <1>13, <2>1, ReservesPromise
<1>14. ASSUME NEW w \in Worker, NEW x \in Exchange, Posts(w, x) PROVE Promised /\ Acked
    <2>1. Promised BY <1>14, <1>q DEF Posts
    <2>2. Busy(w) /\ UNCHANGED <<delivery, attempt>> BY <1>14 DEF Posts, Busy
    <2>3. \/ acked' = acked
          \/ acked' = acked \cup {<<worker[w].current, worker[w].number>>}
        BY <1>14 DEF Posts
    <2> QED BY <2>1, <2>2, <2>3 DEF Acked
<1>15. ASSUME NEW w \in Worker, FinalizesTooLate(w) PROVE Promised /\ acked' = acked
    BY <1>15, <1>q DEF FinalizesTooLate, Finalizes
<1>16. ASSUME NEW w \in Worker,
              \/ FinalizesDisabled(w) \/ FinalizesDelivered(w)
              \/ FinalizesRetry(w) \/ FinalizesFailed(w)
       PROVE  Promised /\ acked' = acked
    <2>1. Closes(w)
        BY <1>16 DEF FinalizesDisabled, FinalizesDelivered, FinalizesRetry, FinalizesFailed
    <2> QED BY <1>16, <2>1, ClosingPromise DEF Closes, Finalizes
<1>17. ASSUME NEW w \in Worker, NEW notice \in NoticeEvent \cup {None}, FinalizesDisabling(w, notice)
       PROVE  Promised /\ acked' = acked
    <2>1. acked' = acked BY <1>17 DEF FinalizesDisabling, Closes, Finalizes
    <2> QED BY <1>17, <2>1, DisablingPromise
<1>18. ASSUME NEW w \in Worker, WorkerNext(w) PROVE Promised /\ Acked
    BY <1>9, <1>10, <1>11, <1>12, <1>13, <1>14, <1>15, <1>16, <1>17, <1>18 DEF WorkerNext, Acked
<1>19. ASSUME AdministrationNext PROVE Promised /\ acked' = acked
    BY <1>2, <1>3, <1>4, <1>5, <1>19 DEF AdministrationNext
<1> QED BY <1>1, <1>6, <1>7, <1>8, <1>18, <1>19 DEF Next, Acked

LEMMA HeardNext ==
    ASSUME Base, Heard, Next
    PROVE  Heard'
<1> SUFFICES ASSUME NEW v \in Worker, worker'[v].pc = "finalizing", worker'[v].outcome = "delivered"
             PROVE  <<worker'[v].current, worker'[v].number>> \in acked'
    BY DEF Heard
<1>1. acked \subseteq acked' BY NextPromised DEF Acked
<1>2. CASE worker'[v] = worker[v] BY <1>1, <1>2 DEF Heard
<1>3. ASSUME NEW x \in Exchange, Posts(v, x) PROVE <<worker'[v].current, worker'[v].number>> \in acked'
    <2> DEFINE n == worker[v].number
               o == AttemptDecision(n, MaxAttempts, x).outcome
               row == [worker[v] EXCEPT !.pc = "finalizing", !.outcome = o]
    <2>1. worker' = [worker EXCEPT ![v] = row] BY <1>3 DEF Posts
    <2>a. Acknowledges(x) => acked' = acked \cup {<<worker[v].current, n>>} BY <1>3 DEF Posts
    <2>2. o = "delivered" => Acknowledges(x) BY Decisions
    <2> HIDE DEF n, o
    <2>3. row.outcome = o /\ row.current = worker[v].current /\ row.number = worker[v].number
        BY BaseFacts DEF WorkerType
    <2> HIDE DEF row
    <2>4. worker'[v] = row BY <2>1, BaseFacts
    <2>5. <<worker[v].current, n>> \in acked' BY <2>2, <2>3, <2>4, <2>a
    <2> QED BY <2>3, <2>4, <2>5 DEF n
<1>4. ASSUME NEW w \in Worker, NEW r, worker' = [worker EXCEPT ![w] = r], r.pc # "finalizing"
      PROVE  worker'[v] = worker[v]
    BY <1>4, BaseFacts
<1>5. ASSUME NEW w \in Worker, NEW x \in Exchange, Posts(w, x), w # v PROVE worker'[v] = worker[v]
    BY <1>5, BaseFacts DEF Posts
<1>6. ASSUME NEW w \in Worker, NEW batch \in SUBSET Delivery,
             worker' = [worker EXCEPT ![w] = After(w, batch)]
      PROVE  worker'[v] = worker[v]
    <2>1. After(w, batch).pc # "finalizing" BY AfterIsIdle
    <2> QED BY <1>4, <1>6, <2>1
<1>b. \A w \in Worker : worker[w].batch \in SUBSET Delivery BY BaseFacts DEF WorkerType
<1>7. ASSUME NEW w \in Worker, PollStarts(w) PROVE worker'[v] = worker[v]
    <2> DEFINE expired == {d \in Delivery : Expired(d)}
               buffered == {a \in Delivery \X AttemptNumber :
                              /\ Disabled(a[1]) /\ Expired(a[1])
                              /\ a[2] = delivery[a[1]].count + 1
                              /\ attempt[a[1]][a[2]] = "open"}
               row == [worker[w] EXCEPT !.pc = "polling", !.expired = expired, !.buffered = buffered]
    <2>1. worker' = [worker EXCEPT ![w] = row] BY <1>7 DEF PollStarts
    <2> HIDE DEF expired, buffered
    <2>2. row.pc = "polling" BY BaseFacts DEF WorkerType
    <2> HIDE DEF row
    <2> QED BY <1>4, <2>1, <2>2
<1>8. ASSUME NEW w \in Worker, NEW d \in Delivery, PrepareReserves(w, d) PROVE worker'[v] = worker[v]
    <2> DEFINE n == NextNumber(d)
               batch == worker[w].batch \ {d}
               row == [worker[w] EXCEPT !.pc = "posting", !.batch = batch, !.current = d, !.number = n]
    <2>1. worker' = [worker EXCEPT ![w] = row] BY <1>8 DEF PrepareReserves
    <2> HIDE DEF n, batch
    <2>2. row.pc = "posting" BY BaseFacts DEF WorkerType
    <2> HIDE DEF row
    <2> QED BY <1>4, <2>1, <2>2
<1>9. ASSUME NEW w \in Worker, WorkerNext(w), \A x \in Exchange : ~Posts(w, x)
      PROVE  worker'[v] = worker[v]
    <2>1. ASSUME NEW claims \in SUBSET {d \in Delivery : Claimable(d)}, PollCommits(w, claims)
          PROVE  worker'[v] = worker[v]
        <3>1. worker' = [worker EXCEPT ![w] = IF claims = {} THEN Idle
                                    ELSE [Idle EXCEPT !.pc = "working", !.batch = claims]]
            BY <2>1, Zenon DEF PollCommits
        <3>2. worker' = [worker EXCEPT ![w] = After(w, claims)] BY <3>1 DEF After
        <3> QED BY <1>6, <3>2
    <2>2. ASSUME NEW d \in Delivery, PrepareSkips(w, d) \/ PrepareExhausts(w, d)
          PROVE  worker'[v] = worker[v]
        <3>1. worker' = [worker EXCEPT ![w] = After(w, worker[w].batch \ {d})]
            BY <2>2 DEF PrepareSkips, PrepareExhausts
        <3>2. worker[w].batch \ {d} \in SUBSET Delivery BY <1>b
        <3> QED BY <1>6, <3>1, <3>2
    <2>3. ASSUME Finalizes(w) PROVE worker'[v] = worker[v] BY <2>3, <1>6, <1>b DEF Finalizes
    <2> QED
        BY <1>7, <1>8, <1>9, <2>1, <2>2, <2>3
        DEF WorkerNext, FinalizesTooLate, FinalizesDisabled, FinalizesDelivered, FinalizesRetry,
            FinalizesFailed, FinalizesDisabling, Closes
<1>10. ASSUME NEW w \in Worker, Abandons(w) PROVE worker'[v] = worker[v]
    BY <1>10, <1>6, <1>b DEF Abandons
<1>11. ASSUME NEW w \in Worker, Crashes(w) PROVE worker'[v] = worker[v]
    BY <1>11, <1>4, IdleWorkers DEF Crashes
<1>12. ASSUME \A w \in Worker : ~(WorkerNext(w) \/ Abandons(w) \/ Crashes(w))
       PROVE  worker'[v] = worker[v]
    <2>1. \A ev : EnqueueReads(ev) \/ EnqueueCommits(ev) => worker' = worker
        BY DEF EnqueueReads, EnqueueCommits
    <2>2. AdministrationNext => worker' = worker
        <3>1. \A e, types : CreateCustomerWebhookEndpoint(e, types) => worker' = worker
            BY DEF CreateCustomerWebhookEndpoint
        <3>2. \A e, enabled, types : EnableOrResubscribe(e, enabled, types) => worker' = worker
            BY DEF EnableOrResubscribe, Administers
        <3>3. \A e, types, ev : DisableByOperator(e, types, ev) => worker' = worker
            BY DEF DisableByOperator, Administers
        <3>4. \A e : RotateCustomerWebhookSigningSecret(e) => worker' = worker
            BY DEF RotateCustomerWebhookSigningSecret, Administers
        <3> QED BY <3>1, <3>2, <3>3, <3>4 DEF AdministrationNext
    <2>3. \A d : ReplayCustomerWebhookDelivery(d) => worker' = worker
        BY DEF ReplayCustomerWebhookDelivery, Administers
    <2>4. \A d : Lapses(d) => worker' = worker BY DEF Lapses
    <2> QED BY <1>12, <2>1, <2>2, <2>3, <2>4 DEF Next
<1>13. ASSUME NEW w \in Worker, WorkerNext(w) PROVE <<worker'[v].current, worker'[v].number>> \in acked'
    BY <1>2, <1>3, <1>5, <1>9, <1>13
<1> QED BY <1>2, <1>10, <1>11, <1>12, <1>13


\* The delivery that a promise of the contract is about.
Row(p) == <<p[1][1], p[1][2], p[2]>>
PhaseOf(status) ==
    CASE status = "none" -> "none"
      [] status \in {"PENDING", "PROCESSING"} -> "open"
      [] status = "DELIVERED" -> "delivered"
      [] status = "FAILED" -> "failed"
      [] status = "CANCELED" -> "cancelled"

LEMMA PromisedRows ==
    ASSUME NEW p \in Contract!Promise
    PROVE  /\ Row(p) \in Delivery /\ Row(p)[3] = p[2] /\ p[2] \in 1..MaxGeneration
           /\ \A g \in 1..(p[2] - 1) : /\ <<p[1], g>> \in Contract!Promise
                                       /\ Row(<<p[1], g>>) = <<Row(p)[1], Row(p)[2], g>>
<1>1. /\ p[1] \in Endpoint \X Event /\ p[2] \in 1..MaxGeneration
      /\ p[1][1] \in Endpoint /\ p[1][2] \in Event
    BY DEF Contract!Promise
<1>2. \A g \in 1..(p[2] - 1) : g \in 1..MaxGeneration BY <1>1, Numbers
<1> QED BY <1>1, <1>2 DEF Row, Delivery, Contract!Promise

\* The attempts made are the first so many, and those open come last.
LEMMA TriedNumbers ==
    ASSUME Base, NEW d \in Delivery
    PROVE  /\ IsFiniteSet(Tried(d)) /\ Cardinality(Tried(d)) \in 0..MaxAttempts
           /\ Tried(d) = 1..Cardinality(Tried(d))
<1>1. PICK m \in 0..MaxAttempts : Tried(d) = 1..m BY Counted
<1>2. 1 \in Int /\ m \in Int /\ m \in Nat BY Numbers
<1>3. IsFiniteSet(1..m) /\ Cardinality(1..m) = IF 1 > m THEN 0 ELSE m - 1 + 1
    BY <1>2, FS_Interval
<1>4. Cardinality(1..m) = m BY <1>2, <1>3
<1> QED BY <1>1, <1>3, <1>4

AckedAt(p) == {n \in AttemptNumber : <<Row(p), n>> \in acked}
TriesOf(d) == Cardinality(Tried(d))

\* The contract's variables at one promise.
LEMMA Mapped ==
    ASSUME NEW p \in Contract!Promise
    PROVE  /\ \A a, b : Contract!Moves(p, a, b) <=>
                  PhaseOf(delivery[Row(p)].status) = a /\ PhaseOf(delivery'[Row(p)].status) = b
           /\ Contract!Signs(p) <=> delivery'[Row(p)].secret = delivery[Row(p)].secret
           /\ Contract!Keeps(p) <=> TriesOf(Row(p))' = TriesOf(Row(p)) /\ AckedAt(p)' = AckedAt(p)
           /\ Contract!Same(p) <=>
                  /\ PhaseOf(delivery'[Row(p)].status) = PhaseOf(delivery[Row(p)].status)
                  /\ Contract!Keeps(p) /\ Contract!Signs(p)
           /\ Contract!Acknowledges(p) <=>
                  /\ PhaseOf(delivery'[Row(p)].status) = PhaseOf(delivery[Row(p)].status)
                  /\ TriesOf(Row(p))' = TriesOf(Row(p))
                  /\ \E n \in 1..TriesOf(Row(p)) : AckedAt(p)' = AckedAt(p) \cup {n}
                  /\ Contract!Signs(p)
<1>1. ASSUME NEW a, NEW b
      PROVE  Contract!Moves(p, a, b) <=>
                 PhaseOf(delivery[Row(p)].status) = a /\ PhaseOf(delivery'[Row(p)].status) = b
    BY DEF Contract!Promise, Contract!Moves, PhaseOf, Row
<1>2. Contract!Signs(p) <=> delivery'[Row(p)].secret = delivery[Row(p)].secret
    BY DEF Contract!Promise, Contract!Signs, Row
<1>3. Contract!Keeps(p) <=> TriesOf(Row(p))' = TriesOf(Row(p)) /\ AckedAt(p)' = AckedAt(p)
    BY DEF Contract!Promise, Contract!Keeps, Row, TriesOf, Tried, AckedAt
<1>4. Contract!Same(p) <=>
          /\ PhaseOf(delivery'[Row(p)].status) = PhaseOf(delivery[Row(p)].status)
          /\ Contract!Keeps(p) /\ Contract!Signs(p)
    <2>1. Contract!Same(p) <=> (\E a : Contract!Moves(p, a, a)) /\ Contract!Keeps(p) /\ Contract!Signs(p)
        BY Zenon DEF Contract!Same, Contract!Moves
    <2>2. (\E a : Contract!Moves(p, a, a)) <=>
              PhaseOf(delivery'[Row(p)].status) = PhaseOf(delivery[Row(p)].status)
        BY <1>1, Zenon
    <2> QED BY <2>1, <2>2
<1>5. Contract!Acknowledges(p) <=>
          /\ PhaseOf(delivery'[Row(p)].status) = PhaseOf(delivery[Row(p)].status)
          /\ TriesOf(Row(p))' = TriesOf(Row(p))
          /\ \E n \in 1..TriesOf(Row(p)) : AckedAt(p)' = AckedAt(p) \cup {n}
          /\ Contract!Signs(p)
    <2>1. Contract!Acknowledges(p) <=>
              /\ \E a : Contract!Moves(p, a, a)
              /\ TriesOf(Row(p))' = TriesOf(Row(p))
              /\ \E n \in 1..TriesOf(Row(p)) : AckedAt(p)' = AckedAt(p) \cup {n}
              /\ Contract!Signs(p)
        BY DEF Contract!Promise, Contract!Acknowledges, Contract!Moves, Row, TriesOf, Tried, AckedAt
    <2>2. (\E a : Contract!Moves(p, a, a)) <=>
              PhaseOf(delivery'[Row(p)].status) = PhaseOf(delivery[Row(p)].status)
        BY <1>1, Zenon
    <2> QED BY <2>1, <2>2
<1> QED BY <1>1, <1>2, <1>3, <1>4, <1>5

LEMMA SameMapped ==
    ASSUME NEW p \in Contract!Promise, SameRow(Row(p)), AckedAt(p)' = AckedAt(p)
    PROVE  Contract!Same(p)
<1> DEFINE d == Row(p)
<1>1. PhaseOf(delivery'[d].status) = PhaseOf(delivery[d].status)
    BY DEF SameRow, InHand, PhaseOf
<1>2. TriesOf(d)' = TriesOf(d) BY DEF SameRow, TriesOf
<1>3. Contract!Keeps(p) /\ Contract!Signs(p) BY <1>2, Mapped DEF SameRow
<1> QED BY <1>1, <1>3, Mapped

LEMMA OpenedMapped ==
    ASSUME NEW p \in Contract!Promise, OpenedRow(Row(p)), AckedAt(p)' = AckedAt(p)
    PROVE  Contract!Opens(p)
<1> DEFINE d == Row(p)
<1>1. Contract!Moves(p, "none", "open") BY Mapped DEF OpenedRow, PhaseOf
<1>2. TriesOf(d)' = TriesOf(d) BY DEF OpenedRow, TriesOf
<1>3. Contract!Keeps(p) BY <1>2, Mapped
<1>4. delivery'[d].secret # 0 BY DEF OpenedRow
<1>5. ASSUME p[2] > 1
      PROVE  \E g \in 1..(p[2] - 1) : PhaseOf(delivery[Row(<<p[1], g>>)].status) = "failed"
    <2>1. p[2] # 1 /\ d[3] = p[2] BY <1>5, PromisedRows
    <2>2. PICK g \in 1..(p[2] - 1) : delivery[<<d[1], d[2], g>>].status = "FAILED"
        BY <2>1 DEF OpenedRow
    <2>3. Row(<<p[1], g>>) = <<d[1], d[2], g>> BY PromisedRows
    <2>4. PhaseOf("FAILED") = "failed" BY DEF PhaseOf
    <2> QED BY <2>2, <2>3, <2>4
<1>6. \A g \in 1..(p[2] - 1) : <<p[1], g>> \in Contract!Promise BY PromisedRows
<1> QED BY <1>1, <1>3, <1>4, <1>5, <1>6 DEF Contract!Opens, Contract!Promise, PhaseOf, Row

LEMMA TriedMapped ==
    ASSUME Base, NEW p \in Contract!Promise, TriedRow(Row(p)), AckedAt(p)' = AckedAt(p)
    PROVE  Contract!Tries(p)
<1> DEFINE d == Row(p)
<1>1. Contract!Moves(p, "open", "open") BY Mapped DEF TriedRow, InHand, PhaseOf
<1>2. Contract!Signs(p) BY Mapped DEF TriedRow
<1>3. PICK n \in AttemptNumber : n \notin Tried(d) /\ Tried(d)' = Tried(d) \cup {n} BY DEF TriedRow
<1>4. d \in Delivery BY PromisedRows
<1>5. TriesOf(d) \in 0..MaxAttempts /\ IsFiniteSet(Tried(d)) BY <1>4, TriedNumbers DEF TriesOf
<1>6. TriesOf(d)' = TriesOf(d) + 1 BY <1>3, <1>5, FS_AddElement DEF TriesOf
<1>7. TriesOf(d) < MaxAttempts
    <2>1. Tried(d) \cup {n} \subseteq 1..MaxAttempts BY DEF Tried, AttemptNumber
    <2>2. IsFiniteSet(1..MaxAttempts) /\ Cardinality(1..MaxAttempts) = MaxAttempts
        BY Numbers, FS_Interval
    <2>3. TriesOf(d) + 1 <= MaxAttempts
        <3>1. Cardinality(Tried(d) \cup {n}) <= Cardinality(1..MaxAttempts)
            BY <2>1, <2>2, FS_Subset
        <3>2. Cardinality(Tried(d) \cup {n}) = TriesOf(d) + 1
            BY <1>3, <1>5, FS_AddElement DEF TriesOf
        <3> QED BY <2>2, <3>1, <3>2
    <2> QED BY <1>5, <2>3, Numbers
<1> QED BY <1>1, <1>2, <1>6, <1>7
    DEF Contract!Tries, Contract!Promise, Row, TriesOf, Tried, AckedAt

LEMMA SettledMapped ==
    ASSUME Base, NEW p \in Contract!Promise, SettledRow(Row(p)), AckedAt(p)' = AckedAt(p)
    PROVE  Contract!Settles(p)
<1> DEFINE d == Row(p)
<1>1. TriesOf(d)' = TriesOf(d) BY DEF SettledRow, TriesOf
<1>2. Contract!Keeps(p) /\ Contract!Signs(p) BY <1>1, Mapped DEF SettledRow
<1>3. /\ PhaseOf(delivery[d].status) = "open"
      /\ \/ delivery'[d].status = "DELIVERED" /\ PhaseOf(delivery'[d].status) = "delivered"
         \/ PhaseOf(delivery'[d].status) \in {"failed", "cancelled"}
    BY DEF SettledRow, InHand, Terminal, PhaseOf
<1>4. delivery'[d].status = "DELIVERED" => AckedAt(p) # {} BY DEF SettledRow, AckedAt
<1>5. \/ Contract!Moves(p, "open", "delivered") /\ AckedAt(p) # {}
      \/ Contract!Moves(p, "open", "failed")
      \/ Contract!Moves(p, "open", "cancelled")
    BY <1>3, <1>4, Mapped
<1> QED BY <1>2, <1>5 DEF Contract!Settles, Contract!Promise, Row, AckedAt

\* Every step keeps the promise of every delivery.
LEMMA ContractStep == ASSUME Base, Heard, Next PROVE Contract!Next
<1>1. Promised /\ Acked BY NextPromised
<1>2. \A p \in Contract!Promise : Row(p) \in Delivery BY PromisedRows
<1>3. CASE acked' = acked
    <2>1. \A p \in Contract!Promise : AckedAt(p)' = AckedAt(p) BY <1>3 DEF AckedAt
    <2> QED
        BY <1>1, <1>2, <2>1, SameMapped, OpenedMapped, TriedMapped, SettledMapped
        DEF Promised, Contract!Next
<1>4. ASSUME UNCHANGED <<delivery, attempt>>, NEW w \in Worker, Busy(w),
             acked' = acked \cup {<<worker[w].current, worker[w].number>>}
      PROVE  Contract!Next
    <2> SUFFICES ASSUME NEW p \in Contract!Promise
                 PROVE  Contract!Acknowledges(p) \/ Contract!Same(p)
        BY DEF Contract!Next
    <2> DEFINE d == Row(p)
               n == worker[w].number
    <2>1. d \in Delivery /\ SameRow(d) BY <1>2, <1>4, QuietPromise
    <2>2. n \in AttemptNumber /\ attempt[worker[w].current][n] # None
        BY <1>4, BaseFacts DEF Workers
    <2>3. CASE worker[w].current # d
        <3>1. AckedAt(p)' = AckedAt(p) BY <1>4, <2>3 DEF AckedAt
        <3> QED BY <2>1, <3>1, SameMapped
    <2>4. CASE worker[w].current = d
        <3>1. AckedAt(p)' = AckedAt(p) \cup {n} BY <1>4, <2>2, <2>4 DEF AckedAt
        <3>2. n \in 1..TriesOf(d)
            BY <2>1, <2>2, <2>4, TriedNumbers DEF TriesOf, Tried
        <3>3. TriesOf(d)' = TriesOf(d) BY <2>1 DEF SameRow, TriesOf
        <3>4. delivery' = delivery BY <1>4
        <3>5. Contract!Signs(p) BY <3>4, Mapped
        <3> HIDE DEF n
        <3> QED BY <3>1, <3>2, <3>3, <3>4, <3>5, Mapped
    <2> QED BY <2>3, <2>4
<1> QED BY <1>1, <1>3, <1>4 DEF Acked

LEMMA ContractInit == Init => Contract!Init
<1> SUFFICES ASSUME Init PROVE Contract!Init OBVIOUS
<1>1. NoDelivery.status = "none" /\ NoDelivery.secret = 0 BY DEF NoDelivery
<1>2. \A p \in Contract!Promise :
         /\ PhaseOf(delivery[Row(p)].status) = "none" /\ delivery[Row(p)].secret = 0
         /\ Tried(Row(p)) = {} /\ AckedAt(p) = {}
    BY <1>1, PromisedRows DEF Init, PhaseOf, Tried, AckedAt
<1>3. Cardinality({}) = 0 BY FS_EmptySet
<1>4. \A p \in Contract!Promise : TriesOf(Row(p)) = 0 BY <1>2, <1>3 DEF TriesOf
<1> QED BY <1>2, <1>4 DEF Contract!Init, Contract!Promise, PhaseOf, Row, Tried, TriesOf, AckedAt

LEMMA SpecHeard == Spec => [](Base /\ Heard)
<1>1. Init => Base /\ Heard
    <2>1. Init => Heard BY IdleWorkers DEF Init, Heard
    <2> QED BY <2>1, InitInv
<1>2. Base /\ Heard /\ [Next]_vars => Base' /\ Heard'
    <2> SUFFICES ASSUME Base, Heard, [Next]_vars PROVE Base' /\ Heard' OBVIOUS
    <2>1. CASE Next BY <2>1, NextInv, HeardNext DEF Preserved
    <2>2. CASE UNCHANGED vars
        <3>1. Base' BY <2>2, StutterInv DEF Preserved
        <3>2. Heard' BY <2>2 DEF Heard, vars
        <3> QED BY <3>1, <3>2
    <2> QED BY <2>1, <2>2
<1> QED BY <1>1, <1>2, PTL DEF Spec

\* What customers are promised of their deliveries holds of the workers that
\* make them: each generation of an event's delivery to an endpoint is opened
\* once, a later one only after an earlier one failed; at most MaxAttempts
\* requests are made for it, all signed with the secret it was opened with; it
\* is called delivered only when its receiver acknowledged one of them; and
\* what settled stays settled, whatever crashes, lapsed leases, disablements
\* and rotations come between.
THEOREM DeliveriesKeepContract == Spec => ImplementsContract
<1>1. Init => Contract!Init BY ContractInit
<1>2. Base /\ Heard /\ [Next]_vars => [Contract!Next]_(Contract!vars)
    <2> SUFFICES ASSUME Base, Heard, [Next]_vars PROVE [Contract!Next]_(Contract!vars)
        OBVIOUS
    <2>1. CASE Next BY <2>1, ContractStep
    <2>2. CASE UNCHANGED vars
        <3>1. UNCHANGED Contract!vars BY <2>2 DEF vars, Contract!vars
        <3> QED BY <3>1
    <2> QED BY <2>1, <2>2
<1> QED BY <1>1, <1>2, SpecHeard, PTL DEF Spec, ImplementsContract, Contract!Spec

\* A delivery that is called delivered was acknowledged: some attempt of its
\* own was answered with a 2xx (worker.ts, finalize), whoever posted it and
\* whoever claimed the delivery since.
THEOREM DeliveredIsAcknowledged ==
    Spec => [](\A d \in Delivery : delivery[d].status = "DELIVERED" =>
                  \E n \in AttemptNumber : <<d, n>> \in acked)
<1> DEFINE Delivered == \A d \in Delivery : delivery[d].status = "DELIVERED" =>
                            \E n \in AttemptNumber : <<d, n>> \in acked
<1>1. Init => Delivered BY DEF Init, NoDelivery
<1>2. ASSUME Base, Heard, Delivered, Next PROVE Delivered'
    <2>1. Promised /\ acked \subseteq acked' BY <1>2, NextPromised DEF Acked
    <2> SUFFICES ASSUME NEW d \in Delivery, delivery'[d].status = "DELIVERED"
                 PROVE  \E n \in AttemptNumber : <<d, n>> \in acked'
        OBVIOUS
    <2>2. delivery[d].status = "DELIVERED" \/ SettledRow(d)
        BY <2>1 DEF Promised, SameRow, OpenedRow, TriedRow, InHand
    <2>3. \E n \in AttemptNumber : <<d, n>> \in acked BY <1>2, <2>2 DEF SettledRow
    <2> QED BY <2>1, <2>3
<1>3. Delivered /\ UNCHANGED vars => Delivered' BY DEF vars
<1> HIDE DEF Delivered
<1>4. Base /\ Heard /\ Delivered /\ [Next]_vars => Delivered' BY <1>2, <1>3
<1>5. Spec => []Delivered BY <1>1, <1>4, SpecHeard, PTL DEF Spec
<1> QED BY <1>5 DEF Delivered

-----------------------------------------------------------------------------
(* The policy.                                                               *)

\* An IPv4 address, octet by octet; the prefixes of the refused networks.
Address == [1..4 -> 0..255]
Prefix == {4, 8, 10, 12, 15, 16, 24}

\* How many values of octet i share a prefix's bits.
Width(prefix) ==
    CASE prefix = 4 -> <<16, 256, 256, 256>>
      [] prefix = 8 -> <<1, 256, 256, 256>>
      [] prefix = 10 -> <<1, 64, 256, 256>>
      [] prefix = 12 -> <<1, 16, 256, 256>>
      [] prefix = 15 -> <<1, 2, 256, 256>>
      [] prefix = 16 -> <<1, 1, 256, 256>>
      [] prefix = 24 -> <<1, 1, 1, 256>>

LEMMA Widths ==
    ASSUME NEW prefix \in Prefix, NEW i \in 1..4
    PROVE  2^(8 - GreaterOf(0, SmallerOf(8, prefix - 8 * (i - 1)))) = Width(prefix)[i]
<1> DEFINE bits == GreaterOf(0, SmallerOf(8, prefix - 8 * (i - 1)))
<1>1. /\ 2^(8 - 8) = 1 /\ 2^(8 - 7) = 2 /\ 2^(8 - 4) = 16 /\ 2^(8 - 2) = 64
      /\ 2^(8 - 0) = 256
    OBVIOUS
<1>2. \/ bits = 8 /\ Width(prefix)[i] = 1 
      \/ bits = 7 /\ Width(prefix)[i] = 2
      \/ bits = 4 /\ Width(prefix)[i] = 16
      \/ bits = 2 /\ Width(prefix)[i] = 64
      \/ bits = 0 /\ Width(prefix)[i] = 256
    <2>1. i = 1 \/ i = 2 \/ i = 3 \/ i = 4 OBVIOUS
    <2>2. CASE i = 1 BY <2>2 DEF Prefix, Width, GreaterOf, SmallerOf
    <2>3. CASE i = 2 BY <2>3 DEF Prefix, Width, GreaterOf, SmallerOf
    <2>4. CASE i = 3 BY <2>4 DEF Prefix, Width, GreaterOf, SmallerOf
    <2>5. CASE i = 4 BY <2>5 DEF Prefix, Width, GreaterOf, SmallerOf
    <2> QED BY <2>1, <2>2, <2>3, <2>4, <2>5
<1> HIDE DEF bits
<1>3. 2^(8 - bits) = Width(prefix)[i] BY <1>1, <1>2
<1> QED BY <1>3 DEF bits

Octet == 0..255
Sizes == {1, 2, 16, 64, 256}

\* Octets that agree on their first bits are those of one interval.
LEMMA OctetInterval ==
    ASSUME NEW x \in Octet, NEW y \in Octet, NEW w \in Sizes, y % w = 0
    PROVE  x \div w = y \div w <=> y <= x /\ x <= y + w - 1
<1>1. CASE w = 1 BY <1>1 DEF Octet
<1>2. CASE w = 2 BY <1>2 DEF Octet
<1>3. CASE w = 16 BY <1>3 DEF Octet
<1>4. CASE w = 64 BY <1>4 DEF Octet
<1>5. CASE w = 256 BY <1>5 DEF Octet
<1> QED BY <1>1, <1>2, <1>3, <1>4, <1>5 DEF Sizes

LEMMA OctetEnd ==
    ASSUME NEW y \in Octet, NEW w \in Sizes, y % w = 0
    PROVE  y + w - 1 \in Octet
<1>1. CASE w = 1 BY <1>1 DEF Octet
<1>2. CASE w = 2 BY <1>2 DEF Octet
<1>3. CASE w = 16 BY <1>3 DEF Octet
<1>4. CASE w = 64 BY <1>4 DEF Octet
<1>5. CASE w = 256 BY <1>5 DEF Octet
<1> QED BY <1>1, <1>2, <1>3, <1>4, <1>5 DEF Sizes

\* The order of addresses, octet by octet.
LEMMA UpToOctets ==
    ASSUME NEW a \in Address, NEW b \in Address
    PROVE  UpTo(a, b) <=>
             \/ a[1] < b[1]
             \/ a[1] = b[1] /\ a[2] < b[2]
             \/ a[1] = b[1] /\ a[2] = b[2] /\ a[3] < b[3]
             \/ a[1] = b[1] /\ a[2] = b[2] /\ a[3] = b[3] /\ a[4] <= b[4]
<1>1. /\ a[1] \in 0..255 /\ a[2] \in 0..255 /\ a[3] \in 0..255 /\ a[4] \in 0..255
      /\ b[1] \in 0..255 /\ b[2] \in 0..255 /\ b[3] \in 0..255 /\ b[4] \in 0..255
    BY DEF Address
<1>2. a = b <=> a[1] = b[1] /\ a[2] = b[2] /\ a[3] = b[3] /\ a[4] = b[4]
    <2>1. \A i \in 1..4 : i = 1 \/ i = 2 \/ i = 3 \/ i = 4 OBVIOUS
    <2> QED BY <2>1 DEF Address
<1>3. (\E i \in 1..4 : a[i] < b[i] /\ \A j \in 1..(i - 1) : a[j] = b[j]) <=>
        \/ a[1] < b[1]
        \/ a[1] = b[1] /\ a[2] < b[2]
        \/ a[1] = b[1] /\ a[2] = b[2] /\ a[3] < b[3]
        \/ a[1] = b[1] /\ a[2] = b[2] /\ a[3] = b[3] /\ a[4] < b[4]
    <2> DEFINE P(i) == a[i] < b[i] /\ \A j \in 1..(i - 1) : a[j] = b[j]
    <2>1. (\E i \in 1..4 : P(i)) <=> P(1) \/ P(2) \/ P(3) \/ P(4)
        <3>1. \A i \in 1..4 : i = 1 \/ i = 2 \/ i = 3 \/ i = 4 OBVIOUS
        <3>2. {1, 2, 3, 4} \subseteq 1..4 OBVIOUS
        <3> HIDE DEF P
        <3> QED BY <3>1, <3>2
    <2>2. P(1) <=> a[1] < b[1] OBVIOUS
    <2>3. P(2) <=> a[1] = b[1] /\ a[2] < b[2] OBVIOUS
    <2>4. P(3) <=> a[1] = b[1] /\ a[2] = b[2] /\ a[3] < b[3] OBVIOUS
    <2>5. P(4) <=> a[1] = b[1] /\ a[2] = b[2] /\ a[3] = b[3] /\ a[4] < b[4] OBVIOUS
    <2> HIDE DEF P
    <2>6. (\E i \in 1..4 : P(i)) <=>
            \/ a[1] < b[1]
            \/ a[1] = b[1] /\ a[2] < b[2]
            \/ a[1] = b[1] /\ a[2] = b[2] /\ a[3] < b[3]
            \/ a[1] = b[1] /\ a[2] = b[2] /\ a[3] = b[3] /\ a[4] < b[4]
        BY <2>1, <2>2, <2>3, <2>4, <2>5
    <2> QED BY <2>6 DEF P
<1>4. UpTo(a, b) <=> a = b \/ \E i \in 1..4 : a[i] < b[i] /\ \A j \in 1..(i - 1) : a[j] = b[j]
    BY DEF UpTo
<1> DEFINE Before == \E i \in 1..4 : a[i] < b[i] /\ \A j \in 1..(i - 1) : a[j] = b[j]
           Equal == a = b
<1>5. UpTo(a, b) <=> Equal \/ Before BY <1>4
<1>6. Before <=>
        \/ a[1] < b[1]
        \/ a[1] = b[1] /\ a[2] < b[2]
        \/ a[1] = b[1] /\ a[2] = b[2] /\ a[3] < b[3]
        \/ a[1] = b[1] /\ a[2] = b[2] /\ a[3] = b[3] /\ a[4] < b[4]
    BY <1>3
<1>7. Equal <=> a[1] = b[1] /\ a[2] = b[2] /\ a[3] = b[3] /\ a[4] = b[4] BY <1>2
<1> HIDE DEF Before, Equal
<1>8. UpTo(a, b) <=>
        \/ a[1] = b[1] /\ a[2] = b[2] /\ a[3] = b[3] /\ a[4] = b[4]
        \/ a[1] < b[1]
        \/ a[1] = b[1] /\ a[2] < b[2]
        \/ a[1] = b[1] /\ a[2] = b[2] /\ a[3] < b[3]
        \/ a[1] = b[1] /\ a[2] = b[2] /\ a[3] = b[3] /\ a[4] < b[4]
    BY <1>5, <1>6, <1>7, Zenon
<1>9. a[4] <= b[4] <=> a[4] < b[4] \/ a[4] = b[4]
    <2> DEFINE x == a[4]
               y == b[4]
    <2>1. x \in Int /\ y \in Int BY <1>1
    <2> HIDE DEF x, y
    <2>2. x <= y <=> x < y \/ x = y BY <2>1
    <2> QED BY <2>2 DEF x, y
<1> QED BY <1>8, <1>9, Zenon

\* Widths go up from 1 to 256, and only one octet is in between.
LEMMA WidthShapes ==
    ASSUME NEW prefix \in Prefix
    PROVE  /\ \A i \in 1..4 : Width(prefix)[i] \in Sizes
           /\ \E k \in 1..4 : /\ \A i \in 1..4 : i < k => Width(prefix)[i] = 1
                              /\ \A i \in 1..4 : i > k => Width(prefix)[i] = 256
<1>1. \A i \in 1..4 : i = 1 \/ i = 2 \/ i = 3 \/ i = 4 OBVIOUS
<1>2. ASSUME NEW k \in 1..4, NEW w1, NEW w2, NEW w3, NEW w4,
             Width(prefix) = <<w1, w2, w3, w4>>,
             {w1, w2, w3, w4} \subseteq Sizes,
             1 < k => w1 = 1, 2 < k => w2 = 1, 3 < k => w3 = 1,
             k < 2 => w2 = 256, k < 3 => w3 = 256, k < 4 => w4 = 256
      PROVE  /\ \A i \in 1..4 : Width(prefix)[i] \in Sizes
             /\ \E j \in 1..4 : /\ \A i \in 1..4 : i < j => Width(prefix)[i] = 1
                                /\ \A i \in 1..4 : i > j => Width(prefix)[i] = 256
    <2>1. /\ Width(prefix)[1] = w1 /\ Width(prefix)[2] = w2
          /\ Width(prefix)[3] = w3 /\ Width(prefix)[4] = w4
        BY <1>2
    <2>2. \A i \in 1..4 : Width(prefix)[i] \in Sizes BY <1>1, <1>2, <2>1
    <2>3. \A i \in 1..4 : i < k => Width(prefix)[i] = 1 BY <1>1, <1>2, <2>1
    <2>4. \A i \in 1..4 : i > k => Width(prefix)[i] = 256 BY <1>1, <1>2, <2>1
    <2> QED BY <2>2, <2>3, <2>4
<1>3. CASE prefix = 4
    <2>1. Width(prefix) = <<16, 256, 256, 256>> BY <1>3 DEF Width
    <2> QED BY <1>2, <2>1 DEF Sizes
<1>4. CASE prefix = 8
    <2>1. Width(prefix) = <<1, 256, 256, 256>> BY <1>4 DEF Width
    <2> QED BY <1>2, <2>1 DEF Sizes
<1>5. CASE prefix \in {10, 12, 15, 16}
    <2>1. \E w \in {1, 2, 16, 64} : Width(prefix) = <<1, w, 256, 256>> BY <1>5 DEF Width
    <2> QED BY <1>2, <2>1 DEF Sizes
<1>6. CASE prefix = 24
    <2>1. Width(prefix) = <<1, 1, 1, 256>> BY <1>6 DEF Width
    <2> QED BY <1>2, <2>1 DEF Sizes
<1> QED BY <1>3, <1>4, <1>5, <1>6 DEF Prefix

LEMMA Interval ==
    ASSUME NEW a \in Address, NEW low \in Address, NEW high \in Address, NEW k \in 1..4,
           \A i \in 1..4 : /\ i < k => low[i] = high[i]
                           /\ i > k => low[i] = 0 /\ high[i] = 255
    PROVE  UpTo(low, a) /\ UpTo(a, high) <=> \A i \in 1..4 : low[i] <= a[i] /\ a[i] <= high[i]
<1>1. /\ a[1] \in 0..255 /\ a[2] \in 0..255 /\ a[3] \in 0..255 /\ a[4] \in 0..255
      /\ low[1] \in 0..255 /\ low[2] \in 0..255 /\ low[3] \in 0..255 /\ low[4] \in 0..255
      /\ high[1] \in 0..255 /\ high[2] \in 0..255 /\ high[3] \in 0..255 /\ high[4] \in 0..255
    BY DEF Address
<1>2. (\A i \in 1..4 : low[i] <= a[i] /\ a[i] <= high[i]) <=>
        /\ low[1] <= a[1] /\ a[1] <= high[1] /\ low[2] <= a[2] /\ a[2] <= high[2]
        /\ low[3] <= a[3] /\ a[3] <= high[3] /\ low[4] <= a[4] /\ a[4] <= high[4]
    <2>1. \A i \in 1..4 : i = 1 \/ i = 2 \/ i = 3 \/ i = 4 OBVIOUS
    <2>2. {1, 2, 3, 4} \subseteq 1..4 OBVIOUS
    <2> QED BY <2>1, <2>2
<1>3. UpTo(low, a) <=>
        \/ low[1] < a[1]
        \/ low[1] = a[1] /\ low[2] < a[2]
        \/ low[1] = a[1] /\ low[2] = a[2] /\ low[3] < a[3]
        \/ low[1] = a[1] /\ low[2] = a[2] /\ low[3] = a[3] /\ low[4] <= a[4]
    BY UpToOctets
<1>4. UpTo(a, high) <=>
        \/ a[1] < high[1]
        \/ a[1] = high[1] /\ a[2] < high[2]
        \/ a[1] = high[1] /\ a[2] = high[2] /\ a[3] < high[3]
        \/ a[1] = high[1] /\ a[2] = high[2] /\ a[3] = high[3] /\ a[4] <= high[4]
    BY UpToOctets
<1>5. /\ 1 < k => low[1] = high[1]
      /\ 2 < k => low[2] = high[2]
      /\ 3 < k => low[3] = high[3]
      /\ 2 > k => low[2] = 0 /\ high[2] = 255
      /\ 3 > k => low[3] = 0 /\ high[3] = 255
      /\ 4 > k => low[4] = 0 /\ high[4] = 255
    OBVIOUS
<1>6. (k = 1 \/ k = 2) \/ k = 3 \/ k = 4 OBVIOUS
<1> DEFINE a1 == a[1] a2 == a[2] a3 == a[3] a4 == a[4]
           l1 == low[1] l2 == low[2] l3 == low[3] l4 == low[4]
           h1 == high[1] h2 == high[2] h3 == high[3] h4 == high[4]
<1>7. /\ a1 \in 0..255 /\ a2 \in 0..255 /\ a3 \in 0..255 /\ a4 \in 0..255
      /\ l1 \in 0..255 /\ l2 \in 0..255 /\ l3 \in 0..255 /\ l4 \in 0..255
      /\ h1 \in 0..255 /\ h2 \in 0..255 /\ h3 \in 0..255 /\ h4 \in 0..255
    BY <1>1
<1>8. /\ 1 < k => l1 = h1
      /\ 2 < k => l2 = h2
      /\ 3 < k => l3 = h3
      /\ 2 > k => l2 = 0 /\ h2 = 255
      /\ 3 > k => l3 = 0 /\ h3 = 255
      /\ 4 > k => l4 = 0 /\ h4 = 255
    BY <1>5
<1> HIDE DEF a1, a2, a3, a4, l1, l2, l3, l4, h1, h2, h3, h4
<1>9. /\ \/ l1 < a1
         \/ l1 = a1 /\ l2 < a2
         \/ l1 = a1 /\ l2 = a2 /\ l3 < a3
         \/ l1 = a1 /\ l2 = a2 /\ l3 = a3 /\ l4 <= a4
      /\ \/ a1 < h1
         \/ a1 = h1 /\ a2 < h2
         \/ a1 = h1 /\ a2 = h2 /\ a3 < h3
         \/ a1 = h1 /\ a2 = h2 /\ a3 = h3 /\ a4 <= h4
      <=> /\ l1 <= a1 /\ a1 <= h1 /\ l2 <= a2 /\ a2 <= h2
          /\ l3 <= a3 /\ a3 <= h3 /\ l4 <= a4 /\ a4 <= h4
    BY <1>6, <1>7, <1>8
<1> QED
    BY <1>2, <1>3, <1>4, <1>9, Zenon
    DEF a1, a2, a3, a4, l1, l2, l3, l4, h1, h2, h3, h4

\* A network of a known prefix, written without bits beyond it.
Canonical(network, prefix) ==
    /\ network \in Address /\ prefix \in Prefix
    /\ \A i \in 1..4 : network[i] % Width(prefix)[i] = 0

LEMMA LastAddress ==
    ASSUME NEW network, NEW prefix, Canonical(network, prefix)
    PROVE  /\ LastOf(network, prefix) \in Address
           /\ \A i \in 1..4 : LastOf(network, prefix)[i] = network[i] + Width(prefix)[i] - 1
<1> DEFINE last == LastOf(network, prefix)
<1>1. prefix \in Prefix /\ network \in Address BY DEF Canonical
<1>2. \A i \in 1..4 : network[i] \in Octet BY <1>1 DEF Address, Octet
<1>3. \A i \in 1..4 : last[i] = network[i] + Width(prefix)[i] - 1
    BY <1>1, Widths DEF LastOf
<1>4. \A i \in 1..4 : network[i] + Width(prefix)[i] - 1 \in Octet
    <2> SUFFICES ASSUME NEW i \in 1..4 PROVE network[i] + Width(prefix)[i] - 1 \in Octet
        OBVIOUS
    <2> DEFINE y == network[i]
               w == Width(prefix)[i]
    <2>1. w \in Sizes /\ y % w = 0 /\ y \in Octet
        BY <1>1, <1>2, WidthShapes DEF Canonical
    <2> HIDE DEF y, w
    <2>2. y + w - 1 \in Octet BY <2>1, OctetEnd, Zenon
    <2> QED BY <2>2 DEF y, w
<1>5. last = [i \in 1..4 |-> last[i]] BY DEF LastOf
<1> HIDE DEF last
<1>6. last \in Address BY <1>3, <1>4, <1>5 DEF Address, Octet
<1> QED BY <1>3, <1>6 DEF last

\* The addresses of a network are those from its first to its last.
LEMMA NetworkInterval ==
    ASSUME NEW a \in Address, NEW network, NEW prefix, Canonical(network, prefix)
    PROVE  Ipv4InCidr(a, network, prefix)
             <=> UpTo(network, a) /\ UpTo(a, LastOf(network, prefix))
<1> DEFINE last == LastOf(network, prefix)
           W(i) == Width(prefix)[i]
<1>1. prefix \in Prefix /\ network \in Address BY DEF Canonical
<1>2. \A i \in 1..4 : network[i] \in Octet /\ a[i] \in Octet BY <1>1 DEF Address, Octet
<1>3. last \in Address /\ \A i \in 1..4 : last[i] = network[i] + W(i) - 1 BY LastAddress
<1>4. Ipv4InCidr(a, network, prefix) <=> \A i \in 1..4 : a[i] \div W(i) = network[i] \div W(i)
    BY <1>1, Widths DEF Ipv4InCidr
<1>5. \A i \in 1..4 : W(i) \in Sizes /\ network[i] % W(i) = 0
    BY <1>1, WidthShapes DEF Canonical
<1>w. PICK k \in 1..4 : /\ \A i \in 1..4 : i < k => W(i) = 1
                        /\ \A i \in 1..4 : i > k => W(i) = 256
    BY <1>1, WidthShapes
<1> HIDE DEF last, W
<1>6. \A i \in 1..4 : a[i] \div W(i) = network[i] \div W(i)
                        <=> network[i] <= a[i] /\ a[i] <= last[i]
    <2> SUFFICES ASSUME NEW i \in 1..4
                 PROVE  a[i] \div W(i) = network[i] \div W(i)
                          <=> network[i] <= a[i] /\ a[i] <= last[i]
        OBVIOUS
    <2> DEFINE x == a[i]
               y == network[i]
               w == W(i)
    <2>1. w \in Sizes /\ y % w = 0 /\ y \in Octet /\ x \in Octet
            /\ last[i] = y + w - 1
        BY <1>2, <1>3, <1>5
    <2> HIDE DEF x, y, w
    <2>2. x \div w = y \div w <=> y <= x /\ x <= y + w - 1 BY <2>1, OctetInterval, Zenon
    <2>3. x \div w = y \div w <=> y <= x /\ x <= last[i] BY <2>1, <2>2
    <2> QED BY <2>3 DEF x, y, w
<1>7. \A i \in 1..4 : /\ i < k => network[i] = last[i]
                      /\ i > k => network[i] = 0 /\ last[i] = 255
    <2> SUFFICES ASSUME NEW i \in 1..4
                 PROVE  /\ i < k => network[i] = last[i]
                        /\ i > k => network[i] = 0 /\ last[i] = 255
        OBVIOUS
    <2>1. CASE i < k
        <3>1. W(i) = 1 BY <1>5, <1>w, <2>1
        <3>2. last[i] = network[i] + W(i) - 1 BY <1>3
        <3>3. network[i] \in Int BY <1>2 DEF Octet
        <3> QED BY ONLY <2>1, <3>1, <3>2, <3>3, k \in 1..4, i \in 1..4
    <2>2. CASE i > k
        <3>1. W(i) = 256 /\ network[i] % 256 = 0 BY <1>5, <1>w, <2>2
        <3> QED BY <1>2, <1>3, <2>2, <3>1 DEF Octet
    <2> QED BY <2>1, <2>2
<1>8. UpTo(network, a) /\ UpTo(a, last) <=> \A i \in 1..4 : network[i] <= a[i] /\ a[i] <= last[i]
    BY <1>1, <1>3, <1>7, Interval
<1>9. Ipv4InCidr(a, network, prefix) <=> UpTo(network, a) /\ UpTo(a, last)
    BY <1>4, <1>6, <1>8
<1> QED BY <1>9 DEF last

LEMMA BlocksAreCanonical == \A block \in BlockedIpv4 : Canonical(block[1], block[2])
<1>1. \A i \in 1..4 : i = 1 \/ i = 2 \/ i = 3 \/ i = 4 OBVIOUS
<1>2. ASSUME NEW network \in Address, NEW prefix \in Prefix,
             network[1] % Width(prefix)[1] = 0, network[2] % Width(prefix)[2] = 0,
             network[3] % Width(prefix)[3] = 0, network[4] % Width(prefix)[4] = 0
      PROVE  Canonical(network, prefix)
    <2>1. \A i \in 1..4 : network[i] % Width(prefix)[i] = 0
        <3> SUFFICES ASSUME NEW i \in 1..4 PROVE network[i] % Width(prefix)[i] = 0 OBVIOUS
        <3>1. CASE i = 1 BY <1>2, <3>1
        <3>2. CASE i = 2 BY <1>2, <3>2
        <3>3. CASE i = 3 BY <1>2, <3>3
        <3>4. CASE i = 4 BY <1>2, <3>4
        <3> QED BY <1>1, <3>1, <3>2, <3>3, <3>4
    <2> QED BY <1>2, <2>1 DEF Canonical
<1>4. /\ 4 \in Prefix /\ 8 \in Prefix /\ 10 \in Prefix /\ 12 \in Prefix
      /\ 15 \in Prefix /\ 16 \in Prefix /\ 24 \in Prefix
    BY DEF Prefix
<1>5. Canonical(<<224, 0, 0, 0>>, 4)
    <2> DEFINE network == <<224, 0, 0, 0>>
    <2>1. network \in Address BY <1>1 DEF Address
    <2>2. Width(4) = <<16, 256, 256, 256>> BY DEF Width
    <2>3. /\ network[1] % Width(4)[1] = 0 /\ network[2] % Width(4)[2] = 0
          /\ network[3] % Width(4)[3] = 0 /\ network[4] % Width(4)[4] = 0
        BY <2>2
    <2> HIDE DEF network
    <2>4. Canonical(network, 4) BY <1>2, <1>4, <2>1, <2>3
    <2> QED BY <2>4 DEF network
<1>6. Canonical(<<240, 0, 0, 0>>, 4)
    <2> DEFINE network == <<240, 0, 0, 0>>
    <2>1. network \in Address BY <1>1 DEF Address
    <2>2. Width(4) = <<16, 256, 256, 256>> BY DEF Width
    <2>3. /\ network[1] % Width(4)[1] = 0 /\ network[2] % Width(4)[2] = 0
          /\ network[3] % Width(4)[3] = 0 /\ network[4] % Width(4)[4] = 0
        BY <2>2
    <2> HIDE DEF network
    <2>4. Canonical(network, 4) BY <1>2, <1>4, <2>1, <2>3
    <2> QED BY <2>4 DEF network
<1>7. ASSUME NEW n \in 0..255 PROVE Canonical(<<n, 0, 0, 0>>, 8)
    <2> DEFINE network == <<n, 0, 0, 0>>
    <2>1. network \in Address BY <1>1 DEF Address
    <2>2. Width(8) = <<1, 256, 256, 256>> BY DEF Width
    <2>3. /\ network[1] % Width(8)[1] = 0 /\ network[2] % Width(8)[2] = 0
          /\ network[3] % Width(8)[3] = 0 /\ network[4] % Width(8)[4] = 0
        BY <2>2
    <2> HIDE DEF network
    <2>4. Canonical(network, 8) BY <1>2, <1>4, <2>1, <2>3
    <2> QED BY <2>4 DEF network
<1>8. Canonical(<<100, 64, 0, 0>>, 10)
    <2> DEFINE network == <<100, 64, 0, 0>>
    <2>1. network \in Address BY <1>1 DEF Address
    <2>2. Width(10) = <<1, 64, 256, 256>> BY DEF Width
    <2>3. /\ network[1] % Width(10)[1] = 0 /\ network[2] % Width(10)[2] = 0
          /\ network[3] % Width(10)[3] = 0 /\ network[4] % Width(10)[4] = 0
        BY <2>2
    <2> HIDE DEF network
    <2>4. Canonical(network, 10) BY <1>2, <1>4, <2>1, <2>3
    <2> QED BY <2>4 DEF network
<1>9. Canonical(<<172, 16, 0, 0>>, 12)
    <2> DEFINE network == <<172, 16, 0, 0>>
    <2>1. network \in Address BY <1>1 DEF Address
    <2>2. Width(12) = <<1, 16, 256, 256>> BY DEF Width
    <2>3. /\ network[1] % Width(12)[1] = 0 /\ network[2] % Width(12)[2] = 0
          /\ network[3] % Width(12)[3] = 0 /\ network[4] % Width(12)[4] = 0
        BY <2>2
    <2> HIDE DEF network
    <2>4. Canonical(network, 12) BY <1>2, <1>4, <2>1, <2>3
    <2> QED BY <2>4 DEF network
<1>10. Canonical(<<198, 18, 0, 0>>, 15)
    <2> DEFINE network == <<198, 18, 0, 0>>
    <2>1. network \in Address BY <1>1 DEF Address
    <2>2. Width(15) = <<1, 2, 256, 256>> BY DEF Width
    <2>3. /\ network[1] % Width(15)[1] = 0 /\ network[2] % Width(15)[2] = 0
          /\ network[3] % Width(15)[3] = 0 /\ network[4] % Width(15)[4] = 0
        BY <2>2
    <2> HIDE DEF network
    <2>4. Canonical(network, 15) BY <1>2, <1>4, <2>1, <2>3
    <2> QED BY <2>4 DEF network
<1>11. ASSUME NEW n \in 0..255, NEW m \in 0..255 PROVE Canonical(<<n, m, 0, 0>>, 16)
    <2> DEFINE network == <<n, m, 0, 0>>
    <2>1. network \in Address BY <1>1 DEF Address
    <2>2. Width(16) = <<1, 1, 256, 256>> BY DEF Width
    <2>3. /\ network[1] % Width(16)[1] = 0 /\ network[2] % Width(16)[2] = 0
          /\ network[3] % Width(16)[3] = 0 /\ network[4] % Width(16)[4] = 0
        BY <2>2
    <2> HIDE DEF network
    <2>4. Canonical(network, 16) BY <1>2, <1>4, <2>1, <2>3
    <2> QED BY <2>4 DEF network
<1>12. ASSUME NEW n \in 0..255, NEW m \in 0..255, NEW l \in 0..255 PROVE Canonical(<<n, m, l, 0>>, 24)
    <2> DEFINE network == <<n, m, l, 0>>
    <2>1. network \in Address BY <1>1 DEF Address
    <2>2. Width(24) = <<1, 1, 1, 256>> BY DEF Width
    <2>3. /\ network[1] % Width(24)[1] = 0 /\ network[2] % Width(24)[2] = 0
          /\ network[3] % Width(24)[3] = 0 /\ network[4] % Width(24)[4] = 0
        BY <2>2
    <2> HIDE DEF network
    <2>4. Canonical(network, 24) BY <1>2, <1>4, <2>1, <2>3
    <2> QED BY <2>4 DEF network
<1>13. /\ 0 \in 0..255 /\ 10 \in 0..255 /\ 127 \in 0..255 /\ 169 \in 0..255
       /\ 254 \in 0..255 /\ 192 \in 0..255 /\ 168 \in 0..255
    OBVIOUS
<1>14. Canonical(<<0, 0, 0, 0>>, 8) BY <1>7, <1>13, Zenon
<1>15. Canonical(<<10, 0, 0, 0>>, 8) BY <1>7, <1>13, Zenon
<1>16. Canonical(<<127, 0, 0, 0>>, 8) BY <1>7, <1>13, Zenon
<1>17. Canonical(<<169, 254, 0, 0>>, 16) BY <1>11, <1>13, Zenon
<1>18. Canonical(<<192, 168, 0, 0>>, 16) BY <1>11, <1>13, Zenon
<1>19. Canonical(<<192, 0, 0, 0>>, 24)
    <2>1. 192 \in 0..255 /\ 0 \in 0..255 /\ 0 \in 0..255 OBVIOUS
    <2> QED BY <1>12, <2>1, Zenon
<1>20. Canonical(<<192, 0, 2, 0>>, 24)
    <2>1. 192 \in 0..255 /\ 0 \in 0..255 /\ 2 \in 0..255 OBVIOUS
    <2> QED BY <1>12, <2>1, Zenon
<1>21. Canonical(<<192, 31, 196, 0>>, 24)
    <2>1. 192 \in 0..255 /\ 31 \in 0..255 /\ 196 \in 0..255 OBVIOUS
    <2> QED BY <1>12, <2>1, Zenon
<1>22. Canonical(<<192, 52, 193, 0>>, 24)
    <2>1. 192 \in 0..255 /\ 52 \in 0..255 /\ 193 \in 0..255 OBVIOUS
    <2> QED BY <1>12, <2>1, Zenon
<1>23. Canonical(<<192, 88, 99, 0>>, 24)
    <2>1. 192 \in 0..255 /\ 88 \in 0..255 /\ 99 \in 0..255 OBVIOUS
    <2> QED BY <1>12, <2>1, Zenon
<1>24. Canonical(<<192, 175, 48, 0>>, 24)
    <2>1. 192 \in 0..255 /\ 175 \in 0..255 /\ 48 \in 0..255 OBVIOUS
    <2> QED BY <1>12, <2>1, Zenon
<1>25. Canonical(<<198, 51, 100, 0>>, 24)
    <2>1. 198 \in 0..255 /\ 51 \in 0..255 /\ 100 \in 0..255 OBVIOUS
    <2> QED BY <1>12, <2>1, Zenon
<1>26. Canonical(<<203, 0, 113, 0>>, 24)
    <2>1. 203 \in 0..255 /\ 0 \in 0..255 /\ 113 \in 0..255 OBVIOUS
    <2> QED BY <1>12, <2>1, Zenon
<1> QED
    BY <1>5, <1>6, <1>8, <1>9, <1>10, <1>14, <1>15, <1>16, <1>17, <1>18, <1>19,
       <1>20, <1>21, <1>22, <1>23, <1>24, <1>25, <1>26
    DEF BlockedIpv4

\* ipv4InCidr compares prefixes, and refuses just the addresses from the first
\* to the last of a network: of every IPv4 address, not of a sample.
THEOREM RefusedAddresses ==
    ASSUME NEW a \in Address
    PROVE  PublicIpv4(a) <=> \A b \in BlockedIpv4 : ~(UpTo(b[1], a) /\ UpTo(a, LastOf(b[1], b[2])))
BY NetworkInterval, BlocksAreCanonical DEF PublicIpv4

LEMMA NextAddress ==
    ASSUME NEW a \in Address, a # <<255, 255, 255, 255>>
    PROVE  Next4(a) \in Address
<1> DEFINE Turns(i) == a[i] # 255 /\ \A j \in (i + 1)..4 : a[j] = 255
           i == CHOOSE i \in 1..4 : Turns(i)
<1>1. \A j \in 1..4 : a[j] \in 0..255 BY DEF Address
<1>2. \A j \in 1..4 : j = 1 \/ j = 2 \/ j = 3 \/ j = 4 OBVIOUS
<1>3. \E j \in 1..4 : a[j] # 255
    <2> SUFFICES ASSUME \A j \in 1..4 : a[j] = 255 PROVE FALSE OBVIOUS
    <2>1. a = [j \in 1..4 |-> a[j]] BY DEF Address
    <2>2. a = [j \in 1..4 |-> 255] BY <2>1
    <2>3. <<255, 255, 255, 255>> = [j \in 1..4 |-> 255] BY <1>2
    <2> QED BY <2>2, <2>3
<1>4. \E j \in 1..4 : Turns(j)
    <2>1. CASE a[4] # 255
        <3>1. Turns(4) BY <2>1
        <3> QED BY <3>1
    <2>2. CASE a[4] = 255 /\ a[3] # 255
        <3>1. Turns(3) BY <1>2, <2>2
        <3> QED BY <3>1
    <2>3. CASE a[4] = 255 /\ a[3] = 255 /\ a[2] # 255
        <3>1. Turns(2) BY <1>2, <2>3
        <3> QED BY <3>1
    <2>4. CASE a[4] = 255 /\ a[3] = 255 /\ a[2] = 255
        <3>1. a[1] # 255 BY <1>2, <1>3, <2>4
        <3>2. Turns(1) BY <1>2, <2>4, <3>1
        <3> QED BY <3>2
    <2> QED BY <2>1, <2>2, <2>3, <2>4
<1>5. i \in 1..4 /\ a[i] # 255
    <2> HIDE DEF Turns
    <2>1. i \in 1..4 /\ Turns(i) BY <1>4
    <2> QED BY <2>1 DEF Turns
<1>6. Next4(a) = [j \in 1..4 |-> IF j < i THEN a[j] ELSE IF j = i THEN a[j] + 1 ELSE 0]
    BY DEF Next4
<1> HIDE DEF i
<1>7. a[i] + 1 \in 0..255 BY <1>1, <1>5
<1>8. \A j \in 1..4 : (IF j < i THEN a[j] ELSE IF j = i THEN a[j] + 1 ELSE 0) \in 0..255
    BY <1>1, <1>7
<1> DEFINE f(j) == IF j < i THEN a[j] ELSE IF j = i THEN a[j] + 1 ELSE 0
<1>9. Next4(a) = [j \in 1..4 |-> f(j)] /\ \A j \in 1..4 : f(j) \in 0..255 BY <1>6, <1>8
<1> HIDE DEF f
<1>10. Next4(a) \in [1..4 -> 0..255] BY ONLY <1>9
<1> QED BY <1>10 DEF Address

LEMMA EdgesAreAddresses == Edges \subseteq Address
<1> DEFINE ends == {LastOf(b[1], b[2]) : b \in BlockedIpv4}
<1>1. {b[1] : b \in BlockedIpv4} \subseteq Address BY BlocksAreCanonical DEF Canonical
<1>2. ends \subseteq Address BY BlocksAreCanonical, LastAddress
<1>3. {Next4(a) : a \in ends \ {<<255, 255, 255, 255>>}} \subseteq Address
    <2> HIDE DEF ends
    <2> QED BY <1>2, NextAddress
<1>4. \A i \in 1..4 : i = 1 \/ i = 2 \/ i = 3 \/ i = 4 OBVIOUS
<1>5. <<9, 255, 255, 255>> \in Address BY <1>4 DEF Address
<1>6. <<100, 63, 255, 255>> \in Address BY <1>4 DEF Address
<1>7. <<172, 15, 255, 255>> \in Address BY <1>4 DEF Address
<1>8. <<198, 17, 255, 255>> \in Address BY <1>4 DEF Address
<1>9. <<223, 255, 255, 255>> \in Address BY <1>4 DEF Address
<1>10. <<8, 8, 8, 8>> \in Address BY <1>4 DEF Address
<1> QED BY <1>1, <1>2, <1>3, <1>5, <1>6, <1>7, <1>8, <1>9, <1>10 DEF Edges

-----------------------------------------------------------------------------
\* The statuses a receiver can answer with.
AnswerCode == 100..599

\* What an answer read in full comes to is what the documentation promises,
\* for every status, at every attempt and under every attempt limit: any 2xx
\* acknowledges, 410 disables the endpoint, 408, 409, 425, 429 and any 5xx are
\* tried again while attempts are left, and everything else fails for good.
THEOREM AnswersFollowPolicy ==
    ASSUME NEW n \in Nat, NEW m \in Nat, NEW code \in AnswerCode, NEW header
    PROVE  AttemptDecision(n, m, Answered(code, header)).outcome = DocumentedOutcome(n, m, code)
<1> DEFINE x == Answered(code, header)
           result == [status |-> code, retryAfter |-> header]
           decision == ClassifyCustomerWebhookAttempt(n, m, result)
<1>0. code \in 100..599 BY DEF AnswerCode
<1>1. AttemptDecision(n, m, x) = decision
    <2>1. PostCustomerWebhook(x) = result BY <1>0 DEF PostCustomerWebhook, Answered
    <2>2. "code" \notin DOMAIN result OBVIOUS
    <2> QED BY <2>1, <2>2 DEF AttemptDecision, Answered
<1>2. code \in Nat /\ (code \in 200..299 <=> code \div 100 = 2)
        /\ (code \in 500..599 <=> code \div 100 = 5)
    BY <1>0
<1>3. "status" \in DOMAIN result /\ result.status = code OBVIOUS
<1>4. CASE code \div 100 = 2
    <2>1. decision.outcome = "delivered"
        BY <1>2, <1>3, <1>4 DEF ClassifyCustomerWebhookAttempt, Decision
    <2> HIDE DEF decision
    <2> QED BY <1>1, <1>4, <2>1 DEF DocumentedOutcome
<1>5. CASE code = 410
    <2>1. decision.outcome = "disable"
        BY <1>2, <1>3, <1>5 DEF ClassifyCustomerWebhookAttempt, Decision
    <2>2. code \div 100 # 2 /\ code \div 100 # 5 BY <1>5
    <2> HIDE DEF decision
    <2> QED BY <1>1, <1>5, <2>1, <2>2 DEF DocumentedOutcome
<1>6. CASE code \in {408, 409, 425, 429} \/ code \div 100 = 5
    <2>1. RetryableStatus(code) /\ code # 410 /\ code \div 100 # 2
        BY <1>2, <1>6 DEF RetryableStatus
    <2>2. decision.outcome = IF n >= m THEN "failed" ELSE "retry"
        BY <1>2, <1>3, <2>1 DEF ClassifyCustomerWebhookAttempt, Decision
    <2> HIDE DEF decision
    <2> QED BY <1>1, <1>6, <2>1, <2>2 DEF DocumentedOutcome
<1>7. CASE code \div 100 # 2 /\ code # 410 /\ code \notin {408, 409, 425, 429} /\ code \div 100 # 5
    <2>1. ~RetryableStatus(code) BY <1>2, <1>7 DEF RetryableStatus
    <2>2. decision.outcome = "failed"
        BY <1>2, <1>3, <1>7, <2>1 DEF ClassifyCustomerWebhookAttempt, Decision
    <2> HIDE DEF decision
    <2> QED BY <1>1, <1>7, <2>2 DEF DocumentedOutcome
<1> QED BY <1>4, <1>5, <1>6, <1>7

\* The delays before the attempts after the first, and from the eighth on.
Scheduled(n) == IF n <= 8 THEN DocumentedDelay[n] ELSE MAX_BACKOFF_SECONDS

LEMMA Schedules ==
    ASSUME NEW n \in 1..MAX_ATTEMPTS
    PROVE  /\ n = 1 => Scheduled(n) = 30
           /\ n = 2 => Scheduled(n) = 120
           /\ n = 3 => Scheduled(n) = 480
           /\ n = 4 => Scheduled(n) = 1920
           /\ n = 5 => Scheduled(n) = 7680
           /\ n > 5 => Scheduled(n) = 21600
<1>1. /\ DocumentedDelay[1] = 30 /\ DocumentedDelay[2] = 120 /\ DocumentedDelay[3] = 480
      /\ DocumentedDelay[4] = 1920 /\ DocumentedDelay[5] = 7680
      /\ DocumentedDelay[6] = 21600 /\ DocumentedDelay[7] = 21600
      /\ DocumentedDelay[8] = 21600
    BY DEF DocumentedDelay
<1>2. MAX_BACKOFF_SECONDS = 21600 BY DEF MAX_BACKOFF_SECONDS
<1>3. \/ n = 1 \/ n = 2 \/ n = 3 \/ n = 4 \/ n = 5 \/ n = 6 \/ n = 7 \/ n = 8 \/ n > 8
    OBVIOUS
<1> DEFINE s == Scheduled(n)
<1>4. n = 1 => s = 30 BY <1>1 DEF Scheduled
<1>5. n = 2 => s = 120 BY <1>1 DEF Scheduled
<1>6. n = 3 => s = 480 BY <1>1 DEF Scheduled
<1>7. n = 4 => s = 1920 BY <1>1 DEF Scheduled
<1>8. n = 5 => s = 7680 BY <1>1 DEF Scheduled
<1>9. n = 6 => s = 21600 BY <1>1 DEF Scheduled
<1>10. n = 7 => s = 21600 BY <1>1 DEF Scheduled
<1>11. n = 8 => s = 21600 BY <1>1 DEF Scheduled
<1>12. n > 8 => s = 21600 BY <1>2 DEF Scheduled
<1> HIDE DEF s
<1>13. n > 5 => s = 21600 BY <1>3, <1>9, <1>10, <1>11, <1>12
<1> QED BY <1>4, <1>5, <1>6, <1>7, <1>8, <1>13 DEF s

LEMMA Backoffs ==
    \A n \in 1..MAX_ATTEMPTS : CustomerWebhookBackoffSeconds(n) = Scheduled(n)
<1>1. /\ 4^(1 - 1) = 1 /\ 4^(2 - 1) = 4 /\ 4^(3 - 1) = 16 /\ 4^(4 - 1) = 64
      /\ 4^(5 - 1) = 256 /\ 4^(6 - 1) = 1024 /\ 4^(7 - 1) = 4096
      /\ 4^(8 - 1) = 16384 /\ 4^(9 - 1) = 65536 /\ 4^(10 - 1) = 262144
      /\ 4^(11 - 1) = 1048576 /\ 4^(12 - 1) = 4194304
    OBVIOUS
<1> SUFFICES ASSUME NEW n \in 1..MAX_ATTEMPTS
             PROVE  CustomerWebhookBackoffSeconds(n) = Scheduled(n)
    OBVIOUS
<1> DEFINE power == 4^(n - 1)
           backoff == CustomerWebhookBackoffSeconds(n)
<1>2. n = 1 \/ n = 2 \/ n = 3 \/ n = 4 \/ n = 5 \/ n = 6
        \/ n = 7 \/ n = 8 \/ n = 9 \/ n = 10 \/ n = 11 \/ n = 12
    BY DEF MAX_ATTEMPTS
<1>3. backoff = IF 21600 < 30 * power THEN 21600 ELSE 30 * power
    BY DEF CustomerWebhookBackoffSeconds, MAX_BACKOFF_SECONDS, INITIAL_BACKOFF_SECONDS, SmallerOf
<1> HIDE DEF backoff
<1>4. CASE n = 1
    <2>1. power = 1 BY <1>1, <1>4
    <2> HIDE DEF power
    <2> QED BY <1>3, <1>4, <2>1, Schedules DEF backoff
<1>5. CASE n = 2
    <2>1. power = 4 BY <1>1, <1>5
    <2> HIDE DEF power
    <2> QED BY <1>3, <1>5, <2>1, Schedules DEF backoff
<1>6. CASE n = 3
    <2>1. power = 16 BY <1>1, <1>6
    <2> HIDE DEF power
    <2> QED BY <1>3, <1>6, <2>1, Schedules DEF backoff
<1>7. CASE n = 4
    <2>1. power = 64 BY <1>1, <1>7
    <2> HIDE DEF power
    <2> QED BY <1>3, <1>7, <2>1, Schedules DEF backoff
<1>8. CASE n = 5
    <2>1. power = 256 BY <1>1, <1>8
    <2> HIDE DEF power
    <2> QED BY <1>3, <1>8, <2>1, Schedules DEF backoff
<1>9. CASE n = 6
    <2>1. power = 1024 BY <1>1, <1>9
    <2> HIDE DEF power
    <2> QED BY <1>3, <1>9, <2>1, Schedules DEF backoff
<1>10. CASE n = 7
    <2>1. power = 4096 BY <1>1, <1>10
    <2> HIDE DEF power
    <2> QED BY <1>3, <1>10, <2>1, Schedules DEF backoff
<1>11. CASE n = 8
    <2>1. power = 16384 BY <1>1, <1>11
    <2> HIDE DEF power
    <2> QED BY <1>3, <1>11, <2>1, Schedules DEF backoff
<1>12. CASE n = 9
    <2>1. power = 65536 BY <1>1, <1>12
    <2> HIDE DEF power
    <2> QED BY <1>3, <1>12, <2>1, Schedules DEF backoff
<1>13. CASE n = 10
    <2>1. power = 262144 BY <1>1, <1>13
    <2> HIDE DEF power
    <2> QED BY <1>3, <1>13, <2>1, Schedules DEF backoff
<1>14. CASE n = 11
    <2>1. power = 1048576 BY <1>1, <1>14
    <2> HIDE DEF power
    <2> QED BY <1>3, <1>14, <2>1, Schedules DEF backoff
<1>15. CASE n = 12
    <2>1. power = 4194304 BY <1>1, <1>15
    <2> HIDE DEF power
    <2> QED BY <1>3, <1>15, <2>1, Schedules DEF backoff
<1> QED BY <1>2, <1>4, <1>5, <1>6, <1>7, <1>8, <1>9, <1>10, <1>11, <1>12, <1>13, <1>14, <1>15

LEMMA LongestDelay == MAX_BACKOFF_SECONDS \in Nat
BY DEF MAX_BACKOFF_SECONDS

\* The scheduled delay is within the longest one.
LEMMA WithinLongest ==
    ASSUME NEW n \in 1..MAX_ATTEMPTS
    PROVE  Scheduled(n) \in 0..MAX_BACKOFF_SECONDS
<1> DEFINE s == Scheduled(n)
<1>1. s \in {30, 120, 480, 1920, 7680, 21600} /\ s \in Int BY Schedules DEF MAX_ATTEMPTS
<1> HIDE DEF s
<1> DEFINE M == MAX_BACKOFF_SECONDS
<1>2. M \in Nat /\ s <= M /\ 0 <= s BY <1>1 DEF MAX_BACKOFF_SECONDS
<1> HIDE DEF M
<1>3. s \in 0..M BY ONLY <1>1, <1>2
<1> QED BY <1>3 DEF s, M

LEMMA CappedWish ==
    ASSUME NEW t \in Int, NEW M \in Nat, NEW c, c = SmallerOf(GreaterOf(0, t), M)
    PROVE  c \in 0..M /\ (t <= M => c >= t)
BY DEF SmallerOf, GreaterOf

LEMMA LaterDelay ==
    ASSUME NEW M \in Nat, NEW schedule \in 0..M, NEW asked \in 0..M,
           NEW delay, delay = SmallerOf(M, GreaterOf(schedule, asked))
    PROVE  delay \in schedule..M /\ delay >= asked
BY DEF SmallerOf, GreaterOf

\* The statuses an attempt is tried again after.
TriedAgain == {408, 409, 425, 429} \cup 500..599

\* While attempts are left, an answer that is tried again is tried after the
\* delay of the documented schedule or, when that is later, the one it asks for
\* (at most six hours), for every such status, attempt limit and Retry-After.
THEOREM RetriesOnSchedule ==
    ASSUME NEW n \in 1..MAX_ATTEMPTS, NEW m \in Nat, n < m,
           NEW code \in TriedAgain,
           NEW header, header = <<>> \/ \E t \in Int : header = <<t>>
    PROVE  LET d == AttemptDecision(n, m, Answered(code, header))
           IN  /\ d.outcome = "retry"
               /\ d.retryDelaySeconds \in Scheduled(n)..MAX_BACKOFF_SECONDS
               /\ (header # <<>> /\ header[1] <= MAX_BACKOFF_SECONDS)
                  => d.retryDelaySeconds >= header[1]
<1> DEFINE x == Answered(code, header)
           result == [status |-> code, retryAfter |-> header]
           capped == SmallerOf(GreaterOf(0, header[1]), MAX_BACKOFF_SECONDS)
           asked == IF header = <<>> THEN 0 ELSE capped
           delay == SmallerOf(MAX_BACKOFF_SECONDS,
                              GreaterOf(CustomerWebhookBackoffSeconds(n), asked))
           decision == [outcome |-> "retry", reason |-> "retryable-status",
                        retryDelaySeconds |-> delay]
<1>1. /\ code \in 100..599 /\ code \notin (200..299) \cup {410}
      /\ code \in {408, 409, 425, 429} \cup 500..599
    BY DEF TriedAgain
<1>2. AttemptDecision(n, m, x) = ClassifyCustomerWebhookAttempt(n, m, result)
    <2>1. PostCustomerWebhook(x) = result BY <1>1 DEF PostCustomerWebhook, Answered
    <2>2. "code" \notin DOMAIN result OBVIOUS
    <2> QED BY <2>1, <2>2 DEF AttemptDecision, Answered
<1>3. asked = IF ParseCustomerWebhookRetryAfter(header) = <<>> THEN 0
              ELSE ParseCustomerWebhookRetryAfter(header)[1]
    BY DEF ParseCustomerWebhookRetryAfter
<1>4. ~(n >= m) BY DEF MAX_ATTEMPTS
<1>5. "status" \in DOMAIN result /\ result.status = code /\ result.retryAfter = header
    OBVIOUS
<1> HIDE DEF asked
<1>6. ClassifyCustomerWebhookAttempt(n, m, result) = decision
    BY <1>1, <1>3, <1>4, <1>5 DEF ClassifyCustomerWebhookAttempt, RetryableStatus
<1> DEFINE M == MAX_BACKOFF_SECONDS
<1>7. asked \in 0..M /\ (header # <<>> /\ header[1] <= M => asked >= header[1])
    <2>1. CASE header = <<>> BY <2>1, LongestDelay DEF asked
    <2>2. CASE header # <<>>
        <3>1. header[1] \in Int BY <2>2
        <3> DEFINE t == header[1]
        <3>2. t \in Int BY <3>1
        <3>3. asked = SmallerOf(GreaterOf(0, t), M) BY <2>2 DEF asked
        <3>4. M \in Nat BY LongestDelay
        <3>5. asked \in 0..M /\ (t <= M => asked >= t)
            <4> HIDE DEF t, M
            <4> QED BY ONLY <3>2, <3>3, <3>4, CappedWish
        <3> QED BY <3>5
    <2> QED BY <2>1, <2>2
<1> DEFINE s == Scheduled(n)
<1>8. M \in Nat /\ s \in 0..M
    <2>1. M \in Nat BY LongestDelay
    <2>2. s \in 0..M BY ONLY n \in 1..MAX_ATTEMPTS, WithinLongest
    <2> HIDE DEF M, s
    <2> QED BY ONLY <2>1, <2>2
<1>9. delay \in s..M /\ delay >= asked
    <2>1. delay = SmallerOf(M, GreaterOf(s, asked)) BY Backoffs
    <2>2. asked \in 0..M BY <1>7
    <2> HIDE DEF delay, s, M
    <2> QED BY ONLY <1>8, <2>1, <2>2, LaterDelay
<1> HIDE DEF delay
<1>10. decision.outcome = "retry" /\ decision.retryDelaySeconds = delay OBVIOUS
<1> HIDE DEF decision, result
<1>11. header # <<>> /\ header[1] <= MAX_BACKOFF_SECONDS => delay >= header[1]
    <2> SUFFICES ASSUME header # <<>>, header[1] <= MAX_BACKOFF_SECONDS
                 PROVE  delay >= header[1]
        OBVIOUS
    <2>1. header[1] \in Int /\ asked >= header[1] BY <1>7
    <2>2. delay \in Int /\ asked \in Int /\ delay >= asked BY <1>7, <1>8, <1>9
    <2> QED BY <2>1, <2>2
<1> QED BY <1>2, <1>6, <1>8, <1>9, <1>10, <1>11

LEMMA DocumentedAnswers == AnswersAsDocumented
<1>1. \A n \in 1..MAX_ATTEMPTS : n \in Nat BY DEF MAX_ATTEMPTS
<1>2. MAX_ATTEMPTS \in Nat BY DEF MAX_ATTEMPTS
<1> SUFFICES ASSUME NEW n \in 1..MAX_ATTEMPTS, NEW code \in 100..599
             PROVE  AttemptDecision(n, MAX_ATTEMPTS, Answered(code, <<>>)).outcome
                      = DocumentedOutcome(n, MAX_ATTEMPTS, code)
    BY DEF AnswersAsDocumented
<1>3. n \in Nat BY <1>1
<1>4. code \in AnswerCode BY DEF AnswerCode
<1> QED BY ONLY <1>2, <1>3, <1>4, AnswersFollowPolicy, Zenon

LEMMA DocumentedRetries == RetryScheduleBounded
<1> SUFFICES ASSUME NEW n \in 1..8, NEW header \in SampleHeaders
             PROVE  LET d == AttemptDecision(n, 9, Answered(503, header))
                    IN  /\ d.retryDelaySeconds \in DocumentedDelay[n]..MAX_BACKOFF_SECONDS
                        /\ (header # <<>> /\ header[1] <= MAX_BACKOFF_SECONDS)
                           => d.retryDelaySeconds >= header[1]
    BY DEF RetryScheduleBounded
<1>1. n \in 1..MAX_ATTEMPTS /\ 9 \in Nat /\ n < 9 BY DEF MAX_ATTEMPTS
<1>2. header = <<>> \/ \E t \in Int : header = <<t>> BY DEF SampleHeaders
<1>3. 503 \in TriedAgain BY DEF TriedAgain
<1>4. Scheduled(n) = DocumentedDelay[n] BY DEF Scheduled
<1> DEFINE most == 9
           code == 503
           d == AttemptDecision(n, most, Answered(code, header))
<1>5. /\ d.retryDelaySeconds \in Scheduled(n)..MAX_BACKOFF_SECONDS
      /\ (header # <<>> /\ header[1] <= MAX_BACKOFF_SECONDS)
         => d.retryDelaySeconds >= header[1]
    <2>1. most \in Nat /\ n < most /\ code \in TriedAgain BY <1>1, <1>3
    <2>2. n \in 1..MAX_ATTEMPTS BY <1>1
    <2> HIDE DEF most, code
    <2> QED BY ONLY <1>2, <2>1, <2>2, RetriesOnSchedule, Zenon
<1>6. d.retryDelaySeconds \in DocumentedDelay[n]..MAX_BACKOFF_SECONDS
    <2> HIDE DEF d
    <2> QED BY ONLY <1>4, <1>5
<1> QED BY <1>5, <1>6

\* Every request is judged by the policy the documentation describes.
LEMMA PolicyIsDocumented == DocumentedPolicy
<1>1. AddressesMatchRanges BY EdgesAreAddresses, RefusedAddresses DEF AddressesMatchRanges
<1> QED BY <1>1, DocumentedAnswers, DocumentedRetries DEF DocumentedPolicy

\* Every attempt is judged by that policy: the addresses a request is refused
\* for, what an answer comes to and when a retry is due are the documented ones
\* (endpoint-security.ts:79, delivery-policy.ts:35).
THEOREM AttemptsFollowThePolicy == Spec => []PolicyAsDocumented
<1>1. PolicyAsDocumented BY PolicyIsDocumented DEF PolicyAsDocumented
<1> QED BY <1>1, PTL
=============================================================================
