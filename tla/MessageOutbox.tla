---------------------------- MODULE MessageOutbox ----------------------------
(***************************************************************************)
(* The durable outbox that sends direct messages through a live provider.  *)
(* Web requests accept, cancel and review messages; workers claim due      *)
(* attempts under a lease, commit a provider-call frontier, call the       *)
(* provider once, and persist what it said; status callbacks arrive        *)
(* whenever the provider likes; workers crash, stall past their lease and  *)
(* lose database connections.                                              *)
(*                                                                         *)
(* A step is one database transaction or one exchange with the provider.   *)
(* Deadlines are abstracted to the booleans the code compares them to:     *)
(* `due` (dueAt <= now) and `lapsed` (processingExpiresAt <= now).         *)
(* sentAt, deliveredAt, failedAt, completedAt and reconciledAt are not     *)
(* state of their own: the writers set each with the status it belongs to. *)
(* Payload, tenant and provider-account identity never change, so they are *)
(* left out; so are the customer events the same transactions enqueue.     *)
(* Only transport TWILIO is here: a DUMMY message is settled inside the    *)
(* transaction that reserves it and never reaches a worker.                *)
(***************************************************************************)
EXTENDS ProviderStatus, FiniteSets

CONSTANTS
    Messages, Workers,
    Tokens, NoToken,    \* processing tokens (UUIDs) and processingToken IS NULL
    NoAttempt,          \* a worker that is not processing an attempt
    MaxAttempts,        \* DIRECT_MESSAGE_MAX_ATTEMPTS
    BatchSize,          \* attempts one poll may claim
    MaxFaults           \* bound on crashes, outrun leases and database errors

Attempts == Messages \X (1 .. MaxAttempts)

ASSUME OutboxAssumption ==
    /\ MaxAttempts \in Nat \ {0}
    /\ BatchSize \in Nat \ {0}
    /\ MaxFaults \in Nat
    /\ NoToken \notin Tokens
    /\ NoAttempt \notin Attempts

VARIABLES
    message,    \* Message rows: [status, count, sid, shown]
    attempt,    \* MessageAttempt rows, by <<message, attemptNumber>>
    worker,     \* what each worker process holds in memory
    cancelling, \* the attempt number a cancel request has read, or 0
    truth,      \* what the provider did with the request of each attempt
    calls,      \* how many create requests were sent for each attempt
    faults      \* faults so far

rows == <<message, attempt>>
vars == <<message, attempt, worker, cancelling, truth, calls, faults>>

-----------------------------------------------------------------------------
MessageStatus == {"NONE", "ACCEPTED", "SCHEDULED", "PROCESSING", "SENT",
                  "DELIVERED", "FAILED", "CANCELLED", "AMBIGUOUS"}
AttemptStatus == {"NONE", "QUEUED", "PROCESSING", "SUCCEEDED", "FAILED",
                  "CANCELLED", "AMBIGUOUS", "RESOLVED_NOT_SENT"}

(* "inflight": a create request was sent and may still reach the provider. *)
ReportedStatus == {"queued", "sent", "delivered", "undelivered"}
Refusals       == {"retryable", "terminal"}
ProviderState  == {"none", "inflight"} \cup Refusals \cup ReportedStatus

(* Statuses the provider has reported by the time it shows `state`.        *)
Reported(state) ==
    CASE state = "queued" -> {"queued"}
      [] state = "sent" -> {"queued", "sent"}
      [] state \in {"delivered", "undelivered"} -> {"queued", "sent", state}
      [] OTHER -> {}

OpenStatus == {"ACCEPTED", "SCHEDULED", "PROCESSING"}
WorkerPc   == {"idle", "batch", "authorised", "unsendable", "calling",
               "decided", "marking"}
Decisions  == [kind : {"none", "result", "retry", "failed", "ambiguous"},
               shown : ReportedStatus \cup {None}]
Decision(kind, shown) == [kind |-> kind, shown |-> shown]
NoDecision == Decision("none", None)

NoMessage  == [status |-> "NONE", count |-> 0, sid |-> 0, shown |-> None]
NoRow      == [status |-> "NONE", due |-> FALSE, token |-> NoToken, lapsed |-> FALSE,
               frontier |-> FALSE, sid |-> FALSE, shown |-> None]
QueuedRow(due) == [NoRow EXCEPT !.status = "QUEUED", !.due = due]
IdleWorker == [pc |-> "idle", token |-> NoToken, todo |-> {}, cur |-> NoAttempt,
               decision |-> NoDecision]

Latest(m)    == <<m, message[m].count>>
Successor(a) == <<a[1], a[2] + 1>>
Accepted(a)  == truth[a] \in ReportedStatus

MessageRows == [status : MessageStatus, count : 0 .. MaxAttempts,
                sid : 0 .. MaxAttempts, shown : ReportedStatus \cup {None}]
AttemptRows == [status : AttemptStatus, due : BOOLEAN, token : Tokens \cup {NoToken},
                lapsed : BOOLEAN, frontier : BOOLEAN, sid : BOOLEAN,
                shown : ReportedStatus \cup {None}]
WorkerStates == [pc : WorkerPc, token : Tokens \cup {NoToken}, todo : SUBSET Attempts,
                 cur : Attempts \cup {NoAttempt}, decision : Decisions]

TypeOK ==
    /\ message \in [Messages -> MessageRows]
    /\ attempt \in [Attempts -> AttemptRows]
    /\ worker \in [Workers -> WorkerStates]
    /\ cancelling \in [Messages -> 0 .. MaxAttempts]
    /\ truth \in [Attempts -> ProviderState]
    /\ calls \in [Attempts -> Nat]
    /\ faults \in 0 .. MaxFaults

Init ==
    /\ message = [m \in Messages |-> NoMessage]
    /\ attempt = [a \in Attempts |-> NoRow]
    /\ worker = [w \in Workers |-> IdleWorker]
    /\ cancelling = [m \in Messages |-> 0]
    /\ truth = [a \in Attempts |-> "none"]
    /\ calls = [a \in Attempts |-> 0]
    /\ faults = 0

-----------------------------------------------------------------------------
(* Row updates shared by several transactions.                             *)

Closed(a, status) ==
    [attempt[a] EXCEPT !.status = status, !.token = NoToken, !.lapsed = FALSE]

Close(a, attemptStatus, messageStatus) ==
    /\ attempt' = [attempt EXCEPT ![a] = Closed(a, attemptStatus)]
    /\ message' = [message EXCEPT ![a[1]].status = messageStatus]

ReopenForgettingCount(a, closed, due, shown) ==
    /\ attempt' = [attempt EXCEPT ![a] = closed, ![Successor(a)] = QueuedRow(due)]
    /\ message' = [message EXCEPT ![a[1]] = [@ EXCEPT !.status = "SCHEDULED",
                                                 !.shown = shown]]

(* The retained successor of a closed attempt.                             *)
Reopen(a, closed, due, shown) ==
    /\ attempt' = [attempt EXCEPT ![a] = closed, ![Successor(a)] = QueuedRow(due)]
    /\ message' = [message EXCEPT ![a[1]] = [@ EXCEPT !.status = "SCHEDULED",
                                                 !.count = a[2] + 1, !.shown = shown]]

Fault == faults < MaxFaults /\ faults' = faults + 1

-----------------------------------------------------------------------------
(* Web requests.                                                           *)

(* A reservation creates the message and its first attempt together.       *)
Accept(m) ==
    /\ message[m].status = "NONE"
    /\ message' = [message EXCEPT ![m] = [@ EXCEPT !.status = "ACCEPTED", !.count = 1]]
    /\ attempt' = [attempt EXCEPT ![<<m, 1>>] = QueuedRow(TRUE)]
    /\ UNCHANGED <<worker, cancelling, truth, calls, faults>>

(* Cancellation reads the latest attempt without a lock ...                *)
CancelReads(m) ==
    /\ message[m].status \notin {"NONE", "CANCELLED"}
    /\ cancelling[m] = 0
    /\ cancelling' = [cancelling EXCEPT ![m] = message[m].count]
    /\ UNCHANGED <<message, attempt, worker, truth, calls, faults>>

CancellableInCall(a) == message[a[1]].status \in OpenStatus

Cancellable(a) ==
    /\ message[a[1]].status \in OpenStatus
    /\ attempt[a].status \in {"QUEUED", "PROCESSING"}
    /\ ~attempt[a].frontier

(* ... then locks that attempt and its message and looks again.            *)
CancelCommits(m) ==
    LET a == <<m, cancelling[m]>> IN
    /\ cancelling[m] # 0
    /\ cancelling' = [cancelling EXCEPT ![m] = 0]
    /\ IF Cancellable(a) THEN Close(a, "CANCELLED", "CANCELLED") ELSE UNCHANGED rows
    /\ UNCHANGED <<worker, truth, calls, faults>>

(* An operator attests that an ambiguous attempt was not sent.             *)
Attest(a) ==
    /\ attempt[a].status = "AMBIGUOUS" /\ ~attempt[a].sid /\ attempt[a].shown = None
    /\ message[a[1]].sid = 0 /\ message[a[1]].shown = None
    /\ a[2] < MaxAttempts => attempt[Successor(a)].status = "NONE"
    /\ attempt' = [attempt EXCEPT ![a].status = "RESOLVED_NOT_SENT"]
    /\ UNCHANGED <<message, worker, cancelling, truth, calls, faults>>

(* A separate request queues the one successor of an attested attempt.     *)
RetryAttested(a) ==
    /\ attempt[a].status = "RESOLVED_NOT_SENT" /\ ~attempt[a].sid
    /\ message[a[1]].sid = 0 /\ message[a[1]].status = "AMBIGUOUS"
    /\ a[2] < MaxAttempts
    /\ \A k \in 1 .. MaxAttempts : k > a[2] => attempt[<<a[1], k>>].status = "NONE"
    /\ Reopen(a, attempt[a], TRUE, None)
    /\ UNCHANGED <<worker, cancelling, truth, calls, faults>>

(* A correlated status callback.  A report that cannot bind yet is refused *)
(* with 409 and changes nothing.  The event row that drops repeats is not  *)
(* modelled: a repeat may be applied again.                                *)
CallbackBindsAttested(a) ==
    /\ attempt[a].frontier
    /\ attempt[a].status # "CANCELLED"

CallbackBinds(a) ==
    /\ attempt[a].frontier
    /\ attempt[a].status \in {"PROCESSING", "SUCCEEDED", "FAILED", "AMBIGUOUS"}
    /\ message[a[1]].sid \in {0, a[2]}
    /\ message[a[1]].status # "CANCELLED"

Callback(a, status) ==
    LET m == a[1]
        next == AttemptStatusFor(attempt[a].status, status)
    IN
    /\ status \in Reported(truth[a])
    /\ CallbackBinds(a)
    /\ UpdateGuard(status, message[m].shown,
                   message[m].status = "DELIVERED", message[m].status = "FAILED")
    /\ StatusGuard(status, attempt[a].shown)
    /\ message' = [message EXCEPT ![m] = [@ EXCEPT !.sid = a[2], !.shown = status,
                                             !.status = ApplicationStatusFor(status)]]
    /\ attempt' = [attempt EXCEPT ![a] =
                     [IF next # @.status THEN Closed(a, next) ELSE @
                        EXCEPT !.sid = TRUE, !.shown = status]]
    /\ UNCHANGED <<worker, cancelling, truth, calls, faults>>

-----------------------------------------------------------------------------
(* Workers.  A poll first recovers what expired after the frontier.        *)

RecoverAttemptOnly(a) ==
    /\ attempt[a].status = "PROCESSING" /\ attempt[a].frontier /\ attempt[a].lapsed
    /\ attempt' = [attempt EXCEPT ![a] = Closed(a, "AMBIGUOUS")]
    /\ UNCHANGED <<message, worker, cancelling, truth, calls, faults>>

RecoverExpired(a) ==
    /\ attempt[a].status = "PROCESSING" /\ attempt[a].frontier /\ attempt[a].lapsed
    /\ message[a[1]].status = "PROCESSING"
    /\ Close(a, "AMBIGUOUS", "AMBIGUOUS")
    /\ UNCHANGED <<worker, cancelling, truth, calls, faults>>

ClaimablePastFrontier(a) ==
    /\ attempt[a].due
    /\ message[a[1]].status \in OpenStatus
    /\ \/ attempt[a].status = "QUEUED"
       \/ attempt[a].status = "PROCESSING" /\ attempt[a].lapsed

ClaimableOnce(a) ==
    attempt[a].due /\ attempt[a].status = "QUEUED" /\ message[a[1]].status \in OpenStatus

Claimable(a) ==
    /\ attempt[a].due /\ ~attempt[a].frontier
    /\ message[a[1]].status \in OpenStatus
    /\ \/ attempt[a].status = "QUEUED"
       \/ attempt[a].status = "PROCESSING" /\ attempt[a].lapsed

(* GREATEST(attemptCount, attemptNumber) of the claimed attempts of m.     *)
ClaimedCount(m, batch) ==
    IF \E a \in batch : a[1] = m /\ a[2] > message[m].count
    THEN (CHOOSE a \in batch : a[1] = m /\ a[2] > message[m].count)[2]
    ELSE message[m].count

(* A fresh UUID is one that no row and no worker holds.  Tokens are only    *)
(* compared, never told apart, so one unused token stands for all of them. *)
Unused(t) == /\ \A a \in Attempts : attempt[a].token # t
             /\ \A w \in Workers : worker[w].token # t

Claim(w, batch, t) ==
    /\ worker[w].pc = "idle"
    /\ batch # {} /\ Cardinality(batch) <= BatchSize
    /\ \A a \in batch : Claimable(a)
    /\ Unused(t) /\ t = CHOOSE u \in Tokens : Unused(u)
    /\ attempt' = [a \in Attempts |->
            IF a \in batch
            THEN [attempt[a] EXCEPT !.status = "PROCESSING", !.token = t, !.lapsed = FALSE]
            ELSE attempt[a]]
    /\ message' = [m \in Messages |->
            IF \E a \in batch : a[1] = m
            THEN [message[m] EXCEPT !.status = "PROCESSING", !.count = ClaimedCount(m, batch)]
            ELSE message[m]]
    /\ worker' = [worker EXCEPT ![w] = [IdleWorker EXCEPT !.pc = "batch", !.token = t,
                                                          !.todo = batch]]
    /\ UNCHANGED <<cancelling, truth, calls, faults>>

(* The claim loop moves on when it is done with an attempt.                *)
Resume(w, todo) ==
    IF todo = {} THEN IdleWorker
    ELSE [IdleWorker EXCEPT !.pc = "batch", !.token = worker[w].token, !.todo = todo]

StillClaimed(w, a) ==
    /\ attempt[a].status = "PROCESSING" /\ attempt[a].token = worker[w].token
    /\ ~attempt[a].frontier
    /\ message[a[1]].status = "PROCESSING"

Drop(w, a) == worker' = [worker EXCEPT ![w] = Resume(w, worker[w].todo \ {a})]

PrepareSkips(w, a) ==
    /\ worker[w].pc = "batch" /\ a \in worker[w].todo
    /\ StillClaimed(w, a) => attempt[a].lapsed
    /\ Drop(w, a)
    /\ UNCHANGED <<message, attempt, cancelling, truth, calls, faults>>

(* The contact, the hard gate, the worker or the provider authority no     *)
(* longer allows the send.                                                 *)
PrepareCancels(w, a) ==
    /\ worker[w].pc = "batch" /\ a \in worker[w].todo
    /\ StillClaimed(w, a) /\ ~attempt[a].lapsed
    /\ Close(a, "CANCELLED", "CANCELLED")
    /\ Drop(w, a)
    /\ UNCHANGED <<cancelling, truth, calls, faults>>

PrepareAuthorisesUnrecorded(w, a) ==
    /\ worker[w].pc = "batch" /\ a \in worker[w].todo
    /\ StillClaimed(w, a) /\ ~attempt[a].lapsed
    /\ worker' = [worker EXCEPT ![w] = [@ EXCEPT !.pc = "authorised", !.cur = a,
                                                 !.todo = worker[w].todo \ {a}]]
    /\ UNCHANGED <<message, attempt, cancelling, truth, calls, faults>>

(* Every gate passes: the provider-call frontier commits.                  *)
PrepareAuthorises(w, a) ==
    /\ worker[w].pc = "batch" /\ a \in worker[w].todo
    /\ StillClaimed(w, a) /\ ~attempt[a].lapsed
    /\ attempt' = [attempt EXCEPT ![a].frontier = TRUE]
    /\ worker' = [worker EXCEPT ![w] = [@ EXCEPT !.pc = "authorised", !.cur = a,
                                                 !.todo = worker[w].todo \ {a}]]
    /\ UNCHANGED <<message, cancelling, truth, calls, faults>>

PrepareErrors(w, a) ==
    /\ worker[w].pc = "batch" /\ a \in worker[w].todo
    /\ Fault
    /\ Drop(w, a)
    /\ UNCHANGED <<message, attempt, cancelling, truth, calls>>

Decide(w, pc, decision) ==
    worker' = [worker EXCEPT ![w].pc = pc, ![w].decision = decision]

(* The credential snapshot does not open: no request, yet ambiguous.       *)
AdapterUnavailable(w) ==
    /\ worker[w].pc = "authorised"
    /\ Decide(w, "unsendable", Decision("ambiguous", None))
    /\ UNCHANGED <<message, attempt, cancelling, truth, calls, faults>>

SendRequest(w) ==
    LET a == worker[w].cur IN
    /\ worker[w].pc = "authorised"
    /\ calls' = [calls EXCEPT ![a] = @ + 1]
    /\ truth' = [truth EXCEPT ![a] = IF @ = "none" THEN "inflight" ELSE @]
    /\ worker' = [worker EXCEPT ![w].pc = "calling"]
    /\ UNCHANGED <<message, attempt, cancelling, faults>>

(* The response is a message resource that matches the request.            *)
ReplyAccepted(w, status) ==
    /\ worker[w].pc = "calling"
    /\ status \in Reported(truth[worker[w].cur])
    /\ Decide(w, "decided", Decision("result", status))
    /\ UNCHANGED <<message, attempt, cancelling, truth, calls, faults>>

ReplyRefusedUnbounded(w) ==
    LET a == worker[w].cur IN
    /\ worker[w].pc = "calling" /\ truth[a] \in Refusals
    /\ Decide(w, "decided", Decision(IF truth[a] = "retryable" THEN "retry" ELSE "failed", None))
    /\ UNCHANGED <<message, attempt, cancelling, truth, calls, faults>>

(* 429 is retryable while attempts remain; any other 4xx is terminal.      *)
ReplyRefused(w) ==
    LET a == worker[w].cur IN
    /\ worker[w].pc = "calling"
    /\ truth[a] \in Refusals
    /\ Decide(w, "decided",
              IF truth[a] = "retryable" /\ a[2] < MaxAttempts
              THEN Decision("retry", None) ELSE Decision("failed", None))
    /\ UNCHANGED <<message, attempt, cancelling, truth, calls, faults>>

ReplyUnknownRetries(w) ==
    /\ worker[w].pc = "calling"
    /\ Decide(w, "decided", Decision(IF worker[w].cur[2] < MaxAttempts
                                     THEN "retry" ELSE "ambiguous", None))
    /\ UNCHANGED <<message, attempt, cancelling, truth, calls, faults>>

ReplyUnknownFails(w) ==
    /\ worker[w].pc = "calling"
    /\ Decide(w, "decided", Decision("failed", None))
    /\ UNCHANGED <<message, attempt, cancelling, truth, calls, faults>>

(* Timeout, connection loss, 5xx, malformed or mismatching response.       *)
ReplyUnknown(w) ==
    /\ worker[w].pc = "calling"
    /\ Decide(w, "decided", Decision("ambiguous", None))
    /\ UNCHANGED <<message, attempt, cancelling, truth, calls, faults>>

(* Only the token that crossed the frontier may persist a result; expiry   *)
(* of the lease alone does not stop it.                                    *)
Owns(w) ==
    LET a == worker[w].cur IN
    /\ attempt[a].status = "PROCESSING" /\ attempt[a].token = worker[w].token
    /\ attempt[a].frontier
    /\ message[a[1]].status = "PROCESSING"

Persist(a, decision) ==
    \/ /\ decision.kind = "result"
       /\ attempt' = [attempt EXCEPT ![a] =
                        [Closed(a, AttemptStatusFor("PROCESSING", decision.shown))
                            EXCEPT !.sid = TRUE, !.shown = decision.shown]]
       /\ message' = [message EXCEPT ![a[1]] =
                        [@ EXCEPT !.status = ApplicationStatusFor(decision.shown),
                                  !.sid = a[2], !.shown = decision.shown]]
    \/ /\ decision.kind = "retry"
       /\ Reopen(a, Closed(a, "FAILED"), FALSE, message[a[1]].shown)
    \/ /\ decision.kind = "failed"
       /\ attempt' = [attempt EXCEPT ![a] = Closed(a, "FAILED")]
       /\ message' = [message EXCEPT ![a[1]] = [@ EXCEPT !.status = "FAILED", !.shown = None]]
    \/ decision.kind = "ambiguous" /\ Close(a, "AMBIGUOUS", "AMBIGUOUS")

PersistIfOwned(w) ==
    IF Owns(w) THEN Persist(worker[w].cur, worker[w].decision) ELSE UNCHANGED rows

Finalize(w) ==
    /\ worker[w].pc \in {"decided", "unsendable"}
    /\ PersistIfOwned(w)
    /\ worker' = [worker EXCEPT ![w] = Resume(w, worker[w].todo)]
    /\ UNCHANGED <<cancelling, truth, calls, faults>>

(* finalize throws, before the commit or after it.                         *)
FinalizeErrors(w) ==
    /\ worker[w].pc \in {"decided", "unsendable"}
    /\ Fault
    /\ PersistIfOwned(w) \/ UNCHANGED rows
    /\ worker' = [worker EXCEPT ![w] = IF @.pc = "decided" THEN [@ EXCEPT !.pc = "marking"]
                                       ELSE Resume(w, @.todo)]
    /\ UNCHANGED <<cancelling, truth, calls>>

(* The result may not be stored: record that, discarding what it said.     *)
MarkPersistenceAmbiguous(w) ==
    /\ worker[w].pc = "marking"
    /\ IF Owns(w) THEN Close(worker[w].cur, "AMBIGUOUS", "AMBIGUOUS") ELSE UNCHANGED rows
    /\ worker' = [worker EXCEPT ![w] = Resume(w, worker[w].todo)]
    /\ UNCHANGED <<cancelling, truth, calls, faults>>

MarkErrors(w) ==
    /\ worker[w].pc = "marking"
    /\ Fault
    /\ worker' = [worker EXCEPT ![w] = Resume(w, worker[w].todo)]
    /\ UNCHANGED <<message, attempt, cancelling, truth, calls>>

Crash(w) ==
    /\ worker[w].pc # "idle"
    /\ Fault
    /\ worker' = [worker EXCEPT ![w] = IdleWorker]
    /\ UNCHANGED <<message, attempt, cancelling, truth, calls>>

-----------------------------------------------------------------------------
(* Time.                                                                   *)

Held(a) == \E w \in Workers : /\ worker[w].token = attempt[a].token
                              /\ a \in worker[w].todo \/ a = worker[w].cur

Lapse(a) ==
    /\ attempt[a].status = "PROCESSING" /\ ~attempt[a].lapsed
    /\ attempt' = [attempt EXCEPT ![a].lapsed = TRUE]
    /\ UNCHANGED <<message, worker, cancelling, truth, calls>>

LeaseLapses(a)  == ~Held(a) /\ Lapse(a) /\ UNCHANGED faults
LeaseOutrun(a)  == Held(a) /\ Lapse(a) /\ Fault     \* a slow or stalled owner

RetryBecomesDue(a) ==
    /\ attempt[a].status = "QUEUED" /\ ~attempt[a].due
    /\ attempt' = [attempt EXCEPT ![a].due = TRUE]
    /\ UNCHANGED <<message, worker, cancelling, truth, calls, faults>>

(* The provider.  A request may be acted on long after its sender gave up. *)

ProviderMoves(a) == \E state \in ProviderState :
    /\ \/ truth[a] = "inflight" /\ state \in Refusals \cup {"queued"}
       \/ truth[a] = "queued" /\ state = "sent"
       \/ truth[a] = "sent" /\ state \in {"delivered", "undelivered"}
    /\ truth' = [truth EXCEPT ![a] = state]
    /\ UNCHANGED <<message, attempt, worker, cancelling, calls, faults>>

-----------------------------------------------------------------------------
(* The steps of worker w that need no fault.                               *)
WorkerStep(w) ==
    \/ \E batch \in SUBSET {a \in Attempts : Claimable(a)}, t \in Tokens :
            Claim(w, batch, t)
    \/ \E a \in Attempts : \/ PrepareSkips(w, a) \/ PrepareCancels(w, a)
                           \/ PrepareAuthorises(w, a)
    \/ AdapterUnavailable(w) \/ SendRequest(w)
    \/ \E status \in ReportedStatus : ReplyAccepted(w, status)
    \/ ReplyRefused(w) \/ ReplyUnknown(w)
    \/ Finalize(w) \/ MarkPersistenceAmbiguous(w)

WorkerFault(w) ==
    \/ \E a \in Attempts : PrepareErrors(w, a)
    \/ FinalizeErrors(w) \/ MarkErrors(w) \/ Crash(w)

Next ==
    \/ \E m \in Messages : Accept(m) \/ CancelReads(m) \/ CancelCommits(m)
    \/ \E a \in Attempts :
          \/ Attest(a) \/ RetryAttested(a) \/ RecoverExpired(a)
          \/ \E status \in ReportedStatus : Callback(a, status)
          \/ LeaseLapses(a) \/ LeaseOutrun(a) \/ RetryBecomesDue(a) \/ ProviderMoves(a)
    \/ \E w \in Workers : WorkerStep(w) \/ WorkerFault(w)

Spec == Init /\ [][Next]_vars

(* Workers keep polling and every blocking call they make returns or times *)
(* out; clocks advance.  Nothing obliges a user, an operator or the        *)
(* provider to act.                                                        *)
Fairness ==
    /\ \A w \in Workers : WF_vars(WorkerStep(w))
    /\ \A a \in Attempts : /\ WF_vars(RecoverExpired(a))
                           /\ WF_vars(LeaseLapses(a))
                           /\ WF_vars(RetryBecomesDue(a))

FairSpec == Spec /\ Fairness
-----------------------------------------------------------------------------
(* Properties.                                                             *)

(* The statuses of the latest attempt that belong to a message status.     *)
StatusesFor(status) ==
    CASE status = "NONE" -> {"NONE"}
      [] status \in {"ACCEPTED", "SCHEDULED"} -> {"QUEUED"}
      [] status = "PROCESSING" -> {"PROCESSING"}
      [] status \in {"SENT", "DELIVERED"} -> {"SUCCEEDED"}
      [] status = "FAILED" -> {"FAILED", "SUCCEEDED"}
      [] status = "CANCELLED" -> {"CANCELLED"}
      [] status = "AMBIGUOUS" -> {"AMBIGUOUS", "RESOLVED_NOT_SENT"}

(* The two rows tell one story: attempts are numbered without gaps, only   *)
(* the latest is open, each earlier one was refused by the provider or     *)
(* attested by an operator, and the message status is the one that belongs *)
(* to its latest attempt (whichever of worker, recovery, cancellation,     *)
(* operator or callback wrote last).                                       *)
RowsAgree ==
    \A a \in Attempts :
        LET m == a[1] IN
        /\ a[2] < message[m].count => attempt[a].status \in {"FAILED", "RESOLVED_NOT_SENT"}
        /\ a[2] = message[m].count => attempt[a].status \in StatusesFor(message[m].status)
        /\ a[2] > message[m].count => attempt[a] = NoRow

(* However workers crash, stall past their lease or lose the database, an  *)
(* attempt is handed to the provider at most once.                         *)
AtMostOneCall == \A a \in Attempts : calls[a] <= 1

(* A message can reach its recipient twice only if an operator attested    *)
(* that the earlier, accepted attempt was not sent: no retry, recovery,    *)
(* reclaim or lost response does it.                                       *)
SecondCopyNeedsAttestation ==
    \A a, b \in Attempts :
        a[1] = b[1] /\ a[2] < b[2] /\ Accepted(a) /\ attempt[b].frontier =>
            attempt[a].status = "RESOLVED_NOT_SENT"

(* A cancelled message is not sent afterwards: nothing was or will be sent *)
(* for the attempt that was cancelled, although a worker may hold its      *)
(* claim, and a request of an earlier attempt can only belong to one that  *)
(* was refused or attested.                                                *)
CancelledIsNotSent ==
    \A m \in Messages : message[m].status = "CANCELLED" =>
        /\ calls[Latest(m)] = 0
        /\ \A w \in Workers :
              worker[w].cur = Latest(m) => worker[w].pc # "authorised"
        /\ \A a \in Attempts : a[1] = m /\ Accepted(a) =>
              attempt[a].status = "RESOLVED_NOT_SENT"

(* What the message shows its tenant is what the provider did with the     *)
(* current attempt, however late or out of order responses and callbacks   *)
(* were.                                                                   *)
OutcomeIsTrue ==
    \A m \in Messages :
        /\ message[m].status = "SENT" => Accepted(Latest(m))
        /\ message[m].status = "DELIVERED" => truth[Latest(m)] = "delivered"
        /\ message[m].status = "FAILED" =>
              truth[Latest(m)] \in Refusals \cup {"undelivered"}

(* An ambiguous attempt never carries a provider SID or status: the        *)
(* callback that binds one resolves the attempt in the same transaction.   *)
(* An operator can therefore always attest it, and never fetch it.         *)
AmbiguousCarriesNoEvidence ==
    \A a \in Attempts : attempt[a].status = "AMBIGUOUS" =>
        /\ ~attempt[a].sid /\ attempt[a].shown = None
        /\ message[a[1]].sid = 0 /\ message[a[1]].shown = None

(* Message and latest attempt carry the same provider evidence, and no     *)
(* other attempt carries any.                                              *)
EvidenceAgrees ==
    \A a \in Attempts :
        IF attempt[a].sid
        THEN /\ a = Latest(a[1]) /\ Accepted(a)
             /\ message[a[1]].sid = a[2] /\ message[a[1]].shown = attempt[a].shown
        ELSE attempt[a].shown = None /\ message[a[1]].sid # a[2]

(* enforce_message_m5_invariants: the message statuses it lets change.     *)
MessageMoves == [
    NONE       |-> {"ACCEPTED"},
    ACCEPTED   |-> {"SCHEDULED", "PROCESSING", "SENT", "DELIVERED", "FAILED",
                    "CANCELLED", "AMBIGUOUS"},
    SCHEDULED  |-> {"PROCESSING", "SENT", "DELIVERED", "FAILED", "CANCELLED", "AMBIGUOUS"},
    PROCESSING |-> {"SCHEDULED", "SENT", "DELIVERED", "FAILED", "CANCELLED", "AMBIGUOUS"},
    SENT       |-> {"DELIVERED", "FAILED", "AMBIGUOUS"},
    AMBIGUOUS  |-> {"SCHEDULED", "SENT", "DELIVERED", "FAILED", "CANCELLED"},
    DELIVERED  |-> {}, FAILED |-> {}, CANCELLED |-> {}]

(* enforce_message_attempt_invariants: the attempt statuses it lets change. *)
AttemptMoves == [
    NONE       |-> {"QUEUED"},
    QUEUED     |-> {"PROCESSING", "CANCELLED"},
    PROCESSING |-> {"SUCCEEDED", "FAILED", "CANCELLED", "AMBIGUOUS"},
    AMBIGUOUS  |-> {"SUCCEEDED", "FAILED", "RESOLVED_NOT_SENT"},
    SUCCEEDED  |-> {}, FAILED |-> {}, CANCELLED |-> {}, RESOLVED_NOT_SENT |-> {}]

(* What both triggers let one statement do.                                *)
TriggersAllow ==
    /\ \A m \in Messages :
          /\ \/ message'[m].status = message[m].status
             \/ message'[m].status \in MessageMoves[message[m].status]
          /\ message'[m].count \in {message[m].count, message[m].count + 1}
          /\ message[m].sid # 0 => message'[m].sid = message[m].sid
    /\ \A a \in Attempts :
          /\ \/ attempt'[a].status = attempt[a].status
             \/ attempt'[a].status \in AttemptMoves[attempt[a].status]
          /\ attempt[a].frontier => attempt'[a].frontier
          /\ ~attempt[a].frontier /\ attempt'[a].frontier =>
                /\ attempt[a].status = "PROCESSING" /\ attempt'[a].status = "PROCESSING"
                /\ attempt'[a].token = attempt[a].token
          /\ attempt[a].frontier /\ attempt'[a].status = "PROCESSING" =>
                attempt'[a].token = attempt[a].token
          /\ attempt[a].sid => attempt'[a].sid

(* No step attempts a status change that the database triggers refuse      *)
(* (which would roll the transaction back): every writer respects the      *)
(* state machines that enforce_message_m5_invariants and                   *)
(* enforce_message_attempt_invariants guard, and never unbinds a frontier, *)
(* a SID or an owner past the frontier.                                    *)
NoStepIsRefused == [][TriggersAllow]_vars

(* Nothing stays open for ever: every accepted message is sent, failed,    *)
(* cancelled or put before an operator, although workers crash mid-call    *)
(* and neither provider nor operator need ever act.                        *)
OpenMessageSettles ==
    \A m \in Messages :
        message[m].status \in OpenStatus ~> message[m].status \notin OpenStatus

(* SPEC-033: "Fetch may converge AMBIGUOUS to SENT, DELIVERED, or FAILED"  *)
(* for an attempt "with a known provider SID".  A worker that received the *)
(* SID but whose finalize failed leaves the attempt ambiguous; were the    *)
(* SID kept, that attempt would be a candidate.                            *)
KnownSidIsKept ==
    [][\A w \in Workers :
          LET a == worker[w].cur IN
          worker[w].pc = "marking" /\ worker[w].decision.kind = "result"
          /\ attempt[a].status = "PROCESSING" /\ attempt'[a].status = "AMBIGUOUS"
             => attempt'[a].sid]_vars
-----------------------------------------------------------------------------
(* The invariant that makes the ones above inductive: what the guards of   *)
(* one transaction may assume because every other one preserves it.        *)

(* A message exists exactly when it has an attempt; only what passed the   *)
(* frontier was sent, and only what was sent is known to the provider.     *)
CallsFollowFrontier ==
    /\ \A m \in Messages : message[m].status = "NONE" <=> message[m].count = 0
    /\ \A a \in Attempts :
          /\ attempt[a].status \in {"QUEUED", "CANCELLED"} => ~attempt[a].frontier
          /\ calls[a] > 0 => attempt[a].frontier
          /\ truth[a] # "none" => calls[a] > 0

(* An attempt that was followed by another was refused or attested.        *)
PastIsExcused ==
    \A a \in Attempts :
        a[2] < message[a[1]].count /\ attempt[a].status = "FAILED" =>
            truth[a] = "retryable"

(* The frontier is a permission to call once, held by one worker.          *)
PermissionIsUnique ==
    /\ \A w \in Workers : worker[w].pc = "authorised" =>
          /\ worker[w].cur \in Attempts
          /\ attempt[worker[w].cur].frontier
          /\ calls[worker[w].cur] = 0
    /\ \A v, w \in Workers :
          worker[v].pc = "authorised" /\ worker[w].pc = "authorised"
          /\ worker[v].cur = worker[w].cur => v = w

(* A worker past preparation has an attempt in hand, and retries only what *)
(* the provider refused and may be attempted again.                        *)
DecisionsAreTrue ==
    \A w \in Workers :
        /\ worker[w].pc \notin {"idle", "batch"} => worker[w].cur \in Attempts
        /\ worker[w].decision.kind = "retry" =>
              /\ worker[w].pc \in {"decided", "marking"}
              /\ worker[w].cur \in Attempts
              /\ worker[w].cur[2] < MaxAttempts
              /\ truth[worker[w].cur] = "retryable"

(* Together they survive every step of the outbox, which none of the       *)
(* properties above does alone.                                            *)
OutboxInv ==
    /\ TypeOK
    /\ RowsAgree
    /\ AtMostOneCall
    /\ CallsFollowFrontier
    /\ PastIsExcused
    /\ PermissionIsUnique
    /\ DecisionsAreTrue

-----------------------------------------------------------------------------
(* The outbox implements the contract: a grant is a committed frontier; it *)
(* is excused when its attempt has a successor because the provider said   *)
(* no, or is attested.                                                     *)
PhaseOf(m) ==
    LET latest == attempt[Latest(m)] IN
    CASE message[m].status = "NONE" -> "absent"
      [] message[m].status \in OpenStatus ->
            IF latest.frontier THEN "calling" ELSE "pending"
      [] message[m].status = "AMBIGUOUS" ->
            IF latest.status = "AMBIGUOUS" THEN "unknown" ELSE "cleared"
      [] message[m].status = "SENT" -> "sent"
      [] message[m].status = "DELIVERED" -> "delivered"
      [] message[m].status = "FAILED" -> "failed"
      [] message[m].status = "CANCELLED" -> "cancelled"

GrantedOf(m) == {k \in 1 .. MaxAttempts : attempt[<<m, k>>].frontier}

ExcusedOf(m) ==
    {k \in 1 .. MaxAttempts :
        \/ attempt[<<m, k>>].status = "RESOLVED_NOT_SENT"
        \/ attempt[<<m, k>>].status = "FAILED" /\ k < message[m].count}

Contract == INSTANCE DirectMessageContract WITH
    phase   <- [m \in Messages |-> PhaseOf(m)],
    granted <- [m \in Messages |-> GrantedOf(m)],
    excused <- [m \in Messages |-> ExcusedOf(m)]

(* Every step of requests, workers, callbacks and faults is, for the       *)
(* tenant, a step of the contract or none at all.                          *)
ImplementsContract == Contract!Spec
=============================================================================
