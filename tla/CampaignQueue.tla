---------------------------- MODULE CampaignQueue ----------------------------
(***************************************************************************)
(* One campaign and the queue jobs that send it.  Requests of the console  *)
(* and of the public API edit, schedule and cancel the campaign; workers   *)
(* claim a due job under a lease, send one message per recipient and close *)
(* job and campaign together; contacts opt out and in; workers crash,      *)
(* outrun their lease and lose database connections.                       *)
(*                                                                         *)
(* Every transaction runs at READ COMMITTED.  A request is split wherever  *)
(* a statement reads rows it holds no lock on: the steps before its last   *)
(* one only read and lock, and the last one evaluates the conditions of    *)
(* its updates on the committed rows, writes, commits and unlocks.  A      *)
(* worker's transactions each touch at most a job row and the campaign row *)
(* and are one step.  A statement that meets a row lock waits.             *)
(*                                                                         *)
(* The job of a schedule is keyed by its time (one idempotencyKey per      *)
(* campaign and time), so the time is the job's identity; its payload      *)
(* never changes.  processingToken is abstracted to the worker that drew   *)
(* it: a worker processes one claim at a time and forgets the earlier      *)
(* ones, so a token of its own marks its latest claim and no other.        *)
(***************************************************************************)
EXTENDS Naturals, FiniteSets

CONSTANTS
    Contacts, Workers,
    Requests,       \* requests that may be in progress at the same time
    Interfaces,     \* which of {"console", "public"} the requests come from
    NoOwner,        \* processingToken IS NULL
    MaxTime,        \* bound on the clock and on the times one may schedule
    MaxFaults       \* bound on crashes, outrun leases, database errors, aborts

ASSUME QueueAssumption ==
    /\ Interfaces \subseteq {"console", "public"}
    /\ NoOwner \notin Workers
    /\ MaxTime \in Nat
    /\ MaxFaults \in Nat

Times == 1 .. MaxTime

VARIABLES
    campaign,    \* the Campaign row: [status, at]
    recipients,  \* its CampaignRecipient rows
    job,         \* QueueJob rows, by scheduled time
    messages,    \* Message rows, by <<job, contact>>
    consenting,  \* contacts that preflight allows
    everBlocked, \* history: contacts that preflight blocked at some time
    worker,      \* what each worker process holds in memory
    request,     \* what each open request has read and locked
    now,         \* the clock: a job is due when its time is not after it
    faults       \* faults so far

rows == <<campaign, recipients, job, messages>>
contactVars == <<consenting, everBlocked>>
vars == <<campaign, recipients, job, messages, consenting, everBlocked,
          worker, request, now, faults>>

-----------------------------------------------------------------------------
CampaignStatus == {"DRAFT", "SCHEDULED", "PAUSED", "COMPLETED"}
JobStatus == {"NONE", "QUEUED", "PROCESSING", "CANCELLED", "COMPLETED", "FAILED"}
Live == {"QUEUED", "PROCESSING"}
Reopenable == {"NONE", "QUEUED", "CANCELLED", "FAILED"}

WorkerPc == {"idle", "claimed", "loaded", "closing", "sending", "sent", "failing"}
RequestPc == {"idle", "editing",
              "scheduling", "checked", "replacing",
              "cancelling", "collecting", "withdrawing", "pausing",
              "publicScheduling",
              "publicCancelling", "publicCollecting", "publicLocking", "publicPausing"}

Unowned(status) == [status |-> status, owner |-> NoOwner, lapsed |-> FALSE]
IdleWorker == [pc |-> "idle", cur |-> 0, todo |-> {}, strict |-> FALSE, verdict |-> "NONE"]
IdleRequest == [pc |-> "idle", time |-> 0, seen |-> {}, batch |-> {}]

JobRows == [status : JobStatus, owner : Workers \cup {NoOwner}, lapsed : BOOLEAN]
WorkerStates == [pc : WorkerPc, cur : 0 .. MaxTime, todo : SUBSET Contacts,
                 strict : BOOLEAN, verdict : {"NONE", "FAILED", "CANCELLED"}]
RequestStates == [pc : RequestPc, time : 0 .. MaxTime, seen : SUBSET Contacts,
                  batch : SUBSET Times]

TypeOK ==
    /\ campaign \in [status : CampaignStatus, at : 0 .. MaxTime]
    /\ recipients \subseteq Contacts
    /\ job \in [Times -> JobRows]
    /\ messages \subseteq Times \X Contacts
    /\ consenting \subseteq Contacts
    /\ everBlocked \subseteq Contacts
    /\ worker \in [Workers -> WorkerStates]
    /\ request \in [Requests -> RequestStates]
    /\ now \in 0 .. MaxTime
    /\ faults \in 0 .. MaxFaults

Init ==
    /\ campaign = [status |-> "DRAFT", at |-> 0]
    /\ recipients = Contacts
    /\ job = [t \in Times |-> Unowned("NONE")]
    /\ messages = {}
    /\ consenting = Contacts
    /\ everBlocked = {}
    /\ worker = [w \in Workers |-> IdleWorker]
    /\ request = [r \in Requests |-> IdleRequest]
    /\ now = 0
    /\ faults = 0

-----------------------------------------------------------------------------
(* Row locks.  While a request waits at one of these points its            *)
(* transaction holds the campaign row, or the job rows of its batch.       *)

HoldsWhenPausing(r) == request[r].pc = "publicPausing"

HoldsCampaign(r) == request[r].pc \in {"publicScheduling", "publicPausing"}
HeldJobs(r) ==
    IF request[r].pc \in {"withdrawing", "pausing", "publicLocking", "publicPausing"}
    THEN request[r].batch ELSE {}

CampaignFree(others) == \A r \in others : ~HoldsCampaign(r)
JobsFree(ts, others) == \A r \in others : HeldJobs(r) \cap ts = {}

JobsIn(statuses) == {t \in Times : job[t].status \in statuses}
NoneProcessing == JobsIn({"PROCESSING"}) = {}

(* preflightCampaignRecipients(...).allowed *)
PreflightAllows(cs) == cs # {} /\ cs \subseteq consenting

Fault == faults < MaxFaults /\ faults' = faults + 1

Advance(r, pc) == request' = [request EXCEPT ![r].pc = pc]
Gather(r, pc, ts) == request' = [request EXCEPT ![r] = [@ EXCEPT !.pc = pc, !.batch = ts]]
Finish(r) == request' = [request EXCEPT ![r] = IdleRequest]
Start(r, pc, t, cs) ==
    /\ request[r].pc = "idle"
    /\ request' = [request EXCEPT ![r] =
                     [pc |-> pc, time |-> t, seen |-> cs, batch |-> {}]]

(* The writes of a scheduling transaction: other queued jobs are cancelled *)
(* and the job of `t` is created or reopened.                              *)
Enqueue(t, replaced) ==
    /\ campaign' = [status |-> "SCHEDULED", at |-> t]
    /\ job' = [u \in Times |->
                 IF u = t THEN Unowned("QUEUED")
                 ELSE IF u \in replaced /\ job[u].status = "QUEUED"
                      THEN Unowned("CANCELLED") ELSE job[u]]

(* The writes of a cancelling transaction.                                 *)
Pause(cancelled) ==
    /\ campaign' = [campaign EXCEPT !.status = "PAUSED"]
    /\ job' = [u \in Times |-> IF u \in cancelled THEN Unowned("CANCELLED") ELSE job[u]]

-----------------------------------------------------------------------------
(* Requests of the console.                                                *)

EditRead(r) ==
    /\ "console" \in Interfaces
    /\ campaign.status = "DRAFT"
    /\ Start(r, "editing", 0, {})
    /\ UNCHANGED <<rows, contactVars, worker, now, faults>>

EditCommit(r, cs) ==
    /\ request[r].pc = "editing"
    /\ CampaignFree(Requests \ {r})
    /\ recipients' = cs
    /\ Finish(r)
    /\ UNCHANGED <<campaign, job, messages, contactVars, worker, now, faults>>

ScheduleRead(r, t) ==
    /\ "console" \in Interfaces
    /\ campaign.status \in {"DRAFT", "PAUSED"}
    /\ Start(r, "scheduling", t, recipients)
    /\ UNCHANGED <<rows, contactVars, worker, now, faults>>

(* The read of processing jobs, and the preflight of the recipients read   *)
(* with the campaign against the contacts as they are now.                 *)
ScheduleCheck(r) ==
    /\ request[r].pc = "scheduling"
    /\ IF NoneProcessing /\ PreflightAllows(request[r].seen)
       THEN Advance(r, "checked") ELSE Finish(r)
    /\ UNCHANGED <<rows, contactVars, worker, now, faults>>

(* The statement that cancels other queued jobs finds its rows in its own  *)
(* snapshot, then waits for their locks.                                   *)
ScheduleCollect(r) ==
    /\ request[r].pc = "checked"
    /\ Gather(r, "replacing", JobsIn({"QUEUED"}) \ {request[r].time})
    /\ UNCHANGED <<rows, contactVars, worker, now, faults>>

ScheduleCommitOverActive(r) ==
    LET t == request[r].time IN
    /\ request[r].pc = "replacing"
    /\ CampaignFree(Requests \ {r})
    /\ JobsFree(request[r].batch \cup {t}, Requests \ {r})
    /\ campaign' = [status |-> "SCHEDULED", at |-> t]
    /\ job' = [job EXCEPT ![t] = IF @.status = "PROCESSING" THEN @ ELSE Unowned("QUEUED")]
    /\ Finish(r)
    /\ UNCHANGED <<recipients, messages, contactVars, worker, now, faults>>

(* The campaign row is updated whatever its status; a job that is          *)
(* processing or complete is not reopened and rolls everything back.       *)
ScheduleCommit(r) ==
    LET t == request[r].time IN
    /\ request[r].pc = "replacing"
    /\ CampaignFree(Requests \ {r})
    /\ JobsFree(request[r].batch \cup {t}, Requests \ {r})
    /\ IF job[t].status \in Reopenable
       THEN Enqueue(t, request[r].batch)
       ELSE UNCHANGED <<campaign, job>>
    /\ Finish(r)
    /\ UNCHANGED <<recipients, messages, contactVars, worker, now, faults>>

CancelRead(r) ==
    /\ "console" \in Interfaces
    /\ campaign.status = "SCHEDULED"
    /\ Start(r, "cancelling", 0, {})
    /\ UNCHANGED <<rows, contactVars, worker, now, faults>>

CancelCollect(r) ==
    /\ request[r].pc = "cancelling"
    /\ Gather(r, "collecting", JobsIn({"QUEUED"}))
    /\ UNCHANGED <<rows, contactVars, worker, now, faults>>

(* The rows that are still queued once their locks are granted.            *)
CancelLock(r) ==
    /\ request[r].pc = "collecting"
    /\ JobsFree(request[r].batch, Requests \ {r})
    /\ Gather(r, "withdrawing", request[r].batch \cap JobsIn({"QUEUED"}))
    /\ UNCHANGED <<rows, contactVars, worker, now, faults>>

CancelCheck(r) ==
    /\ request[r].pc = "withdrawing"
    /\ IF NoneProcessing THEN Advance(r, "pausing") ELSE Finish(r)
    /\ UNCHANGED <<rows, contactVars, worker, now, faults>>

CancelCommit(r) ==
    /\ request[r].pc = "pausing"
    /\ CampaignFree(Requests \ {r})
    /\ IF campaign.status = "SCHEDULED"
       THEN Pause(request[r].batch) ELSE UNCHANGED <<campaign, job>>
    /\ Finish(r)
    /\ UNCHANGED <<recipients, messages, contactVars, worker, now, faults>>

-----------------------------------------------------------------------------
(* Requests of the public API.                                             *)

PublicEditById(r, cs) ==
    /\ "public" \in Interfaces
    /\ request[r].pc = "idle"
    /\ CampaignFree(Requests \ {r})
    /\ recipients' = cs
    /\ UNCHANGED <<campaign, job, messages, contactVars, worker, request, now, faults>>

(* The update is conditional, so the earlier read of the status adds       *)
(* nothing.                                                                *)
PublicEdit(r, cs) ==
    /\ "public" \in Interfaces
    /\ request[r].pc = "idle"
    /\ CampaignFree(Requests \ {r})
    /\ campaign.status = "DRAFT"
    /\ recipients' = cs
    /\ UNCHANGED <<campaign, job, messages, contactVars, worker, request, now, faults>>

PublicScheduleLock(r, t) ==
    /\ "public" \in Interfaces
    /\ CampaignFree(Requests \ {r})
    /\ campaign.status \in {"DRAFT", "PAUSED"}
    /\ Start(r, "publicScheduling", t, recipients)
    /\ UNCHANGED <<rows, contactVars, worker, now, faults>>

PublicScheduleCommitOverActive(r) ==
    LET t == request[r].time IN
    /\ request[r].pc = "publicScheduling"
    /\ JobsFree(Times, Requests \ {r})
    /\ IF PreflightAllows(request[r].seen) /\ job[t].status \in Reopenable
       THEN Enqueue(t, Times)
       ELSE UNCHANGED <<campaign, job>>
    /\ Finish(r)
    /\ UNCHANGED <<recipients, messages, contactVars, worker, now, faults>>

(* With every job row locked too, the rest reads only locked rows: jobs    *)
(* are inserted by transactions that hold the campaign.                    *)
PublicScheduleCommit(r) ==
    LET t == request[r].time IN
    /\ request[r].pc = "publicScheduling"
    /\ JobsFree(Times, Requests \ {r})
    /\ IF NoneProcessing /\ PreflightAllows(request[r].seen) /\ job[t].status \in Reopenable
       THEN Enqueue(t, Times)
       ELSE UNCHANGED <<campaign, job>>
    /\ Finish(r)
    /\ UNCHANGED <<recipients, messages, contactVars, worker, now, faults>>

PublicCancelRead(r) ==
    /\ "public" \in Interfaces
    /\ campaign.status = "SCHEDULED"
    /\ Start(r, "publicCancelling", 0, {})
    /\ UNCHANGED <<rows, contactVars, worker, now, faults>>

(* SELECT ... FOR UPDATE finds the job rows in its own snapshot and then   *)
(* waits for their locks: a row inserted meanwhile is not among them.      *)
PublicCancelCollect(r) ==
    /\ request[r].pc = "publicCancelling"
    /\ Gather(r, "publicCollecting", {t \in Times : job[t].status # "NONE"})
    /\ UNCHANGED <<rows, contactVars, worker, now, faults>>

PublicCancelLock(r) ==
    /\ request[r].pc = "publicCollecting"
    /\ JobsFree(request[r].batch, Requests \ {r})
    /\ Advance(r, "publicLocking")
    /\ UNCHANGED <<rows, contactVars, worker, now, faults>>

PublicCancelLockCampaign(r) ==
    /\ request[r].pc = "publicLocking"
    /\ CampaignFree(Requests \ {r})
    /\ IF campaign.status = "SCHEDULED" /\ NoneProcessing
       THEN Advance(r, "publicPausing") ELSE Finish(r)
    /\ UNCHANGED <<rows, contactVars, worker, now, faults>>

(* The update finds every queued row anew, locked by now or not; a row of  *)
(* which the check above knew nothing may be processing by then.           *)
PublicCancelCommit(r) ==
    /\ request[r].pc = "publicPausing"
    /\ JobsFree(JobsIn({"QUEUED"}), Requests \ {r})
    /\ Pause(JobsIn({"QUEUED"}))
    /\ Finish(r)
    /\ UNCHANGED <<recipients, messages, contactVars, worker, now, faults>>

(* One waits for jobs while it holds the campaign, the other for the       *)
(* campaign while it holds some of those jobs; PostgreSQL ends either.     *)
Deadlocked(r, q) ==
    /\ HoldsCampaign(r)
    /\ request[q].pc \in {"pausing", "publicLocking"}
    /\ ~JobsFree(IF request[r].pc = "publicScheduling" THEN Times ELSE JobsIn({"QUEUED"}), {q})

ResolveDeadlock(r, q) ==
    /\ Deadlocked(r, q)
    /\ Finish(r) \/ Finish(q)
    /\ UNCHANGED <<rows, contactVars, worker, now, faults>>

(* A transaction that fails rolls back.                                    *)
Abort(r) ==
    /\ request[r].pc # "idle"
    /\ Fault
    /\ Finish(r)
    /\ UNCHANGED <<rows, contactVars, worker, now>>

-----------------------------------------------------------------------------
(* Workers.                                                                *)

Cur(w) == worker[w].cur
Owns(w) == job[Cur(w)].status = "PROCESSING" /\ job[Cur(w)].owner = w
Become(w, pc) == worker' = [worker EXCEPT ![w].pc = pc]
Rest(w) == worker' = [worker EXCEPT ![w] = IdleWorker]
StartFailing(w, strict) ==
    worker' = [worker EXCEPT ![w] = [@ EXCEPT !.pc = "failing", !.strict = strict,
                                              !.todo = {}]]

ClaimableOnce(t) == job[t].status = "QUEUED"

Claimable(t) ==
    \/ job[t].status = "QUEUED"
    \/ job[t].status = "PROCESSING" /\ job[t].lapsed

(* A poll of the database skips locked rows and a delivery by BullMQ waits *)
(* for them; both take one due job.                                        *)
Claim(w, t) ==
    /\ worker[w].pc = "idle"
    /\ t <= now
    /\ Claimable(t)
    /\ JobsFree({t}, Requests)
    /\ job' = [job EXCEPT ![t] = [status |-> "PROCESSING", owner |-> w, lapsed |-> FALSE]]
    /\ worker' = [worker EXCEPT ![w] = [IdleWorker EXCEPT !.pc = "claimed", !.cur = t]]
    /\ UNCHANGED <<campaign, recipients, messages, contactVars, request, now, faults>>

(* loadDispatchedQueueJob: a claim lost meanwhile is dropped.              *)
Load(w) ==
    /\ worker[w].pc = "claimed"
    /\ IF Owns(w) THEN Become(w, "loaded") ELSE Rest(w)
    /\ UNCHANGED <<rows, contactVars, request, now, faults>>

(* The campaign, its recipients and their consent are read once; the sends *)
(* that follow use this snapshot.                                          *)
Prepare(w) ==
    LET sendable == recipients \cap consenting IN
    /\ worker[w].pc = "loaded"
    /\ \/ /\ campaign.status # "SCHEDULED"
          /\ worker' = [worker EXCEPT ![w] = [@ EXCEPT !.pc = "closing", !.verdict = "FAILED"]]
       \/ /\ campaign.status = "SCHEDULED" /\ campaign.at # Cur(w)
          /\ worker' = [worker EXCEPT ![w] = [@ EXCEPT !.pc = "closing", !.verdict = "CANCELLED"]]
       \/ /\ campaign = [status |-> "SCHEDULED", at |-> Cur(w)]
          /\ sendable = {}
          /\ StartFailing(w, TRUE)
       \/ /\ campaign = [status |-> "SCHEDULED", at |-> Cur(w)]
          /\ sendable # {}
          /\ worker' = [worker EXCEPT ![w] = [@ EXCEPT !.pc = "sending", !.todo = sendable]]
    /\ UNCHANGED <<rows, contactVars, request, now, faults>>

(* transitionClaimedQueueJob: only the owner closes the job.               *)
CloseJob(w) ==
    /\ worker[w].pc = "closing"
    /\ JobsFree({Cur(w)}, Requests)
    /\ \/ /\ Owns(w)
          /\ job' = [job EXCEPT ![Cur(w)] = Unowned(worker[w].verdict)]
          /\ Rest(w)
       \/ /\ ~Owns(w)
          /\ job' = job
          /\ StartFailing(w, FALSE)
    /\ UNCHANGED <<campaign, recipients, messages, contactVars, request, now, faults>>

(* The claim is renewed before each send; the provider is a dummy.         *)
Renew(w) ==
    /\ worker[w].pc = "sending" /\ worker[w].todo # {}
    /\ JobsFree({Cur(w)}, Requests)
    /\ \/ /\ Owns(w)
          /\ job' = [job EXCEPT ![Cur(w)].lapsed = FALSE]
          /\ Become(w, "sent")
       \/ /\ ~Owns(w)
          /\ job' = job
          /\ StartFailing(w, FALSE)
    /\ UNCHANGED <<campaign, recipients, messages, contactVars, request, now, faults>>

(* The message is keyed by job and contact, so a second one changes        *)
(* nothing.                                                                *)
Record(w, c) ==
    /\ worker[w].pc = "sent" /\ c \in worker[w].todo
    /\ messages' = messages \cup {<<Cur(w), c>>}
    /\ worker' = [worker EXCEPT ![w] = [@ EXCEPT !.pc = "sending",
                                                   !.todo = worker[w].todo \ {c}]]
    /\ UNCHANGED <<campaign, recipients, job, contactVars, request, now, faults>>

(* transitionClaimedQueueJobWithCampaign: the owner closes its job, and    *)
(* the campaign if it is still scheduled at the job's time; `strict` rolls *)
(* both back when it is not.                                               *)
CanCloseBoth(w, strict) ==
    Owns(w) /\ (strict => campaign = [status |-> "SCHEDULED", at |-> Cur(w)])

CloseJobOnly(w, jobStatus, campaignStatus) ==
    /\ job' = [job EXCEPT ![Cur(w)] = Unowned(jobStatus)]
    /\ campaign' = IF jobStatus = "FAILED" THEN campaign
                   ELSE [campaign EXCEPT !.status = campaignStatus]

CloseBoth(w, jobStatus, campaignStatus) ==
    /\ job' = [job EXCEPT ![Cur(w)] = Unowned(jobStatus)]
    /\ campaign' = IF campaign = [status |-> "SCHEDULED", at |-> Cur(w)]
                   THEN [campaign EXCEPT !.status = campaignStatus] ELSE campaign

CompleteAnyway(w) ==
    /\ worker[w].pc = "sending"
    /\ JobsFree({Cur(w)}, Requests)
    /\ CanCloseBoth(w, TRUE)
    /\ CampaignFree(Requests)
    /\ CloseBoth(w, "COMPLETED", "COMPLETED")
    /\ Rest(w)
    /\ UNCHANGED <<recipients, messages, contactVars, request, now, faults>>

Complete(w) ==
    /\ worker[w].pc = "sending" /\ worker[w].todo = {}
    /\ JobsFree({Cur(w)}, Requests)
    /\ \/ /\ CanCloseBoth(w, TRUE)
          /\ CampaignFree(Requests)
          /\ CloseBoth(w, "COMPLETED", "COMPLETED")
          /\ Rest(w)
       \/ /\ ~CanCloseBoth(w, TRUE)
          /\ UNCHANGED <<campaign, job>>
          /\ StartFailing(w, FALSE)
    /\ UNCHANGED <<recipients, messages, contactVars, request, now, faults>>

(* failClaimedQueueJob: an error of its own is logged and forgotten, and   *)
(* the lease runs out.                                                     *)
Fail(w) ==
    /\ worker[w].pc = "failing"
    /\ JobsFree({Cur(w)}, Requests)
    /\ \/ /\ CanCloseBoth(w, worker[w].strict)
          /\ CampaignFree(Requests)
          /\ CloseBoth(w, "FAILED", "PAUSED")
       \/ /\ ~CanCloseBoth(w, worker[w].strict)
          /\ UNCHANGED <<campaign, job>>
    /\ Rest(w)
    /\ UNCHANGED <<recipients, messages, contactVars, request, now, faults>>

-----------------------------------------------------------------------------
(* Faults, time and contacts.                                              *)

(* processClaimedQueueJobSafely: an error between load and the last        *)
(* transaction fails the job.                                              *)
DatabaseError(w) ==
    /\ worker[w].pc \in {"loaded", "closing", "sending", "sent"}
    /\ Fault
    /\ StartFailing(w, FALSE)
    /\ UNCHANGED <<rows, contactVars, request, now>>

(* The process dies, or an error outside that handler ends the poll.       *)
Crash(w) ==
    /\ worker[w].pc # "idle"
    /\ Fault
    /\ Rest(w)
    /\ UNCHANGED <<rows, contactVars, request, now>>

Abandoned(t) ==
    /\ job[t].status = "PROCESSING" /\ ~job[t].lapsed
    /\ \A w \in Workers : job[t].owner = w => worker[w].pc = "idle" \/ Cur(w) # t

ExpireLease(t) ==
    /\ Abandoned(t)
    /\ job' = [job EXCEPT ![t].lapsed = TRUE]
    /\ UNCHANGED <<campaign, recipients, messages, contactVars, worker, request, now, faults>>

(* processingExpiresAt passes while its owner is still at work.            *)
OutrunLease(t) ==
    /\ job[t].status = "PROCESSING" /\ ~job[t].lapsed /\ ~Abandoned(t)
    /\ Fault
    /\ job' = [job EXCEPT ![t].lapsed = TRUE]
    /\ UNCHANGED <<campaign, recipients, messages, contactVars, worker, request, now>>

Tick ==
    /\ now < MaxTime
    /\ now' = now + 1
    /\ UNCHANGED <<rows, contactVars, worker, request, faults>>

OptOut(c) ==
    /\ c \in consenting
    /\ consenting' = consenting \ {c}
    /\ everBlocked' = everBlocked \cup {c}
    /\ UNCHANGED <<rows, worker, request, now, faults>>

OptIn(c) ==
    /\ c \in Contacts \ consenting
    /\ consenting' = consenting \cup {c}
    /\ UNCHANGED <<rows, everBlocked, worker, request, now, faults>>

-----------------------------------------------------------------------------
ConsoleRequest(r) ==
    \/ EditRead(r) \/ CancelRead(r)
    \/ \E cs \in SUBSET Contacts : EditCommit(r, cs)
    \/ \E t \in Times : ScheduleRead(r, t)
    \/ ScheduleCheck(r) \/ ScheduleCollect(r) \/ ScheduleCommit(r)
    \/ CancelCollect(r) \/ CancelLock(r) \/ CancelCheck(r) \/ CancelCommit(r)

PublicRequest(r) ==
    \/ \E cs \in SUBSET Contacts : PublicEdit(r, cs)
    \/ \E t \in Times : PublicScheduleLock(r, t)
    \/ PublicScheduleCommit(r)
    \/ PublicCancelRead(r) \/ PublicCancelCollect(r) \/ PublicCancelLock(r)
    \/ PublicCancelLockCampaign(r) \/ PublicCancelCommit(r)

(* The updates by the claim's owner, which wait for the job's row lock.    *)
FencedStep(w) == CloseJob(w) \/ Renew(w) \/ Complete(w) \/ Fail(w)

Poll(w) == \E t \in Times : Claim(w, t)

WorkerStep(w) ==
    \/ Poll(w) \/ Load(w) \/ Prepare(w)
    \/ \E c \in Contacts : Record(w, c)
    \/ FencedStep(w)

Environment ==
    \/ \E r \in Requests : Abort(r)
    \/ \E r, q \in Requests : ResolveDeadlock(r, q)
    \/ \E w \in Workers : DatabaseError(w) \/ Crash(w)
    \/ \E t \in Times : ExpireLease(t) \/ OutrunLease(t)
    \/ Tick
    \/ \E c \in Contacts : OptOut(c) \/ OptIn(c)

Next ==
    \/ \E r \in Requests : ConsoleRequest(r) \/ PublicRequest(r)
    \/ \E w \in Workers : WorkerStep(w)
    \/ Environment

Spec == Init /\ [][Next]_vars

(* Workers poll and go on with what they claimed, transactions end, leases *)
(* run out.  PostgreSQL queues the waiters of a row lock, so a worker that *)
(* waits for its job gets it between two requests that lock it; and the    *)
(* polls, which skip locked rows, do not all fall on the moments at which  *)
(* some cancel request that will be refused holds the lock.  Nothing makes *)
(* a fault happen, a client act or time pass.                              *)
FairSpec ==
    /\ Spec
    /\ \A w \in Workers : /\ WF_vars(WorkerStep(w))
                          /\ SF_vars(Poll(w)) /\ SF_vars(FencedStep(w))
    /\ \A r \in Requests :
         WF_vars(request[r].pc # "idle" /\ (ConsoleRequest(r) \/ PublicRequest(r)))
    /\ WF_vars(\E r, q \in Requests : ResolveDeadlock(r, q))
    /\ \A t \in Times : WF_vars(ExpireLease(t))

-----------------------------------------------------------------------------
(* A scheduled campaign always has a job that will send it: no order of    *)
(* requests, claims, failures and lost leases leaves it SCHEDULED with its *)
(* job closed, which nothing would ever pick up again.                     *)
ScheduledHasLiveJob ==
    campaign.status = "SCHEDULED" => job[campaign.at].status \in Live

(* A worker that found its job stale and still owns it may close it alone: *)
(* the campaign was not scheduled at that job's time when it looked, and   *)
(* no request can have scheduled it there since.                           *)
ClosesOnlyStaleJobs ==
    \A w \in Workers : worker[w].pc = "closing" /\ Owns(w) =>
        campaign # [status |-> "SCHEDULED", at |-> Cur(w)]

(* A job that waits is the campaign's current schedule, and one that runs  *)
(* is its latest: no job waits for a campaign that was cancelled, and none *)
(* runs for one that completed, is edited again or was scheduled anew.  A  *)
(* campaign may be paused over a job that runs (see below).                *)
LiveJobIsCurrent ==
    \A t \in Times :
        /\ job[t].status = "QUEUED" => campaign = [status |-> "SCHEDULED", at |-> t]
        /\ job[t].status = "PROCESSING" =>
               campaign.at = t /\ campaign.status \in {"SCHEDULED", "PAUSED"}

(* A campaign that completed has a message for every recipient whose       *)
(* consent never lapsed, however often its job changed hands on the way.   *)
CompletedReachedEveryone ==
    campaign.status = "COMPLETED" =>
        \A c \in recipients \ everBlocked : <<campaign.at, c>> \in messages

(* A completed campaign is never scheduled again.                          *)
CompletedIsFinal ==
    [][campaign.status = "COMPLETED" => campaign' = campaign]_vars

(* Recipients change only while the campaign is a draft, never under a job  *)
(* that runs or waits, and a completed campaign does not change any more.    *)
OnlyDraftsChange ==
    [][/\ recipients' # recipients => campaign.status = "DRAFT"
       /\ campaign.status = "COMPLETED" => campaign' = campaign]_vars

(* A cancellation never succeeds over active work: no step pauses the      *)
(* campaign and leaves one of its jobs processing.                         *)
PausedHasNoActiveWork ==
    [][campaign.status = "SCHEDULED" /\ campaign'.status = "PAUSED"
         => \A t \in Times : job'[t].status # "PROCESSING"]_vars

(* No two requests wait for each other's row locks: cancelling says that   *)
(* job rows are locked before the campaign.                                *)
NoLockCycle == \A r, q \in Requests : ~Deadlocked(r, q)

(* A campaign whose time has come is completed, paused or moved: a crashed *)
(* or stalled worker, or a failure to record a failure, delays it only.    *)
DueCampaignLeaves ==
    \A t \in Times :
        (campaign = [status |-> "SCHEDULED", at |-> t] /\ t <= now)
            ~> campaign # [status |-> "SCHEDULED", at |-> t]
=============================================================================
