------------------------ MODULE CampaignQueue_proofs ------------------------
(***************************************************************************)
(* Whatever the number of contacts, workers and concurrent requests, and   *)
(* whichever interface they use, a scheduled campaign keeps a live job.    *)
(* The console checks its conditions on rows it holds no lock on, so that  *)
(* proof leans only on the writes: a commit that schedules a campaign also *)
(* queues its job, and a worker closes a job without the campaign only     *)
(* after it saw the campaign elsewhere, while it owned the job throughout. *)
(* The last part leaves the console out.  Requests of the public API lock  *)
(* what they check, and with them alone no job runs for another schedule,  *)
(* a completed campaign reached everyone it had to, and only drafts are    *)
(* edited.                                                                 *)
(***************************************************************************)
EXTENDS CampaignQueue, TLAPS

(* Requests and workers past their first step name a time of the model,    *)
(* and so does a scheduled campaign.                                       *)
NamesTimes ==
    /\ campaign.status = "SCHEDULED" => campaign.at \in Times
    /\ \A w \in Workers : worker[w].pc # "idle" => Cur(w) \in Times
    /\ \A r \in Requests :
         request[r].pc \in {"scheduling", "checked", "replacing", "publicScheduling"} =>
             request[r].time \in Times

IInv == TypeOK /\ NamesTimes /\ ClosesOnlyStaleJobs /\ ScheduledHasLiveJob

-----------------------------------------------------------------------------
LEMMA TimesAreNumbers ==
    Times \subseteq 0 .. MaxTime /\ 0 \in 0 .. MaxTime
BY QueueAssumption DEF Times

LEMMA ConstantTypes ==
    /\ IdleWorker \in WorkerStates
    /\ IdleRequest \in RequestStates
    /\ \A s \in JobStatus : Unowned(s) \in JobRows
BY TimesAreNumbers
DEF IdleWorker, WorkerStates, WorkerPc, IdleRequest, RequestStates, RequestPc,
    Unowned, JobRows

(* Every initial state satisfies the invariant.                            *)
LEMMA InitIInv == Init => IInv
<1> SUFFICES ASSUME Init PROVE IInv
  OBVIOUS
<1> USE TimesAreNumbers, ConstantTypes DEF Init
<1>1. TypeOK
  BY QueueAssumption DEF TypeOK, CampaignStatus, JobStatus
<1>2. NamesTimes
  BY DEF NamesTimes, IdleWorker, IdleRequest
<1>3. ClosesOnlyStaleJobs /\ ScheduledHasLiveJob
  BY DEF ClosesOnlyStaleJobs, ScheduledHasLiveJob, IdleWorker
<1> QED
  BY <1>1, <1>2, <1>3 DEF IInv

-----------------------------------------------------------------------------
(* What a step of one request, and of one worker, may leave in memory.      *)
RequestRecord(r) ==
    /\ request' \in [Requests -> RequestStates]
    /\ request'[r].pc \in {"scheduling", "checked", "replacing", "publicScheduling"} =>
         request'[r].time \in Times
    /\ \A q \in Requests \ {r} : request'[q] = request[q]

WorkerRecord(w) ==
    /\ worker' \in [Workers -> WorkerStates]
    /\ worker'[w].pc # "idle" => worker'[w].cur \in Times
    /\ \A v \in Workers \ {w} : worker'[v] = worker[v]

(* A request that moves on keeps its time, or is started with one.         *)
LEMMA FinishRecord ==
    ASSUME TypeOK, NEW r \in Requests, Finish(r) PROVE RequestRecord(r)
BY ConstantTypes DEF TypeOK, Finish, IdleRequest, RequestRecord

LEMMA StartRecord ==
    ASSUME TypeOK, NEW r \in Requests, NEW t \in 0 .. MaxTime, NEW cs \in SUBSET Contacts,
           NEW pc \in RequestPc, Start(r, pc, t, cs),
           pc \in {"scheduling", "publicScheduling"} => t \in Times,
           pc \notin {"checked", "replacing"}
    PROVE  RequestRecord(r)
<1>1. [pc |-> pc, time |-> t, seen |-> cs, batch |-> {}] \in RequestStates
  BY DEF RequestStates
<1> QED
  BY <1>1 DEF TypeOK, Start, RequestRecord

LEMMA AdvanceRecord ==
    ASSUME TypeOK, NamesTimes, NEW r \in Requests, NEW pc \in RequestPc, Advance(r, pc),
           \/ pc \notin {"scheduling", "checked", "replacing", "publicScheduling"}
           \/ request[r].pc \in {"scheduling", "checked"}
    PROVE  RequestRecord(r)
<1>1. request[r] \in RequestStates
  BY DEF TypeOK
<1>2. [request[r] EXCEPT !.pc = pc] \in RequestStates
  BY <1>1 DEF RequestStates
<1>3. request[r].pc \in {"scheduling", "checked"} => request[r].time \in Times
  BY DEF NamesTimes
<1>4. [request[r] EXCEPT !.pc = pc].pc = pc
      /\ [request[r] EXCEPT !.pc = pc].time = request[r].time
  BY <1>1 DEF RequestStates
<1> QED
  BY <1>2, <1>3, <1>4 DEF TypeOK, Advance, RequestRecord

LEMMA GatherRecord ==
    ASSUME TypeOK, NamesTimes, NEW r \in Requests, NEW pc \in RequestPc,
           NEW ts \in SUBSET Times, Gather(r, pc, ts),
           \/ pc \notin {"scheduling", "checked", "replacing", "publicScheduling"}
           \/ request[r].pc \in {"scheduling", "checked"}
    PROVE  RequestRecord(r)
<1> DEFINE x == [request[r] EXCEPT !.pc = pc, !.batch = ts]
<1>1. request[r] \in RequestStates
  BY DEF TypeOK
<1>2. x \in RequestStates /\ x.pc = pc /\ x.time = request[r].time
  BY <1>1 DEF RequestStates
<1>3. request[r].pc \in {"scheduling", "checked"} => request[r].time \in Times
  BY DEF NamesTimes
<1>4. request' = [request EXCEPT ![r] = x]
  BY DEF Gather
<1> HIDE DEF x
<1> QED
  BY <1>2, <1>3, <1>4 DEF TypeOK, RequestRecord

(* A worker that moves on keeps its job, or rests.                         *)
LEMMA RestRecord ==
    ASSUME TypeOK, NEW w \in Workers, Rest(w)
    PROVE  WorkerRecord(w) /\ worker'[w].pc = "idle"
BY ConstantTypes DEF TypeOK, Rest, IdleWorker, WorkerRecord

LEMMA MoveRecord ==
    ASSUME TypeOK, NamesTimes, NEW w \in Workers, worker[w].pc # "idle",
           NEW x \in WorkerStates, x.cur = worker[w].cur,
           worker' = [worker EXCEPT ![w] = x]
    PROVE  WorkerRecord(w) /\ worker'[w] = x
BY DEF TypeOK, NamesTimes, WorkerRecord, Cur

LEMMA BecomeRecord ==
    ASSUME TypeOK, NamesTimes, NEW w \in Workers, worker[w].pc # "idle",
           NEW pc \in WorkerPc, Become(w, pc)
    PROVE  WorkerRecord(w) /\ worker'[w].pc = pc /\ worker'[w].cur = Cur(w)
<1> DEFINE x == [worker[w] EXCEPT !.pc = pc]
<1>1. worker[w] \in WorkerStates
  BY DEF TypeOK
<1>2. x \in WorkerStates /\ x.cur = worker[w].cur /\ x.pc = pc
  BY <1>1 DEF WorkerStates
<1>3. worker' = [worker EXCEPT ![w] = x]
  BY DEF Become
<1> HIDE DEF x
<1> QED
  BY <1>2, <1>3, MoveRecord DEF Cur

LEMMA FailingRecord ==
    ASSUME TypeOK, NamesTimes, NEW w \in Workers, worker[w].pc # "idle",
           NEW strict \in BOOLEAN, StartFailing(w, strict)
    PROVE  WorkerRecord(w) /\ worker'[w].pc = "failing"
<1> DEFINE x == [worker[w] EXCEPT !.pc = "failing", !.strict = strict, !.todo = {}]
<1>1. worker[w] \in WorkerStates
  BY DEF TypeOK
<1>2. x \in WorkerStates /\ x.cur = worker[w].cur /\ x.pc = "failing"
  BY <1>1 DEF WorkerStates, WorkerPc
<1>3. worker' = [worker EXCEPT ![w] = x]
  BY DEF StartFailing
<1> HIDE DEF x
<1> QED
  BY <1>2, <1>3, MoveRecord

-----------------------------------------------------------------------------
(* The effects of a step, and that each keeps the invariant.               *)

(* A request that only reads and locks.                                    *)
LEMMA ReadingStep ==
    ASSUME IInv, NEW r \in Requests, RequestRecord(r),
           UNCHANGED <<rows, contactVars, worker, now>>, faults' \in 0 .. MaxFaults
    PROVE  IInv'
<1>1. TypeOK'
  BY DEF IInv, TypeOK, rows, contactVars, RequestRecord
<1>2. NamesTimes'
  BY DEF IInv, NamesTimes, RequestRecord, rows, Cur
<1>3. ClosesOnlyStaleJobs' /\ ScheduledHasLiveJob'
  BY DEF IInv, ClosesOnlyStaleJobs, ScheduledHasLiveJob, rows, Cur, Owns
<1> QED
  BY <1>1, <1>2, <1>3 DEF IInv

(* The commit of a schedule takes the job from every owner.                *)
LEMMA EnqueueStep ==
    ASSUME IInv, NEW r \in Requests, RequestRecord(r), NEW t \in Times, NEW S,
           job[t].status \in Reopenable, Enqueue(t, S),
           UNCHANGED <<recipients, messages, contactVars, worker, now, faults>>
    PROVE  IInv'
<1>0. /\ campaign' = [status |-> "SCHEDULED", at |-> t]
      /\ job' \in [Times -> JobRows]
      /\ job'[t] = Unowned("QUEUED")
      /\ \A u \in Times \ {t} : job'[u] = job[u] \/ job'[u] = Unowned("CANCELLED")
  BY ConstantTypes DEF Enqueue, IInv, TypeOK, JobStatus
<1>1. TypeOK'
  BY <1>0, TimesAreNumbers DEF IInv, TypeOK, contactVars, RequestRecord, CampaignStatus
<1>2. NamesTimes'
  BY <1>0 DEF IInv, NamesTimes, RequestRecord, Cur
<1>3. ClosesOnlyStaleJobs'
  BY <1>0 DEF ClosesOnlyStaleJobs, Owns, Cur, Unowned
<1>4. ScheduledHasLiveJob'
  BY <1>0 DEF ScheduledHasLiveJob, Unowned, Live
<1> QED
  BY <1>1, <1>2, <1>3, <1>4 DEF IInv

(* The commit of a cancellation leaves no scheduled campaign.              *)
LEMMA PauseStep ==
    ASSUME IInv, NEW r \in Requests, RequestRecord(r), NEW S, Pause(S),
           UNCHANGED <<recipients, messages, contactVars, worker, now, faults>>
    PROVE  IInv'
<1>0. /\ campaign' = [status |-> "PAUSED", at |-> campaign.at]
      /\ job' \in [Times -> JobRows]
  BY ConstantTypes DEF Pause, IInv, TypeOK, JobStatus
<1>1. TypeOK'
  BY <1>0 DEF IInv, TypeOK, contactVars, RequestRecord, CampaignStatus
<1>2. NamesTimes' /\ ClosesOnlyStaleJobs' /\ ScheduledHasLiveJob'
  BY <1>0
  DEF IInv, NamesTimes, RequestRecord, Cur, ClosesOnlyStaleJobs, ScheduledHasLiveJob
<1> QED
  BY <1>1, <1>2 DEF IInv

(* A worker that writes no job or campaign row, and finds a job stale only *)
(* by reading the campaign.                                                *)
LEMMA MemoryStep ==
    ASSUME IInv, NEW w \in Workers, WorkerRecord(w),
           UNCHANGED <<campaign, recipients, job, contactVars, request, now>>,
           messages' \subseteq Times \X Contacts, faults' \in 0 .. MaxFaults,
           worker'[w].pc = "closing" =>
               campaign # [status |-> "SCHEDULED", at |-> worker'[w].cur]
    PROVE  IInv'
<1>1. TypeOK'
  BY DEF IInv, TypeOK, contactVars, WorkerRecord
<1>2. NamesTimes' /\ ScheduledHasLiveJob'
  BY DEF IInv, NamesTimes, WorkerRecord, Cur, ScheduledHasLiveJob
<1>3. ClosesOnlyStaleJobs'
  BY DEF IInv, ClosesOnlyStaleJobs, WorkerRecord, Cur, Owns
<1> QED
  BY <1>1, <1>2, <1>3 DEF IInv

(* A claimed job stays live whatever happens to its lease.                 *)
LEMMA LeaseStep ==
    ASSUME IInv, NEW t \in Times, NEW lapsed \in BOOLEAN, job[t].status = "PROCESSING",
           job' = [job EXCEPT ![t].lapsed = lapsed],
           UNCHANGED <<campaign, recipients, messages, contactVars, request, now>>,
           faults' \in 0 .. MaxFaults,
           \/ worker' = worker
           \/ \E w \in Workers : WorkerRecord(w) /\ worker'[w].pc # "closing"
    PROVE  IInv'
<1> DEFINE x == [job[t] EXCEPT !.lapsed = lapsed]
<1>0. job[t] \in JobRows /\ job \in [Times -> JobRows]
  BY DEF IInv, TypeOK
<1>1. x \in JobRows /\ x.status = job[t].status /\ x.owner = job[t].owner
  BY <1>0 DEF JobRows
<1>2. job' = [job EXCEPT ![t] = x]
  OBVIOUS
<1> HIDE DEF x
<1>3. /\ job' \in [Times -> JobRows]
      /\ \A u \in Times : job'[u].status = job[u].status /\ job'[u].owner = job[u].owner
  BY <1>0, <1>1, <1>2
<1>4. /\ worker' \in [Workers -> WorkerStates]
      /\ \A v \in Workers : worker'[v].pc # "idle" => worker'[v].cur \in Times
      /\ \A v \in Workers : worker'[v].pc = "closing" => worker'[v] = worker[v]
  BY DEF IInv, TypeOK, NamesTimes, WorkerRecord, Cur
<1>5. TypeOK'
  BY <1>3, <1>4 DEF IInv, TypeOK, contactVars
<1>6. NamesTimes'
  BY <1>4 DEF IInv, NamesTimes, Cur
<1>7. ScheduledHasLiveJob'
  BY <1>3 DEF IInv, NamesTimes, ScheduledHasLiveJob
<1>8. ClosesOnlyStaleJobs'
  <2> SUFFICES ASSUME NEW v \in Workers, worker'[v].pc = "closing", Owns(v)'
               PROVE  campaign' # [status |-> "SCHEDULED", at |-> Cur(v)']
    BY DEF ClosesOnlyStaleJobs
  <2>1. worker'[v] = worker[v] /\ Cur(v) \in Times
    BY <1>4 DEF Cur
  <2> QED
    BY <1>3, <2>1 DEF IInv, ClosesOnlyStaleJobs, Owns, Cur
<1> QED
  BY <1>5, <1>6, <1>7, <1>8 DEF IInv

(* The owner closes its job: the campaign goes with it, or was elsewhere.  *)
LEMMA CloseStep ==
    ASSUME IInv, NEW w \in Workers, worker[w].pc # "idle", Owns(w),
           NEW status \in JobStatus,
           job' = [job EXCEPT ![Cur(w)] = Unowned(status)],
           \/ /\ campaign' = campaign
              /\ campaign # [status |-> "SCHEDULED", at |-> Cur(w)]
           \/ /\ campaign = [status |-> "SCHEDULED", at |-> Cur(w)]
              /\ \E s \in {"PAUSED", "COMPLETED"} :
                   campaign' = [campaign EXCEPT !.status = s],
           Rest(w),
           UNCHANGED <<recipients, messages, contactVars, request, now, faults>>
    PROVE  IInv'
<1>0. /\ Cur(w) \in Times
      /\ WorkerRecord(w) /\ worker'[w].pc = "idle"
      /\ campaign \in [status : CampaignStatus, at : 0 .. MaxTime]
  BY RestRecord DEF IInv, NamesTimes, TypeOK
<1>1. /\ job' \in [Times -> JobRows]
      /\ \A u \in Times \ {Cur(w)} : job'[u] = job[u]
      /\ job'[Cur(w)].owner = NoOwner
  BY <1>0, ConstantTypes DEF IInv, TypeOK, Unowned
<1>2. /\ campaign' \in [status : CampaignStatus, at : 0 .. MaxTime]
      /\ campaign'.status = "SCHEDULED" => campaign' = campaign /\ campaign.at # Cur(w)
  BY <1>0 DEF CampaignStatus
<1>3. TypeOK'
  BY <1>0, <1>1, <1>2 DEF IInv, TypeOK, contactVars, WorkerRecord
<1>4. NamesTimes'
  BY <1>0, <1>2 DEF IInv, NamesTimes, WorkerRecord, Cur
<1>5. ScheduledHasLiveJob'
  BY <1>1, <1>2 DEF IInv, NamesTimes, ScheduledHasLiveJob
<1>6. ClosesOnlyStaleJobs'
  <2> SUFFICES ASSUME NEW v \in Workers, worker'[v].pc = "closing", Owns(v)'
               PROVE  campaign' # [status |-> "SCHEDULED", at |-> Cur(v)']
    BY DEF ClosesOnlyStaleJobs
  <2>1. v # w /\ worker'[v] = worker[v] /\ Cur(v) \in Times
    BY <1>0 DEF WorkerRecord, Cur, IInv, NamesTimes
  <2>2. Cur(v) # Cur(w) /\ job'[Cur(v)] = job[Cur(v)]
    BY <1>1, <2>1, QueueAssumption DEF Owns, Cur
  <2> QED
    BY <1>2, <2>1, <2>2 DEF IInv, ClosesOnlyStaleJobs, Owns, Cur
<1> QED
  BY <1>3, <1>4, <1>5, <1>6 DEF IInv

-----------------------------------------------------------------------------
(* Every step keeps the invariant.                                         *)

LEMMA FaultCounts == ASSUME TypeOK, Fault PROVE faults' \in 0 .. MaxFaults
BY QueueAssumption DEF TypeOK, Fault

LEMMA ConsoleStep ==
    ASSUME IInv, NEW r \in Requests, ConsoleRequest(r) PROVE IInv'
<1>0. TypeOK /\ NamesTimes /\ faults \in 0 .. MaxFaults /\ recipients \in SUBSET Contacts
  BY DEF IInv, TypeOK
<1> USE <1>0
<1>1. CASE EditRead(r) \/ CancelRead(r) \/ \E t \in Times : ScheduleRead(r, t)
  <2>1. RequestRecord(r)
    BY <1>1, StartRecord, TimesAreNumbers
    DEF EditRead, CancelRead, ScheduleRead, RequestPc
  <2> QED
    BY <1>1, <2>1, ReadingStep DEF EditRead, CancelRead, ScheduleRead
<1>2. ASSUME NEW cs \in SUBSET Contacts, EditCommit(r, cs) PROVE IInv'
  <2>1. RequestRecord(r)
    BY <1>2, FinishRecord DEF EditCommit
  <2>2. TypeOK'
    BY <1>2, <2>1 DEF EditCommit, TypeOK, contactVars, RequestRecord
  <2>3. NamesTimes' /\ ClosesOnlyStaleJobs' /\ ScheduledHasLiveJob'
    BY <1>2, <2>1
    DEF EditCommit, IInv, NamesTimes, ClosesOnlyStaleJobs, ScheduledHasLiveJob,
        RequestRecord, Owns, Cur
  <2> QED
    BY <2>2, <2>3 DEF IInv
<1>3. CASE ScheduleCheck(r)
  <2>1. RequestRecord(r)
    BY <1>3, AdvanceRecord, FinishRecord DEF ScheduleCheck, RequestPc
  <2> QED
    BY <1>3, <2>1, ReadingStep DEF ScheduleCheck
<1>4. CASE ScheduleCollect(r) \/ CancelCollect(r) \/ CancelLock(r)
  <2>1. JobsIn({"QUEUED"}) \in SUBSET Times
    BY DEF JobsIn
  <2>2. RequestRecord(r)
    BY <1>4, <2>1, GatherRecord
    DEF ScheduleCollect, CancelCollect, CancelLock, RequestPc
  <2> QED
    BY <1>4, <2>2, ReadingStep DEF ScheduleCollect, CancelCollect, CancelLock
<1>5. CASE ScheduleCommit(r)
  <2> DEFINE t == request[r].time
  <2>1. RequestRecord(r) /\ t \in Times
    BY <1>5, FinishRecord DEF ScheduleCommit, NamesTimes
  <2>2. CASE job[t].status \in Reopenable
    BY <1>5, <2>1, <2>2, EnqueueStep DEF ScheduleCommit
  <2>3. CASE job[t].status \notin Reopenable
    BY <1>5, <2>1, <2>3, ReadingStep DEF ScheduleCommit, rows
  <2> QED
    BY <2>2, <2>3
<1>6. CASE CancelCheck(r)
  <2>1. RequestRecord(r)
    BY <1>6, AdvanceRecord, FinishRecord DEF CancelCheck, RequestPc
  <2> QED
    BY <1>6, <2>1, ReadingStep DEF CancelCheck
<1>7. CASE CancelCommit(r)
  <2>1. RequestRecord(r)
    BY <1>7, FinishRecord DEF CancelCommit
  <2>2. CASE campaign.status = "SCHEDULED"
    BY <1>7, <2>1, <2>2, PauseStep DEF CancelCommit
  <2>3. CASE campaign.status # "SCHEDULED"
    BY <1>7, <2>1, <2>3, ReadingStep DEF CancelCommit, rows
  <2> QED
    BY <2>2, <2>3
<1> QED
  BY <1>1, <1>2, <1>3, <1>4, <1>5, <1>6, <1>7 DEF ConsoleRequest

LEMMA PublicStep ==
    ASSUME IInv, NEW r \in Requests, PublicRequest(r) PROVE IInv'
<1>0. TypeOK /\ NamesTimes /\ faults \in 0 .. MaxFaults /\ recipients \in SUBSET Contacts
  BY DEF IInv, TypeOK
<1> USE <1>0
<1>1. CASE PublicCancelRead(r) \/ \E t \in Times : PublicScheduleLock(r, t)
  <2>1. RequestRecord(r)
    BY <1>1, StartRecord, TimesAreNumbers
    DEF PublicCancelRead, PublicScheduleLock, RequestPc
  <2> QED
    BY <1>1, <2>1, ReadingStep DEF PublicCancelRead, PublicScheduleLock
<1>2. ASSUME NEW cs \in SUBSET Contacts, PublicEdit(r, cs) PROVE IInv'
  <2>1. TypeOK'
    BY <1>2 DEF PublicEdit, TypeOK, contactVars
  <2>2. NamesTimes' /\ ClosesOnlyStaleJobs' /\ ScheduledHasLiveJob'
    BY <1>2
    DEF PublicEdit, IInv, NamesTimes, ClosesOnlyStaleJobs, ScheduledHasLiveJob, Owns, Cur
  <2> QED
    BY <2>1, <2>2 DEF IInv
<1>3. CASE PublicScheduleCommit(r)
  <2> DEFINE t == request[r].time
  <2>1. RequestRecord(r) /\ t \in Times
    BY <1>3, FinishRecord DEF PublicScheduleCommit, NamesTimes
  <2>2. CASE Enqueue(t, Times) /\ job[t].status \in Reopenable
    BY <1>3, <2>1, <2>2, EnqueueStep DEF PublicScheduleCommit
  <2>3. CASE UNCHANGED <<campaign, job>>
    BY <1>3, <2>1, <2>3, ReadingStep DEF PublicScheduleCommit, rows
  <2> QED
    BY <1>3, <2>2, <2>3 DEF PublicScheduleCommit
<1>4. CASE PublicCancelCollect(r)
  <2>1. RequestRecord(r)
    BY <1>4, GatherRecord DEF PublicCancelCollect, RequestPc
  <2> QED
    BY <1>4, <2>1, ReadingStep DEF PublicCancelCollect
<1>5. CASE PublicCancelLock(r) \/ PublicCancelLockCampaign(r)
  <2>1. RequestRecord(r)
    BY <1>5, AdvanceRecord, FinishRecord
    DEF PublicCancelLock, PublicCancelLockCampaign, RequestPc
  <2> QED
    BY <1>5, <2>1, ReadingStep DEF PublicCancelLock, PublicCancelLockCampaign
<1>6. CASE PublicCancelCommit(r)
  <2>1. RequestRecord(r)
    BY <1>6, FinishRecord DEF PublicCancelCommit
  <2> QED
    BY <1>6, <2>1, PauseStep DEF PublicCancelCommit
<1> QED
  BY <1>1, <1>2, <1>3, <1>4, <1>5, <1>6 DEF PublicRequest

LEMMA ClaimStep ==
    ASSUME IInv, NEW w \in Workers, NEW t \in Times, Claim(w, t) PROVE IInv'
<1> DEFINE x == [status |-> "PROCESSING", owner |-> w, lapsed |-> FALSE]
           y == [IdleWorker EXCEPT !.pc = "claimed", !.cur = t]
<1>1. /\ x \in JobRows /\ x.status = "PROCESSING" /\ x.owner = w
      /\ y \in WorkerStates /\ y.pc = "claimed" /\ y.cur = t
  BY TimesAreNumbers DEF JobRows, JobStatus, WorkerStates, WorkerPc, IdleWorker
<1>2. job' = [job EXCEPT ![t] = x] /\ worker' = [worker EXCEPT ![w] = y]
  BY DEF Claim
<1> HIDE DEF x, y
<1>3. /\ job' \in [Times -> JobRows] /\ job'[t] = x
      /\ \A u \in Times \ {t} : job'[u] = job[u]
      /\ worker' \in [Workers -> WorkerStates] /\ worker'[w] = y
      /\ \A v \in Workers \ {w} : worker'[v] = worker[v]
  BY <1>1, <1>2 DEF IInv, TypeOK
<1>4. TypeOK' /\ NamesTimes'
  BY <1>1, <1>3 DEF Claim, IInv, TypeOK, NamesTimes, contactVars, Cur
<1>5. ScheduledHasLiveJob'
  BY <1>1, <1>3 DEF Claim, IInv, NamesTimes, ScheduledHasLiveJob, Live
<1>6. ClosesOnlyStaleJobs'
  <2> SUFFICES ASSUME NEW v \in Workers, worker'[v].pc = "closing", Owns(v)'
               PROVE  campaign' # [status |-> "SCHEDULED", at |-> Cur(v)']
    BY DEF ClosesOnlyStaleJobs
  <2>1. v # w /\ worker'[v] = worker[v] /\ Cur(v) \in Times
    BY <1>1, <1>3 DEF Cur, IInv, NamesTimes
  <2>2. Cur(v) # t
    BY <1>1, <1>3, <2>1 DEF Owns, Cur
  <2> QED
    BY <1>3, <2>1, <2>2 DEF Claim, IInv, ClosesOnlyStaleJobs, Owns, Cur
<1> QED
  BY <1>4, <1>5, <1>6 DEF IInv

LEMMA PrepareStep ==
    ASSUME IInv, NEW w \in Workers, Prepare(w) PROVE IInv'
<1>0. /\ TypeOK /\ NamesTimes /\ worker[w].pc # "idle" /\ worker[w] \in WorkerStates
      /\ messages' \subseteq Times \X Contacts /\ faults' \in 0 .. MaxFaults
  BY DEF IInv, TypeOK, Prepare, rows
<1> USE <1>0
<1>1. ASSUME NEW x \in WorkerStates, worker' = [worker EXCEPT ![w] = x],
             x.cur = worker[w].cur,
             x.pc = "closing" => campaign # [status |-> "SCHEDULED", at |-> x.cur]
      PROVE  IInv'
  BY <1>1, MoveRecord, MemoryStep DEF Prepare, rows
<1>2. ASSUME campaign # [status |-> "SCHEDULED", at |-> Cur(w)],
             NEW v \in {"FAILED", "CANCELLED"},
             worker' = [worker EXCEPT ![w] = [@ EXCEPT !.pc = "closing", !.verdict = v]]
      PROVE  IInv'
  <2> DEFINE x == [worker[w] EXCEPT !.pc = "closing", !.verdict = v]
  <2>1. x \in WorkerStates /\ x.cur = worker[w].cur
    BY DEF WorkerStates, WorkerPc
  <2>2. worker' = [worker EXCEPT ![w] = x]
    BY <1>2
  <2> HIDE DEF x
  <2> QED
    BY <1>1, <1>2, <2>1, <2>2 DEF Cur
<1>3. ASSUME StartFailing(w, TRUE) PROVE IInv'
  BY <1>3, FailingRecord, MemoryStep DEF Prepare, rows
<1>4. ASSUME worker' = [worker EXCEPT ![w] =
                          [@ EXCEPT !.pc = "sending", !.todo = recipients \cap consenting]]
      PROVE  IInv'
  <2> DEFINE x == [worker[w] EXCEPT !.pc = "sending", !.todo = recipients \cap consenting]
  <2>1. x \in WorkerStates /\ x.cur = worker[w].cur /\ x.pc = "sending"
    BY DEF WorkerStates, WorkerPc, TypeOK
  <2>2. worker' = [worker EXCEPT ![w] = x]
    BY <1>4
  <2> HIDE DEF x
  <2> QED
    BY <1>1, <2>1, <2>2
<1>5. CASE campaign.status # "SCHEDULED"
  <2>1. campaign # [status |-> "SCHEDULED", at |-> Cur(w)]
    BY <1>5
  <2>2. worker' = [worker EXCEPT ![w] = [@ EXCEPT !.pc = "closing", !.verdict = "FAILED"]]
    BY <1>5, <2>1 DEF Prepare
  <2> QED
    BY <1>2, <2>1, <2>2
<1>6. CASE campaign.status = "SCHEDULED" /\ campaign.at # Cur(w)
  <2>1. campaign # [status |-> "SCHEDULED", at |-> Cur(w)]
    BY <1>6
  <2>2. worker' = [worker EXCEPT ![w] =
                     [@ EXCEPT !.pc = "closing", !.verdict = "CANCELLED"]]
    BY <1>6, <2>1 DEF Prepare
  <2> QED
    BY <1>2, <2>1, <2>2
<1>7. CASE campaign = [status |-> "SCHEDULED", at |-> Cur(w)]
  BY <1>3, <1>4, <1>7 DEF Prepare
<1>8. campaign = [status |-> campaign.status, at |-> campaign.at]
  BY DEF TypeOK
<1> QED
  BY <1>5, <1>6, <1>7, <1>8

LEMMA WorkerStepKeeps ==
    ASSUME IInv, NEW w \in Workers, WorkerStep(w) PROVE IInv'
<1>0. /\ TypeOK /\ NamesTimes /\ faults \in 0 .. MaxFaults /\ worker[w] \in WorkerStates
      /\ messages \subseteq Times \X Contacts
      /\ worker[w].pc # "idle" => Cur(w) \in Times
  BY DEF IInv, TypeOK, NamesTimes
<1> USE <1>0
<1>1. CASE Poll(w)
  BY <1>1, ClaimStep DEF Poll
<1>2. CASE Load(w)
  <2>1. WorkerRecord(w) /\ worker'[w].pc # "closing"
    BY <1>2, BecomeRecord, RestRecord DEF Load, WorkerPc
  <2> QED
    BY <1>2, <2>1, MemoryStep DEF Load, rows
<1>3. CASE Prepare(w)
  BY <1>3, PrepareStep
<1>4. ASSUME NEW c \in Contacts, Record(w, c) PROVE IInv'
  <2> DEFINE x == [worker[w] EXCEPT !.pc = "sending", !.todo = worker[w].todo \ {c}]
  <2>1. x \in WorkerStates /\ x.cur = worker[w].cur /\ x.pc = "sending"
    BY DEF WorkerStates, WorkerPc
  <2>2. worker' = [worker EXCEPT ![w] = x]
    BY <1>4 DEF Record
  <2> HIDE DEF x
  <2>3. WorkerRecord(w) /\ worker'[w].pc = "sending"
    BY <1>4, <2>1, <2>2, MoveRecord DEF Record
  <2>4. messages' \subseteq Times \X Contacts
    BY <1>4 DEF Record
  <2> QED
    BY <1>4, <2>3, <2>4, MemoryStep DEF Record
<1>5. ASSUME StartFailing(w, FALSE), worker[w].pc # "idle", UNCHANGED <<campaign, job>>,
             UNCHANGED <<recipients, messages, contactVars, request, now, faults>>
      PROVE  IInv'
  BY <1>5, FailingRecord, MemoryStep
<1>6. CASE CloseJob(w)
  <2>1. CASE Owns(w)
    <3>1. campaign # [status |-> "SCHEDULED", at |-> Cur(w)]
      BY <1>6, <2>1 DEF CloseJob, IInv, ClosesOnlyStaleJobs
    <3>2. worker[w].verdict \in JobStatus
      BY DEF WorkerStates, JobStatus
    <3> QED
      BY <1>6, <2>1, <3>1, <3>2, CloseStep DEF CloseJob
  <2>2. CASE ~Owns(w)
    BY <1>5, <1>6, <2>2 DEF CloseJob
  <2> QED
    BY <2>1, <2>2
<1>7. CASE Renew(w)
  <2>1. CASE Owns(w)
    <3>1. WorkerRecord(w) /\ worker'[w].pc = "sent"
      BY <1>7, <2>1, BecomeRecord DEF Renew, WorkerPc
    <3>2. job' = [job EXCEPT ![Cur(w)].lapsed = FALSE]
      BY <1>7, <2>1 DEF Renew
    <3>3. /\ Cur(w) \in Times /\ job[Cur(w)].status = "PROCESSING"
          /\ UNCHANGED <<campaign, recipients, messages, contactVars, request, now, faults>>
      BY <1>7, <2>1 DEF Renew, Owns
    <3> QED
      BY <3>1, <3>2, <3>3, LeaseStep
  <2>2. CASE ~Owns(w)
    BY <1>5, <1>7, <2>2 DEF Renew
  <2> QED
    BY <2>1, <2>2
<1>8. CASE Complete(w)
  <2>1. CASE CanCloseBoth(w, TRUE)
    BY <1>8, <2>1, CloseStep DEF Complete, CanCloseBoth, CloseBoth, JobStatus
  <2>2. CASE ~CanCloseBoth(w, TRUE)
    BY <1>5, <1>8, <2>2 DEF Complete
  <2> QED
    BY <2>1, <2>2
<1>9. CASE Fail(w)
  <2>1. CASE CanCloseBoth(w, worker[w].strict)
    BY <1>9, <2>1, CloseStep DEF Fail, CanCloseBoth, CloseBoth, JobStatus
  <2>2. CASE ~CanCloseBoth(w, worker[w].strict)
    BY <1>9, <2>2, RestRecord, MemoryStep DEF Fail
  <2> QED
    BY <2>1, <2>2
<1> QED
  BY <1>1, <1>2, <1>3, <1>4, <1>6, <1>7, <1>8, <1>9 DEF WorkerStep, FencedStep

LEMMA EnvironmentStep ==
    ASSUME IInv, Environment PROVE IInv'
<1>0. /\ TypeOK /\ NamesTimes /\ faults \in 0 .. MaxFaults
      /\ messages \subseteq Times \X Contacts
  BY DEF IInv, TypeOK
<1> USE <1>0
<1>1. ASSUME NEW r \in Requests, Abort(r) PROVE IInv'
  BY <1>1, FinishRecord, FaultCounts, ReadingStep DEF Abort
<1>2. ASSUME NEW r \in Requests, NEW q \in Requests, ResolveDeadlock(r, q) PROVE IInv'
  BY <1>2, FinishRecord, ReadingStep DEF ResolveDeadlock
<1>3. ASSUME NEW w \in Workers, DatabaseError(w) PROVE IInv'
  BY <1>3, FailingRecord, FaultCounts, MemoryStep DEF DatabaseError, rows
<1>4. ASSUME NEW w \in Workers, Crash(w) PROVE IInv'
  BY <1>4, RestRecord, FaultCounts, MemoryStep DEF Crash, rows
<1>5. ASSUME NEW t \in Times, ExpireLease(t) PROVE IInv'
  BY <1>5, LeaseStep DEF ExpireLease, Abandoned
<1>6. ASSUME NEW t \in Times, OutrunLease(t) PROVE IInv'
  BY <1>6, FaultCounts, LeaseStep DEF OutrunLease
<1>7. ASSUME UNCHANGED <<rows, worker, request, faults>>,
             consenting' \subseteq Contacts, everBlocked' \subseteq Contacts,
             now' \in 0 .. MaxTime
      PROVE  IInv'
  <2>1. TypeOK'
    BY <1>7 DEF TypeOK, rows
  <2>2. NamesTimes' /\ ClosesOnlyStaleJobs' /\ ScheduledHasLiveJob'
    BY <1>7
    DEF rows, IInv, NamesTimes, ClosesOnlyStaleJobs, ScheduledHasLiveJob, Owns, Cur
  <2> QED
    BY <2>1, <2>2 DEF IInv
<1>8. CASE Tick
  BY <1>7, <1>8, QueueAssumption DEF Tick, TypeOK, contactVars
<1>9. ASSUME NEW c \in Contacts, OptOut(c) \/ OptIn(c) PROVE IInv'
  BY <1>7, <1>9 DEF OptOut, OptIn, TypeOK
<1> QED
  BY <1>1, <1>2, <1>3, <1>4, <1>5, <1>6, <1>8, <1>9 DEF Environment

LEMMA NextIInv == IInv /\ [Next]_vars => IInv'
<1> SUFFICES ASSUME IInv, [Next]_vars PROVE IInv'
  OBVIOUS
<1>1. CASE Next
  BY <1>1, ConsoleStep, PublicStep, WorkerStepKeeps, EnvironmentStep DEF Next
<1>2. CASE UNCHANGED vars
  BY <1>2
  DEF vars, IInv, TypeOK, NamesTimes, ClosesOnlyStaleJobs, ScheduledHasLiveJob, Owns, Cur
<1> QED
  BY <1>1, <1>2

-----------------------------------------------------------------------------
(* The invariant holds in every behaviour.                                 *)
LEMMA InductiveInvariant == Spec => []IInv
BY InitIInv, NextIInv, PTL DEF Spec

(* Every row, every claim in memory and every open request stays within    *)
(* the statuses of the schema and the times of the model.                  *)
THEOREM TypeCorrect == Spec => []TypeOK
<1>1. IInv => TypeOK
  BY DEF IInv
<1> QED
  BY <1>1, InductiveInvariant, PTL

(* A scheduled campaign always has a queued or processing job, whatever    *)
(* the requests and workers do at the same time: scheduleCampaign and      *)
(* schedulePublicCampaign write both rows in one transaction, and          *)
(* transitionClaimedQueueJobWithCampaign closes both in one.               *)
THEOREM ScheduledCampaignKeepsItsJob == Spec => []ScheduledHasLiveJob
<1>1. IInv => ScheduledHasLiveJob
  BY DEF IInv
<1> QED
  BY <1>1, InductiveInvariant, PTL

(* transitionClaimedQueueJob closes a job without its campaign only when   *)
(* the campaign is not scheduled at that job's time.                       *)
THEOREM StaleJobsOnly == Spec => []ClosesOnlyStaleJobs
<1>1. IInv => ClosesOnlyStaleJobs
  BY DEF IInv
<1> QED
  BY <1>1, InductiveInvariant, PTL
-----------------------------------------------------------------------------
(* With the public interface alone.  A public request decides on the       *)
(* campaign under its lock, so the status it found still holds when it     *)
(* writes; and a scheduling one locks every job too.  What a cancelling    *)
(* one found of the jobs may be out of date: a job scheduled while it      *)
(* waited for the locks is not locked, and may be running by the time it   *)
(* pauses the campaign.  The console locks nothing before it writes, and a *)
(* request of it can break each of the three results below.                *)

PublicOnly == "console" \notin Interfaces

PublicPc == {"idle", "publicScheduling",
             "publicCancelling", "publicCollecting", "publicLocking", "publicPausing"}

(* What an open request may rely on while it holds the campaign.           *)
Relies(x) ==
    /\ x.pc \in PublicPc
    /\ x.pc = "publicScheduling" => campaign.status \in {"DRAFT", "PAUSED"}
    /\ x.pc = "publicPausing" => campaign.status = "SCHEDULED"

RequestsRely == \A r \in Requests : Relies(request[r])

OneHolder == \A r \in Requests : HoldsCampaign(r) => CampaignFree(Requests \ {r})

(* Between its snapshot and its last send a worker has, for each recipient *)
(* whose consent never lapsed, a message recorded or the send to do.       *)
Covers(x) ==
    \A c \in recipients \ everBlocked : c \in x.todo \/ <<x.cur, c>> \in messages

SendersCover ==
    \A w \in Workers : worker[w].pc \in {"sending", "sent"} =>
        campaign.status # "DRAFT" /\ Covers(worker[w])

BlockedIsRecorded == Contacts \ consenting \subseteq everBlocked

Pub ==
    /\ LiveJobIsCurrent /\ CompletedReachedEveryone
    /\ RequestsRely /\ OneHolder
    /\ SendersCover /\ BlockedIsRecorded

LEMMA InitPub == Init => Pub
<1> SUFFICES ASSUME Init PROVE Pub
  OBVIOUS
<1>1. LiveJobIsCurrent /\ CompletedReachedEveryone
  BY DEF Init, LiveJobIsCurrent, CompletedReachedEveryone, Unowned, Live
<1>2. RequestsRely /\ OneHolder
  BY DEF Init, RequestsRely, Relies, PublicPc, OneHolder, HoldsCampaign, IdleRequest
<1>3. SendersCover /\ BlockedIsRecorded
  BY DEF Init, SendersCover, BlockedIsRecorded, IdleWorker
<1> QED
  BY <1>1, <1>2, <1>3 DEF Pub

(* A request that only reads and locks.                                    *)
LEMMA PubReading ==
    ASSUME Pub, NEW r \in Requests, RequestRecord(r), Relies(request'[r]),
           request'[r].pc \in {"publicScheduling", "publicPausing"} =>
               CampaignFree(Requests \ {r}),
           UNCHANGED <<rows, contactVars, worker>>
    PROVE  Pub'
<1>1. UNCHANGED <<campaign, recipients, job, messages, consenting, everBlocked, worker>>
  BY DEF rows, contactVars
<1>2. LiveJobIsCurrent' /\ CompletedReachedEveryone'
  BY <1>1 DEF Pub, LiveJobIsCurrent, CompletedReachedEveryone
<1>3. RequestsRely'
  <2> SUFFICES ASSUME NEW q \in Requests PROVE Relies(request[q])'
    BY DEF RequestsRely
  <2>1. Relies(request'[q])
    BY DEF Pub, RequestsRely, RequestRecord
  <2> QED
    BY <1>1, <2>1 DEF Relies
<1>4. OneHolder'
  BY DEF Pub, OneHolder, HoldsCampaign, CampaignFree, RequestRecord
<1>5. SendersCover' /\ BlockedIsRecorded'
  BY <1>1 DEF Pub, SendersCover, Covers, BlockedIsRecorded
<1> QED
  BY <1>2, <1>3, <1>4, <1>5 DEF Pub

(* A request that ends gives up its locks.                                 *)
LEMMA PubFinish ==
    ASSUME Pub, TypeOK, NEW r \in Requests, Finish(r),
           UNCHANGED <<rows, contactVars, worker>>
    PROVE  Pub'
<1>1. RequestRecord(r) /\ request'[r] = IdleRequest
  BY FinishRecord DEF Finish, TypeOK
<1>2. Relies(request'[r])
  BY <1>1 DEF Relies, PublicPc, IdleRequest
<1>3. request'[r].pc = "idle"
  BY <1>1 DEF IdleRequest
<1> QED
  BY <1>1, <1>2, <1>3, PubReading

(* The holder of the campaign row writes it, and job rows; no other        *)
(* request relies on the campaign then.                                    *)
LEMMA PubCommit ==
    ASSUME Pub, TypeOK, NEW r \in Requests, HoldsCampaign(r), Finish(r),
           LiveJobIsCurrent',
           campaign.status \in {"DRAFT", "SCHEDULED", "PAUSED"},
           campaign'.status \in {"SCHEDULED", "PAUSED"},
           UNCHANGED <<recipients, messages, contactVars, worker>>
    PROVE  Pub'
<1>1. RequestRecord(r) /\ request'[r] = IdleRequest
  BY FinishRecord DEF Finish, TypeOK
<1>2. \A q \in Requests \ {r} : request'[q] = request[q] /\ ~HoldsCampaign(q)
  BY <1>1 DEF Pub, OneHolder, CampaignFree, RequestRecord
<1>3. RequestsRely'
  <2> SUFFICES ASSUME NEW q \in Requests PROVE Relies(request[q])'
    BY DEF RequestsRely
  <2>1. CASE q = r
    BY <1>1, <2>1 DEF Relies, PublicPc, IdleRequest
  <2>2. CASE q # r
    BY <1>2, <2>2 DEF Pub, RequestsRely, Relies, HoldsCampaign
  <2> QED
    BY <2>1, <2>2
<1>4. OneHolder'
  BY <1>1, <1>2 DEF OneHolder, HoldsCampaign, CampaignFree, IdleRequest
<1>5. CompletedReachedEveryone' /\ SendersCover' /\ BlockedIsRecorded'
  BY DEF Pub, CompletedReachedEveryone, SendersCover, Covers, BlockedIsRecorded, contactVars
<1> QED
  BY <1>3, <1>4, <1>5 DEF Pub

(* A worker that writes at most a message.                                 *)
LEMMA PubMemory ==
    ASSUME Pub, NEW w \in Workers, WorkerRecord(w),
           UNCHANGED <<campaign, recipients, job, contactVars, request>>,
           messages \subseteq messages',
           worker'[w].pc \in {"sending", "sent"} =>
               campaign.status # "DRAFT" /\ Covers(worker[w])'
    PROVE  Pub'
<1>2. LiveJobIsCurrent' /\ CompletedReachedEveryone' /\ BlockedIsRecorded'
  BY DEF Pub, LiveJobIsCurrent, CompletedReachedEveryone, BlockedIsRecorded, contactVars
<1>3. RequestsRely' /\ OneHolder'
  BY DEF Pub, RequestsRely, Relies, OneHolder, HoldsCampaign, CampaignFree
<1>4. SendersCover'
  <2> SUFFICES ASSUME NEW v \in Workers, worker'[v].pc \in {"sending", "sent"}
               PROVE  campaign'.status # "DRAFT" /\ Covers(worker[v])'
    BY DEF SendersCover
  <2>1. CASE v = w
    BY <2>1
  <2>2. CASE v # w
    BY <2>2 DEF Pub, SendersCover, Covers, WorkerRecord, contactVars
  <2> QED
    BY <2>1, <2>2
<1> QED
  BY <1>2, <1>3, <1>4 DEF Pub

(* A claim changes hands, or its lease runs out or is renewed, or its job  *)
(* is closed alone.                                                        *)
LEMMA PubLease ==
    ASSUME Pub, job' \in [Times -> JobRows],
           \A u \in Times : job'[u].status = "QUEUED" => job[u].status = "QUEUED",
           \A u \in Times : job'[u].status = "PROCESSING" => job[u].status \in Live,
           UNCHANGED <<campaign, recipients, messages, contactVars, request>>,
           SendersCover'
    PROVE  Pub'
<1>1. LiveJobIsCurrent'
  BY DEF Pub, LiveJobIsCurrent, Live
<1>2. CompletedReachedEveryone' /\ BlockedIsRecorded'
  BY DEF Pub, CompletedReachedEveryone, BlockedIsRecorded, contactVars
<1>3. RequestsRely' /\ OneHolder'
  BY DEF Pub, RequestsRely, Relies, OneHolder, HoldsCampaign, CampaignFree
<1> QED
  BY <1>1, <1>2, <1>3 DEF Pub

(* The owner closes its job and, with it, the campaign.                    *)
LEMMA PubClose ==
    ASSUME Pub, IInv, NEW w \in Workers, worker[w].pc # "idle",
           Owns(w), CampaignFree(Requests),
           NEW status \in {"COMPLETED", "FAILED"}, NEW s \in {"COMPLETED", "PAUSED"},
           CloseBoth(w, status, s),
           s = "COMPLETED" => \A c \in recipients \ everBlocked : <<Cur(w), c>> \in messages,
           Rest(w),
           UNCHANGED <<recipients, messages, contactVars, request>>
    PROVE  Pub'
<1>1. Cur(w) \in Times /\ job \in [Times -> JobRows]
  BY DEF IInv, NamesTimes, TypeOK
<1>2. campaign.at = Cur(w) /\ campaign.status \in {"SCHEDULED", "PAUSED"}
  BY <1>1 DEF Pub, LiveJobIsCurrent, Owns
<1>3. /\ campaign'.at = Cur(w)
      /\ campaign'.status = s \/ campaign'.status = "PAUSED"
      /\ job'[Cur(w)].status = status
      /\ \A u \in Times \ {Cur(w)} : job'[u] = job[u]
  <2>1. campaign \in [status : CampaignStatus, at : 0 .. MaxTime]
    BY DEF IInv, TypeOK
  <2>2. campaign.status = "SCHEDULED" => campaign = [status |-> "SCHEDULED", at |-> Cur(w)]
    BY <1>2, <2>1
  <2> QED
    BY <1>1, <1>2, <2>1, <2>2 DEF CloseBoth, Unowned
<1>4. LiveJobIsCurrent'
  BY <1>2, <1>3 DEF Pub, LiveJobIsCurrent
<1>5. CompletedReachedEveryone'
  BY <1>3 DEF CompletedReachedEveryone, contactVars
<1>7. RequestsRely' /\ OneHolder'
  BY DEF Pub, RequestsRely, Relies, OneHolder, HoldsCampaign, CampaignFree
<1>8. WorkerRecord(w) /\ worker'[w].pc = "idle"
  BY RestRecord DEF IInv
<1>9. SendersCover' /\ BlockedIsRecorded'
  BY <1>3, <1>8
  DEF Pub, SendersCover, Covers, BlockedIsRecorded, contactVars, WorkerRecord
<1> QED
  BY <1>4, <1>5, <1>7, <1>9 DEF Pub

-----------------------------------------------------------------------------
(* Every step of a system without the console keeps this too.              *)

LEMMA PubRequestStep ==
    ASSUME Pub, IInv, NEW r \in Requests, PublicRequest(r) PROVE Pub'
<1>0. /\ TypeOK /\ NamesTimes /\ recipients \in SUBSET Contacts
      /\ Relies(request[r]) /\ request[r] \in RequestStates
  BY DEF IInv, TypeOK, Pub, RequestsRely
<1> USE <1>0
<1>1. ASSUME NEW t \in Times, PublicScheduleLock(r, t) PROVE Pub'
  <2>1. RequestRecord(r)
    BY <1>1, StartRecord, TimesAreNumbers DEF PublicScheduleLock, RequestPc
  <2>2. request'[r].pc = "publicScheduling"
    BY <1>1 DEF PublicScheduleLock, Start, TypeOK
  <2>3. Relies(request'[r])
    BY <1>1, <2>2 DEF Relies, PublicPc, PublicScheduleLock
  <2> QED
    BY <1>1, <2>1, <2>2, <2>3, PubReading DEF PublicScheduleLock
<1>2. CASE PublicCancelRead(r)
  <2>1. RequestRecord(r)
    BY <1>2, StartRecord, TimesAreNumbers DEF PublicCancelRead, RequestPc
  <2>2. request'[r].pc = "publicCancelling"
    BY <1>2 DEF PublicCancelRead, Start, TypeOK
  <2>3. Relies(request'[r])
    BY <2>2 DEF Relies, PublicPc
  <2> QED
    BY <1>2, <2>1, <2>2, <2>3, PubReading DEF PublicCancelRead
<1>3. ASSUME NEW cs \in SUBSET Contacts, PublicEdit(r, cs) PROVE Pub'
  <2>1. /\ UNCHANGED <<campaign, job, messages, contactVars, worker, request>>
        /\ campaign.status = "DRAFT"
    BY <1>3 DEF PublicEdit
  <2>2. LiveJobIsCurrent' /\ CompletedReachedEveryone' /\ BlockedIsRecorded'
    BY <2>1
    DEF Pub, LiveJobIsCurrent, CompletedReachedEveryone, BlockedIsRecorded, contactVars
  <2>4. RequestsRely' /\ OneHolder'
    BY <2>1 DEF Pub, RequestsRely, Relies, OneHolder, HoldsCampaign, CampaignFree
  <2>5. SendersCover'
    BY <2>1 DEF Pub, SendersCover
  <2> QED
    BY <2>2, <2>4, <2>5 DEF Pub
<1>4. CASE PublicScheduleCommit(r)
  <2> DEFINE t == request[r].time
  <2>1. /\ Finish(r) /\ UNCHANGED <<recipients, messages, contactVars, worker>>
        /\ t \in Times /\ HoldsCampaign(r) /\ campaign.status \in {"DRAFT", "PAUSED"}
    BY <1>4 DEF PublicScheduleCommit, NamesTimes, HoldsCampaign, Relies
  <2>2. CASE Enqueue(t, Times) /\ NoneProcessing
    <3>1. /\ campaign' = [status |-> "SCHEDULED", at |-> t]
          /\ job'[t] = Unowned("QUEUED")
          /\ \A u \in Times \ {t} :
               job'[u] = IF job[u].status = "QUEUED" THEN Unowned("CANCELLED") ELSE job[u]
      BY <2>1, <2>2 DEF Enqueue
    <3>2. LiveJobIsCurrent'
      BY <2>2, <3>1
      DEF LiveJobIsCurrent, Unowned, NoneProcessing, JobsIn
    <3> QED
      BY <2>1, <3>1, <3>2, PubCommit
  <2>3. CASE UNCHANGED <<campaign, job>>
    BY <2>1, <2>3, PubFinish DEF rows
  <2> QED
    BY <1>4, <2>2, <2>3 DEF PublicScheduleCommit
<1>5. CASE PublicCancelCollect(r)
  <2> DEFINE b == {t \in Times : job[t].status # "NONE"}
             x == [request[r] EXCEPT !.pc = "publicCollecting", !.batch = b]
  <2>1. RequestRecord(r)
    BY <1>5, GatherRecord DEF PublicCancelCollect, RequestPc
  <2>2. x.pc = "publicCollecting"
    BY DEF RequestStates
  <2>3. request' = [request EXCEPT ![r] = x]
    BY <1>5 DEF PublicCancelCollect, Gather
  <2> HIDE DEF x
  <2>4. request'[r] = x
    BY <2>3 DEF TypeOK
  <2>5. Relies(request'[r])
    BY <2>2, <2>4 DEF Relies, PublicPc
  <2> QED
    BY <1>5, <2>1, <2>2, <2>4, <2>5, PubReading DEF PublicCancelCollect
<1>8. CASE PublicCancelLock(r)
  <2> DEFINE x == [request[r] EXCEPT !.pc = "publicLocking"]
  <2>1. RequestRecord(r)
    BY <1>8, AdvanceRecord DEF PublicCancelLock, RequestPc
  <2>2. x.pc = "publicLocking"
    BY DEF RequestStates
  <2>3. request' = [request EXCEPT ![r] = x]
    BY <1>8 DEF PublicCancelLock, Advance
  <2> HIDE DEF x
  <2>4. request'[r] = x
    BY <2>3 DEF TypeOK
  <2>5. Relies(request'[r])
    BY <2>2, <2>4 DEF Relies, PublicPc
  <2> QED
    BY <1>8, <2>1, <2>2, <2>4, <2>5, PubReading DEF PublicCancelLock
<1>6. CASE PublicCancelLockCampaign(r)
  <2>1. CASE Finish(r)
    BY <1>6, <2>1, PubFinish DEF PublicCancelLockCampaign
  <2>2. CASE campaign.status = "SCHEDULED" /\ NoneProcessing /\ Advance(r, "publicPausing")
    <3>1. RequestRecord(r)
      BY <2>2, AdvanceRecord DEF RequestPc
    <3> DEFINE x == [request[r] EXCEPT !.pc = "publicPausing"]
    <3>2. x.pc = "publicPausing" /\ x.batch = request[r].batch
      BY DEF RequestStates
    <3>3. request' = [request EXCEPT ![r] = x]
      BY <2>2 DEF Advance
    <3> HIDE DEF x
    <3>4. request'[r] = x
      BY <3>3 DEF TypeOK
    <3>5. Relies(request'[r])
      BY <1>6, <2>2, <3>2, <3>4 DEF PublicCancelLockCampaign, Relies, PublicPc
    <3> QED
      BY <1>6, <3>1, <3>5, PubReading DEF PublicCancelLockCampaign
  <2> QED
    BY <1>6, <2>1, <2>2 DEF PublicCancelLockCampaign
<1>7. CASE PublicCancelCommit(r)
  <2>1. /\ Finish(r) /\ UNCHANGED <<recipients, messages, contactVars, worker>>
        /\ HoldsCampaign(r) /\ campaign.status = "SCHEDULED"
        /\ Pause(JobsIn({"QUEUED"}))
    BY <1>7 DEF PublicCancelCommit, HoldsCampaign, Relies
  <2>2. campaign'.status = "PAUSED" /\ campaign'.at = campaign.at
    BY <2>1 DEF Pause, TypeOK
  <2>3. \A u \in Times :
           job'[u] = IF job[u].status = "QUEUED" THEN Unowned("CANCELLED") ELSE job[u]
    BY <2>1 DEF Pause, JobsIn
  <2>4. LiveJobIsCurrent'
    BY <2>2, <2>3 DEF Pub, LiveJobIsCurrent, Unowned
  <2> QED
    BY <2>1, <2>2, <2>4, PubCommit
<1> QED
  BY <1>1, <1>2, <1>3, <1>4, <1>5, <1>6, <1>7, <1>8 DEF PublicRequest

(* Without the console no request takes a step of it.                      *)
LEMMA NoConsoleStep ==
    ASSUME PublicOnly, Pub, NEW r \in Requests PROVE ~ConsoleRequest(r)
<1>1. request[r].pc \in PublicPc
  BY DEF Pub, RequestsRely, Relies
<1> QED
  BY <1>1
  DEF PublicOnly, PublicPc, ConsoleRequest, EditRead, CancelRead, EditCommit, ScheduleRead,
      ScheduleCheck, ScheduleCollect, ScheduleCommit,
      CancelCollect, CancelLock, CancelCheck, CancelCommit

LEMMA PubWorkerStep ==
    ASSUME Pub, IInv, NEW w \in Workers, WorkerStep(w) PROVE Pub'
<1>0. /\ TypeOK /\ NamesTimes /\ worker[w] \in WorkerStates
      /\ job \in [Times -> JobRows]
      /\ worker[w].pc # "idle" => Cur(w) \in Times
      /\ worker[w].pc \in {"sending", "sent"} => campaign.status # "DRAFT" /\ Covers(worker[w])
  BY DEF IInv, TypeOK, NamesTimes, Pub, SendersCover
<1> USE <1>0
<1>1. ASSUME NEW t \in Times, Claim(w, t) PROVE Pub'
  <2> DEFINE x == [status |-> "PROCESSING", owner |-> w, lapsed |-> FALSE]
             y == [IdleWorker EXCEPT !.pc = "claimed", !.cur = t]
  <2>1. x \in JobRows /\ x.status = "PROCESSING" /\ y.pc = "claimed"
    BY DEF JobRows, JobStatus, IdleWorker
  <2>2. job' = [job EXCEPT ![t] = x] /\ worker' = [worker EXCEPT ![w] = y]
    BY <1>1 DEF Claim
  <2> HIDE DEF x, y
  <2>3. /\ job' \in [Times -> JobRows] /\ job'[t] = x
        /\ \A u \in Times \ {t} : job'[u] = job[u]
    BY <2>1, <2>2
  <2>4. worker'[w].pc = "claimed" /\ \A v \in Workers \ {w} : worker'[v] = worker[v]
    BY <2>1, <2>2 DEF TypeOK
  <2>5. /\ job[t].status \in Live /\ JobsFree({t}, Requests)
        /\ UNCHANGED <<campaign, recipients, messages, contactVars, request>>
    BY <1>1 DEF Claim, Claimable, Live
  <2>6. SendersCover'
    BY <2>4, <2>5 DEF Pub, SendersCover, Covers, contactVars
  <2> QED
    BY <2>1, <2>3, <2>5, <2>6, PubLease DEF Live
<1>2. CASE Load(w)
  <2>1. WorkerRecord(w) /\ worker'[w].pc \notin {"sending", "sent"}
    BY <1>2, BecomeRecord, RestRecord DEF Load, WorkerPc
  <2> QED
    BY <1>2, <2>1, PubMemory DEF Load, rows
<1>3. ASSUME NEW x \in WorkerStates, worker' = [worker EXCEPT ![w] = x],
             worker[w].pc # "idle", x.cur = worker[w].cur,
             UNCHANGED <<campaign, recipients, job, messages, contactVars, request>>,
             x.pc \in {"sending", "sent"} =>
                 campaign.status # "DRAFT" /\ recipients \ everBlocked \subseteq x.todo
      PROVE  Pub'
  <2>1. WorkerRecord(w) /\ worker'[w] = x
    BY <1>3, MoveRecord
  <2>2. x.pc \in {"sending", "sent"} => campaign.status # "DRAFT" /\ Covers(worker[w])'
    BY <1>3, <2>1 DEF Covers, contactVars
  <2> QED
    BY <1>3, <2>1, <2>2, PubMemory
<1>4. ASSUME NEW strict \in BOOLEAN, StartFailing(w, strict), worker[w].pc # "idle",
             UNCHANGED <<campaign, recipients, job, messages, contactVars, request>>
      PROVE  Pub'
  BY <1>4, FailingRecord, PubMemory
<1>5. CASE Prepare(w)
  <2> USE DEF Prepare, rows
  <2>1. ASSUME NEW v \in {"FAILED", "CANCELLED"},
               worker' = [worker EXCEPT ![w] = [@ EXCEPT !.pc = "closing", !.verdict = v]]
        PROVE  Pub'
    <3> DEFINE x == [worker[w] EXCEPT !.pc = "closing", !.verdict = v]
    <3>1. x \in WorkerStates /\ x.cur = worker[w].cur /\ x.pc = "closing"
      BY DEF WorkerStates, WorkerPc
    <3>2. worker' = [worker EXCEPT ![w] = x]
      BY <2>1
    <3> HIDE DEF x
    <3> QED
      BY <1>3, <1>5, <3>1, <3>2
  <2>2. ASSUME campaign.status = "SCHEDULED",
               worker' = [worker EXCEPT ![w] =
                            [@ EXCEPT !.pc = "sending", !.todo = recipients \cap consenting]]
        PROVE  Pub'
    <3> DEFINE x == [worker[w] EXCEPT !.pc = "sending", !.todo = recipients \cap consenting]
    <3>1. /\ x \in WorkerStates /\ x.cur = worker[w].cur
          /\ x.todo = recipients \cap consenting
      BY DEF WorkerStates, WorkerPc, TypeOK
    <3>2. worker' = [worker EXCEPT ![w] = x]
      BY <2>2
    <3> HIDE DEF x
    <3>3. recipients \ everBlocked \subseteq x.todo
      BY <3>1 DEF Pub, BlockedIsRecorded, TypeOK
    <3> QED
      BY <1>3, <1>5, <2>2, <3>1, <3>2, <3>3
  <2>3. CASE campaign.status # "SCHEDULED"
    <3>0. campaign # [status |-> "SCHEDULED", at |-> Cur(w)]
      BY <2>3
    <3>1. worker' = [worker EXCEPT ![w] = [@ EXCEPT !.pc = "closing", !.verdict = "FAILED"]]
      BY <1>5, <2>3, <3>0
    <3> QED
      BY <2>1, <3>1
  <2>4. CASE campaign.status = "SCHEDULED" /\ campaign.at # Cur(w)
    <3>0. campaign # [status |-> "SCHEDULED", at |-> Cur(w)]
      BY <2>4
    <3>1. worker' = [worker EXCEPT ![w] =
                       [@ EXCEPT !.pc = "closing", !.verdict = "CANCELLED"]]
      BY <1>5, <2>4, <3>0
    <3> QED
      BY <2>1, <3>1
  <2>5. CASE campaign = [status |-> "SCHEDULED", at |-> Cur(w)]
    <3>1. CASE StartFailing(w, TRUE)
      BY <1>4, <1>5, <3>1
    <3>2. CASE ~StartFailing(w, TRUE)
      <4>1. worker' = [worker EXCEPT ![w] =
                         [@ EXCEPT !.pc = "sending", !.todo = recipients \cap consenting]]
        BY <1>5, <2>5, <3>2
      <4> QED
        BY <2>2, <2>5, <4>1
    <3> QED
      BY <3>1, <3>2
  <2>6. campaign = [status |-> campaign.status, at |-> campaign.at]
    BY DEF TypeOK
  <2> QED
    BY <2>3, <2>4, <2>5, <2>6
<1>6. ASSUME NEW c \in Contacts, Record(w, c) PROVE Pub'
  <2> DEFINE x == [worker[w] EXCEPT !.pc = "sending", !.todo = worker[w].todo \ {c}]
  <2>1. x \in WorkerStates /\ x.cur = worker[w].cur /\ x.todo = worker[w].todo \ {c}
    BY DEF WorkerStates, WorkerPc
  <2>2. worker' = [worker EXCEPT ![w] = x] /\ worker[w].pc = "sent"
    BY <1>6 DEF Record
  <2> HIDE DEF x
  <2>3. WorkerRecord(w) /\ worker'[w] = x
    BY <2>1, <2>2, MoveRecord
  <2>4. Covers(worker[w])'
    BY <1>6, <2>1, <2>2, <2>3 DEF Record, Covers, contactVars, Cur
  <2> QED
    BY <1>6, <2>2, <2>3, <2>4, PubMemory DEF Record
<1>7. CASE CloseJob(w)
  <2>1. CASE Owns(w)
    <3> DEFINE x == Unowned(worker[w].verdict)
    <3>1. x \in JobRows /\ x.status \notin Live
      BY DEF WorkerStates, JobRows, Unowned, JobStatus, Live
    <3>2. job' = [job EXCEPT ![Cur(w)] = x] /\ Rest(w) /\ worker[w].pc = "closing"
      BY <1>7, <2>1 DEF CloseJob
    <3> HIDE DEF x
    <3>3. /\ job' \in [Times -> JobRows]
          /\ \A u \in Times : job'[u].status \in Live => job'[u] = job[u]
      BY <3>1, <3>2
    <3>4. /\ WorkerRecord(w) /\ worker'[w].pc = "idle"
          /\ UNCHANGED <<campaign, recipients, messages, contactVars, request>>
      BY <1>7, <3>2, RestRecord DEF CloseJob
    <3>5. SendersCover'
      BY <3>4 DEF Pub, SendersCover, Covers, contactVars, WorkerRecord
    <3> QED
      BY <3>3, <3>4, <3>5, PubLease DEF Live
  <2>2. CASE ~Owns(w)
    BY <1>4, <1>7, <2>2 DEF CloseJob
  <2> QED
    BY <2>1, <2>2
<1>8. CASE Renew(w)
  <2>1. CASE Owns(w)
    <3> DEFINE x == [job[Cur(w)] EXCEPT !.lapsed = FALSE]
    <3>1. x \in JobRows /\ x.status = "PROCESSING"
      BY <1>8, <2>1 DEF Renew, Owns, JobRows
    <3>2. job' = [job EXCEPT ![Cur(w)] = x] /\ Become(w, "sent")
      BY <1>8, <2>1 DEF Renew
    <3> HIDE DEF x
    <3>3. job' \in [Times -> JobRows] /\ \A u \in Times : job'[u].status = job[u].status
      BY <1>8, <2>1, <3>1, <3>2 DEF Renew, Owns
    <3> DEFINE y == [worker[w] EXCEPT !.pc = "sent"]
    <3>4. y.todo = worker[w].todo /\ y.cur = worker[w].cur
      BY DEF WorkerStates
    <3>5. worker' = [worker EXCEPT ![w] = y]
      BY <3>2 DEF Become
    <3> HIDE DEF y
    <3>6. worker'[w] = y /\ \A v \in Workers \ {w} : worker'[v] = worker[v]
      BY <3>5 DEF TypeOK
    <3>7. UNCHANGED <<campaign, recipients, messages, contactVars, request>>
      BY <1>8 DEF Renew
    <3>8. SendersCover'
      <4> SUFFICES ASSUME NEW v \in Workers, worker'[v].pc \in {"sending", "sent"}
                   PROVE  campaign'.status # "DRAFT" /\ Covers(worker[v])'
        BY DEF SendersCover
      <4>1. CASE v = w
        BY <1>8, <3>4, <3>6, <3>7, <4>1 DEF Renew, Covers, contactVars
      <4>2. CASE v # w
        BY <3>6, <3>7, <4>2 DEF Pub, SendersCover, Covers, contactVars
      <4> QED
        BY <4>1, <4>2
    <3> QED
      BY <3>3, <3>7, <3>8, PubLease DEF Live
  <2>2. CASE ~Owns(w)
    BY <1>4, <1>8, <2>2 DEF Renew
  <2> QED
    BY <2>1, <2>2
<1>9. CASE Complete(w)
  <2>1. CASE CanCloseBoth(w, TRUE)
    <3>1. \A c \in recipients \ everBlocked : <<Cur(w), c>> \in messages
      BY <1>9 DEF Complete, Covers, Cur
    <3> QED
      BY <1>9, <2>1, <3>1, PubClose DEF Complete, CanCloseBoth
  <2>2. CASE ~CanCloseBoth(w, TRUE)
    BY <1>4, <1>9, <2>2 DEF Complete
  <2> QED
    BY <2>1, <2>2
<1>10. CASE Fail(w)
  <2>1. CASE CanCloseBoth(w, worker[w].strict)
    BY <1>10, <2>1, PubClose DEF Fail, CanCloseBoth
  <2>2. CASE ~CanCloseBoth(w, worker[w].strict)
    BY <1>10, <2>2, RestRecord, PubMemory DEF Fail
  <2> QED
    BY <2>1, <2>2
<1> QED
  BY <1>1, <1>2, <1>5, <1>6, <1>7, <1>8, <1>9, <1>10 DEF WorkerStep, FencedStep, Poll

LEMMA PubEnvironmentStep ==
    ASSUME Pub, IInv, Environment PROVE Pub'
<1>0. TypeOK /\ NamesTimes /\ job \in [Times -> JobRows]
  BY DEF IInv, TypeOK
<1> USE <1>0
<1>1. ASSUME NEW r \in Requests, Abort(r) PROVE Pub'
  BY <1>1, PubFinish DEF Abort
<1>2. ASSUME NEW r \in Requests, NEW q \in Requests, ResolveDeadlock(r, q) PROVE Pub'
  BY <1>2, PubFinish DEF ResolveDeadlock
<1>3. ASSUME NEW w \in Workers, DatabaseError(w) PROVE Pub'
  BY <1>3, FailingRecord, PubMemory DEF DatabaseError, rows
<1>4. ASSUME NEW w \in Workers, Crash(w) PROVE Pub'
  BY <1>4, RestRecord, PubMemory DEF Crash, rows
<1>5. ASSUME NEW t \in Times, ExpireLease(t) \/ OutrunLease(t) PROVE Pub'
  <2> DEFINE x == [job[t] EXCEPT !.lapsed = TRUE]
  <2>1. x \in JobRows /\ x.status = job[t].status
    BY DEF JobRows
  <2>2. job' = [job EXCEPT ![t] = x]
    BY <1>5 DEF ExpireLease, OutrunLease
  <2> HIDE DEF x
  <2>3. job' \in [Times -> JobRows] /\ \A u \in Times : job'[u].status = job[u].status
    BY <2>1, <2>2
  <2>4. UNCHANGED <<campaign, recipients, messages, contactVars, worker, request>>
    BY <1>5 DEF ExpireLease, OutrunLease
  <2>5. SendersCover'
    BY <2>4 DEF Pub, SendersCover, Covers, contactVars
  <2> QED
    BY <2>3, <2>4, <2>5, PubLease DEF Live
<1>6. ASSUME UNCHANGED <<rows, worker, request>>,
             everBlocked \subseteq everBlocked', Contacts \ consenting' \subseteq everBlocked'
      PROVE  Pub'
  <2>1. UNCHANGED <<campaign, recipients, job, messages>>
    BY <1>6 DEF rows
  <2>3. LiveJobIsCurrent' /\ CompletedReachedEveryone' /\ BlockedIsRecorded'
    BY <1>6, <2>1
    DEF Pub, LiveJobIsCurrent, CompletedReachedEveryone, BlockedIsRecorded
  <2>4. RequestsRely' /\ OneHolder'
    BY <1>6, <2>1
    DEF Pub, RequestsRely, Relies, OneHolder, HoldsCampaign, CampaignFree
  <2>5. SendersCover'
    BY <1>6, <2>1 DEF Pub, SendersCover, Covers
  <2> QED
    BY <2>3, <2>4, <2>5 DEF Pub
<1>7. CASE Tick
  BY <1>6, <1>7 DEF Tick, contactVars, Pub, BlockedIsRecorded
<1>8. ASSUME NEW c \in Contacts, OptOut(c) \/ OptIn(c) PROVE Pub'
  BY <1>6, <1>8 DEF OptOut, OptIn, Pub, BlockedIsRecorded
<1> QED
  BY <1>1, <1>2, <1>3, <1>4, <1>5, <1>7, <1>8 DEF Environment

LEMMA NextPub == PublicOnly /\ IInv /\ Pub /\ [Next]_vars => Pub'
<1> SUFFICES ASSUME PublicOnly, IInv, Pub, [Next]_vars PROVE Pub'
  OBVIOUS
<1>1. CASE Next
  BY <1>1, NoConsoleStep, PubRequestStep, PubWorkerStep, PubEnvironmentStep DEF Next
<1>2. CASE UNCHANGED vars
  BY <1>2
  DEF vars, Pub, LiveJobIsCurrent, CompletedReachedEveryone, RequestsRely, Relies,
      OneHolder, HoldsCampaign, CampaignFree, SendersCover, Covers, BlockedIsRecorded
<1> QED
  BY <1>1, <1>2

LEMMA PubInvariant == ASSUME PublicOnly PROVE Spec => [](IInv /\ Pub)
<1>1. IInv /\ Pub /\ [Next]_vars => Pub'
  BY NextPub
<1> QED
  BY <1>1, InitPub, InductiveInvariant, PTL DEF Spec

(* Without the console, a queued job is the campaign's current schedule    *)
(* and a processing one its latest: schedulePublicCampaign locks campaign  *)
(* and jobs and refuses over a job that runs, and cancelPublicCampaign     *)
(* withdraws whatever is queued while nothing else can be scheduled.       *)
THEOREM LiveJobsAreCurrent ==
    ASSUME PublicOnly PROVE Spec => []LiveJobIsCurrent
<1>1. IInv /\ Pub => LiveJobIsCurrent
  BY DEF Pub
<1> QED
  BY <1>1, PubInvariant, PTL

(* Without the console, a campaign that completed has a message for every  *)
(* recipient whose consent never lapsed: sendCampaignMessages records or   *)
(* still has each of them to send, whichever worker took the job over.     *)
THEOREM CompletionReachesEveryone ==
    ASSUME PublicOnly PROVE Spec => []CompletedReachedEveryone
<1>1. IInv /\ Pub => CompletedReachedEveryone
  BY DEF Pub
<1> QED
  BY <1>1, PubInvariant, PTL

(* What a step may change in the campaign and in its recipients.           *)
LEMMA PublicChange ==
    ASSUME PublicOnly, IInv, Pub, [Next]_vars
    PROVE  /\ recipients' # recipients => campaign.status = "DRAFT"
           /\ campaign.status = "COMPLETED" => campaign' = campaign
<1>1. ASSUME NEW r \in Requests, PublicRequest(r)
      PROVE  /\ recipients' # recipients => campaign.status = "DRAFT"
             /\ campaign.status = "COMPLETED" => campaign' = campaign
  <2>1. Relies(request[r])
    BY DEF Pub, RequestsRely
  <2> QED
    BY <1>1, <2>1
    DEF PublicRequest, PublicEdit, PublicScheduleLock, PublicScheduleCommit,
        PublicCancelRead, PublicCancelCollect, PublicCancelLock, PublicCancelLockCampaign,
        PublicCancelCommit,
        Relies, rows
<1>2. ASSUME NEW w \in Workers, WorkerStep(w)
      PROVE  recipients' = recipients /\ (campaign.status = "COMPLETED" => campaign' = campaign)
  <2>1. CASE Poll(w) \/ Load(w) \/ CloseJob(w) \/ Renew(w) \/ \E c \in Contacts : Record(w, c)
    BY <2>1 DEF Poll, Claim, Load, CloseJob, Renew, Record, rows
  <2>2. CASE Prepare(w)
    BY <2>2 DEF Prepare, rows
  <2>3. CASE Complete(w) \/ Fail(w)
    <3>1. recipients' = recipients
      BY <2>3 DEF Complete, Fail
    <3>2. campaign.status = "COMPLETED" => campaign # [status |-> "SCHEDULED", at |-> Cur(w)]
      OBVIOUS
    <3>3. \/ campaign' = campaign
          \/ \E j \in {"COMPLETED", "FAILED"}, s \in {"COMPLETED", "PAUSED"} : CloseBoth(w, j, s)
      BY <2>3 DEF Complete, Fail
    <3> QED
      BY <3>1, <3>2, <3>3 DEF CloseBoth
  <2> QED
    BY <1>2, <2>1, <2>2, <2>3 DEF WorkerStep, FencedStep
<1>3. ASSUME Environment PROVE recipients' = recipients /\ campaign' = campaign
  BY <1>3
  DEF Environment, Abort, ResolveDeadlock, DatabaseError, Crash, ExpireLease, OutrunLease,
      Tick, OptOut, OptIn, rows
<1> QED
  BY <1>1, <1>2, <1>3, NoConsoleStep DEF Next, vars

(* Without the console, recipients change only while the campaign is a     *)
(* draft (updatePublicCampaign updates under that condition), and nothing  *)
(* schedules, pauses or fails a completed campaign.                        *)
THEOREM DraftsOnlyChange ==
    ASSUME PublicOnly PROVE Spec => OnlyDraftsChange
<1>1. IInv /\ Pub /\ [Next]_vars =>
        [/\ recipients' # recipients => campaign.status = "DRAFT"
         /\ campaign.status = "COMPLETED" => campaign' = campaign]_vars
  BY PublicChange
<1> QED
  BY <1>1, PubInvariant, PTL DEF Spec, OnlyDraftsChange

(* Without the console a completed campaign is never scheduled again: the  *)
(* public requests find its status under the campaign's row lock, where    *)
(* the console's rely on what they read before they held it.               *)
THEOREM PublicCompletionIsFinal ==
    ASSUME PublicOnly PROVE Spec => CompletedIsFinal
<1>1. IInv /\ Pub /\ [Next]_vars =>
        [campaign.status = "COMPLETED" => campaign' = campaign]_vars
  BY PublicChange
<1> QED
  BY <1>1, PubInvariant, PTL DEF Spec, CompletedIsFinal

=============================================================================
