------------------------ MODULE MessageOutbox_proofs ------------------------
(***************************************************************************)
(* Proofs about the direct-message outbox, for any number of messages,     *)
(* workers, attempts, tokens and faults.                                   *)
(*                                                                         *)
(* The first part proves OutboxInv inductive, action by action, and what   *)
(* follows from it.  The second reduces every transaction to one of a few  *)
(* kinds of change to the rows (RowsMove) and works on the kinds: TruthInv *)
(* (the evidence and the outcome are what the provider did), the triggers  *)
(* (NoStepIsRefused) and the refinement of DirectMessageContract.          *)
(***************************************************************************)
EXTENDS MessageOutbox, TLAPS

(* How the <<message, number>> keys of the attempt table behave.           *)
LEMMA AttemptKeys ==
    /\ \A a \in Attempts : a[1] \in Messages /\ a[2] \in 1 .. MaxAttempts
                           /\ a[2] \in Nat /\ a = <<a[1], a[2]>>
    /\ \A m \in Messages, k \in 1 .. MaxAttempts :
          <<m, k>> \in Attempts /\ <<m, k>>[1] = m /\ <<m, k>>[2] = k
    /\ \A a, b \in Attempts : a[1] = b[1] /\ a[2] = b[2] => a = b
BY OutboxAssumption DEF Attempts

(* The keys that a reservation uses, the first attempt of a message,       *)
(* exist.                                                                  *)
LEMMA FirstAttempt ==
    /\ 0 \in 0 .. MaxAttempts /\ 1 \in 0 .. MaxAttempts /\ 1 \in 1 .. MaxAttempts
    /\ \A m \in Messages : <<m, 1>> \in Attempts
BY OutboxAssumption, AttemptKeys

(* Below MaxAttempts an attempt has a successor row of the same message,   *)
(* the next number.                                                        *)
LEMMA SuccessorKey ==
    ASSUME NEW a \in Attempts, a[2] < MaxAttempts
    PROVE  /\ Successor(a) \in Attempts /\ Successor(a) # a
           /\ Successor(a)[1] = a[1] /\ Successor(a)[2] = a[2] + 1
BY OutboxAssumption, AttemptKeys DEF Successor, Attempts

-----------------------------------------------------------------------------
(* Projecting a provider report gives a message status and an attempt      *)
(* status of the schema.                                                   *)
LEMMA StatusTypes ==
    /\ \A s : ApplicationStatusFor(s) \in {"SENT", "DELIVERED", "FAILED"}
    /\ \A c \in AttemptStatus : \A s : AttemptStatusFor(c, s) \in AttemptStatus
BY DEF ApplicationStatusFor, AttemptStatusFor, AttemptStatus

(* The rows that inserts create and the states that workers start from     *)
(* have their types.                                                       *)
LEMMA ConstantTypes ==
    /\ NoMessage \in MessageRows
    /\ NoRow \in AttemptRows
    /\ \A due \in BOOLEAN : QueuedRow(due) \in AttemptRows
    /\ IdleWorker \in WorkerStates
    /\ \A k \in {"none", "result", "retry", "failed", "ambiguous"},
          s \in ReportedStatus \cup {None} : Decision(k, s) \in Decisions
<1>1. NoMessage \in MessageRows
  BY OutboxAssumption DEF NoMessage, MessageRows, MessageStatus
<1>2. NoRow \in AttemptRows /\ \A due \in BOOLEAN : QueuedRow(due) \in AttemptRows
  BY DEF NoRow, QueuedRow, AttemptRows, AttemptStatus
<1>3. \A k \in {"none", "result", "retry", "failed", "ambiguous"},
         s \in ReportedStatus \cup {None} : Decision(k, s) \in Decisions
  BY DEF Decision, Decisions
<1>4. NoDecision \in Decisions
  BY <1>3 DEF NoDecision
<1>5. IdleWorker \in WorkerStates
  BY <1>4 DEF IdleWorker, WorkerStates, WorkerPc
<1> QED
  BY <1>1, <1>2, <1>3, <1>5

(* Clearing the lease of an attempt and giving it a status keeps it a row  *)
(* of the table.                                                           *)
LEMMA ClosedType ==
    ASSUME TypeOK, NEW a \in Attempts, NEW s \in AttemptStatus
    PROVE  Closed(a, s) \in AttemptRows
BY DEF TypeOK, Closed, AttemptRows

(* Closing an attempt together with its message keeps both tables typed.   *)
LEMMA CloseType ==
    ASSUME TypeOK, NEW a \in Attempts, NEW s \in AttemptStatus, NEW t \in MessageStatus,
           Close(a, s, t)
    PROVE  message' \in [Messages -> MessageRows] /\ attempt' \in [Attempts -> AttemptRows]
<1>1. a[1] \in Messages /\ message[a[1]] \in MessageRows
  BY AttemptKeys DEF TypeOK
<1>2. [message[a[1]] EXCEPT !.status = t] \in MessageRows
  BY <1>1 DEF MessageRows
<1> QED
  BY <1>1, <1>2, ClosedType DEF TypeOK, Close

(* Queueing the retained successor of a closed attempt keeps both tables   *)
(* typed.                                                                  *)
LEMMA ReopenType ==
    ASSUME TypeOK, NEW a \in Attempts, a[2] < MaxAttempts, NEW r \in AttemptRows,
           NEW due \in BOOLEAN, NEW s \in ReportedStatus \cup {None}, Reopen(a, r, due, s)
    PROVE  message' \in [Messages -> MessageRows] /\ attempt' \in [Attempts -> AttemptRows]
<1>1. a[2] + 1 \in 0 .. MaxAttempts
  BY AttemptKeys, OutboxAssumption
<1>2. a[1] \in Messages /\ message[a[1]] \in MessageRows
  BY AttemptKeys DEF TypeOK
<1>3. [message[a[1]] EXCEPT !.status = "SCHEDULED", !.count = a[2] + 1, !.shown = s]
         \in MessageRows
  BY <1>1, <1>2 DEF MessageRows, MessageStatus
<1>4. message' \in [Messages -> MessageRows]
  BY <1>2, <1>3 DEF TypeOK, Reopen
<1>5. attempt' \in [Attempts -> AttemptRows]
  BY SuccessorKey, ConstantTypes DEF TypeOK, Reopen
<1> QED
  BY <1>4, <1>5

(* A worker that goes back to its claim loop is in a state of its type.    *)
LEMMA ResumeType ==
    ASSUME TypeOK, NEW w \in Workers, NEW todo \in SUBSET Attempts
    PROVE  Resume(w, todo) \in WorkerStates
BY ConstantTypes DEF TypeOK, Resume, WorkerStates, WorkerPc

(* What a worker holds in memory: its batch and its decision, typed.       *)
LEMMA WorkerType ==
    ASSUME TypeOK, NEW w \in Workers
    PROVE  worker[w] \in WorkerStates /\ worker[w].todo \in SUBSET Attempts
           /\ worker[w].decision \in Decisions
           /\ worker[w].decision.shown \in ReportedStatus \cup {None}
BY DEF TypeOK, WorkerStates, Decisions

(* Dropping one attempt of the batch keeps the workers typed.              *)
LEMMA DropType ==
    ASSUME TypeOK, NEW w \in Workers, NEW a \in Attempts, Drop(w, a)
    PROVE  worker' \in [Workers -> WorkerStates]
<1>1. Resume(w, worker[w].todo \ {a}) \in WorkerStates
  BY WorkerType, ResumeType
<1> QED
  BY <1>1 DEF TypeOK, Drop

(* A claimed attempt is of its type.                                       *)
LEMMA ClaimedType ==
    ASSUME TypeOK, NEW a \in Attempts, NEW t \in Tokens
    PROVE  [attempt[a] EXCEPT !.status = "PROCESSING", !.token = t, !.lapsed = FALSE]
              \in AttemptRows
BY DEF TypeOK, AttemptRows, AttemptStatus

(* A state of a worker with another decision is one of its type.           *)
LEMMA DecidedType ==
    ASSUME NEW x \in WorkerStates, NEW pc \in WorkerPc, NEW d \in Decisions
    PROVE  [x EXCEPT !.pc = pc, !.decision = d] \in WorkerStates
BY DEF WorkerStates

(* Recording a decision keeps the workers typed.                           *)
LEMMA DecideType ==
    ASSUME TypeOK, NEW w \in Workers, NEW pc \in WorkerPc, NEW d \in Decisions,
           Decide(w, pc, d)
    PROVE  worker' \in [Workers -> WorkerStates]
<1>1. worker' = [worker EXCEPT ![w] = [worker[w] EXCEPT !.pc = pc, !.decision = d]]
  BY DEF TypeOK, Decide
<1>2. [worker[w] EXCEPT !.pc = pc, !.decision = d] \in WorkerStates
  BY WorkerType, DecidedType
<1> QED
  BY <1>1, <1>2 DEF TypeOK

(* Whatever decision finalize stores, both tables stay typed.              *)
LEMMA PersistType ==
    ASSUME TypeOK, NEW a \in Attempts, NEW d \in Decisions, Persist(a, d),
           d.kind = "retry" => a[2] < MaxAttempts
    PROVE  message' \in [Messages -> MessageRows] /\ attempt' \in [Attempts -> AttemptRows]
<1> USE DEF TypeOK
<1>1. a[1] \in Messages /\ a[2] \in 0 .. MaxAttempts /\ message[a[1]] \in MessageRows
      /\ message[a[1]].shown \in ReportedStatus \cup {None}
  BY AttemptKeys, OutboxAssumption DEF MessageRows
<1>2. d.shown \in ReportedStatus \cup {None}
  BY DEF Decisions
<1>3. \A s \in AttemptStatus : Closed(a, s) \in AttemptRows
  BY ClosedType
<1>4. CASE d.kind = "result"
  <2>1. AttemptStatusFor("PROCESSING", d.shown) \in AttemptStatus
    BY StatusTypes DEF AttemptStatus
  <2>2. [Closed(a, AttemptStatusFor("PROCESSING", d.shown))
            EXCEPT !.sid = TRUE, !.shown = d.shown] \in AttemptRows
    BY <1>2, <1>3, <2>1 DEF AttemptRows
  <2>3. [message[a[1]] EXCEPT !.status = ApplicationStatusFor(d.shown),
                              !.sid = a[2], !.shown = d.shown] \in MessageRows
    BY <1>1, <1>2, StatusTypes DEF MessageRows, MessageStatus
  <2> QED
    BY <1>1, <1>4, <2>2, <2>3 DEF Persist
<1>5. CASE d.kind = "retry"
  BY <1>1, <1>3, <1>5, ReopenType DEF Persist, AttemptStatus
<1>6. CASE d.kind = "failed"
  <2>1. [message[a[1]] EXCEPT !.status = "FAILED", !.shown = None] \in MessageRows
    BY <1>1 DEF MessageRows, MessageStatus
  <2>2. Closed(a, "FAILED") \in AttemptRows
    BY <1>3 DEF AttemptStatus
  <2> QED
    BY <1>1, <1>6, <2>1, <2>2 DEF Persist
<1>7. CASE d.kind = "ambiguous"
  BY <1>7, CloseType DEF Persist, AttemptStatus, MessageStatus
<1> QED
  BY <1>4, <1>5, <1>6, <1>7 DEF Persist

(* Ownership and an error leave the rows alone or persist the decision.    *)
LEMMA PersistIfOwnedType ==
    ASSUME TypeOK, DecisionsAreTrue, NEW w \in Workers,
           worker[w].pc \notin {"idle", "batch"}, PersistIfOwned(w) \/ UNCHANGED rows
    PROVE  message' \in [Messages -> MessageRows] /\ attempt' \in [Attempts -> AttemptRows]
<1>1. worker[w].cur \in Attempts
      /\ (worker[w].decision.kind = "retry" => worker[w].cur[2] < MaxAttempts)
  BY DEF DecisionsAreTrue
<1>2. CASE UNCHANGED rows
  BY <1>2 DEF TypeOK, rows
<1>3. CASE Persist(worker[w].cur, worker[w].decision)
  BY <1>1, <1>3, PersistType, WorkerType
<1> QED
  BY <1>2, <1>3 DEF PersistIfOwned

-----------------------------------------------------------------------------
(* Type correctness, given that decisions are true (a retry must not name  *)
(* a successor beyond MaxAttempts).                                        *)
LEMMA TypeStep ==
    ASSUME TypeOK, DecisionsAreTrue, [Next]_vars
    PROVE  TypeOK'
<1> USE DEF TypeOK
<1>1. ASSUME NEW m \in Messages, Accept(m) PROVE TypeOK'
  <2>1. [message[m] EXCEPT !.status = "ACCEPTED", !.count = 1] \in MessageRows
    BY FirstAttempt DEF MessageRows, MessageStatus
  <2>2. <<m, 1>> \in Attempts /\ QueuedRow(TRUE) \in AttemptRows
    BY FirstAttempt, ConstantTypes
  <2> QED
    BY <1>1, <2>1, <2>2 DEF Accept
<1>2. ASSUME NEW m \in Messages, CancelReads(m) PROVE TypeOK'
  BY <1>2 DEF CancelReads, MessageRows
<1>3. ASSUME NEW m \in Messages, CancelCommits(m) PROVE TypeOK'
  <2> DEFINE a == <<m, cancelling[m]>>
  <2>1. a \in Attempts
    BY <1>3, AttemptKeys, OutboxAssumption DEF CancelCommits
  <2>2. message' \in [Messages -> MessageRows] /\ attempt' \in [Attempts -> AttemptRows]
    <3>1. CASE Close(a, "CANCELLED", "CANCELLED")
      BY <2>1, <3>1, CloseType DEF AttemptStatus, MessageStatus
    <3>2. CASE UNCHANGED rows
      BY <3>2 DEF rows
    <3> QED
      BY <1>3, <3>1, <3>2 DEF CancelCommits
  <2>3. cancelling' \in [Messages -> 0 .. MaxAttempts]
    BY <1>3, FirstAttempt DEF CancelCommits
  <2> QED
    BY <1>3, <2>2, <2>3 DEF CancelCommits
<1>4. ASSUME NEW a \in Attempts, Attest(a) PROVE TypeOK'
  <2>1. [attempt[a] EXCEPT !.status = "RESOLVED_NOT_SENT"] \in AttemptRows
    BY DEF AttemptRows, AttemptStatus
  <2> QED
    BY <1>4, <2>1 DEF Attest
<1>5. ASSUME NEW a \in Attempts, RetryAttested(a) PROVE TypeOK'
  BY <1>5, ReopenType DEF RetryAttested
<1>6. ASSUME NEW a \in Attempts, RecoverExpired(a) PROVE TypeOK'
  BY <1>6, CloseType DEF RecoverExpired, AttemptStatus, MessageStatus
<1>7. ASSUME NEW a \in Attempts, NEW status \in ReportedStatus, Callback(a, status)
      PROVE  TypeOK'
  <2> DEFINE m == a[1]
             next == AttemptStatusFor(attempt[a].status, status)
             row == IF next # attempt[a].status THEN Closed(a, next) ELSE attempt[a]
  <2>1. m \in Messages /\ message[m] \in MessageRows /\ a[2] \in 0 .. MaxAttempts
    BY AttemptKeys, OutboxAssumption
  <2>2. [message[m] EXCEPT !.sid = a[2], !.shown = status,
                           !.status = ApplicationStatusFor(status)] \in MessageRows
    BY <2>1, StatusTypes DEF MessageRows, MessageStatus
  <2>3. next \in AttemptStatus
    BY StatusTypes DEF AttemptRows
  <2>4. row \in AttemptRows
    BY <2>3, ClosedType
  <2>5. [row EXCEPT !.sid = TRUE, !.shown = status] \in AttemptRows
    BY <2>4 DEF AttemptRows
  <2> QED
    BY <1>7, <2>1, <2>2, <2>5 DEF Callback
<1>8. ASSUME NEW a \in Attempts, LeaseLapses(a) \/ LeaseOutrun(a) PROVE TypeOK'
  <2>1. [attempt[a] EXCEPT !.lapsed = TRUE] \in AttemptRows
    BY DEF AttemptRows
  <2>2. faults' \in 0 .. MaxFaults
    BY <1>8, OutboxAssumption DEF LeaseLapses, LeaseOutrun, Fault
  <2>3. attempt' \in [Attempts -> AttemptRows]
    BY <1>8, <2>1 DEF LeaseLapses, LeaseOutrun, Lapse
  <2> QED
    BY <1>8, <2>2, <2>3 DEF LeaseLapses, LeaseOutrun, Lapse
<1>9. ASSUME NEW a \in Attempts, RetryBecomesDue(a) PROVE TypeOK'
  <2>1. [attempt[a] EXCEPT !.due = TRUE] \in AttemptRows
    BY DEF AttemptRows
  <2> QED
    BY <1>9, <2>1 DEF RetryBecomesDue
<1>10. ASSUME NEW a \in Attempts, ProviderMoves(a) PROVE TypeOK'
  BY <1>10 DEF ProviderMoves
<1>11. ASSUME NEW w \in Workers, NEW t \in Tokens, NEW batch \in SUBSET Attempts,
              Claim(w, batch, t)
       PROVE  TypeOK'
  <2>1. \A a \in Attempts :
           [attempt[a] EXCEPT !.status = "PROCESSING", !.token = t, !.lapsed = FALSE]
              \in AttemptRows
    BY ClaimedType
  <2>2. \A m \in Messages : ClaimedCount(m, batch) \in 0 .. MaxAttempts
    <3> TAKE m \in Messages
    <3>1. message[m].count \in 0 .. MaxAttempts
      BY DEF MessageRows
    <3>2. \A a \in batch : a[2] \in 0 .. MaxAttempts
      BY AttemptKeys, OutboxAssumption
    <3> QED
      BY <3>1, <3>2 DEF ClaimedCount
  <2>3. \A m \in Messages :
           [message[m] EXCEPT !.status = "PROCESSING", !.count = ClaimedCount(m, batch)]
              \in MessageRows
    BY <2>2 DEF MessageRows, MessageStatus
  <2>4. [IdleWorker EXCEPT !.pc = "batch", !.token = t, !.todo = batch] \in WorkerStates
    BY ConstantTypes DEF WorkerStates, WorkerPc
  <2>5. message' \in [Messages -> MessageRows]
    BY <1>11, <2>3 DEF Claim
  <2>6. attempt' \in [Attempts -> AttemptRows]
    BY <1>11, <2>1 DEF Claim
  <2>7. worker' \in [Workers -> WorkerStates]
    BY <1>11, <2>4 DEF Claim
  <2> QED
    BY <1>11, <2>5, <2>6, <2>7 DEF Claim
<1>12. ASSUME NEW w \in Workers, NEW a \in Attempts,
              PrepareSkips(w, a) \/ PrepareCancels(w, a) \/ PrepareErrors(w, a)
       PROVE  TypeOK'
  <2>1. worker' \in [Workers -> WorkerStates]
    BY <1>12, DropType DEF PrepareSkips, PrepareCancels, PrepareErrors
  <2>2. message' \in [Messages -> MessageRows] /\ attempt' \in [Attempts -> AttemptRows]
    BY <1>12, CloseType
    DEF PrepareSkips, PrepareCancels, PrepareErrors, AttemptStatus, MessageStatus
  <2> QED
    BY <1>12, <2>1, <2>2, OutboxAssumption
    DEF PrepareSkips, PrepareCancels, PrepareErrors, Fault
<1>13. ASSUME NEW w \in Workers, NEW a \in Attempts, PrepareAuthorises(w, a)
       PROVE  TypeOK'
  <2>1. [attempt[a] EXCEPT !.frontier = TRUE] \in AttemptRows
    BY DEF AttemptRows
  <2>2. [worker[w] EXCEPT !.pc = "authorised", !.cur = a,
                       !.todo = worker[w].todo \ {a}] \in WorkerStates
    BY DEF WorkerStates, WorkerPc
  <2>3. attempt' \in [Attempts -> AttemptRows]
    BY <1>13, <2>1 DEF PrepareAuthorises
  <2>4. worker' \in [Workers -> WorkerStates]
    BY <1>13, <2>2 DEF PrepareAuthorises
  <2> QED
    BY <1>13, <2>3, <2>4 DEF PrepareAuthorises
<1>14. ASSUME NEW w \in Workers, AdapterUnavailable(w) PROVE TypeOK'
  BY <1>14, ConstantTypes, DecideType DEF AdapterUnavailable, WorkerPc
<1>15. ASSUME NEW w \in Workers, SendRequest(w) PROVE TypeOK'
  <2>1. [worker[w] EXCEPT !.pc = "calling"] \in WorkerStates
    BY DEF WorkerStates, WorkerPc
  <2>2. worker' \in [Workers -> WorkerStates]
    BY <1>15, <2>1 DEF SendRequest
  <2>3. worker[w].cur \in Attempts
    BY <1>15 DEF SendRequest, DecisionsAreTrue
  <2>4. calls' \in [Attempts -> Nat]
    BY <1>15, <2>3 DEF SendRequest
  <2>5. truth' \in [Attempts -> ProviderState]
    BY <1>15, <2>3 DEF SendRequest, ProviderState
  <2> QED
    BY <1>15, <2>2, <2>4, <2>5 DEF SendRequest
<1>16. ASSUME NEW w \in Workers, NEW status \in ReportedStatus, ReplyAccepted(w, status)
       PROVE  TypeOK'
  BY <1>16, ConstantTypes, DecideType DEF ReplyAccepted, WorkerPc
<1>17. ASSUME NEW w \in Workers, ReplyRefused(w) \/ ReplyUnknown(w) PROVE TypeOK'
  BY <1>17, ConstantTypes, DecideType DEF ReplyRefused, ReplyUnknown, WorkerPc
<1>18. ASSUME NEW w \in Workers, Finalize(w) \/ FinalizeErrors(w) PROVE TypeOK'
  <2>1. message' \in [Messages -> MessageRows] /\ attempt' \in [Attempts -> AttemptRows]
    BY <1>18, PersistIfOwnedType DEF Finalize, FinalizeErrors
  <2>2. [worker[w] EXCEPT !.pc = "marking"] \in WorkerStates
    BY DEF WorkerStates, WorkerPc
  <2>3. worker' \in [Workers -> WorkerStates]
    BY <1>18, <2>2, WorkerType, ResumeType DEF Finalize, FinalizeErrors
  <2> QED
    BY <1>18, <2>1, <2>3, OutboxAssumption DEF Finalize, FinalizeErrors, Fault
<1>19. ASSUME NEW w \in Workers, MarkPersistenceAmbiguous(w) \/ MarkErrors(w) PROVE TypeOK'
  <2>1. worker[w].cur \in Attempts
    BY <1>19 DEF DecisionsAreTrue, MarkPersistenceAmbiguous, MarkErrors
  <2>2. message' \in [Messages -> MessageRows] /\ attempt' \in [Attempts -> AttemptRows]
    BY <1>19, <2>1, CloseType
    DEF MarkPersistenceAmbiguous, MarkErrors, rows, AttemptStatus, MessageStatus
  <2>3. worker' \in [Workers -> WorkerStates]
    BY <1>19, WorkerType, ResumeType DEF MarkPersistenceAmbiguous, MarkErrors
  <2> QED
    BY <1>19, <2>2, <2>3, OutboxAssumption DEF MarkPersistenceAmbiguous, MarkErrors, Fault
<1>20. ASSUME NEW w \in Workers, Crash(w) PROVE TypeOK'
  BY <1>20, ConstantTypes, OutboxAssumption DEF Crash, Fault
<1>21. CASE UNCHANGED vars
  BY <1>21 DEF vars
<1> QED
  BY <1>1, <1>2, <1>3, <1>4, <1>5, <1>6, <1>7, <1>8, <1>9, <1>10, <1>11, <1>12, <1>13,
     <1>14, <1>15, <1>16, <1>17, <1>18, <1>19, <1>20, <1>21
  DEF Next, WorkerStep, WorkerFault

-----------------------------------------------------------------------------
(* The rows agree.                                                         *)

(* StatusesFor, read off status by status.                                 *)
LEMMA StatusTable ==
    /\ StatusesFor("NONE") = {"NONE"}
    /\ StatusesFor("ACCEPTED") = {"QUEUED"} /\ StatusesFor("SCHEDULED") = {"QUEUED"}
    /\ StatusesFor("PROCESSING") = {"PROCESSING"}
    /\ StatusesFor("SENT") = {"SUCCEEDED"} /\ StatusesFor("DELIVERED") = {"SUCCEEDED"}
    /\ StatusesFor("FAILED") = {"FAILED", "SUCCEEDED"}
    /\ StatusesFor("CANCELLED") = {"CANCELLED"}
    /\ StatusesFor("AMBIGUOUS") = {"AMBIGUOUS", "RESOLVED_NOT_SENT"}
BY DEF StatusesFor

(* A freshly queued attempt has passed no frontier and shows no evidence.  *)
LEMMA QueuedFields ==
    ASSUME NEW due \in BOOLEAN
    PROVE  /\ QueuedRow(due).status = "QUEUED" /\ QueuedRow(due).frontier = FALSE
           /\ QueuedRow(due).sid = FALSE /\ QueuedRow(due).shown = None
BY DEF QueuedRow, NoRow

(* Whatever is neither refused nor attested is the latest attempt.         *)
LEMMA LiveIsLatest ==
    ASSUME TypeOK, RowsAgree, NEW a \in Attempts,
           attempt[a].status \notin {"NONE", "FAILED", "RESOLVED_NOT_SENT"}
    PROVE  a[2] = message[a[1]].count
<1>1. a[1] \in Messages /\ a[2] \in Nat /\ message[a[1]].count \in Nat
  BY AttemptKeys, OutboxAssumption DEF TypeOK, MessageRows
<1> QED
  BY <1>1 DEF RowsAgree, NoRow

(* A transaction that rewrites the latest attempt and its message keeps    *)
(* them in agreement if it gives them statuses that belong together.       *)
LEMMA RewriteLatest ==
    ASSUME TypeOK, RowsAgree, NEW a \in Attempts, a[2] = message[a[1]].count,
           NEW r \in AttemptRows, NEW n \in MessageRows,
           n.count = message[a[1]].count, r.status \in StatusesFor(n.status),
           attempt' = [attempt EXCEPT ![a] = r],
           message' = [message EXCEPT ![a[1]] = n]
    PROVE  RowsAgree'
<1> SUFFICES ASSUME NEW b \in Attempts
             PROVE  LET m == b[1] IN
                    /\ b[2] < message'[m].count =>
                          attempt'[b].status \in {"FAILED", "RESOLVED_NOT_SENT"}
                    /\ b[2] = message'[m].count =>
                          attempt'[b].status \in StatusesFor(message'[m].status)
                    /\ b[2] > message'[m].count => attempt'[b] = NoRow
  BY DEF RowsAgree
<1>1. b[1] \in Messages /\ a[1] \in Messages /\ a[2] \in Nat
  BY AttemptKeys
<1>2. message'[b[1]].count = message[b[1]].count
  BY <1>1 DEF TypeOK
<1>3. CASE b = a
  BY <1>1, <1>2, <1>3 DEF TypeOK
<1>4. CASE b # a /\ b[1] = a[1]
  <2>1. b[2] # message[b[1]].count
    BY <1>4, AttemptKeys
  <2> QED
    BY <1>1, <1>2, <1>4, <2>1 DEF TypeOK, RowsAgree
<1>5. CASE b[1] # a[1]
  BY <1>1, <1>2, <1>5 DEF TypeOK, RowsAgree
<1> QED
  BY <1>3, <1>4, <1>5

(* The latest attempt is closed without a SID and a successor is queued.   *)
LEMMA ReopenAgrees ==
    ASSUME TypeOK, RowsAgree, NEW a \in Attempts, a[2] < MaxAttempts,
           a[2] = message[a[1]].count, NEW r \in AttemptRows,
           r.status \in {"FAILED", "RESOLVED_NOT_SENT"},
           NEW due \in BOOLEAN, NEW s \in ReportedStatus \cup {None}, Reopen(a, r, due, s)
    PROVE  RowsAgree'
<1> SUFFICES ASSUME NEW b \in Attempts
             PROVE  LET m == b[1] IN
                    /\ b[2] < message'[m].count =>
                          attempt'[b].status \in {"FAILED", "RESOLVED_NOT_SENT"}
                    /\ b[2] = message'[m].count =>
                          attempt'[b].status \in StatusesFor(message'[m].status)
                    /\ b[2] > message'[m].count => attempt'[b] = NoRow
  BY DEF RowsAgree
<1>1. /\ b[1] \in Messages /\ a[1] \in Messages /\ a[2] \in Nat /\ b[2] \in Nat
      /\ message[b[1]].count \in Nat
  BY AttemptKeys, OutboxAssumption DEF TypeOK, MessageRows
<1>2. /\ Successor(a) \in Attempts /\ Successor(a) # a
      /\ Successor(a)[1] = a[1] /\ Successor(a)[2] = a[2] + 1
  BY SuccessorKey
<1>3. /\ message'[a[1]].count = a[2] + 1 /\ message'[a[1]].status = "SCHEDULED"
      /\ b[1] # a[1] => message'[b[1]] = message[b[1]]
  BY <1>1 DEF Reopen, TypeOK, MessageRows
<1>4. /\ attempt'[a] = r /\ attempt'[Successor(a)] = QueuedRow(due)
      /\ b # a /\ b # Successor(a) => attempt'[b] = attempt[b]
  BY <1>2 DEF Reopen, TypeOK
<1>5. CASE b = a
  BY <1>1, <1>3, <1>4, <1>5
<1>6. CASE b = Successor(a)
  <2>1. b[1] = a[1] /\ b[2] = a[2] + 1
    BY <1>2, <1>6
  <2>2. message'[b[1]].count = a[2] + 1 /\ message'[b[1]].status = "SCHEDULED"
    BY <1>3, <2>1
  <2>3. attempt'[b].status = "QUEUED"
    BY <1>4, <1>6, QueuedFields
  <2>4. attempt'[b].status \in StatusesFor(message'[b[1]].status)
    BY <2>2, <2>3, StatusTable
  <2> QED
    BY <1>1, <2>1, <2>2, <2>4
<1>7. CASE b # a /\ b # Successor(a) /\ b[1] = a[1]
  <2>1. b[2] # a[2] /\ b[2] # a[2] + 1
    BY <1>2, <1>7, AttemptKeys
  <2>2. /\ b[2] < a[2] => attempt[b].status \in {"FAILED", "RESOLVED_NOT_SENT"}
        /\ b[2] > a[2] => attempt[b] = NoRow
    BY <1>7 DEF RowsAgree
  <2> QED
    BY <1>1, <1>3, <1>4, <1>7, <2>1, <2>2
<1>8. CASE b[1] # a[1]
  BY <1>1, <1>2, <1>3, <1>4, <1>8 DEF RowsAgree
<1> QED
  BY <1>5, <1>6, <1>7, <1>8

(* So does one that rewrites the latest attempt and leaves its message     *)
(* alone.                                                                  *)
LEMMA TouchLatest ==
    ASSUME TypeOK, RowsAgree, NEW a \in Attempts, a[2] = message[a[1]].count,
           NEW r \in AttemptRows, r.status \in StatusesFor(message[a[1]].status),
           attempt' = [attempt EXCEPT ![a] = r], message' = message
    PROVE  RowsAgree'
<1>1. a[1] \in Messages /\ message[a[1]] \in MessageRows
  BY AttemptKeys DEF TypeOK
<1>2. message' = [message EXCEPT ![a[1]] = message[a[1]]]
  BY <1>1 DEF TypeOK
<1> QED
  BY <1>1, <1>2, RewriteLatest

(* So does one that closes the latest attempt and its message with         *)
(* matching statuses.                                                      *)
LEMMA CloseAgrees ==
    ASSUME TypeOK, RowsAgree, NEW a \in Attempts, a[2] = message[a[1]].count,
           NEW s \in AttemptStatus, NEW t \in MessageStatus, s \in StatusesFor(t),
           Close(a, s, t)
    PROVE  RowsAgree'
<1> DEFINE n == [message[a[1]] EXCEPT !.status = t]
<1>1. a[1] \in Messages /\ message[a[1]] \in MessageRows
  BY AttemptKeys DEF TypeOK
<1>2. n \in MessageRows /\ n.count = message[a[1]].count /\ n.status = t
  BY <1>1 DEF MessageRows
<1>3. Closed(a, s) \in AttemptRows /\ Closed(a, s).status = s
  BY ClosedType DEF TypeOK, Closed, AttemptRows
<1>4. attempt' = [attempt EXCEPT ![a] = Closed(a, s)] /\ message' = [message EXCEPT ![a[1]] = n]
  BY <1>1 DEF Close, TypeOK
<1> HIDE DEF n
<1> QED
  BY <1>2, <1>3, <1>4, RewriteLatest

(* The statuses a provider report gives an attempt it settles and its      *)
(* message belong together.                                                *)
LEMMA OutcomePair ==
    \A s : \A c \in {"PROCESSING", "AMBIGUOUS"} :
        AttemptStatusFor(c, s) \in StatusesFor(ApplicationStatusFor(s))
<1> SUFFICES ASSUME NEW s, NEW c \in {"PROCESSING", "AMBIGUOUS"}
             PROVE  AttemptStatusFor(c, s) \in StatusesFor(ApplicationStatusFor(s))
  OBVIOUS
<1>1. CASE s \in Failures
  BY <1>1, StatusTable DEF AttemptStatusFor, ApplicationStatusFor
<1>2. CASE s \notin Failures
  BY <1>2, StatusTable DEF AttemptStatusFor, ApplicationStatusFor
<1> QED
  BY <1>1, <1>2

(* Whatever decision finalize stores for the latest attempt, the tables    *)
(* agree.                                                                  *)
LEMMA PersistAgrees ==
    ASSUME TypeOK, RowsAgree, NEW a \in Attempts, a[2] = message[a[1]].count,
           NEW d \in Decisions, d.kind = "retry" => a[2] < MaxAttempts, Persist(a, d)
    PROVE  RowsAgree'
<1>1. a[1] \in Messages /\ a[2] \in 0 .. MaxAttempts /\ message[a[1]] \in MessageRows
      /\ message[a[1]].shown \in ReportedStatus \cup {None}
      /\ d.shown \in ReportedStatus \cup {None}
  BY AttemptKeys, OutboxAssumption DEF TypeOK, MessageRows, Decisions
<1>2. \A s \in AttemptStatus : Closed(a, s) \in AttemptRows /\ Closed(a, s).status = s
  BY ClosedType DEF TypeOK, Closed, AttemptRows
<1>3. CASE d.kind = "result"
  <2> DEFINE s == AttemptStatusFor("PROCESSING", d.shown)
             r == [Closed(a, s) EXCEPT !.sid = TRUE, !.shown = d.shown]
             n == [message[a[1]] EXCEPT !.status = ApplicationStatusFor(d.shown),
                                        !.sid = a[2], !.shown = d.shown]
  <2>1. s \in AttemptStatus /\ s \in StatusesFor(ApplicationStatusFor(d.shown))
    BY StatusTypes, OutcomePair DEF AttemptStatus
  <2> HIDE DEF s
  <2>2. r \in AttemptRows /\ r.status = s
    <3>1. Closed(a, s) \in AttemptRows /\ Closed(a, s).status = s
      BY <1>2, <2>1
    <3> QED
      BY <1>1, <3>1 DEF AttemptRows
  <2>3. n \in MessageRows /\ n.count = message[a[1]].count
        /\ n.status = ApplicationStatusFor(d.shown)
    BY <1>1, StatusTypes DEF MessageRows, MessageStatus
  <2>4. r.status \in StatusesFor(n.status)
    BY <2>1, <2>2, <2>3
  <2>5. attempt' = [attempt EXCEPT ![a] = r] /\ message' = [message EXCEPT ![a[1]] = n]
    BY <1>3 DEF Persist, s
  <2> HIDE DEF r, n
  <2> QED
    BY <2>2, <2>3, <2>4, <2>5, RewriteLatest
<1>4. CASE d.kind = "retry"
  <2>1. Reopen(a, Closed(a, "FAILED"), FALSE, message[a[1]].shown)
    BY <1>4 DEF Persist
  <2> QED
    BY <1>1, <1>2, <1>4, <2>1, ReopenAgrees DEF AttemptStatus
<1>5. CASE d.kind = "failed"
  <2> DEFINE r == Closed(a, "FAILED")
             n == [message[a[1]] EXCEPT !.status = "FAILED", !.shown = None]
  <2>1. r \in AttemptRows /\ r.status = "FAILED"
    BY <1>2 DEF AttemptStatus
  <2>2. n \in MessageRows /\ n.count = message[a[1]].count /\ n.status = "FAILED"
    BY <1>1 DEF MessageRows, MessageStatus
  <2>3. attempt' = [attempt EXCEPT ![a] = r] /\ message' = [message EXCEPT ![a[1]] = n]
    BY <1>5 DEF Persist
  <2>4. r.status \in StatusesFor(n.status)
    BY <2>1, <2>2, StatusTable
  <2> HIDE DEF r, n
  <2> QED
    BY <2>1, <2>2, <2>3, <2>4, RewriteLatest
<1>6. CASE d.kind = "ambiguous"
  <2>1. Close(a, "AMBIGUOUS", "AMBIGUOUS")
    BY <1>6 DEF Persist
  <2> QED
    BY <2>1, StatusTable, CloseAgrees DEF AttemptStatus, MessageStatus
<1> QED
  BY <1>3, <1>4, <1>5, <1>6 DEF Persist

(* StatusesFor, read from the attempt to its message.                      *)
LEMMA ReverseTable ==
    ASSUME NEW s \in MessageStatus
    PROVE  /\ "NONE" \in StatusesFor(s) => s = "NONE"
           /\ "QUEUED" \in StatusesFor(s) => s \in {"ACCEPTED", "SCHEDULED"}
           /\ "PROCESSING" \in StatusesFor(s) => s = "PROCESSING"
           /\ "AMBIGUOUS" \in StatusesFor(s) => s = "AMBIGUOUS"
           /\ "RESOLVED_NOT_SENT" \in StatusesFor(s) => s = "AMBIGUOUS"
           /\ "FAILED" \in StatusesFor(s) => s = "FAILED"
           /\ "CANCELLED" \in StatusesFor(s) => s = "CANCELLED"
           /\ "SUCCEEDED" \in StatusesFor(s) => s \in {"SENT", "DELIVERED", "FAILED"}
BY StatusTable DEF MessageStatus

(* A transaction that writes neither table keeps them in agreement.        *)
LEMMA IdleAgrees ==
    ASSUME RowsAgree, UNCHANGED rows
    PROVE  RowsAgree'
BY DEF RowsAgree, rows

(* A reservation creates a message and a first attempt that agree.         *)
LEMMA AcceptAgrees ==
    ASSUME TypeOK, RowsAgree, CallsFollowFrontier, NEW m \in Messages, Accept(m)
    PROVE  RowsAgree'
<1> SUFFICES ASSUME NEW b \in Attempts
             PROVE  /\ b[2] < message'[b[1]].count =>
                          attempt'[b].status \in {"FAILED", "RESOLVED_NOT_SENT"}
                    /\ b[2] = message'[b[1]].count =>
                          attempt'[b].status \in StatusesFor(message'[b[1]].status)
                    /\ b[2] > message'[b[1]].count => attempt'[b] = NoRow
  BY DEF RowsAgree
<1>1. message[m].count = 0
  BY DEF Accept, CallsFollowFrontier
<1>2. /\ b[1] \in Messages /\ b[2] \in 1 .. MaxAttempts /\ b[2] \in Nat
      /\ <<m, 1>> \in Attempts /\ <<m, 1>>[1] = m /\ <<m, 1>>[2] = 1
  BY AttemptKeys, FirstAttempt
<1>3. /\ message'[m].count = 1 /\ message'[m].status = "ACCEPTED"
      /\ b[1] # m => message'[b[1]] = message[b[1]]
  BY <1>2 DEF Accept, TypeOK, MessageRows
<1>4. /\ attempt'[<<m, 1>>] = QueuedRow(TRUE)
      /\ b # <<m, 1>> => attempt'[b] = attempt[b]
  BY <1>2 DEF Accept, TypeOK
<1>5. CASE b = <<m, 1>>
  <2>1. attempt'[b].status = "QUEUED"
    BY <1>4, <1>5, QueuedFields
  <2>2. attempt'[b].status \in StatusesFor(message'[b[1]].status)
    BY <1>2, <1>3, <1>5, <2>1, StatusTable
  <2> QED
    BY <1>2, <1>3, <1>5, <2>2
<1>6. CASE b # <<m, 1>> /\ b[1] = m
  <2>1. b[2] > 1
    BY <1>2, <1>6, AttemptKeys
  <2>2. attempt[b] = NoRow
    BY <1>1, <1>2, <1>6, <2>1 DEF RowsAgree
  <2> QED
    BY <1>2, <1>3, <1>4, <1>6, <2>1, <2>2
<1>7. CASE b[1] # m
  BY <1>2, <1>3, <1>4, <1>7 DEF RowsAgree
<1> QED
  BY <1>5, <1>6, <1>7

(* An attestation resolves the latest attempt and leaves its message       *)
(* ambiguous, which agree.                                                 *)
LEMMA AttestAgrees ==
    ASSUME TypeOK, RowsAgree, NEW a \in Attempts, Attest(a)
    PROVE  RowsAgree'
<1> DEFINE r == [attempt[a] EXCEPT !.status = "RESOLVED_NOT_SENT"]
<1>1. a[2] = message[a[1]].count
  BY LiveIsLatest DEF Attest
<1>2. a[1] \in Messages /\ message[a[1]].status \in MessageStatus
  BY AttemptKeys DEF TypeOK, MessageRows
<1>3. message[a[1]].status = "AMBIGUOUS"
  BY <1>1, <1>2, ReverseTable DEF RowsAgree, Attest
<1>4. r \in AttemptRows /\ r.status = "RESOLVED_NOT_SENT"
  BY DEF TypeOK, AttemptRows, AttemptStatus
<1>5. attempt' = [attempt EXCEPT ![a] = r] /\ message' = message
  BY DEF Attest, TypeOK
<1> HIDE DEF r
<1> QED
  BY <1>1, <1>3, <1>4, <1>5, StatusTable, TouchLatest

(* Only the latest attempt can be retried after an attestation.            *)
LEMMA RetryAttestedIsLatest ==
    ASSUME TypeOK, RowsAgree, NEW a \in Attempts, RetryAttested(a)
    PROVE  a[2] = message[a[1]].count
<1> DEFINE last == <<a[1], message[a[1]].count>>
<1>1. /\ a[1] \in Messages /\ a[2] \in 1 .. MaxAttempts /\ a[2] \in Nat
      /\ message[a[1]].count \in 0 .. MaxAttempts /\ message[a[1]].count \in Nat
  BY AttemptKeys, OutboxAssumption DEF TypeOK, MessageRows
<1>2. a[2] <= message[a[1]].count
  BY <1>1 DEF RowsAgree, RetryAttested, NoRow
<1>3. ASSUME a[2] < message[a[1]].count PROVE FALSE
  <2>1. message[a[1]].count \in 1 .. MaxAttempts /\ message[a[1]].count > a[2]
    BY <1>1, <1>3
  <2>2. attempt[last].status = "NONE"
    BY <2>1 DEF RetryAttested
  <2>3. last \in Attempts /\ last[1] = a[1] /\ last[2] = message[a[1]].count
    BY <1>1, <2>1, AttemptKeys
  <2>4. attempt[last].status \in StatusesFor("AMBIGUOUS")
    BY <2>3 DEF RowsAgree, RetryAttested
  <2> QED
    BY <2>2, <2>4, StatusTable
<1> QED
  BY <1>1, <1>2, <1>3

(* The retry of an attested attempt queues its successor beside a          *)
(* scheduled message.                                                      *)
LEMMA RetryAttestedAgrees ==
    ASSUME TypeOK, RowsAgree, NEW a \in Attempts, RetryAttested(a)
    PROVE  RowsAgree'
BY RetryAttestedIsLatest, ReopenAgrees DEF RetryAttested, TypeOK

(* A callback can only bind to the latest attempt: an earlier one was      *)
(* refused, and the provider reports nothing of what it refused.           *)
LEMMA CallbackIsLatest ==
    ASSUME TypeOK, RowsAgree, PastIsExcused, NEW a \in Attempts,
           NEW status \in ReportedStatus, Callback(a, status)
    PROVE  a[2] = message[a[1]].count
<1>1. a[1] \in Messages /\ a[2] \in Nat /\ message[a[1]].count \in Nat
  BY AttemptKeys, OutboxAssumption DEF TypeOK, MessageRows
<1>2. attempt[a].status \in {"PROCESSING", "SUCCEEDED", "FAILED", "AMBIGUOUS"}
  BY DEF Callback, CallbackBinds
<1>3. CASE attempt[a].status = "FAILED"
  <2>1. Reported("retryable") = {}
    BY DEF Reported
  <2>2. truth[a] # "retryable"
    BY <2>1 DEF Callback
  <2> QED
    BY <1>1, <1>3, <2>2 DEF PastIsExcused, RowsAgree, NoRow
<1>4. CASE attempt[a].status # "FAILED"
  BY <1>2, <1>4, LiveIsLatest
<1> QED
  BY <1>3, <1>4

(* A status callback settles the attempt it binds to and its message       *)
(* alike.                                                                  *)
LEMMA CallbackAgrees ==
    ASSUME TypeOK, RowsAgree, PastIsExcused, NEW a \in Attempts,
           NEW status \in ReportedStatus, Callback(a, status)
    PROVE  RowsAgree'
<1> DEFINE next == AttemptStatusFor(attempt[a].status, status)
           row  == IF next # attempt[a].status THEN Closed(a, next) ELSE attempt[a]
           r    == [row EXCEPT !.sid = TRUE, !.shown = status]
           n    == [message[a[1]] EXCEPT !.sid = a[2], !.shown = status,
                                         !.status = ApplicationStatusFor(status)]
<1>1. /\ a[1] \in Messages /\ a[2] \in 0 .. MaxAttempts /\ message[a[1]] \in MessageRows
      /\ message[a[1]].status \in MessageStatus
      /\ attempt[a] \in AttemptRows /\ attempt[a].status \in AttemptStatus
  BY AttemptKeys, OutboxAssumption DEF TypeOK, MessageRows, AttemptRows
<1>2. a[2] = message[a[1]].count
  BY CallbackIsLatest
<1>3. attempt[a].status \in StatusesFor(message[a[1]].status)
  BY <1>2 DEF RowsAgree
<1>4. next \in StatusesFor(ApplicationStatusFor(status))
  <2>1. CASE attempt[a].status \in {"PROCESSING", "AMBIGUOUS"}
    BY <2>1, OutcomePair
  <2>2. CASE attempt[a].status = "SUCCEEDED"
    <3>1. next = "SUCCEEDED"
      BY <2>2 DEF AttemptStatusFor
    <3>2. ApplicationStatusFor(status) \in {"SENT", "DELIVERED", "FAILED"}
      BY StatusTypes
    <3> QED
      BY <3>1, <3>2, StatusTable
  <2>3. CASE attempt[a].status = "FAILED"
    <3>1. next = "FAILED"
      BY <2>3 DEF AttemptStatusFor
    <3>2. message[a[1]].status = "FAILED"
      BY <1>1, <1>3, <2>3, ReverseTable
    <3>3. status \in Failures
      BY <3>2 DEF Callback, UpdateGuard, OutcomeGuard, Terminal
    <3> QED
      BY <3>1, <3>3, StatusTable DEF ApplicationStatusFor
  <2> QED
    BY <2>1, <2>2, <2>3 DEF Callback, CallbackBinds
<1>5. next \in AttemptStatus
  BY <1>1, StatusTypes
<1>6. attempt' = [attempt EXCEPT ![a] = r] /\ message' = [message EXCEPT ![a[1]] = n]
  BY <1>1 DEF Callback, TypeOK
<1>7. n \in MessageRows /\ n.count = message[a[1]].count
      /\ n.status = ApplicationStatusFor(status)
  BY <1>1, StatusTypes DEF MessageRows, MessageStatus
<1> HIDE DEF next, n
<1>8. row \in AttemptRows /\ row.status = next
  BY <1>1, <1>5, ClosedType DEF Closed, AttemptRows
<1> HIDE DEF row
<1>9. r \in AttemptRows /\ r.status = next
  BY <1>8 DEF AttemptRows
<1> HIDE DEF r
<1> QED
  BY <1>2, <1>4, <1>6, <1>7, <1>9, RewriteLatest

(* Claiming leaves attemptCount alone: what is claimable is the latest.    *)
LEMMA ClaimKeepsCount ==
    ASSUME TypeOK, RowsAgree, NEW batch \in SUBSET Attempts,
           \A a \in batch : Claimable(a)
    PROVE  /\ \A a \in batch : a[2] = message[a[1]].count
           /\ \A m \in Messages : ClaimedCount(m, batch) = message[m].count
<1>1. \A a \in batch : a[2] = message[a[1]].count
  BY LiveIsLatest DEF Claimable
<1>2. \A a \in batch : ~(a[2] > message[a[1]].count)
  BY <1>1, AttemptKeys
<1> QED
  BY <1>1, <1>2 DEF ClaimedCount

(* Claiming a batch moves each attempt and its message to PROCESSING       *)
(* together.                                                               *)
LEMMA ClaimAgrees ==
    ASSUME TypeOK, RowsAgree, NEW w \in Workers, NEW t \in Tokens,
           NEW batch \in SUBSET Attempts, Claim(w, batch, t)
    PROVE  RowsAgree'
<1> SUFFICES ASSUME NEW b \in Attempts
             PROVE  /\ b[2] < message'[b[1]].count =>
                          attempt'[b].status \in {"FAILED", "RESOLVED_NOT_SENT"}
                    /\ b[2] = message'[b[1]].count =>
                          attempt'[b].status \in StatusesFor(message'[b[1]].status)
                    /\ b[2] > message'[b[1]].count => attempt'[b] = NoRow
  BY DEF RowsAgree
<1>1. b[1] \in Messages /\ b[2] \in Nat /\ message[b[1]].count \in Nat
  BY AttemptKeys, OutboxAssumption DEF TypeOK, MessageRows
<1>2. \A a \in batch : a[2] = message[a[1]].count
  BY ClaimKeepsCount DEF Claim
<1>3. /\ message'[b[1]].count = message[b[1]].count
      /\ (\E a \in batch : a[1] = b[1]) => message'[b[1]].status = "PROCESSING"
      /\ ~(\E a \in batch : a[1] = b[1]) => message'[b[1]] = message[b[1]]
  <2>1. message[b[1]] \in MessageRows /\ ClaimedCount(b[1], batch) = message[b[1]].count
    BY <1>1, ClaimKeepsCount DEF Claim, TypeOK
  <2>2. message'[b[1]] =
          IF \E a \in batch : a[1] = b[1]
          THEN [message[b[1]] EXCEPT !.status = "PROCESSING", !.count = message[b[1]].count]
          ELSE message[b[1]]
    BY <1>1, <2>1 DEF Claim
  <2> QED
    BY <2>1, <2>2 DEF MessageRows
<1>4. /\ b \in batch => attempt'[b].status = "PROCESSING"
      /\ b \notin batch => attempt'[b] = attempt[b]
  BY DEF Claim, TypeOK, AttemptRows
<1>5. CASE b \in batch
  BY <1>1, <1>2, <1>3, <1>4, <1>5, StatusTable
<1>6. CASE b \notin batch /\ \E a \in batch : a[1] = b[1]
  <2>1. b[2] # message[b[1]].count
    BY <1>2, <1>6, AttemptKeys
  <2> QED
    BY <1>1, <1>3, <1>4, <1>6, <2>1 DEF RowsAgree
<1>7. CASE b \notin batch /\ ~(\E a \in batch : a[1] = b[1])
  BY <1>3, <1>4, <1>7 DEF RowsAgree
<1> QED
  BY <1>5, <1>6, <1>7

(* Finalize keeps the tables in agreement, whether it finds its lease or   *)
(* not, and if it throws.                                                  *)
LEMMA PersistIfOwnedAgrees ==
    ASSUME TypeOK, RowsAgree, DecisionsAreTrue, NEW w \in Workers,
           worker[w].pc \notin {"idle", "batch"}, PersistIfOwned(w) \/ UNCHANGED rows
    PROVE  RowsAgree'
<1>1. worker[w].cur \in Attempts
      /\ (worker[w].decision.kind = "retry" => worker[w].cur[2] < MaxAttempts)
  BY DEF DecisionsAreTrue
<1>2. CASE UNCHANGED rows
  BY <1>2, IdleAgrees
<1>3. CASE Owns(w) /\ Persist(worker[w].cur, worker[w].decision)
  <2>1. worker[w].cur[2] = message[worker[w].cur[1]].count
    BY <1>1, <1>3, LiveIsLatest DEF Owns
  <2> QED
    BY <1>1, <1>3, <2>1, PersistAgrees, WorkerType
<1> QED
  BY <1>2, <1>3 DEF PersistIfOwned

(* Closing an attempt that is still live, for any of the writers that do:  *)
(* cancellation, recovery, preparation, or a lost result.                  *)
LEMMA CloseLiveAgrees ==
    ASSUME TypeOK, RowsAgree, NEW a \in Attempts,
           attempt[a].status \in {"QUEUED", "PROCESSING"},
           Close(a, "CANCELLED", "CANCELLED") \/ Close(a, "AMBIGUOUS", "AMBIGUOUS")
    PROVE  RowsAgree'
<1>1. a[2] = message[a[1]].count
  BY LiveIsLatest
<1>2. "CANCELLED" \in StatusesFor("CANCELLED") /\ "AMBIGUOUS" \in StatusesFor("AMBIGUOUS")
  BY StatusTable
<1>3. {"CANCELLED", "AMBIGUOUS"} \subseteq AttemptStatus
      /\ {"CANCELLED", "AMBIGUOUS"} \subseteq MessageStatus
  BY DEF AttemptStatus, MessageStatus
<1> QED
  BY <1>1, <1>2, <1>3, CloseAgrees

(* Changing flags of a live attempt without its status.                    *)
LEMMA FlagAgrees ==
    ASSUME TypeOK, RowsAgree, NEW a \in Attempts,
           attempt[a].status \in {"QUEUED", "PROCESSING"},
           NEW r \in AttemptRows, r.status = attempt[a].status,
           attempt' = [attempt EXCEPT ![a] = r], message' = message
    PROVE  RowsAgree'
<1>1. a[2] = message[a[1]].count
  BY LiveIsLatest
<1>2. r.status \in StatusesFor(message[a[1]].status)
  BY <1>1 DEF RowsAgree
<1> QED
  BY <1>1, <1>2, TouchLatest

(* Every transaction keeps the two tables in agreement.                    *)
LEMMA RowsStep ==
    ASSUME OutboxInv, [Next]_vars
    PROVE  RowsAgree'
<1> USE DEF OutboxInv
<1>1. ASSUME NEW m \in Messages, Accept(m) PROVE RowsAgree'
  BY <1>1, AcceptAgrees
<1>2. ASSUME NEW m \in Messages, CancelReads(m) PROVE RowsAgree'
  BY <1>2, IdleAgrees DEF CancelReads, rows
<1>3. ASSUME NEW m \in Messages, CancelCommits(m) PROVE RowsAgree'
  <2> DEFINE a == <<m, cancelling[m]>>
  <2>1. a \in Attempts
    BY <1>3, AttemptKeys, OutboxAssumption DEF CancelCommits, TypeOK
  <2>2. (Cancellable(a) /\ Close(a, "CANCELLED", "CANCELLED")) \/ UNCHANGED rows
    BY <1>3 DEF CancelCommits
  <2>3. Cancellable(a) => attempt[a].status \in {"QUEUED", "PROCESSING"}
    BY DEF Cancellable
  <2> HIDE DEF a
  <2> QED
    BY <2>1, <2>2, <2>3, CloseLiveAgrees, IdleAgrees
<1>4. ASSUME NEW a \in Attempts, Attest(a) PROVE RowsAgree'
  BY <1>4, AttestAgrees
<1>5. ASSUME NEW a \in Attempts, RetryAttested(a) PROVE RowsAgree'
  BY <1>5, RetryAttestedAgrees
<1>6. ASSUME NEW a \in Attempts, RecoverExpired(a) PROVE RowsAgree'
  BY <1>6, CloseLiveAgrees DEF RecoverExpired
<1>7. ASSUME NEW a \in Attempts, NEW status \in ReportedStatus, Callback(a, status)
      PROVE  RowsAgree'
  BY <1>7, CallbackAgrees
<1>8. ASSUME NEW a \in Attempts, LeaseLapses(a) \/ LeaseOutrun(a) PROVE RowsAgree'
  <2>1. [attempt[a] EXCEPT !.lapsed = TRUE] \in AttemptRows
        /\ [attempt[a] EXCEPT !.lapsed = TRUE].status = attempt[a].status
    BY DEF TypeOK, AttemptRows
  <2>2. /\ attempt[a].status \in {"QUEUED", "PROCESSING"} /\ message' = message
        /\ attempt' = [attempt EXCEPT ![a] = [attempt[a] EXCEPT !.lapsed = TRUE]]
    BY <1>8 DEF LeaseLapses, LeaseOutrun, Lapse, TypeOK
  <2> QED
    BY <2>1, <2>2, FlagAgrees
<1>9. ASSUME NEW a \in Attempts, RetryBecomesDue(a) PROVE RowsAgree'
  <2>1. [attempt[a] EXCEPT !.due = TRUE] \in AttemptRows
        /\ [attempt[a] EXCEPT !.due = TRUE].status = attempt[a].status
    BY DEF TypeOK, AttemptRows
  <2>2. /\ attempt[a].status \in {"QUEUED", "PROCESSING"} /\ message' = message
        /\ attempt' = [attempt EXCEPT ![a] = [attempt[a] EXCEPT !.due = TRUE]]
    BY <1>9 DEF RetryBecomesDue, TypeOK
  <2> QED
    BY <2>1, <2>2, FlagAgrees
<1>10. ASSUME NEW a \in Attempts, ProviderMoves(a) PROVE RowsAgree'
  BY <1>10, IdleAgrees DEF ProviderMoves, rows
<1>11. ASSUME NEW w \in Workers, NEW t \in Tokens, NEW batch \in SUBSET Attempts,
              Claim(w, batch, t)
       PROVE  RowsAgree'
  BY <1>11, ClaimAgrees
<1>12. ASSUME NEW w \in Workers, NEW a \in Attempts, PrepareSkips(w, a) \/ PrepareErrors(w, a)
       PROVE  RowsAgree'
  BY <1>12, IdleAgrees DEF PrepareSkips, PrepareErrors, rows
<1>13. ASSUME NEW w \in Workers, NEW a \in Attempts, PrepareCancels(w, a) PROVE RowsAgree'
  BY <1>13, CloseLiveAgrees DEF PrepareCancels, StillClaimed
<1>14. ASSUME NEW w \in Workers, NEW a \in Attempts, PrepareAuthorises(w, a) PROVE RowsAgree'
  <2>1. [attempt[a] EXCEPT !.frontier = TRUE] \in AttemptRows
        /\ [attempt[a] EXCEPT !.frontier = TRUE].status = attempt[a].status
    BY DEF TypeOK, AttemptRows
  <2>2. /\ attempt[a].status \in {"QUEUED", "PROCESSING"} /\ message' = message
        /\ attempt' = [attempt EXCEPT ![a] = [attempt[a] EXCEPT !.frontier = TRUE]]
    BY <1>14 DEF PrepareAuthorises, StillClaimed, TypeOK
  <2> QED
    BY <2>1, <2>2, FlagAgrees
<1>15. ASSUME NEW w \in Workers,
              \/ AdapterUnavailable(w) \/ SendRequest(w) \/ ReplyRefused(w) \/ ReplyUnknown(w)
              \/ \E status \in ReportedStatus : ReplyAccepted(w, status)
              \/ MarkErrors(w) \/ Crash(w)
       PROVE  RowsAgree'
  BY <1>15, IdleAgrees
  DEF AdapterUnavailable, SendRequest, ReplyRefused, ReplyUnknown, ReplyAccepted,
      MarkErrors, Crash, rows
<1>16. ASSUME NEW w \in Workers, Finalize(w) \/ FinalizeErrors(w) PROVE RowsAgree'
  BY <1>16, PersistIfOwnedAgrees DEF Finalize, FinalizeErrors
<1>17. ASSUME NEW w \in Workers, MarkPersistenceAmbiguous(w) PROVE RowsAgree'
  <2>1. worker[w].cur \in Attempts
    BY <1>17 DEF MarkPersistenceAmbiguous, DecisionsAreTrue
  <2>2. CASE Owns(w) /\ Close(worker[w].cur, "AMBIGUOUS", "AMBIGUOUS")
    BY <2>1, <2>2, CloseLiveAgrees DEF Owns
  <2>3. CASE UNCHANGED rows
    BY <2>3, IdleAgrees
  <2> QED
    BY <1>17, <2>2, <2>3 DEF MarkPersistenceAmbiguous
<1>18. CASE UNCHANGED vars
  BY <1>18, IdleAgrees DEF vars, rows
<1> QED
  BY <1>1, <1>2, <1>3, <1>4, <1>5, <1>6, <1>7, <1>8, <1>9, <1>10, <1>11, <1>12, <1>13,
     <1>14, <1>15, <1>16, <1>17, <1>18
  DEF Next, WorkerStep, WorkerFault

-----------------------------------------------------------------------------
(* What one step may do to the rows, as the remaining invariants need it:  *)
(* the frontier is only ever set, by preparation; a queued or cancelled    *)
(* attempt has none; and an attempt becomes a failed one of the past only  *)
(* when the provider refused it.                                           *)
AttemptEffect(b) ==
    /\ \/ attempt'[b].frontier = attempt[b].frontier
       \/ \E w \in Workers : PrepareAuthorises(w, b)
    /\ attempt'[b].status \in {"QUEUED", "CANCELLED"} => ~attempt'[b].frontier
    /\ b[2] < message'[b[1]].count /\ attempt'[b].status = "FAILED" =>
          \/ b[2] < message[b[1]].count /\ attempt[b].status = "FAILED"
          \/ truth[b] = "retryable"

RowsEffect ==
    /\ \A b \in Attempts : AttemptEffect(b)
    /\ \A m \in Messages : message'[m].status = "NONE" <=> message'[m].count = 0

(* A transaction that writes neither table has only these effects.         *)
LEMMA IdleEffect ==
    ASSUME CallsFollowFrontier, UNCHANGED rows
    PROVE  RowsEffect
BY DEF RowsEffect, AttemptEffect, CallsFollowFrontier, rows

(* Rewriting the latest attempt and its message, keeping frontier and      *)
(* attemptCount, has only these effects.                                   *)
LEMMA RewriteEffect ==
    ASSUME TypeOK, CallsFollowFrontier, NEW a \in Attempts, a[2] = message[a[1]].count,
           NEW r \in AttemptRows, NEW n \in MessageRows,
           r.frontier = attempt[a].frontier \/ \E w \in Workers : PrepareAuthorises(w, a),
           r.status \in {"QUEUED", "CANCELLED"} => ~r.frontier,
           n.count = message[a[1]].count, n.status # "NONE",
           attempt' = [attempt EXCEPT ![a] = r],
           message' = [message EXCEPT ![a[1]] = n]
    PROVE  RowsEffect
<1>1. /\ a[1] \in Messages /\ a[2] \in Nat /\ a[2] # 0
      /\ \A b \in Attempts : b[1] \in Messages
  BY AttemptKeys
<1>2. /\ message'[a[1]] = n
      /\ \A m \in Messages : m # a[1] => message'[m] = message[m]
  BY <1>1 DEF TypeOK
<1>3. /\ attempt'[a] = r
      /\ \A b \in Attempts : b # a => attempt'[b] = attempt[b]
  BY DEF TypeOK
<1>4. ASSUME NEW b \in Attempts PROVE AttemptEffect(b)
  <2>1. message'[b[1]].count = message[b[1]].count
    BY <1>1, <1>2
  <2>2. CASE b = a
    <3>1. ~(b[2] < message'[b[1]].count)
      BY <1>1, <2>1, <2>2
    <3> QED
      BY <1>3, <2>2, <3>1 DEF AttemptEffect
  <2>3. CASE b # a
    BY <1>3, <2>1, <2>3 DEF AttemptEffect, CallsFollowFrontier
  <2> QED
    BY <2>2, <2>3
<1>5. \A m \in Messages : message'[m].status = "NONE" <=> message'[m].count = 0
  BY <1>1, <1>2 DEF CallsFollowFrontier
<1> QED
  BY <1>4, <1>5 DEF RowsEffect

(* Closing a live attempt has only these effects; it is cancelled only     *)
(* before the frontier.                                                    *)
LEMMA CloseEffect ==
    ASSUME TypeOK, RowsAgree, CallsFollowFrontier, NEW a \in Attempts,
           attempt[a].status \in {"QUEUED", "PROCESSING"},
           \/ Close(a, "CANCELLED", "CANCELLED") /\ ~attempt[a].frontier
           \/ Close(a, "AMBIGUOUS", "AMBIGUOUS")
    PROVE  RowsEffect
<1>1. a[1] \in Messages /\ message[a[1]] \in MessageRows /\ a[2] = message[a[1]].count
  BY AttemptKeys, LiveIsLatest DEF TypeOK
<1>2. ASSUME NEW s \in {"CANCELLED", "AMBIGUOUS"}, Close(a, s, s),
             s = "CANCELLED" => ~attempt[a].frontier
      PROVE  RowsEffect
  <2> DEFINE n == [message[a[1]] EXCEPT !.status = s]
  <2>1. n \in MessageRows /\ n.count = message[a[1]].count /\ n.status # "NONE"
    BY <1>1 DEF MessageRows, MessageStatus
  <2>2. s \in AttemptStatus
    BY DEF AttemptStatus
  <2>3. /\ Closed(a, s) \in AttemptRows /\ Closed(a, s).status = s
        /\ Closed(a, s).frontier = attempt[a].frontier
    BY <2>2, ClosedType DEF TypeOK, Closed, AttemptRows
  <2>4. attempt' = [attempt EXCEPT ![a] = Closed(a, s)]
        /\ message' = [message EXCEPT ![a[1]] = n]
    BY <1>1, <1>2 DEF Close, TypeOK
  <2> HIDE DEF n
  <2> QED
    BY <1>1, <1>2, <2>1, <2>3, <2>4, RewriteEffect
<1> QED
  BY <1>2

(* A reservation has only these effects.                                   *)
LEMMA AcceptEffect ==
    ASSUME TypeOK, RowsAgree, CallsFollowFrontier, NEW m \in Messages, Accept(m)
    PROVE  RowsEffect
<1>1. message[m].count = 0
  BY DEF Accept, CallsFollowFrontier
<1>2. /\ <<m, 1>> \in Attempts /\ <<m, 1>>[1] = m /\ <<m, 1>>[2] = 1
      /\ \A b \in Attempts : b[1] \in Messages /\ b[2] \in Nat /\ b[2] # 0
  BY AttemptKeys, FirstAttempt
<1>3. /\ message'[m].count = 1 /\ message'[m].status = "ACCEPTED"
      /\ \A k \in Messages : k # m => message'[k] = message[k]
  BY DEF Accept, TypeOK, MessageRows
<1>4. /\ attempt'[<<m, 1>>] = QueuedRow(TRUE)
      /\ \A b \in Attempts : b # <<m, 1>> => attempt'[b] = attempt[b]
  BY <1>2 DEF Accept, TypeOK
<1>5. attempt[<<m, 1>>] = NoRow
  BY <1>1, <1>2 DEF RowsAgree
<1>6. ASSUME NEW b \in Attempts PROVE AttemptEffect(b)
  <2>1. CASE b = <<m, 1>>
    <3>1. attempt'[b].status = "QUEUED" /\ attempt'[b].frontier = FALSE
      BY <1>4, <2>1, QueuedFields
    <3>2. attempt[b].frontier = FALSE
      BY <1>5, <2>1 DEF NoRow
    <3> QED
      BY <3>1, <3>2 DEF AttemptEffect
  <2>2. CASE b # <<m, 1>>
    <3>1. b[2] < message'[b[1]].count => b[2] < message[b[1]].count
      BY <1>2, <1>3
    <3> QED
      BY <1>4, <2>2, <3>1 DEF AttemptEffect, CallsFollowFrontier
  <2> QED
    BY <2>1, <2>2
<1>7. \A k \in Messages : message'[k].status = "NONE" <=> message'[k].count = 0
  BY <1>3 DEF CallsFollowFrontier
<1> QED
  BY <1>6, <1>7 DEF RowsEffect

(* Queueing a successor has only these effects, for an attempt that was    *)
(* refused or attested.                                                    *)
LEMMA ReopenEffect ==
    ASSUME TypeOK, RowsAgree, CallsFollowFrontier, NEW a \in Attempts,
           a[2] < MaxAttempts, a[2] = message[a[1]].count,
           NEW r \in AttemptRows, r.frontier = attempt[a].frontier,
           \/ r.status = "RESOLVED_NOT_SENT"
           \/ r.status = "FAILED" /\ truth[a] = "retryable",
           NEW due \in BOOLEAN, NEW s \in ReportedStatus \cup {None}, Reopen(a, r, due, s)
    PROVE  RowsEffect
<1>1. /\ a[1] \in Messages /\ a[2] \in Nat
      /\ \A b \in Attempts : b[1] \in Messages /\ b[2] \in Nat /\ message[b[1]].count \in Nat
  BY AttemptKeys, OutboxAssumption DEF TypeOK, MessageRows
<1>2. /\ Successor(a) \in Attempts /\ Successor(a) # a
      /\ Successor(a)[1] = a[1] /\ Successor(a)[2] = a[2] + 1
  BY SuccessorKey
<1>3. /\ message'[a[1]].count = a[2] + 1 /\ message'[a[1]].status = "SCHEDULED"
      /\ \A m \in Messages : m # a[1] => message'[m] = message[m]
  BY <1>1 DEF Reopen, TypeOK, MessageRows
<1>4. /\ attempt'[a] = r /\ attempt'[Successor(a)] = QueuedRow(due)
      /\ \A b \in Attempts : b # a /\ b # Successor(a) => attempt'[b] = attempt[b]
  BY <1>2 DEF Reopen, TypeOK
<1>5. attempt[Successor(a)] = NoRow
  BY <1>1, <1>2 DEF RowsAgree
<1>6. ASSUME NEW b \in Attempts PROVE AttemptEffect(b)
  <2>1. CASE b = a
    BY <1>4, <2>1 DEF AttemptEffect
  <2>2. CASE b = Successor(a)
    <3>1. attempt'[b].status = "QUEUED" /\ attempt'[b].frontier = FALSE
      BY <1>4, <2>2, QueuedFields
    <3>2. attempt[b].frontier = FALSE
      BY <1>5, <2>2 DEF NoRow
    <3> QED
      BY <3>1, <3>2 DEF AttemptEffect
  <2>3. CASE b # a /\ b # Successor(a)
    <3>1. b[2] < message'[b[1]].count => b[2] < message[b[1]].count
      <4>1. CASE b[1] = a[1]
        <5>1. b[2] # a[2] /\ b[2] # a[2] + 1
          BY <1>2, <2>3, <4>1, AttemptKeys
        <5> QED
          BY <1>1, <1>3, <4>1, <5>1
      <4>2. CASE b[1] # a[1]
        BY <1>1, <1>3, <4>2
      <4> QED
        BY <4>1, <4>2
    <3> QED
      BY <1>4, <2>3, <3>1 DEF AttemptEffect, CallsFollowFrontier
  <2> QED
    BY <2>1, <2>2, <2>3
<1>7. \A m \in Messages : message'[m].status = "NONE" <=> message'[m].count = 0
  BY <1>1, <1>3 DEF CallsFollowFrontier
<1> QED
  BY <1>6, <1>7 DEF RowsEffect

(* An attestation has only these effects.                                  *)
LEMMA AttestEffect ==
    ASSUME TypeOK, RowsAgree, CallsFollowFrontier, NEW a \in Attempts, Attest(a)
    PROVE  RowsEffect
<1> DEFINE r == [attempt[a] EXCEPT !.status = "RESOLVED_NOT_SENT"]
<1> HIDE DEF r
<1>0. a[2] = message[a[1]].count
  BY LiveIsLatest DEF Attest
<1>1. a[1] \in Messages /\ message[a[1]] \in MessageRows /\ a[2] # 0
  BY AttemptKeys DEF TypeOK
<1>2. message[a[1]].status # "NONE"
  BY <1>0, <1>1 DEF CallsFollowFrontier
<1>3. /\ r \in AttemptRows /\ r.status = "RESOLVED_NOT_SENT"
      /\ r.frontier = attempt[a].frontier
  BY DEF r, TypeOK, AttemptRows, AttemptStatus
<1>4. attempt' = [attempt EXCEPT ![a] = r]
      /\ message' = [message EXCEPT ![a[1]] = message[a[1]]]
  BY <1>1 DEF r, Attest, TypeOK
<1> QED
  BY <1>0, <1>1, <1>2, <1>3, <1>4, RewriteEffect

(* The attempt may stay live but lapse, become due or pass the frontier.   *)
LEMMA FlagEffect ==
    ASSUME TypeOK, RowsAgree, CallsFollowFrontier, NEW a \in Attempts,
           attempt[a].status \in {"QUEUED", "PROCESSING"}, NEW r \in AttemptRows,
           r.status = attempt[a].status,
           \/ r.frontier = attempt[a].frontier
           \/ r.status = "PROCESSING" /\ \E w \in Workers : PrepareAuthorises(w, a),
           attempt' = [attempt EXCEPT ![a] = r], message' = message
    PROVE  RowsEffect
<1>1. a[1] \in Messages /\ message[a[1]] \in MessageRows /\ a[2] = message[a[1]].count
      /\ a[2] # 0
  BY AttemptKeys, LiveIsLatest DEF TypeOK
<1>2. message[a[1]].status # "NONE"
  BY <1>1 DEF CallsFollowFrontier
<1>3. message' = [message EXCEPT ![a[1]] = message[a[1]]]
  BY <1>1 DEF TypeOK
<1>4. r.status \in {"QUEUED", "CANCELLED"} => ~r.frontier
  BY DEF CallsFollowFrontier
<1> QED
  BY <1>1, <1>2, <1>3, <1>4, RewriteEffect

(* A status callback has only these effects.                               *)
LEMMA CallbackEffect ==
    ASSUME TypeOK, RowsAgree, CallsFollowFrontier, PastIsExcused, NEW a \in Attempts,
           NEW status \in ReportedStatus, Callback(a, status)
    PROVE  RowsEffect
<1> DEFINE next == AttemptStatusFor(attempt[a].status, status)
           row  == IF next # attempt[a].status THEN Closed(a, next) ELSE attempt[a]
           r    == [row EXCEPT !.sid = TRUE, !.shown = status]
           n    == [message[a[1]] EXCEPT !.sid = a[2], !.shown = status,
                                         !.status = ApplicationStatusFor(status)]
<1>1. /\ a[1] \in Messages /\ a[2] \in 0 .. MaxAttempts /\ message[a[1]] \in MessageRows
      /\ attempt[a] \in AttemptRows /\ attempt[a].status \in AttemptStatus
  BY AttemptKeys, OutboxAssumption DEF TypeOK, AttemptRows
<1>2. a[2] = message[a[1]].count
  BY CallbackIsLatest
<1>3. next \in AttemptStatus /\ next \notin {"QUEUED", "CANCELLED"}
  BY <1>1, StatusTypes DEF Callback, CallbackBinds, AttemptStatusFor
<1>4. attempt' = [attempt EXCEPT ![a] = r] /\ message' = [message EXCEPT ![a[1]] = n]
  BY <1>1 DEF Callback, TypeOK
<1>5. n \in MessageRows /\ n.count = message[a[1]].count /\ n.status # "NONE"
  BY <1>1, StatusTypes DEF MessageRows, MessageStatus
<1> HIDE DEF next, n
<1>6. row \in AttemptRows /\ row.status = next /\ row.frontier = attempt[a].frontier
  BY <1>1, <1>3, ClosedType DEF Closed, AttemptRows
<1> HIDE DEF row
<1>7. r \in AttemptRows /\ r.status = next /\ r.frontier = attempt[a].frontier
  BY <1>6 DEF AttemptRows
<1> HIDE DEF r
<1> QED
  BY <1>2, <1>3, <1>4, <1>5, <1>7, RewriteEffect

(* Claiming a batch has only these effects; the frontier of what it claims *)
(* stays unset.                                                            *)
LEMMA ClaimEffect ==
    ASSUME TypeOK, RowsAgree, CallsFollowFrontier, NEW w \in Workers, NEW t \in Tokens,
           NEW batch \in SUBSET Attempts, Claim(w, batch, t)
    PROVE  RowsEffect
<1>1. \A b \in Attempts : b[1] \in Messages /\ b[2] # 0
  BY AttemptKeys
<1>2. \A a \in batch : a[2] = message[a[1]].count
  BY ClaimKeepsCount DEF Claim
<1>3. ASSUME NEW m \in Messages
      PROVE  /\ message'[m].count = message[m].count
             /\ (\E a \in batch : a[1] = m) => message'[m].status = "PROCESSING"
             /\ ~(\E a \in batch : a[1] = m) => message'[m] = message[m]
  <2>1. message[m] \in MessageRows /\ ClaimedCount(m, batch) = message[m].count
    BY ClaimKeepsCount DEF Claim, TypeOK
  <2>2. message'[m] =
          IF \E a \in batch : a[1] = m
          THEN [message[m] EXCEPT !.status = "PROCESSING", !.count = message[m].count]
          ELSE message[m]
    BY <2>1 DEF Claim
  <2> QED
    BY <2>1, <2>2 DEF MessageRows
<1>4. ASSUME NEW b \in Attempts
      PROVE  /\ b \in batch => attempt'[b].status = "PROCESSING"
                               /\ attempt'[b].frontier = attempt[b].frontier
             /\ b \notin batch => attempt'[b] = attempt[b]
  BY DEF Claim, TypeOK, AttemptRows
<1>5. ASSUME NEW b \in Attempts PROVE AttemptEffect(b)
  BY <1>1, <1>3, <1>4 DEF AttemptEffect, CallsFollowFrontier
<1>6. \A m \in Messages : message'[m].status = "NONE" <=> message'[m].count = 0
  BY <1>1, <1>2, <1>3 DEF CallsFollowFrontier
<1> QED
  BY <1>5, <1>6 DEF RowsEffect

(* Storing any decision has only these effects; a retry was refused by the *)
(* provider.                                                               *)
LEMMA PersistEffect ==
    ASSUME TypeOK, RowsAgree, CallsFollowFrontier, NEW a \in Attempts,
           attempt[a].status = "PROCESSING", NEW d \in Decisions,
           d.kind = "retry" => a[2] < MaxAttempts /\ truth[a] = "retryable", Persist(a, d)
    PROVE  RowsEffect
<1>1. a[1] \in Messages /\ a[2] \in 0 .. MaxAttempts /\ message[a[1]] \in MessageRows
      /\ message[a[1]].shown \in ReportedStatus \cup {None}
      /\ d.shown \in ReportedStatus \cup {None} /\ a[2] = message[a[1]].count
  BY AttemptKeys, OutboxAssumption, LiveIsLatest DEF TypeOK, MessageRows, Decisions
<1>2. \A s \in AttemptStatus : /\ Closed(a, s) \in AttemptRows /\ Closed(a, s).status = s
                               /\ Closed(a, s).frontier = attempt[a].frontier
  BY ClosedType DEF TypeOK, Closed, AttemptRows
<1>3. CASE d.kind = "result"
  <2> DEFINE s == AttemptStatusFor("PROCESSING", d.shown)
             r == [Closed(a, s) EXCEPT !.sid = TRUE, !.shown = d.shown]
             n == [message[a[1]] EXCEPT !.status = ApplicationStatusFor(d.shown),
                                        !.sid = a[2], !.shown = d.shown]
  <2>1. s \in AttemptStatus /\ s \notin {"QUEUED", "CANCELLED"}
    BY DEF AttemptStatus, AttemptStatusFor
  <2> HIDE DEF s
  <2>2. r \in AttemptRows /\ r.status = s /\ r.frontier = attempt[a].frontier
    <3>1. /\ Closed(a, s) \in AttemptRows /\ Closed(a, s).status = s
          /\ Closed(a, s).frontier = attempt[a].frontier
      BY <1>2, <2>1
    <3> QED
      BY <1>1, <3>1 DEF AttemptRows
  <2>3. n \in MessageRows /\ n.count = message[a[1]].count /\ n.status # "NONE"
    BY <1>1, StatusTypes DEF MessageRows, MessageStatus
  <2>4. attempt' = [attempt EXCEPT ![a] = r] /\ message' = [message EXCEPT ![a[1]] = n]
    BY <1>3 DEF Persist, s
  <2> HIDE DEF r, n
  <2> QED
    BY <1>1, <2>1, <2>2, <2>3, <2>4, RewriteEffect
<1>4. CASE d.kind = "retry"
  <2>1. Reopen(a, Closed(a, "FAILED"), FALSE, message[a[1]].shown)
    BY <1>4 DEF Persist
  <2>2. /\ Closed(a, "FAILED") \in AttemptRows /\ Closed(a, "FAILED").status = "FAILED"
        /\ Closed(a, "FAILED").frontier = attempt[a].frontier
    BY <1>2 DEF AttemptStatus
  <2> QED
    BY <1>1, <1>4, <2>1, <2>2, ReopenEffect
<1>5. CASE d.kind = "failed"
  <2> DEFINE r == Closed(a, "FAILED")
             n == [message[a[1]] EXCEPT !.status = "FAILED", !.shown = None]
  <2>1. r \in AttemptRows /\ r.status = "FAILED" /\ r.frontier = attempt[a].frontier
    BY <1>2 DEF AttemptStatus
  <2>2. n \in MessageRows /\ n.count = message[a[1]].count /\ n.status # "NONE"
    BY <1>1 DEF MessageRows, MessageStatus
  <2>3. attempt' = [attempt EXCEPT ![a] = r] /\ message' = [message EXCEPT ![a[1]] = n]
    BY <1>5 DEF Persist
  <2> HIDE DEF r, n
  <2> QED
    BY <1>1, <2>1, <2>2, <2>3, RewriteEffect
<1>6. CASE d.kind = "ambiguous"
  BY <1>6, CloseEffect DEF Persist
<1> QED
  BY <1>3, <1>4, <1>5, <1>6 DEF Persist

(* Finalize has only these effects, whether it finds its lease or not, and *)
(* if it throws.                                                           *)
LEMMA PersistIfOwnedEffect ==
    ASSUME OutboxInv, NEW w \in Workers,
           worker[w].pc \notin {"idle", "batch"}, PersistIfOwned(w) \/ UNCHANGED rows
    PROVE  RowsEffect
<1> USE DEF OutboxInv
<1>1. worker[w].cur \in Attempts /\ worker[w].decision \in Decisions
      /\ (worker[w].decision.kind = "retry" =>
             worker[w].cur[2] < MaxAttempts /\ truth[worker[w].cur] = "retryable")
  BY WorkerType DEF DecisionsAreTrue
<1>2. CASE UNCHANGED rows
  BY <1>2, IdleEffect
<1>3. CASE Owns(w) /\ Persist(worker[w].cur, worker[w].decision)
  BY <1>1, <1>3, PersistEffect DEF Owns
<1> QED
  BY <1>2, <1>3 DEF PersistIfOwned

(* Every transaction has only the effects above.                           *)
LEMMA StepEffect ==
    ASSUME OutboxInv, [Next]_vars
    PROVE  RowsEffect
<1> USE DEF OutboxInv
<1>1. ASSUME NEW m \in Messages, Accept(m) PROVE RowsEffect
  BY <1>1, AcceptEffect
<1>2. ASSUME NEW m \in Messages, CancelReads(m) PROVE RowsEffect
  BY <1>2, IdleEffect DEF CancelReads, rows
<1>3. ASSUME NEW m \in Messages, CancelCommits(m) PROVE RowsEffect
  <2> DEFINE a == <<m, cancelling[m]>>
  <2>1. a \in Attempts
    BY <1>3, AttemptKeys, OutboxAssumption DEF CancelCommits, TypeOK
  <2>2. (Cancellable(a) /\ Close(a, "CANCELLED", "CANCELLED")) \/ UNCHANGED rows
    BY <1>3 DEF CancelCommits
  <2>3. Cancellable(a) => attempt[a].status \in {"QUEUED", "PROCESSING"} /\ ~attempt[a].frontier
    BY DEF Cancellable
  <2> HIDE DEF a
  <2> QED
    BY <2>1, <2>2, <2>3, CloseEffect, IdleEffect
<1>4. ASSUME NEW a \in Attempts, Attest(a) PROVE RowsEffect
  BY <1>4, AttestEffect
<1>5. ASSUME NEW a \in Attempts, RetryAttested(a) PROVE RowsEffect
  <2>1. a[2] = message[a[1]].count
    BY <1>5, RetryAttestedIsLatest
  <2> QED
    BY <1>5, <2>1, ReopenEffect DEF RetryAttested, TypeOK
<1>6. ASSUME NEW a \in Attempts, RecoverExpired(a) PROVE RowsEffect
  BY <1>6, CloseEffect DEF RecoverExpired
<1>7. ASSUME NEW a \in Attempts, NEW status \in ReportedStatus, Callback(a, status)
      PROVE  RowsEffect
  BY <1>7, CallbackEffect
<1>8. ASSUME NEW a \in Attempts, LeaseLapses(a) \/ LeaseOutrun(a) PROVE RowsEffect
  <2>1. /\ [attempt[a] EXCEPT !.lapsed = TRUE] \in AttemptRows
        /\ [attempt[a] EXCEPT !.lapsed = TRUE].status = attempt[a].status
        /\ [attempt[a] EXCEPT !.lapsed = TRUE].frontier = attempt[a].frontier
    BY DEF TypeOK, AttemptRows
  <2>2. /\ attempt[a].status \in {"QUEUED", "PROCESSING"} /\ message' = message
        /\ attempt' = [attempt EXCEPT ![a] = [attempt[a] EXCEPT !.lapsed = TRUE]]
    BY <1>8 DEF LeaseLapses, LeaseOutrun, Lapse, TypeOK
  <2> QED
    BY <2>1, <2>2, FlagEffect
<1>9. ASSUME NEW a \in Attempts, RetryBecomesDue(a) PROVE RowsEffect
  <2>1. /\ [attempt[a] EXCEPT !.due = TRUE] \in AttemptRows
        /\ [attempt[a] EXCEPT !.due = TRUE].status = attempt[a].status
        /\ [attempt[a] EXCEPT !.due = TRUE].frontier = attempt[a].frontier
    BY DEF TypeOK, AttemptRows
  <2>2. /\ attempt[a].status \in {"QUEUED", "PROCESSING"} /\ message' = message
        /\ attempt' = [attempt EXCEPT ![a] = [attempt[a] EXCEPT !.due = TRUE]]
    BY <1>9 DEF RetryBecomesDue, TypeOK
  <2> QED
    BY <2>1, <2>2, FlagEffect
<1>10. ASSUME NEW a \in Attempts, ProviderMoves(a) PROVE RowsEffect
  BY <1>10, IdleEffect DEF ProviderMoves, rows
<1>11. ASSUME NEW w \in Workers, NEW t \in Tokens, NEW batch \in SUBSET Attempts,
              Claim(w, batch, t)
       PROVE  RowsEffect
  BY <1>11, ClaimEffect
<1>12. ASSUME NEW w \in Workers, NEW a \in Attempts, PrepareSkips(w, a) \/ PrepareErrors(w, a)
       PROVE  RowsEffect
  BY <1>12, IdleEffect DEF PrepareSkips, PrepareErrors, rows
<1>13. ASSUME NEW w \in Workers, NEW a \in Attempts, PrepareCancels(w, a) PROVE RowsEffect
  BY <1>13, CloseEffect DEF PrepareCancels, StillClaimed
<1>14. ASSUME NEW w \in Workers, NEW a \in Attempts, PrepareAuthorises(w, a) PROVE RowsEffect
  <2>1. [attempt[a] EXCEPT !.frontier = TRUE] \in AttemptRows
        /\ [attempt[a] EXCEPT !.frontier = TRUE].status = attempt[a].status
    BY DEF TypeOK, AttemptRows
  <2>2. /\ attempt[a].status = "PROCESSING" /\ message' = message
        /\ attempt' = [attempt EXCEPT ![a] = [attempt[a] EXCEPT !.frontier = TRUE]]
    BY <1>14 DEF PrepareAuthorises, StillClaimed, TypeOK
  <2> QED
    BY <1>14, <2>1, <2>2, FlagEffect
<1>15. ASSUME NEW w \in Workers,
              \/ AdapterUnavailable(w) \/ SendRequest(w) \/ ReplyRefused(w) \/ ReplyUnknown(w)
              \/ \E status \in ReportedStatus : ReplyAccepted(w, status)
              \/ MarkErrors(w) \/ Crash(w)
       PROVE  RowsEffect
  BY <1>15, IdleEffect
  DEF AdapterUnavailable, SendRequest, ReplyRefused, ReplyUnknown, ReplyAccepted,
      MarkErrors, Crash, rows
<1>16. ASSUME NEW w \in Workers, Finalize(w) \/ FinalizeErrors(w) PROVE RowsEffect
  BY <1>16, PersistIfOwnedEffect DEF Finalize, FinalizeErrors
<1>17. ASSUME NEW w \in Workers, MarkPersistenceAmbiguous(w) PROVE RowsEffect
  <2>1. worker[w].cur \in Attempts
    BY <1>17 DEF MarkPersistenceAmbiguous, DecisionsAreTrue
  <2>2. CASE Owns(w) /\ Close(worker[w].cur, "AMBIGUOUS", "AMBIGUOUS")
    BY <2>1, <2>2, CloseEffect DEF Owns
  <2>3. CASE UNCHANGED rows
    BY <2>3, IdleEffect
  <2> QED
    BY <1>17, <2>2, <2>3 DEF MarkPersistenceAmbiguous
<1>18. CASE UNCHANGED vars
  BY <1>18, IdleEffect DEF vars, rows
<1> QED
  BY <1>1, <1>2, <1>3, <1>4, <1>5, <1>6, <1>7, <1>8, <1>9, <1>10, <1>11, <1>12, <1>13,
     <1>14, <1>15, <1>16, <1>17, <1>18
  DEF Next, WorkerStep, WorkerFault

-----------------------------------------------------------------------------
(* What one step may do to a worker: nothing, send it back to its claim    *)
(* loop, let it pass the frontier of one attempt, or move it on with the   *)
(* attempt it has, deciding to retry only what was refused.                *)
WorkerEffect(w) ==
    \/ worker'[w] = worker[w]
    \/ worker'[w].pc \in {"idle", "batch"} /\ worker'[w].decision.kind # "retry"
    \/ /\ worker'[w].pc = "authorised" /\ worker'[w].decision.kind # "retry"
       /\ worker'[w].cur \in Attempts /\ PrepareAuthorises(w, worker'[w].cur)
    \/ /\ worker[w].pc \notin {"idle", "batch"} /\ worker'[w].cur = worker[w].cur
       /\ worker'[w].pc # "authorised"
       /\ worker'[w].decision.kind = "retry" =>
             /\ worker'[w].pc \in {"decided", "marking"}
             /\ \/ worker[w].decision.kind = "retry"
                \/ /\ worker[w].cur[2] < MaxAttempts
                   /\ truth[worker[w].cur] = "retryable"

(* A worker that goes back to its claim loop holds no decision.            *)
LEMMA ResumeFields ==
    ASSUME NEW w, NEW todo
    PROVE  /\ Resume(w, todo).pc \in {"idle", "batch"}
           /\ Resume(w, todo).decision.kind # "retry"
           /\ IdleWorker.pc = "idle" /\ IdleWorker.decision.kind # "retry"
BY DEF Resume, IdleWorker, NoDecision, Decision

(* Every step does one of these things to each worker.                     *)
LEMMA WorkerStepEffect ==
    ASSUME TypeOK, DecisionsAreTrue, [Next]_vars, NEW w \in Workers
    PROVE  WorkerEffect(w)
<1> USE DEF WorkerEffect
<1>0. /\ worker[w] \in WorkerStates
      /\ worker[w].pc \notin {"decided", "marking"} => worker[w].decision.kind # "retry"
      /\ \A v \in Workers : \A r : worker' = [worker EXCEPT ![v] = r] =>
            IF w = v THEN worker'[w] = r ELSE worker'[w] = worker[w]
  BY DEF TypeOK, DecisionsAreTrue
<1>1. ASSUME UNCHANGED worker PROVE WorkerEffect(w)
  BY <1>1
<1>2. ASSUME NEW v \in Workers, NEW t \in Tokens, NEW batch \in SUBSET Attempts,
             Claim(v, batch, t)
      PROVE  WorkerEffect(w)
  <2> DEFINE r == [IdleWorker EXCEPT !.pc = "batch", !.token = t, !.todo = batch]
  <2>1. worker' = [worker EXCEPT ![v] = r]
    BY <1>2 DEF Claim
  <2>2. r.pc = "batch" /\ r.decision.kind # "retry"
    BY DEF IdleWorker, NoDecision, Decision
  <2> HIDE DEF r
  <2> QED
    BY <1>0, <2>1, <2>2
<1>3. ASSUME NEW v \in Workers, NEW todo,
             worker' = [worker EXCEPT ![v] = Resume(v, todo)]
      PROVE  WorkerEffect(w)
  BY <1>0, <1>3, ResumeFields
<1>4. ASSUME NEW v \in Workers, NEW a \in Attempts,
             PrepareSkips(v, a) \/ PrepareCancels(v, a) \/ PrepareErrors(v, a)
      PROVE  WorkerEffect(w)
  BY <1>3, <1>4 DEF PrepareSkips, PrepareCancels, PrepareErrors, Drop
<1>5. ASSUME NEW v \in Workers, NEW a \in Attempts, PrepareAuthorises(v, a)
      PROVE  WorkerEffect(w)
  <2> DEFINE r == [worker[v] EXCEPT !.pc = "authorised", !.cur = a,
                                    !.todo = worker[v].todo \ {a}]
  <2>1. worker' = [worker EXCEPT ![v] = r] /\ worker[v].pc = "batch"
    BY <1>5 DEF PrepareAuthorises, TypeOK
  <2>2. r.pc = "authorised" /\ r.cur = a /\ r.decision = worker[v].decision
    BY DEF TypeOK, WorkerStates
  <2>3. worker[v].decision.kind # "retry"
    BY <2>1 DEF DecisionsAreTrue
  <2> HIDE DEF r
  <2> QED
    BY <1>0, <1>5, <2>1, <2>2, <2>3
<1>6. ASSUME NEW v \in Workers, SendRequest(v) PROVE WorkerEffect(w)
  <2>1. worker' = [worker EXCEPT ![v] = [worker[v] EXCEPT !.pc = "calling"]]
        /\ worker[v].pc = "authorised"
    BY <1>6 DEF SendRequest, TypeOK
  <2>2. /\ [worker[v] EXCEPT !.pc = "calling"].pc = "calling"
        /\ [worker[v] EXCEPT !.pc = "calling"].cur = worker[v].cur
        /\ [worker[v] EXCEPT !.pc = "calling"].decision = worker[v].decision
    BY DEF TypeOK, WorkerStates
  <2> QED
    BY <1>0, <2>1, <2>2
<1>7. ASSUME NEW v \in Workers, NEW pc \in {"unsendable", "decided"}, NEW d,
             Decide(v, pc, d), worker[v].pc \notin {"idle", "batch"},
             d.kind = "retry" => /\ pc = "decided" /\ worker[v].cur[2] < MaxAttempts
                                 /\ truth[worker[v].cur] = "retryable"
      PROVE  WorkerEffect(w)
  <2> DEFINE r == [worker[v] EXCEPT !.pc = pc, !.decision = d]
  <2>1. worker' = [worker EXCEPT ![v] = r]
    BY <1>7 DEF Decide, TypeOK
  <2>2. r.pc = pc /\ r.cur = worker[v].cur /\ r.decision = d
    BY DEF TypeOK, WorkerStates
  <2> HIDE DEF r
  <2> QED
    BY <1>0, <1>7, <2>1, <2>2
<1>8. \A k, s : Decision(k, s).kind = k
  BY DEF Decision
<1>9. ASSUME NEW v \in Workers, NEW status \in ReportedStatus,
             AdapterUnavailable(v) \/ ReplyAccepted(v, status) \/ ReplyUnknown(v)
      PROVE  WorkerEffect(w)
  BY <1>7, <1>8, <1>9 DEF AdapterUnavailable, ReplyAccepted, ReplyUnknown
<1>10. ASSUME NEW v \in Workers, ReplyRefused(v) PROVE WorkerEffect(w)
  BY <1>7, <1>8, <1>10 DEF ReplyRefused
<1>11. ASSUME NEW v \in Workers, Finalize(v) \/ MarkPersistenceAmbiguous(v) \/ MarkErrors(v)
       PROVE  WorkerEffect(w)
  BY <1>3, <1>11 DEF Finalize, MarkPersistenceAmbiguous, MarkErrors
<1>12. ASSUME NEW v \in Workers, FinalizeErrors(v) PROVE WorkerEffect(w)
  <2>1. CASE worker[v].pc = "decided"
    <3> DEFINE r == [worker[v] EXCEPT !.pc = "marking"]
    <3>1. worker' = [worker EXCEPT ![v] = r]
      BY <1>12, <2>1 DEF FinalizeErrors, TypeOK
    <3>2. r.pc = "marking" /\ r.cur = worker[v].cur /\ r.decision = worker[v].decision
      BY DEF TypeOK, WorkerStates
    <3> HIDE DEF r
    <3> QED
      BY <1>0, <2>1, <3>1, <3>2
  <2>2. CASE worker[v].pc # "decided"
    BY <1>3, <1>12, <2>2 DEF FinalizeErrors
  <2> QED
    BY <2>1, <2>2
<1>13. ASSUME NEW v \in Workers, Crash(v) PROVE WorkerEffect(w)
  BY <1>0, <1>13, ResumeFields DEF Crash
<1>14. ASSUME NEW m \in Messages, Accept(m) \/ CancelReads(m) \/ CancelCommits(m)
       PROVE  WorkerEffect(w)
  BY <1>1, <1>14 DEF Accept, CancelReads, CancelCommits
<1>15. ASSUME NEW a \in Attempts,
              \/ Attest(a) \/ RetryAttested(a) \/ RecoverExpired(a)
              \/ \E status \in ReportedStatus : Callback(a, status)
              \/ LeaseLapses(a) \/ LeaseOutrun(a) \/ RetryBecomesDue(a) \/ ProviderMoves(a)
       PROVE  WorkerEffect(w)
  BY <1>1, <1>15
  DEF Attest, RetryAttested, RecoverExpired, Callback, LeaseLapses, LeaseOutrun, Lapse,
      RetryBecomesDue, ProviderMoves
<1>16. CASE UNCHANGED vars
  BY <1>1, <1>16 DEF vars
<1>17. ReportedStatus # {}
  BY DEF ReportedStatus
<1> QED
  BY <1>2, <1>4, <1>5, <1>6, <1>9, <1>10, <1>11, <1>12, <1>13, <1>14, <1>15, <1>16, <1>17
  DEF Next, WorkerStep, WorkerFault

(* Only sending a request counts a call or makes the provider know of it,  *)
(* and a refusal stands for good.                                          *)
LEMMA ProviderEffect ==
    ASSUME TypeOK, DecisionsAreTrue, [Next]_vars, NEW a \in Attempts
    PROVE  /\ \/ calls'[a] = calls[a] /\ (truth'[a] # "none" => truth[a] # "none")
              \/ /\ calls'[a] = calls[a] + 1
                 /\ \E w \in Workers : SendRequest(w) /\ worker[w].cur = a
           /\ truth[a] = "retryable" => truth'[a] = "retryable"
<1> DEFINE Effect == /\ \/ calls'[a] = calls[a] /\ (truth'[a] # "none" => truth[a] # "none")
                        \/ /\ calls'[a] = calls[a] + 1
                           /\ \E w \in Workers : SendRequest(w) /\ worker[w].cur = a
                     /\ truth[a] = "retryable" => truth'[a] = "retryable"
<1>1. ASSUME UNCHANGED <<truth, calls>> PROVE Effect
  BY <1>1
<1>2. ASSUME NEW w \in Workers, SendRequest(w) PROVE Effect
  <2>1. worker[w].cur \in Attempts
    BY <1>2 DEF SendRequest, DecisionsAreTrue
  <2>2. CASE worker[w].cur = a
    BY <1>2, <2>2 DEF SendRequest, TypeOK
  <2>3. CASE worker[w].cur # a
    BY <1>2, <2>1, <2>3 DEF SendRequest, TypeOK
  <2> QED
    BY <2>2, <2>3
<1>3. ASSUME NEW b \in Attempts, ProviderMoves(b) PROVE Effect
  <2>1. truth[b] \in {"inflight", "queued", "sent"} /\ calls' = calls
    BY <1>3 DEF ProviderMoves
  <2>2. a # b => truth'[a] = truth[a]
    BY <1>3 DEF ProviderMoves, TypeOK
  <2> QED
    BY <2>1, <2>2
<1> HIDE DEF Effect
<1>4. ASSUME NEW m \in Messages, Accept(m) \/ CancelReads(m) \/ CancelCommits(m)
      PROVE  Effect
  BY <1>1, <1>4 DEF Accept, CancelReads, CancelCommits
<1>5. ASSUME NEW b \in Attempts,
             \/ Attest(b) \/ RetryAttested(b) \/ RecoverExpired(b)
             \/ \E status \in ReportedStatus : Callback(b, status)
             \/ LeaseLapses(b) \/ LeaseOutrun(b) \/ RetryBecomesDue(b)
      PROVE  Effect
  BY <1>1, <1>5
  DEF Attest, RetryAttested, RecoverExpired, Callback, LeaseLapses, LeaseOutrun, Lapse,
      RetryBecomesDue
<1>6. ASSUME NEW w \in Workers, NEW t \in Tokens, NEW batch \in SUBSET Attempts,
             Claim(w, batch, t)
      PROVE  Effect
  BY <1>1, <1>6 DEF Claim
<1>7. ASSUME NEW w \in Workers, NEW b \in Attempts,
             \/ PrepareSkips(w, b) \/ PrepareCancels(w, b)
             \/ PrepareAuthorises(w, b) \/ PrepareErrors(w, b)
      PROVE  Effect
  BY <1>1, <1>7 DEF PrepareSkips, PrepareCancels, PrepareAuthorises, PrepareErrors
<1>8. ASSUME NEW w \in Workers,
              \/ AdapterUnavailable(w) \/ ReplyRefused(w) \/ ReplyUnknown(w)
              \/ \E status \in ReportedStatus : ReplyAccepted(w, status)
              \/ Finalize(w) \/ FinalizeErrors(w) \/ MarkPersistenceAmbiguous(w)
              \/ MarkErrors(w) \/ Crash(w)
       PROVE  Effect
  BY <1>1, <1>8
  DEF AdapterUnavailable, ReplyRefused, ReplyUnknown, ReplyAccepted, Finalize,
      FinalizeErrors, MarkPersistenceAmbiguous, MarkErrors, Crash
<1>9. ASSUME UNCHANGED vars PROVE Effect
  BY <1>1, <1>9 DEF vars
<1>10. Effect
  BY <1>2, <1>3, <1>4, <1>5, <1>6, <1>7, <1>8, <1>9 DEF Next, WorkerStep, WorkerFault
<1> QED
  BY <1>10 DEF Effect

-----------------------------------------------------------------------------
(* The remaining parts of the invariant, from the effects of a step.       *)

(* The permission to call stays with one worker: the frontier is set once, *)
(* by whoever gets it.                                                     *)
LEMMA PermissionStep ==
    ASSUME OutboxInv, [Next]_vars
    PROVE  PermissionIsUnique'
<1> USE DEF OutboxInv
<1>1. \A w \in Workers : WorkerEffect(w)
  BY WorkerStepEffect
<1>2. ASSUME NEW w \in Workers, worker'[w].pc = "authorised"
      PROVE  \/ worker'[w] = worker[w]
             \/ worker'[w].cur \in Attempts /\ PrepareAuthorises(w, worker'[w].cur)
  BY <1>1, <1>2 DEF WorkerEffect
<1>3. ASSUME NEW w \in Workers, worker'[w].pc = "authorised", worker'[w] = worker[w]
      PROVE  /\ worker'[w].cur \in Attempts /\ attempt[worker'[w].cur].frontier
             /\ attempt'[worker'[w].cur].frontier
             /\ calls'[worker'[w].cur] = 0
  <2> DEFINE a == worker[w].cur
  <2>1. worker[w].pc = "authorised" /\ a \in Attempts /\ attempt[a].frontier /\ calls[a] = 0
    BY <1>3 DEF PermissionIsUnique
  <2>2. attempt'[a].frontier
    <3>1. AttemptEffect(a)
      BY <2>1, StepEffect DEF RowsEffect
    <3>2. \A v \in Workers : ~PrepareAuthorises(v, a)
      BY <2>1 DEF PrepareAuthorises, StillClaimed
    <3> QED
      BY <2>1, <3>1, <3>2 DEF AttemptEffect
  <2>3. ASSUME NEW v \in Workers, SendRequest(v), worker[v].cur = a PROVE FALSE
    <3>1. worker[v].pc = "authorised" /\ v = w
      BY <1>3, <2>1, <2>3 DEF SendRequest, PermissionIsUnique
    <3>2. worker'[w].pc = "calling"
      BY <2>3, <3>1 DEF SendRequest, TypeOK, WorkerStates
    <3> QED
      BY <1>3, <3>2
  <2>4. calls'[a] = 0
    BY <2>1, <2>3, ProviderEffect
  <2> QED
    BY <1>3, <2>1, <2>2, <2>4
<1>4. ASSUME NEW w \in Workers, NEW a \in Attempts, PrepareAuthorises(w, a)
      PROVE  /\ ~attempt[a].frontier /\ attempt'[a].frontier /\ calls'[a] = 0
             /\ \A v \in Workers : v # w => worker'[v] = worker[v]
  <2>1. ~attempt[a].frontier /\ calls' = calls
    BY <1>4 DEF PrepareAuthorises, StillClaimed
  <2>2. calls[a] = 0
    BY <2>1 DEF CallsFollowFrontier, TypeOK
  <2> QED
    BY <1>4, <2>1, <2>2 DEF PrepareAuthorises, TypeOK, AttemptRows
<1>5. ASSUME NEW w \in Workers, worker'[w].pc = "authorised"
      PROVE  /\ worker'[w].cur \in Attempts
             /\ attempt'[worker'[w].cur].frontier
             /\ calls'[worker'[w].cur] = 0
  BY <1>2, <1>3, <1>4, <1>5
<1>6. ASSUME NEW v \in Workers, NEW w \in Workers,
             worker'[v].pc = "authorised", worker'[w].pc = "authorised",
             worker'[v].cur = worker'[w].cur
      PROVE  v = w
  <2>1. CASE worker'[v] = worker[v] /\ worker'[w] = worker[w]
    BY <1>6, <2>1 DEF PermissionIsUnique
  <2>2. CASE worker'[v] # worker[v]
    <3>1. worker'[v].cur \in Attempts /\ PrepareAuthorises(v, worker'[v].cur)
      BY <1>2, <1>6, <2>2
    <3>2. v # w => worker'[w] = worker[w] /\ ~attempt[worker'[w].cur].frontier
      BY <1>4, <1>6, <3>1
    <3> QED
      BY <1>3, <1>6, <3>2
  <2>3. CASE worker'[w] # worker[w]
    <3>1. worker'[w].cur \in Attempts /\ PrepareAuthorises(w, worker'[w].cur)
      BY <1>2, <1>6, <2>3
    <3>2. v # w => worker'[v] = worker[v] /\ ~attempt[worker'[v].cur].frontier
      BY <1>4, <1>6, <3>1
    <3> QED
      BY <1>3, <1>6, <3>2
  <2> QED
    BY <2>1, <2>2, <2>3
<1> QED
  BY <1>5, <1>6 DEF PermissionIsUnique

(* A committed frontier is never taken back.                               *)
LEMMA FrontierStays ==
    ASSUME OutboxInv, [Next]_vars, NEW a \in Attempts, attempt[a].frontier
    PROVE  attempt'[a].frontier
<1>1. AttemptEffect(a)
  BY StepEffect DEF RowsEffect
<1>2. \A v \in Workers : ~PrepareAuthorises(v, a)
  BY DEF PrepareAuthorises, StillClaimed
<1> QED
  BY <1>1, <1>2 DEF AttemptEffect

(* A call is made only with that permission, so a second one never         *)
(* follows.                                                                *)
LEMMA CallsStep ==
    ASSUME OutboxInv, [Next]_vars
    PROVE  AtMostOneCall' /\ CallsFollowFrontier'
<1> USE DEF OutboxInv
<1>1. ASSUME NEW w \in Workers, SendRequest(w)
      PROVE  /\ worker[w].cur \in Attempts
             /\ calls[worker[w].cur] = 0 /\ attempt[worker[w].cur].frontier
  BY <1>1 DEF SendRequest, PermissionIsUnique
<1>2. ASSUME NEW a \in Attempts
      PROVE  /\ calls'[a] <= 1
             /\ calls'[a] > 0 => attempt'[a].frontier
             /\ truth'[a] # "none" => calls'[a] > 0
  <2>1. CASE \E w \in Workers : SendRequest(w) /\ worker[w].cur = a
    <3>1. calls[a] = 0 /\ attempt[a].frontier
      BY <1>1, <2>1
    <3>2. attempt'[a].frontier
      BY <3>1, FrontierStays
    <3>3. calls'[a] = 1
      BY <2>1, <3>1 DEF SendRequest, TypeOK
    <3> QED
      BY <3>2, <3>3
  <2>2. CASE ~\E w \in Workers : SendRequest(w) /\ worker[w].cur = a
    <3>1. calls'[a] = calls[a] /\ (truth'[a] # "none" => truth[a] # "none")
      BY <2>2, ProviderEffect
    <3>2. calls[a] \in Nat /\ calls[a] <= 1
      BY DEF TypeOK, AtMostOneCall
    <3> QED
      BY <3>1, <3>2, FrontierStays DEF CallsFollowFrontier
  <2> QED
    BY <2>1, <2>2
<1>3. \A a \in Attempts : attempt'[a].status \in {"QUEUED", "CANCELLED"} => ~attempt'[a].frontier
  BY StepEffect DEF RowsEffect, AttemptEffect
<1>4. \A m \in Messages : message'[m].status = "NONE" <=> message'[m].count = 0
  BY StepEffect DEF RowsEffect
<1> QED
  BY <1>2, <1>3, <1>4 DEF AtMostOneCall, CallsFollowFrontier

(* An attempt gets a successor only once it was refused or attested.       *)
LEMMA PastStep ==
    ASSUME OutboxInv, [Next]_vars
    PROVE  PastIsExcused'
<1> USE DEF OutboxInv
<1>1. ASSUME NEW a \in Attempts, a[2] < message'[a[1]].count, attempt'[a].status = "FAILED"
      PROVE  truth'[a] = "retryable"
  <2>1. AttemptEffect(a)
    BY StepEffect DEF RowsEffect
  <2>2. truth[a] = "retryable"
    BY <1>1, <2>1 DEF AttemptEffect, PastIsExcused
  <2> QED
    BY <2>2, ProviderEffect
<1> QED
  BY <1>1 DEF PastIsExcused

(* Workers keep deciding to retry only what the provider refused.          *)
LEMMA DecisionStep ==
    ASSUME OutboxInv, [Next]_vars
    PROVE  DecisionsAreTrue'
<1> USE DEF OutboxInv
<1>1. SUFFICES ASSUME NEW w \in Workers
      PROVE  /\ worker'[w].pc \notin {"idle", "batch"} => worker'[w].cur \in Attempts
             /\ worker'[w].decision.kind = "retry" =>
                   /\ worker'[w].pc \in {"decided", "marking"}
                   /\ worker'[w].cur \in Attempts
                   /\ worker'[w].cur[2] < MaxAttempts
                   /\ truth'[worker'[w].cur] = "retryable"
  BY DEF DecisionsAreTrue
<1>2. WorkerEffect(w)
  BY WorkerStepEffect
<1>3. \A a \in Attempts : truth[a] = "retryable" => truth'[a] = "retryable"
  BY ProviderEffect
<1> QED
  BY <1>2, <1>3 DEF WorkerEffect, DecisionsAreTrue

-----------------------------------------------------------------------------
(* An empty database with idle workers satisfies the invariant.            *)
LEMMA InitInv ==
    ASSUME Init
    PROVE  OutboxInv
<1> USE OutboxAssumption DEF Init
<1>1. TypeOK
  BY ConstantTypes DEF TypeOK, ProviderState
<1>2. RowsAgree
  BY AttemptKeys DEF RowsAgree, NoMessage, NoRow
<1>3. AtMostOneCall /\ CallsFollowFrontier /\ PastIsExcused
  BY AttemptKeys DEF AtMostOneCall, CallsFollowFrontier, PastIsExcused, NoMessage, NoRow
<1>4. PermissionIsUnique /\ DecisionsAreTrue
  BY ResumeFields DEF PermissionIsUnique, DecisionsAreTrue
<1> QED
  BY <1>1, <1>2, <1>3, <1>4 DEF OutboxInv

(* The inductive invariant of the outbox: whatever requests, workers,      *)
(* crashes, outrun leases and callbacks do, rows, permissions and          *)
(* decisions fit together as the guards of the transactions assume.        *)
THEOREM OutboxInvariant == Spec => []OutboxInv
<1>1. Init => OutboxInv
  BY InitInv
<1>2. OutboxInv /\ [Next]_vars => OutboxInv'
  BY TypeStep, RowsStep, PermissionStep, CallsStep, PastStep, DecisionStep DEF OutboxInv
<1> QED
  BY <1>1, <1>2, PTL DEF Spec

(* Every variable keeps its type, for any number of messages and workers.  *)
THEOREM TypeCorrect == Spec => []TypeOK
<1>1. OutboxInv => TypeOK
  BY DEF OutboxInv
<1> QED
  BY <1>1, OutboxInvariant, PTL

(* However many workers crash, stall past their lease or lose the          *)
(* database, an attempt is handed to the provider at most once.            *)
THEOREM OneCallPerAttempt == Spec => []AtMostOneCall
<1>1. OutboxInv => AtMostOneCall
  BY DEF OutboxInv
<1> QED
  BY <1>1, OutboxInvariant, PTL

(* Message and attempts tell one story, whichever of worker, recovery,     *)
(* cancellation, operator or callback wrote last.                          *)
THEOREM RowsAlwaysAgree == Spec => []RowsAgree
<1>1. OutboxInv => RowsAgree
  BY DEF OutboxInv
<1> QED
  BY <1>1, OutboxInvariant, PTL

(* What passed the frontier but is not the latest attempt is of the past.  *)
LEMMA FrontierIsNotFuture ==
    ASSUME OutboxInv, NEW a \in Attempts, attempt[a].frontier
    PROVE  a[2] <= message[a[1]].count
<1>1. a[1] \in Messages /\ a[2] \in Nat /\ message[a[1]].count \in Nat
  BY AttemptKeys, OutboxAssumption DEF OutboxInv, TypeOK, MessageRows
<1>2. attempt[a] # NoRow
  BY DEF NoRow
<1> QED
  BY <1>1, <1>2 DEF OutboxInv, RowsAgree

(* Of the past, what the provider accepted was attested as not sent.       *)
LEMMA PastAcceptedIsAttested ==
    ASSUME OutboxInv, NEW a \in Attempts, a[2] < message[a[1]].count, Accepted(a)
    PROVE  attempt[a].status = "RESOLVED_NOT_SENT"
<1>1. attempt[a].status \in {"FAILED", "RESOLVED_NOT_SENT"}
  BY DEF OutboxInv, RowsAgree
<1>2. truth[a] # "retryable"
  BY DEF Accepted, ReportedStatus
<1> QED
  BY <1>1, <1>2 DEF OutboxInv, PastIsExcused

(* A recipient gets a second copy only after an operator attested, wrongly,*)
(* that the first was not sent.                                            *)
THEOREM SecondCopyWasAttested == Spec => []SecondCopyNeedsAttestation
<1>1. ASSUME OutboxInv PROVE SecondCopyNeedsAttestation
  <2> SUFFICES ASSUME NEW a \in Attempts, NEW b \in Attempts, a[1] = b[1], a[2] < b[2],
                      Accepted(a), attempt[b].frontier
               PROVE  attempt[a].status = "RESOLVED_NOT_SENT"
    BY DEF SecondCopyNeedsAttestation
  <2>1. a[2] \in Nat /\ b[2] \in Nat /\ message[a[1]].count \in Nat
    BY <1>1, AttemptKeys, OutboxAssumption DEF OutboxInv, TypeOK, MessageRows
  <2>2. b[2] <= message[b[1]].count
    BY <1>1, FrontierIsNotFuture
  <2>3. a[2] < message[a[1]].count
    BY <2>1, <2>2
  <2> QED
    BY <1>1, <2>3, PastAcceptedIsAttested
<1> QED
  BY <1>1, OutboxInvariant, PTL

(* A cancelled message is not sent afterwards, although its cancellation   *)
(* may overtake a worker that has already claimed it.                      *)
THEOREM CancelledIsNeverSent == Spec => []CancelledIsNotSent
<1>1. ASSUME OutboxInv PROVE CancelledIsNotSent
  <2> SUFFICES ASSUME NEW m \in Messages, message[m].status = "CANCELLED"
               PROVE  /\ calls[Latest(m)] = 0
                      /\ \A w \in Workers :
                            worker[w].cur = Latest(m) => worker[w].pc # "authorised"
                      /\ \A a \in Attempts : a[1] = m /\ Accepted(a) =>
                            attempt[a].status = "RESOLVED_NOT_SENT"
    BY DEF CancelledIsNotSent
  <2> USE <1>1 DEF OutboxInv
  <2>1. message[m].count \in 1 .. MaxAttempts
    BY OutboxAssumption DEF CallsFollowFrontier, TypeOK, MessageRows
  <2>2. /\ Latest(m) \in Attempts /\ Latest(m)[1] = m
        /\ Latest(m)[2] = message[m].count
    BY <2>1, AttemptKeys DEF Latest
  <2>3. attempt[Latest(m)].status = "CANCELLED"
    BY <2>2, StatusTable DEF RowsAgree
  <2>4. ~attempt[Latest(m)].frontier
    BY <2>2, <2>3 DEF CallsFollowFrontier
  <2>5. calls[Latest(m)] = 0
    BY <2>2, <2>4 DEF CallsFollowFrontier, TypeOK
  <2>6. \A w \in Workers : worker[w].cur = Latest(m) => worker[w].pc # "authorised"
    BY <2>4 DEF PermissionIsUnique
  <2>7. ASSUME NEW a \in Attempts, a[1] = m, Accepted(a)
        PROVE  attempt[a].status = "RESOLVED_NOT_SENT"
    <3>1. truth[a] # "none"
      BY <2>7 DEF Accepted, ReportedStatus
    <3>2. attempt[a].frontier
      BY <3>1 DEF CallsFollowFrontier
    <3>3. a[2] <= message[m].count /\ a # Latest(m)
      BY <2>4, <2>7, <3>2, FrontierIsNotFuture
    <3>4. a[2] # message[m].count
      BY <2>2, <2>7, <3>3, AttemptKeys
    <3>5. a[2] < message[a[1]].count
      BY <2>1, <2>7, <3>3, <3>4, AttemptKeys
    <3> QED
      BY <2>7, <3>5, PastAcceptedIsAttested
  <2> QED
    BY <2>5, <2>6, <2>7
<1> QED
  BY <1>1, OutboxInvariant, PTL

-----------------------------------------------------------------------------
(* What the rows say is true: the evidence, the outcome, and the contract. *)
(* Beside OutboxInv this needs to know whose evidence a row carries and    *)
(* what a worker was told.                                                 *)

(* An attempt with a SID is settled.                                       *)
EvidenceSettles ==
    \A a \in Attempts : attempt[a].sid => attempt[a].status \in {"SUCCEEDED", "FAILED"}

(* A message without a SID shows no provider status.                       *)
BlankEvidence == \A m \in Messages : message[m].sid = 0 => message[m].shown = None

(* What is settled or in doubt had passed the frontier.                    *)
SettledWasCalled ==
    \A a \in Attempts :
        attempt[a].status \in {"SUCCEEDED", "FAILED", "AMBIGUOUS", "RESOLVED_NOT_SENT"} =>
            attempt[a].frontier

(* A worker that decided on a result or a failure heard it from the        *)
(* provider.                                                               *)
RepliesAreTrue ==
    \A w \in Workers :
        LET a == worker[w].cur
            decision == worker[w].decision
        IN  decision.kind \in {"failed", "result"} =>
                /\ worker[w].pc \in {"decided", "marking"} /\ a \in Attempts
                /\ decision.kind = "failed" => truth[a] \in Refusals
                /\ decision.kind = "result" => decision.shown \in Reported(truth[a])

TruthInv ==
    /\ EvidenceAgrees /\ EvidenceSettles /\ BlankEvidence
    /\ OutcomeIsTrue
    /\ SettledWasCalled /\ RepliesAreTrue

-----------------------------------------------------------------------------
(* Every transaction is, on the rows, of one of a few kinds.               *)

(* It writes the latest attempt a of a message and that message, or less.  *)
Only(a) ==
    /\ a[2] = message[a[1]].count /\ message'[a[1]].count = message[a[1]].count
    /\ \A b \in Attempts : b # a => attempt'[b] = attempt[b]
    /\ \A m \in Messages : m # a[1] => message'[m] = message[m]

EvidenceKept(a) ==
    /\ attempt'[a].sid = attempt[a].sid /\ attempt'[a].shown = attempt[a].shown
    /\ message'[a[1]].sid = message[a[1]].sid

FrontierKept(a) == attempt'[a].frontier = attempt[a].frontier

(* A lease lapses, a retry falls due.                                      *)
Flags(a) ==
    /\ Only(a) /\ EvidenceKept(a) /\ FrontierKept(a)
    /\ message'[a[1]] = message[a[1]]
    /\ attempt'[a].status = attempt[a].status /\ attempt'[a].token = attempt[a].token

Authorises(a) ==
    /\ Only(a) /\ EvidenceKept(a)
    /\ message'[a[1]] = message[a[1]] /\ message[a[1]].status = "PROCESSING"
    /\ attempt[a].status = "PROCESSING" /\ attempt'[a].status = "PROCESSING"
    /\ ~attempt[a].frontier /\ attempt'[a].frontier
    /\ attempt'[a].token = attempt[a].token

Cancels(a) ==
    /\ Only(a) /\ EvidenceKept(a) /\ FrontierKept(a)
    /\ attempt[a].status \in {"QUEUED", "PROCESSING"} /\ ~attempt[a].frontier
    /\ message[a[1]].status \in OpenStatus /\ message'[a[1]].shown = message[a[1]].shown
    /\ attempt'[a].status = "CANCELLED" /\ message'[a[1]].status = "CANCELLED"

Doubts(a) ==
    /\ Only(a) /\ EvidenceKept(a) /\ FrontierKept(a)
    /\ attempt[a].status = "PROCESSING" /\ attempt[a].frontier
    /\ message[a[1]].status = "PROCESSING" /\ message'[a[1]].shown = message[a[1]].shown
    /\ attempt'[a].status = "AMBIGUOUS" /\ message'[a[1]].status = "AMBIGUOUS"

Attests(a) ==
    /\ Only(a) /\ EvidenceKept(a) /\ FrontierKept(a)
    /\ attempt[a].status = "AMBIGUOUS" /\ attempt'[a].status = "RESOLVED_NOT_SENT"
    /\ message'[a[1]] = message[a[1]]

Fails(a) ==
    /\ Only(a) /\ EvidenceKept(a) /\ FrontierKept(a)
    /\ attempt[a].status = "PROCESSING" /\ attempt[a].frontier
    /\ message[a[1]].status = "PROCESSING" /\ message'[a[1]].shown = None
    /\ attempt'[a].status = "FAILED" /\ message'[a[1]].status = "FAILED"
    /\ truth[a] \in Refusals

(* A response or a callback binds what the provider reported.              *)
Binds(a, status) ==
    /\ Only(a) /\ FrontierKept(a)
    /\ attempt[a].frontier /\ status \in Reported(truth[a])
    /\ attempt[a].status \in {"PROCESSING", "AMBIGUOUS", "SUCCEEDED", "FAILED"}
    /\ attempt'[a].status = AttemptStatusFor(attempt[a].status, status)
    /\ message'[a[1]].status = ApplicationStatusFor(status)
    /\ attempt'[a].sid /\ attempt'[a].shown = status
    /\ message[a[1]].sid \in {0, a[2]}
    /\ message'[a[1]].sid = a[2] /\ message'[a[1]].shown = status
    /\ OutcomeGuard(status, message[a[1]].status = "DELIVERED",
                    message[a[1]].status = "FAILED")

(* The latest attempt, refused or attested, gets a successor.              *)
Reopens(a) ==
    /\ a[2] < MaxAttempts /\ a[2] = message[a[1]].count
    /\ \/ /\ attempt[a].status = "PROCESSING" /\ attempt'[a].status = "FAILED"
          /\ message[a[1]].status = "PROCESSING" /\ message'[a[1]].shown = message[a[1]].shown
          /\ attempt[a].frontier /\ truth[a] = "retryable"
       \/ /\ attempt[a].status = "RESOLVED_NOT_SENT" /\ attempt'[a] = attempt[a]
          /\ message[a[1]].status = "AMBIGUOUS" /\ message'[a[1]].shown = None
          /\ message[a[1]].sid = 0
    /\ EvidenceKept(a) /\ FrontierKept(a)
    /\ message'[a[1]].status = "SCHEDULED" /\ message'[a[1]].count = a[2] + 1
    /\ attempt[Successor(a)] = NoRow
    /\ \E due \in BOOLEAN : attempt'[Successor(a)] = QueuedRow(due)
    /\ \A b \in Attempts : b # a /\ b # Successor(a) => attempt'[b] = attempt[b]
    /\ \A m \in Messages : m # a[1] => message'[m] = message[m]

Accepts(m) ==
    /\ message[m].status = "NONE" /\ message[m].count = 0
    /\ message'[m].status = "ACCEPTED" /\ message'[m].count = 1
    /\ message'[m].sid = message[m].sid /\ message'[m].shown = message[m].shown
    /\ attempt[<<m, 1>>] = NoRow /\ attempt'[<<m, 1>>] = QueuedRow(TRUE)
    /\ \A b \in Attempts : b # <<m, 1>> => attempt'[b] = attempt[b]
    /\ \A k \in Messages : k # m => message'[k] = message[k]

(* A poll takes a batch of latest attempts that passed no frontier.        *)
Claims(batch) ==
    /\ \A a \in batch :
          /\ a[2] = message[a[1]].count /\ message[a[1]].status \in OpenStatus
          /\ attempt[a].status \in {"QUEUED", "PROCESSING"} /\ ~attempt[a].frontier
          /\ EvidenceKept(a) /\ FrontierKept(a)
          /\ attempt'[a].status = "PROCESSING"
    /\ \A b \in Attempts \ batch : attempt'[b] = attempt[b]
    /\ \A m \in Messages :
          /\ message'[m].count = message[m].count /\ message'[m].sid = message[m].sid
          /\ message'[m].shown = message[m].shown
          /\ (\E a \in batch : a[1] = m) => message'[m].status = "PROCESSING"
          /\ ~(\E a \in batch : a[1] = m) => message'[m] = message[m]

RowsMove ==
    \/ UNCHANGED rows
    \/ \E m \in Messages : Accepts(m)
    \/ \E batch \in SUBSET Attempts : Claims(batch)
    \/ \E a \in Attempts :
          \/ Flags(a) \/ Authorises(a) \/ Cancels(a) \/ Doubts(a) \/ Attests(a)
          \/ Fails(a) \/ Reopens(a)
          \/ \E status \in ReportedStatus : Binds(a, status)

-----------------------------------------------------------------------------
(* A row rewritten in place: the rest of both tables stays.                *)
LEMMA OnlyRewrites ==
    ASSUME TypeOK, NEW a \in Attempts, a[2] = message[a[1]].count,
           NEW r, NEW n, n.count = message[a[1]].count,
           attempt' = [attempt EXCEPT ![a] = r], message' = [message EXCEPT ![a[1]] = n]
    PROVE  Only(a) /\ attempt'[a] = r /\ message'[a[1]] = n
BY AttemptKeys DEF TypeOK, Only

(* The same with the message left as it is.                                *)
LEMMA OnlyTouches ==
    ASSUME TypeOK, NEW a \in Attempts, a[2] = message[a[1]].count,
           NEW r, attempt' = [attempt EXCEPT ![a] = r], message' = message
    PROVE  Only(a) /\ attempt'[a] = r /\ message'[a[1]] = message[a[1]]
BY AttemptKeys DEF TypeOK, Only

(* Closing a live attempt cancels it or leaves it in doubt.                *)
LEMMA CloseMoves ==
    ASSUME TypeOK, RowsAgree, NEW a \in Attempts,
           \/ /\ Close(a, "CANCELLED", "CANCELLED") /\ ~attempt[a].frontier
              /\ attempt[a].status \in {"QUEUED", "PROCESSING"}
              /\ message[a[1]].status \in OpenStatus
           \/ /\ Close(a, "AMBIGUOUS", "AMBIGUOUS") /\ attempt[a].frontier
              /\ attempt[a].status = "PROCESSING" /\ message[a[1]].status = "PROCESSING"
    PROVE  Cancels(a) \/ Doubts(a)
<1>1. a[1] \in Messages /\ message[a[1]] \in MessageRows /\ a[2] = message[a[1]].count
      /\ attempt[a] \in AttemptRows
  BY AttemptKeys, LiveIsLatest DEF TypeOK
<1>2. PICK s \in {"CANCELLED", "AMBIGUOUS"} : Close(a, s, s)
                 /\ (s = "CANCELLED" => /\ ~attempt[a].frontier
                                        /\ attempt[a].status \in {"QUEUED", "PROCESSING"}
                                        /\ message[a[1]].status \in OpenStatus)
                 /\ (s = "AMBIGUOUS" => /\ attempt[a].frontier
                                        /\ attempt[a].status = "PROCESSING"
                                        /\ message[a[1]].status = "PROCESSING")
  OBVIOUS
<1> DEFINE n == [message[a[1]] EXCEPT !.status = s]
           r == Closed(a, s)
<1>3. /\ n.count = message[a[1]].count /\ n.status = s
      /\ n.sid = message[a[1]].sid /\ n.shown = message[a[1]].shown
  BY <1>1 DEF MessageRows
<1>4. /\ r.status = s /\ r.frontier = attempt[a].frontier
      /\ r.sid = attempt[a].sid /\ r.shown = attempt[a].shown
  BY <1>1 DEF Closed, AttemptRows
<1>5. attempt' = [attempt EXCEPT ![a] = r] /\ message' = [message EXCEPT ![a[1]] = n]
  BY <1>1, <1>2 DEF Close, TypeOK
<1> HIDE DEF n, r
<1>6. Only(a) /\ attempt'[a] = r /\ message'[a[1]] = n
  BY <1>1, <1>3, <1>5, OnlyRewrites
<1> QED
  BY <1>2, <1>3, <1>4, <1>6 DEF Cancels, Doubts, EvidenceKept, FrontierKept

(* A live attempt's flags are set and nothing else.                        *)
LEMMA FlagMoves ==
    ASSUME TypeOK, RowsAgree, NEW a \in Attempts,
           attempt[a].status \in {"QUEUED", "PROCESSING"},
           \/ attempt' = [attempt EXCEPT ![a].lapsed = TRUE]
           \/ attempt' = [attempt EXCEPT ![a].due = TRUE],
           message' = message
    PROVE  Flags(a)
<1>1. a[2] = message[a[1]].count /\ attempt[a] \in AttemptRows
  BY LiveIsLatest DEF TypeOK
<1>2. PICK r \in {[attempt[a] EXCEPT !.lapsed = TRUE], [attempt[a] EXCEPT !.due = TRUE]} :
         attempt' = [attempt EXCEPT ![a] = r]
  BY DEF TypeOK
<1>3. /\ r.status = attempt[a].status /\ r.token = attempt[a].token
      /\ r.frontier = attempt[a].frontier /\ r.sid = attempt[a].sid
      /\ r.shown = attempt[a].shown
  BY <1>1 DEF AttemptRows
<1>4. Only(a) /\ attempt'[a] = r /\ message'[a[1]] = message[a[1]]
  BY <1>1, <1>2, OnlyTouches
<1> QED
  BY <1>3, <1>4 DEF Flags, EvidenceKept, FrontierKept

(* The frontier is committed and nothing else.                             *)
LEMMA AuthoriseMoves ==
    ASSUME TypeOK, RowsAgree, NEW w \in Workers, NEW a \in Attempts, PrepareAuthorises(w, a)
    PROVE  Authorises(a)
<1> DEFINE r == [attempt[a] EXCEPT !.frontier = TRUE]
<1>1. /\ attempt[a].status = "PROCESSING" /\ ~attempt[a].frontier
      /\ message[a[1]].status = "PROCESSING" /\ attempt[a] \in AttemptRows
      /\ message' = message /\ attempt' = [attempt EXCEPT ![a] = r]
  BY DEF PrepareAuthorises, StillClaimed, TypeOK
<1>2. a[2] = message[a[1]].count
  BY <1>1, LiveIsLatest
<1>3. /\ r.status = attempt[a].status /\ r.token = attempt[a].token /\ r.frontier
      /\ r.sid = attempt[a].sid /\ r.shown = attempt[a].shown
  BY <1>1 DEF AttemptRows
<1> HIDE DEF r
<1>4. Only(a) /\ attempt'[a] = r /\ message'[a[1]] = message[a[1]]
  BY <1>1, <1>2, OnlyTouches
<1> QED
  BY <1>1, <1>3, <1>4 DEF Authorises, EvidenceKept

(* An attestation rewrites an ambiguous attempt and nothing else.          *)
LEMMA AttestMoves ==
    ASSUME TypeOK, RowsAgree, NEW a \in Attempts, Attest(a)
    PROVE  Attests(a)
<1> DEFINE r == [attempt[a] EXCEPT !.status = "RESOLVED_NOT_SENT"]
<1>1. /\ attempt[a].status = "AMBIGUOUS" /\ attempt[a] \in AttemptRows
      /\ message' = message /\ attempt' = [attempt EXCEPT ![a] = r]
  BY DEF Attest, TypeOK
<1>2. a[2] = message[a[1]].count
  BY <1>1, LiveIsLatest
<1>3. /\ r.status = "RESOLVED_NOT_SENT" /\ r.frontier = attempt[a].frontier
      /\ r.sid = attempt[a].sid /\ r.shown = attempt[a].shown
  BY <1>1 DEF AttemptRows
<1> HIDE DEF r
<1>4. Only(a) /\ attempt'[a] = r /\ message'[a[1]] = message[a[1]]
  BY <1>1, <1>2, OnlyTouches
<1> QED
  BY <1>1, <1>3, <1>4 DEF Attests, EvidenceKept, FrontierKept

(* A reservation fills rows that were blank.                               *)
LEMMA AcceptMoves ==
    ASSUME TypeOK, RowsAgree, CallsFollowFrontier, NEW m \in Messages, Accept(m)
    PROVE  Accepts(m)
<1> DEFINE n == [message[m] EXCEPT !.status = "ACCEPTED", !.count = 1]
<1>1. message[m].count = 0 /\ message[m].status = "NONE" /\ message[m] \in MessageRows
  BY DEF Accept, CallsFollowFrontier, TypeOK
<1>2. <<m, 1>> \in Attempts /\ <<m, 1>>[1] = m /\ <<m, 1>>[2] = 1
  BY AttemptKeys, FirstAttempt
<1>3. n.status = "ACCEPTED" /\ n.count = 1 /\ n.sid = message[m].sid /\ n.shown = message[m].shown
  BY <1>1 DEF MessageRows
<1>4. message' = [message EXCEPT ![m] = n] /\ attempt' = [attempt EXCEPT ![<<m, 1>>] = QueuedRow(TRUE)]
  BY DEF Accept, TypeOK
<1> HIDE DEF n
<1>5. /\ message'[m] = n /\ \A k \in Messages : k # m => message'[k] = message[k]
      /\ attempt'[<<m, 1>>] = QueuedRow(TRUE)
      /\ \A b \in Attempts : b # <<m, 1>> => attempt'[b] = attempt[b]
  BY <1>2, <1>4 DEF TypeOK
<1>6. attempt[<<m, 1>>] = NoRow
  BY <1>1, <1>2 DEF RowsAgree
<1> QED
  BY <1>1, <1>3, <1>5, <1>6 DEF Accepts

(* A claim takes latest attempts before the frontier.                      *)
LEMMA ClaimMoves ==
    ASSUME TypeOK, RowsAgree, NEW w \in Workers, NEW t \in Tokens,
           NEW batch \in SUBSET Attempts, Claim(w, batch, t)
    PROVE  Claims(batch)
<1>1. ASSUME NEW m \in Messages
      PROVE  /\ message'[m].count = message[m].count /\ message'[m].sid = message[m].sid
             /\ message'[m].shown = message[m].shown
             /\ (\E a \in batch : a[1] = m) => message'[m].status = "PROCESSING"
             /\ ~(\E a \in batch : a[1] = m) => message'[m] = message[m]
  <2>1. message[m] \in MessageRows /\ ClaimedCount(m, batch) = message[m].count
    BY ClaimKeepsCount DEF Claim, TypeOK
  <2>2. message'[m] =
          IF \E a \in batch : a[1] = m
          THEN [message[m] EXCEPT !.status = "PROCESSING", !.count = message[m].count]
          ELSE message[m]
    BY <2>1 DEF Claim
  <2> QED
    BY <2>1, <2>2 DEF MessageRows
<1>2. ASSUME NEW a \in batch
      PROVE  /\ a[2] = message[a[1]].count /\ message[a[1]].status \in OpenStatus
             /\ attempt[a].status \in {"QUEUED", "PROCESSING"} /\ ~attempt[a].frontier
             /\ EvidenceKept(a) /\ FrontierKept(a) /\ attempt'[a].status = "PROCESSING"
  <2> DEFINE r == [attempt[a] EXCEPT !.status = "PROCESSING", !.token = t, !.lapsed = FALSE]
  <2>1. a \in Attempts /\ Claimable(a) /\ a[1] \in Messages
    BY AttemptKeys DEF Claim
  <2>2. attempt'[a] = r
    BY <2>1 DEF Claim
  <2>3. /\ r.status = "PROCESSING" /\ r.frontier = attempt[a].frontier
        /\ r.sid = attempt[a].sid /\ r.shown = attempt[a].shown
    BY <2>1 DEF TypeOK, AttemptRows
  <2> HIDE DEF r
  <2>4. a[2] = message[a[1]].count
    BY ClaimKeepsCount DEF Claim
  <2>5. message'[a[1]].sid = message[a[1]].sid
    BY <1>1, <2>1
  <2> QED
    BY <2>1, <2>2, <2>3, <2>4, <2>5 DEF Claimable, EvidenceKept, FrontierKept
<1>3. \A b \in Attempts \ batch : attempt'[b] = attempt[b]
  BY DEF Claim
<1> QED
  BY <1>1, <1>2, <1>3 DEF Claims

(* Queueing a successor keeps the evidence of its predecessor.             *)
LEMMA ReopenMoves ==
    ASSUME TypeOK, RowsAgree, NEW a \in Attempts, a[2] < MaxAttempts,
           a[2] = message[a[1]].count, NEW r, NEW due \in BOOLEAN, NEW s, Reopen(a, r, due, s),
           r.sid = attempt[a].sid, r.shown = attempt[a].shown,
           r.frontier = attempt[a].frontier,
           \/ /\ attempt[a].status = "PROCESSING" /\ r.status = "FAILED"
              /\ message[a[1]].status = "PROCESSING" /\ s = message[a[1]].shown
              /\ attempt[a].frontier /\ truth[a] = "retryable"
           \/ /\ attempt[a].status = "RESOLVED_NOT_SENT" /\ r = attempt[a]
              /\ message[a[1]].status = "AMBIGUOUS" /\ s = None /\ message[a[1]].sid = 0
    PROVE  Reopens(a)
<1> DEFINE n == [message[a[1]] EXCEPT !.status = "SCHEDULED", !.count = a[2] + 1, !.shown = s]
<1>1. /\ a[1] \in Messages /\ message[a[1]] \in MessageRows
      /\ a[2] \in Nat
  BY AttemptKeys DEF TypeOK
<1>2. /\ Successor(a) \in Attempts /\ Successor(a) # a
      /\ Successor(a)[1] = a[1] /\ Successor(a)[2] = a[2] + 1
  BY SuccessorKey
<1>3. attempt[Successor(a)] = NoRow
  BY <1>1, <1>2 DEF RowsAgree
<1>4. n.status = "SCHEDULED" /\ n.count = a[2] + 1 /\ n.shown = s /\ n.sid = message[a[1]].sid
  BY <1>1 DEF MessageRows
<1>5. /\ message' = [message EXCEPT ![a[1]] = n]
      /\ attempt' = [attempt EXCEPT ![a] = r, ![Successor(a)] = QueuedRow(due)]
  BY <1>1 DEF Reopen, TypeOK
<1> HIDE DEF n
<1>6. /\ message'[a[1]] = n /\ \A m \in Messages : m # a[1] => message'[m] = message[m]
      /\ attempt'[a] = r /\ attempt'[Successor(a)] = QueuedRow(due)
      /\ \A b \in Attempts : b # a /\ b # Successor(a) => attempt'[b] = attempt[b]
  BY <1>1, <1>2, <1>5 DEF TypeOK
<1> QED
  BY <1>3, <1>4, <1>6 DEF Reopens, EvidenceKept, FrontierKept

(* Before an attempt is settled its message carries no evidence.           *)
LEMMA OpenIsBlank ==
    ASSUME TypeOK, TruthInv, NEW a \in Attempts, a[2] = message[a[1]].count,
           attempt[a].status \notin {"SUCCEEDED", "FAILED"}
    PROVE  message[a[1]].sid = 0 /\ message[a[1]].shown = None /\ ~attempt[a].sid
           /\ attempt[a].shown = None
<1> DEFINE m == a[1]
           k == message[m].sid
<1>1. m \in Messages /\ k \in 0 .. MaxAttempts /\ a = Latest(m)
  BY AttemptKeys DEF TypeOK, MessageRows, Latest
<1>2. ~attempt[a].sid
  BY DEF TruthInv, EvidenceSettles
<1>3. ASSUME k # 0 PROVE FALSE
  <2>1. k \in 1 .. MaxAttempts
    BY <1>1, <1>3, OutboxAssumption
  <2>2. <<m, k>> \in Attempts /\ <<m, k>>[1] = m /\ <<m, k>>[2] = k
    BY <1>1, <2>1, AttemptKeys
  <2>3. attempt[<<m, k>>].sid
    BY <2>2 DEF TruthInv, EvidenceAgrees
  <2>4. <<m, k>> = a
    BY <1>1, <2>2, <2>3 DEF TruthInv, EvidenceAgrees
  <2> QED
    BY <1>2, <2>3, <2>4
<1>4. k = 0 /\ message[m].shown = None
  BY <1>1, <1>3 DEF TruthInv, BlankEvidence
<1>5. attempt[a].shown = None
  BY <1>2 DEF TruthInv, EvidenceAgrees
<1> QED
  BY <1>2, <1>4, <1>5

(* Whatever a worker decided is stored as one of the kinds.                *)
LEMMA PersistMoves ==
    ASSUME OutboxInv, TruthInv, NEW w \in Workers,
           worker[w].pc \notin {"idle", "batch"}, Owns(w),
           Persist(worker[w].cur, worker[w].decision)
    PROVE  RowsMove
<1> USE DEF OutboxInv
<1> DEFINE a == worker[w].cur
           d == worker[w].decision
<1>1. /\ a \in Attempts /\ d \in Decisions /\ a[1] \in Messages
      /\ message[a[1]] \in MessageRows /\ attempt[a] \in AttemptRows
      /\ d.shown \in ReportedStatus \cup {None}
  BY WorkerType, AttemptKeys DEF DecisionsAreTrue, TypeOK
<1>2. /\ attempt[a].status = "PROCESSING" /\ attempt[a].frontier
      /\ message[a[1]].status = "PROCESSING"
  BY DEF Owns
<1>3. a[2] = message[a[1]].count
  BY <1>1, <1>2, LiveIsLatest
<1>4. message[a[1]].sid = 0 /\ message[a[1]].shown = None
  BY <1>1, <1>2, <1>3, OpenIsBlank
<1> DEFINE closed == Closed(a, "FAILED")
<1>5. /\ closed.status = "FAILED" /\ closed.frontier = attempt[a].frontier
      /\ closed.sid = attempt[a].sid /\ closed.shown = attempt[a].shown
  BY <1>1 DEF Closed, AttemptRows
<1>6. CASE d.kind = "result"
  <2> DEFINE next == AttemptStatusFor("PROCESSING", d.shown)
             row == Closed(a, next)
             r == [row EXCEPT !.sid = TRUE, !.shown = d.shown]
             told == ApplicationStatusFor(d.shown)
             n == [message[a[1]] EXCEPT !.status = told, !.sid = a[2], !.shown = d.shown]
  <2>1. d.shown \in Reported(truth[a])
    BY <1>6 DEF TruthInv, RepliesAreTrue
  <2>2. d.shown \in ReportedStatus
    BY <2>1 DEF Reported, ReportedStatus
  <2>3. attempt' = [attempt EXCEPT ![a] = r] /\ message' = [message EXCEPT ![a[1]] = n]
    BY <1>1, <1>6 DEF Persist, TypeOK
  <2> HIDE DEF next, told
  <2>4. row.status = next /\ row.frontier = attempt[a].frontier /\ "sid" \in DOMAIN row
        /\ "shown" \in DOMAIN row
    BY <1>1 DEF Closed, AttemptRows
  <2>5. r.status = next /\ r.frontier = attempt[a].frontier /\ r.sid = TRUE /\ r.shown = d.shown
    BY <1>1 DEF Closed, AttemptRows
  <2>6. /\ n.count = message[a[1]].count /\ n.status = told /\ n.sid = a[2]
        /\ n.shown = d.shown
    BY <1>1 DEF MessageRows
  <2> HIDE DEF row, r, n
  <2>7. Only(a) /\ attempt'[a] = r /\ message'[a[1]] = n
    BY <1>1, <1>3, <2>3, <2>6, OnlyRewrites
  <2>8. OutcomeGuard(d.shown, message[a[1]].status = "DELIVERED",
                     message[a[1]].status = "FAILED")
    BY <1>2 DEF OutcomeGuard
  <2>9. Binds(a, d.shown)
    BY <1>2, <1>4, <2>1, <2>5, <2>6, <2>7, <2>8 DEF Binds, FrontierKept, next, told
  <2> QED
    BY <1>1, <2>2, <2>9 DEF RowsMove
<1>7. CASE d.kind = "retry"
  <2>1. a[2] < MaxAttempts /\ truth[a] = "retryable"
    BY <1>7 DEF DecisionsAreTrue
  <2>2. Reopen(a, closed, FALSE, message[a[1]].shown)
    BY <1>7 DEF Persist
  <2> HIDE DEF closed
  <2>3. Reopens(a)
    BY <1>1, <1>2, <1>3, <1>5, <2>1, <2>2, ReopenMoves
  <2> QED
    BY <1>1, <2>3 DEF RowsMove
<1>8. CASE d.kind = "failed"
  <2> DEFINE n == [message[a[1]] EXCEPT !.status = "FAILED", !.shown = None]
  <2>1. truth[a] \in Refusals
    BY <1>8 DEF TruthInv, RepliesAreTrue
  <2>2. attempt' = [attempt EXCEPT ![a] = closed] /\ message' = [message EXCEPT ![a[1]] = n]
    BY <1>1, <1>8 DEF Persist, TypeOK
  <2>3. /\ n.count = message[a[1]].count /\ n.status = "FAILED" /\ n.shown = None
        /\ n.sid = message[a[1]].sid
    BY <1>1 DEF MessageRows
  <2> HIDE DEF closed, n
  <2>4. Only(a) /\ attempt'[a] = closed /\ message'[a[1]] = n
    BY <1>1, <1>3, <2>2, <2>3, OnlyRewrites
  <2>5. Fails(a)
    BY <1>2, <1>5, <2>1, <2>3, <2>4 DEF Fails, EvidenceKept, FrontierKept
  <2> QED
    BY <1>1, <2>5 DEF RowsMove
<1>9. CASE d.kind = "ambiguous"
  <2>1. Close(a, "AMBIGUOUS", "AMBIGUOUS")
    BY <1>9 DEF Persist
  <2>2. Cancels(a) \/ Doubts(a)
    BY <1>1, <1>2, <2>1, CloseMoves
  <2> QED
    BY <1>1, <2>2 DEF RowsMove
<1> QED
  BY <1>6, <1>7, <1>8, <1>9 DEF Persist

(* A callback binds what was reported.                                     *)
LEMMA CallbackMoves ==
    ASSUME OutboxInv, TruthInv, NEW a \in Attempts, NEW status \in ReportedStatus,
           Callback(a, status)
    PROVE  Binds(a, status)
<1> USE DEF OutboxInv
<1> DEFINE next == AttemptStatusFor(attempt[a].status, status)
           row  == IF next # attempt[a].status THEN Closed(a, next) ELSE attempt[a]
           r    == [row EXCEPT !.sid = TRUE, !.shown = status]
           told == ApplicationStatusFor(status)
           n    == [message[a[1]] EXCEPT !.sid = a[2], !.shown = status, !.status = told]
<1>1. /\ a[1] \in Messages /\ message[a[1]] \in MessageRows /\ attempt[a] \in AttemptRows
  BY AttemptKeys DEF TypeOK
<1>2. a[2] = message[a[1]].count
  BY CallbackIsLatest
<1>3. attempt' = [attempt EXCEPT ![a] = r] /\ message' = [message EXCEPT ![a[1]] = n]
  BY <1>1 DEF Callback, TypeOK
<1> HIDE DEF next, told
<1>4. row.status = next /\ row.frontier = attempt[a].frontier
  BY <1>1 DEF Closed, AttemptRows
<1>5. r.status = next /\ r.frontier = attempt[a].frontier /\ r.sid = TRUE /\ r.shown = status
  BY <1>1 DEF Closed, AttemptRows
<1>6. n.count = message[a[1]].count /\ n.status = told /\ n.sid = a[2] /\ n.shown = status
  BY <1>1 DEF MessageRows
<1> HIDE DEF row, r, n
<1>7. Only(a) /\ attempt'[a] = r /\ message'[a[1]] = n
  BY <1>1, <1>2, <1>3, <1>6, OnlyRewrites
<1>8. /\ attempt[a].frontier /\ status \in Reported(truth[a])
      /\ attempt[a].status \in {"PROCESSING", "AMBIGUOUS", "SUCCEEDED", "FAILED"}
      /\ message[a[1]].sid \in {0, a[2]}
      /\ OutcomeGuard(status, message[a[1]].status = "DELIVERED",
                      message[a[1]].status = "FAILED")
  BY DEF Callback, CallbackBinds, UpdateGuard
<1> QED
  BY <1>5, <1>6, <1>7, <1>8 DEF Binds, FrontierKept, next, told

(* Every step of the outbox is of one of the kinds.                        *)
LEMMA StepMoves ==
    ASSUME OutboxInv, TruthInv, [Next]_vars
    PROVE  RowsMove
<1> USE DEF OutboxInv
<1>1. ASSUME NEW m \in Messages, Accept(m) PROVE RowsMove
  BY <1>1, AcceptMoves DEF RowsMove
<1>2. ASSUME NEW m \in Messages, CancelCommits(m) PROVE RowsMove
  <2> DEFINE a == <<m, cancelling[m]>>
  <2>1. a \in Attempts
    BY <1>2, AttemptKeys, OutboxAssumption DEF CancelCommits, TypeOK
  <2>2. (Cancellable(a) /\ Close(a, "CANCELLED", "CANCELLED")) \/ UNCHANGED rows
    BY <1>2 DEF CancelCommits
  <2> HIDE DEF a
  <2> QED
    BY <2>1, <2>2, CloseMoves DEF Cancellable, RowsMove
<1>3. ASSUME NEW a \in Attempts, Attest(a) PROVE RowsMove
  BY <1>3, AttestMoves DEF RowsMove
<1>4. ASSUME NEW a \in Attempts, RetryAttested(a) PROVE RowsMove
  <2>1. a[2] = message[a[1]].count
    BY <1>4, RetryAttestedIsLatest
  <2>2. Reopens(a)
    BY <1>4, <2>1, ReopenMoves DEF RetryAttested
  <2> QED
    BY <2>2 DEF RowsMove
<1>5. ASSUME NEW a \in Attempts, RecoverExpired(a) PROVE RowsMove
  BY <1>5, CloseMoves DEF RecoverExpired, RowsMove
<1>6. ASSUME NEW a \in Attempts, NEW status \in ReportedStatus, Callback(a, status)
      PROVE  RowsMove
  BY <1>6, CallbackMoves DEF RowsMove
<1>7. ASSUME NEW a \in Attempts, LeaseLapses(a) \/ LeaseOutrun(a) \/ RetryBecomesDue(a)
      PROVE  RowsMove
  BY <1>7, FlagMoves DEF LeaseLapses, LeaseOutrun, Lapse, RetryBecomesDue, RowsMove
<1>8. ASSUME NEW w \in Workers, NEW t \in Tokens, NEW batch \in SUBSET Attempts,
             Claim(w, batch, t)
      PROVE  RowsMove
  BY <1>8, ClaimMoves DEF RowsMove
<1>9. ASSUME NEW w \in Workers, NEW a \in Attempts, PrepareCancels(w, a) PROVE RowsMove
  <2>1. /\ Close(a, "CANCELLED", "CANCELLED") /\ ~attempt[a].frontier
        /\ attempt[a].status = "PROCESSING" /\ message[a[1]].status \in OpenStatus
    BY <1>9 DEF PrepareCancels, StillClaimed, OpenStatus
  <2> QED
    BY <2>1, CloseMoves DEF RowsMove
<1>10. ASSUME NEW w \in Workers, NEW a \in Attempts, PrepareAuthorises(w, a) PROVE RowsMove
  BY <1>10, AuthoriseMoves DEF RowsMove
<1>11. ASSUME NEW w \in Workers, Finalize(w) \/ FinalizeErrors(w) PROVE RowsMove
  <2>1. worker[w].pc \notin {"idle", "batch"} /\ (PersistIfOwned(w) \/ UNCHANGED rows)
    BY <1>11 DEF Finalize, FinalizeErrors
  <2> QED
    BY <2>1, PersistMoves DEF PersistIfOwned, RowsMove
<1>12. ASSUME NEW w \in Workers, MarkPersistenceAmbiguous(w) PROVE RowsMove
  <2>1. worker[w].cur \in Attempts
    BY <1>12 DEF MarkPersistenceAmbiguous, DecisionsAreTrue
  <2>2. CASE Owns(w) /\ Close(worker[w].cur, "AMBIGUOUS", "AMBIGUOUS")
    BY <2>1, <2>2, CloseMoves DEF Owns, RowsMove
  <2>3. CASE UNCHANGED rows
    BY <2>3 DEF RowsMove
  <2> QED
    BY <1>12, <2>2, <2>3 DEF MarkPersistenceAmbiguous
<1>13. ASSUME UNCHANGED rows PROVE RowsMove
  BY <1>13 DEF RowsMove
<1>14. ASSUME NEW w \in Workers, NEW a \in Attempts, PrepareSkips(w, a) \/ PrepareErrors(w, a)
       PROVE  RowsMove
  BY <1>13, <1>14 DEF PrepareSkips, PrepareErrors, rows
<1>15. ASSUME NEW w \in Workers,
              \/ AdapterUnavailable(w) \/ SendRequest(w) \/ ReplyRefused(w) \/ ReplyUnknown(w)
              \/ \E status \in ReportedStatus : ReplyAccepted(w, status)
              \/ MarkErrors(w) \/ Crash(w)
       PROVE  RowsMove
  BY <1>13, <1>15
  DEF AdapterUnavailable, SendRequest, ReplyRefused, ReplyUnknown, ReplyAccepted,
      MarkErrors, Crash, rows
<1>16. ASSUME NEW m \in Messages, CancelReads(m) PROVE RowsMove
  BY <1>13, <1>16 DEF CancelReads, rows
<1>17. ASSUME NEW a \in Attempts, ProviderMoves(a) PROVE RowsMove
  BY <1>13, <1>17 DEF ProviderMoves, rows
<1>18. CASE UNCHANGED vars
  BY <1>13, <1>18 DEF vars, rows
<1> QED
  BY <1>1, <1>2, <1>3, <1>4, <1>5, <1>6, <1>7, <1>8, <1>9, <1>10, <1>11, <1>12, <1>14,
     <1>15, <1>16, <1>17, <1>18
  DEF Next, WorkerStep, WorkerFault

-----------------------------------------------------------------------------
(* What the provider did it does not undo, and it reports only more.       *)
LEMMA TruthStays ==
    ASSUME TypeOK, DecisionsAreTrue, [Next]_vars, NEW a \in Attempts
    PROVE  /\ truth[a] \in ReportedStatus => truth'[a] \in ReportedStatus
           /\ truth[a] \in Refusals \cup {"delivered", "undelivered"} => truth'[a] = truth[a]
           /\ Reported(truth[a]) \subseteq Reported(truth'[a])
<1> DEFINE Stays == /\ truth[a] \in ReportedStatus => truth'[a] \in ReportedStatus
                    /\ truth[a] \in Refusals \cup {"delivered", "undelivered"} =>
                          truth'[a] = truth[a]
                    /\ Reported(truth[a]) \subseteq Reported(truth'[a])
<1>1. ASSUME truth'[a] = truth[a] PROVE Stays
  BY <1>1
<1>2. ASSUME NEW w \in Workers, SendRequest(w) PROVE Stays
  <2>1. worker[w].cur \in Attempts
    BY <1>2 DEF SendRequest, DecisionsAreTrue
  <2>2. CASE truth[a] = "none" /\ truth'[a] = "inflight"
    BY <2>2 DEF ReportedStatus, Refusals, Reported
  <2> QED
    BY <1>1, <1>2, <2>1, <2>2 DEF SendRequest, TypeOK
<1>3. ASSUME NEW b \in Attempts, ProviderMoves(b) PROVE Stays
  <2>1. CASE a # b
    BY <1>1, <1>3, <2>1 DEF ProviderMoves, TypeOK
  <2>2. CASE a = b
    <3>1. \/ truth[a] = "inflight"
          \/ truth[a] = "queued" /\ truth'[a] = "sent"
          \/ truth[a] = "sent" /\ truth'[a] \in {"delivered", "undelivered"}
      BY <1>3, <2>2 DEF ProviderMoves, TypeOK
    <3> QED
      BY <3>1 DEF ReportedStatus, Refusals, Reported
  <2> QED
    BY <2>1, <2>2
<1> HIDE DEF Stays
<1>4. ASSUME UNCHANGED truth PROVE Stays
  BY <1>1, <1>4
<1>5. ASSUME NEW m \in Messages, Accept(m) \/ CancelReads(m) \/ CancelCommits(m)
      PROVE  Stays
  BY <1>4, <1>5 DEF Accept, CancelReads, CancelCommits
<1>6. ASSUME NEW b \in Attempts,
             \/ Attest(b) \/ RetryAttested(b) \/ RecoverExpired(b)
             \/ \E status \in ReportedStatus : Callback(b, status)
             \/ LeaseLapses(b) \/ LeaseOutrun(b) \/ RetryBecomesDue(b)
      PROVE  Stays
  BY <1>4, <1>6
  DEF Attest, RetryAttested, RecoverExpired, Callback, LeaseLapses, LeaseOutrun, Lapse,
      RetryBecomesDue
<1>7. ASSUME NEW w \in Workers, NEW t \in Tokens, NEW batch \in SUBSET Attempts,
             Claim(w, batch, t)
      PROVE  Stays
  BY <1>4, <1>7 DEF Claim
<1>8. ASSUME NEW w \in Workers, NEW b \in Attempts,
             \/ PrepareSkips(w, b) \/ PrepareCancels(w, b)
             \/ PrepareAuthorises(w, b) \/ PrepareErrors(w, b)
      PROVE  Stays
  BY <1>4, <1>8 DEF PrepareSkips, PrepareCancels, PrepareAuthorises, PrepareErrors
<1>9. ASSUME NEW w \in Workers,
             \/ AdapterUnavailable(w) \/ ReplyRefused(w) \/ ReplyUnknown(w)
             \/ \E status \in ReportedStatus : ReplyAccepted(w, status)
             \/ Finalize(w) \/ FinalizeErrors(w) \/ MarkPersistenceAmbiguous(w)
             \/ MarkErrors(w) \/ Crash(w)
      PROVE  Stays
  BY <1>4, <1>9
  DEF AdapterUnavailable, ReplyRefused, ReplyUnknown, ReplyAccepted, Finalize,
      FinalizeErrors, MarkPersistenceAmbiguous, MarkErrors, Crash
<1>10. ASSUME UNCHANGED vars PROVE Stays
  BY <1>4, <1>10 DEF vars
<1>11. ASSUME NEW w \in Workers, WorkerStep(w) \/ WorkerFault(w) PROVE Stays
  BY <1>2, <1>7, <1>8, <1>9, <1>11 DEF WorkerStep, WorkerFault
<1>12. Stays
  BY <1>3, <1>5, <1>6, <1>10, <1>11 DEF Next
<1> QED
  BY <1>12 DEF Stays

(* What one step may do to a worker that has a result or a failure to      *)
(* store: it hears one from the provider, or keeps the one it heard.       *)
Told(kind) == kind \in {"failed", "result"}

HearsTruly(w) ==
    \/ worker'[w] = worker[w]
    \/ ~Told(worker'[w].decision.kind)
    \/ /\ worker'[w].pc \in {"decided", "marking"} /\ worker'[w].cur = worker[w].cur
       /\ worker[w].cur \in Attempts
       /\ \/ worker'[w].decision = worker[w].decision
          \/ worker'[w].decision.kind = "failed" /\ truth[worker[w].cur] \in Refusals
          \/ /\ worker'[w].decision.kind = "result"
             /\ worker'[w].decision.shown \in Reported(truth[worker[w].cur])

(* Every step does one of these to each worker.                            *)
LEMMA HearsStep ==
    ASSUME TypeOK, DecisionsAreTrue, RepliesAreTrue, [Next]_vars, NEW w \in Workers
    PROVE  HearsTruly(w)
<1> USE DEF HearsTruly
<1>0. /\ worker[w] \in WorkerStates
      /\ \A v \in Workers : worker[v].pc \notin {"decided", "marking"} =>
            ~Told(worker[v].decision.kind)
      /\ \A v \in Workers : \A r : worker' = [worker EXCEPT ![v] = r] =>
            IF w = v THEN worker'[w] = r ELSE worker'[w] = worker[w]
  BY DEF TypeOK, RepliesAreTrue, Told
<1>1. ASSUME UNCHANGED worker PROVE HearsTruly(w)
  BY <1>1
<1>2. ASSUME NEW v \in Workers, NEW r, ~Told(r.decision.kind),
             worker' = [worker EXCEPT ![v] = r]
      PROVE  HearsTruly(w)
  BY <1>0, <1>2
<1>3. \A v, todo : ~Told(Resume(v, todo).decision.kind)
  BY DEF Resume, IdleWorker, NoDecision, Decision, Told
<1>4. ASSUME NEW v \in Workers, NEW t \in Tokens, NEW batch \in SUBSET Attempts,
             Claim(v, batch, t)
      PROVE  HearsTruly(w)
  <2> DEFINE r == [IdleWorker EXCEPT !.pc = "batch", !.token = t, !.todo = batch]
  <2>1. worker' = [worker EXCEPT ![v] = r]
    BY <1>4 DEF Claim
  <2>2. ~Told(r.decision.kind)
    BY DEF IdleWorker, NoDecision, Decision, Told
  <2> HIDE DEF r
  <2> QED
    BY <1>2, <2>1, <2>2
<1>5. ASSUME NEW v \in Workers, NEW a \in Attempts,
             PrepareSkips(v, a) \/ PrepareCancels(v, a) \/ PrepareErrors(v, a)
      PROVE  HearsTruly(w)
  BY <1>2, <1>3, <1>5 DEF PrepareSkips, PrepareCancels, PrepareErrors, Drop
<1>6. ASSUME NEW v \in Workers, NEW a \in Attempts, PrepareAuthorises(v, a)
      PROVE  HearsTruly(w)
  <2> DEFINE r == [worker[v] EXCEPT !.pc = "authorised", !.cur = a,
                                    !.todo = worker[v].todo \ {a}]
  <2>1. worker' = [worker EXCEPT ![v] = r] /\ worker[v].pc = "batch"
    BY <1>6 DEF PrepareAuthorises, TypeOK
  <2>2. r.decision = worker[v].decision
    BY DEF TypeOK, WorkerStates
  <2> HIDE DEF r
  <2> QED
    BY <1>0, <1>2, <2>1, <2>2
<1>7. ASSUME NEW v \in Workers, SendRequest(v) PROVE HearsTruly(w)
  <2> DEFINE r == [worker[v] EXCEPT !.pc = "calling"]
  <2>1. worker' = [worker EXCEPT ![v] = r] /\ worker[v].pc = "authorised"
    BY <1>7 DEF SendRequest, TypeOK
  <2>2. r.decision = worker[v].decision
    BY DEF TypeOK, WorkerStates
  <2> HIDE DEF r
  <2> QED
    BY <1>0, <1>2, <2>1, <2>2
<1>8. ASSUME NEW v \in Workers, NEW pc \in {"unsendable", "decided"}, NEW d,
             Decide(v, pc, d), worker[v].pc \notin {"idle", "batch"},
             \/ ~Told(d.kind)
             \/ pc = "decided" /\ d.kind = "failed" /\ truth[worker[v].cur] \in Refusals
             \/ /\ pc = "decided" /\ d.kind = "result"
                /\ d.shown \in Reported(truth[worker[v].cur])
      PROVE  HearsTruly(w)
  <2> DEFINE r == [worker[v] EXCEPT !.pc = pc, !.decision = d]
  <2>1. worker' = [worker EXCEPT ![v] = r] /\ worker[v].cur \in Attempts
    BY <1>8 DEF Decide, TypeOK, DecisionsAreTrue
  <2>2. r.pc = pc /\ r.cur = worker[v].cur /\ r.decision = d
    BY DEF TypeOK, WorkerStates
  <2> HIDE DEF r
  <2> QED
    BY <1>0, <1>8, <2>1, <2>2
<1>9. \A k, s : Decision(k, s).kind = k /\ Decision(k, s).shown = s
  BY DEF Decision
<1>10. ASSUME NEW v \in Workers, AdapterUnavailable(v) \/ ReplyUnknown(v) PROVE HearsTruly(w)
  <2>1. ~Told(Decision("ambiguous", None).kind)
    BY <1>9 DEF Told
  <2> QED
    BY <1>8, <1>10, <2>1 DEF AdapterUnavailable, ReplyUnknown
<1>11. ASSUME NEW v \in Workers, NEW status \in ReportedStatus, ReplyAccepted(v, status)
       PROVE  HearsTruly(w)
  BY <1>8, <1>9, <1>11 DEF ReplyAccepted
<1>12. ASSUME NEW v \in Workers, ReplyRefused(v) PROVE HearsTruly(w)
  <2>1. ~Told(Decision("retry", None).kind) /\ Decision("failed", None).kind = "failed"
    BY <1>9 DEF Told
  <2> QED
    BY <1>8, <1>12, <2>1 DEF ReplyRefused
<1>13. ASSUME NEW v \in Workers, Finalize(v) \/ MarkPersistenceAmbiguous(v) \/ MarkErrors(v)
       PROVE  HearsTruly(w)
  BY <1>2, <1>3, <1>13 DEF Finalize, MarkPersistenceAmbiguous, MarkErrors
<1>14. ASSUME NEW v \in Workers, FinalizeErrors(v) PROVE HearsTruly(w)
  <2>1. CASE worker[v].pc = "decided"
    <3> DEFINE r == [worker[v] EXCEPT !.pc = "marking"]
    <3>1. worker' = [worker EXCEPT ![v] = r] /\ worker[v].cur \in Attempts
      BY <1>14, <2>1 DEF FinalizeErrors, TypeOK, DecisionsAreTrue
    <3>2. r.pc = "marking" /\ r.cur = worker[v].cur /\ r.decision = worker[v].decision
      BY DEF TypeOK, WorkerStates
    <3> HIDE DEF r
    <3> QED
      BY <1>0, <3>1, <3>2
  <2>2. CASE worker[v].pc # "decided"
    BY <1>2, <1>3, <1>14, <2>2 DEF FinalizeErrors
  <2> QED
    BY <2>1, <2>2
<1>15. ASSUME NEW v \in Workers, Crash(v) PROVE HearsTruly(w)
  <2>1. ~Told(IdleWorker.decision.kind)
    BY DEF IdleWorker, NoDecision, Decision, Told
  <2> QED
    BY <1>2, <1>15, <2>1 DEF Crash
<1>16. ASSUME NEW m \in Messages, Accept(m) \/ CancelReads(m) \/ CancelCommits(m)
       PROVE  HearsTruly(w)
  BY <1>1, <1>16 DEF Accept, CancelReads, CancelCommits
<1>17. ASSUME NEW a \in Attempts,
              \/ Attest(a) \/ RetryAttested(a) \/ RecoverExpired(a)
              \/ \E status \in ReportedStatus : Callback(a, status)
              \/ LeaseLapses(a) \/ LeaseOutrun(a) \/ RetryBecomesDue(a) \/ ProviderMoves(a)
       PROVE  HearsTruly(w)
  BY <1>1, <1>17
  DEF Attest, RetryAttested, RecoverExpired, Callback, LeaseLapses, LeaseOutrun, Lapse,
      RetryBecomesDue, ProviderMoves
<1>18. CASE UNCHANGED vars
  BY <1>1, <1>18 DEF vars
<1> QED
  BY <1>4, <1>5, <1>6, <1>7, <1>10, <1>11, <1>12, <1>13, <1>14, <1>15, <1>16, <1>17, <1>18
  DEF Next, WorkerStep, WorkerFault

(* So what a worker heard stays true, for the provider undoes nothing.     *)
LEMMA RepliesStep ==
    ASSUME OutboxInv, RepliesAreTrue, [Next]_vars
    PROVE  RepliesAreTrue'
<1> USE DEF OutboxInv
<1> SUFFICES ASSUME NEW w \in Workers, worker'[w].decision.kind \in {"failed", "result"}
             PROVE  /\ worker'[w].pc \in {"decided", "marking"} /\ worker'[w].cur \in Attempts
                    /\ worker'[w].decision.kind = "failed" =>
                          truth'[worker'[w].cur] \in Refusals
                    /\ worker'[w].decision.kind = "result" =>
                          worker'[w].decision.shown \in Reported(truth'[worker'[w].cur])
  BY DEF RepliesAreTrue
<1>1. HearsTruly(w)
  BY HearsStep
<1>2. /\ worker'[w].pc \in {"decided", "marking"} /\ worker'[w].cur = worker[w].cur
      /\ worker[w].cur \in Attempts
      /\ worker'[w].decision.kind = "failed" => truth[worker[w].cur] \in Refusals
      /\ worker'[w].decision.kind = "result" =>
            worker'[w].decision.shown \in Reported(truth[worker[w].cur])
  BY <1>1 DEF HearsTruly, RepliesAreTrue, Told
<1> QED
  BY <1>2, TruthStays

-----------------------------------------------------------------------------
(* A queued row carries as little evidence as none.                        *)
LEMMA QueuedIsBlank ==
    \A due \in BOOLEAN : /\ QueuedRow(due).sid = NoRow.sid
                         /\ QueuedRow(due).shown = NoRow.shown
BY DEF QueuedRow, NoRow

(* The SID of a message is that of its latest attempt.                     *)
LEMMA SidIsLatest ==
    ASSUME TypeOK, EvidenceAgrees, NEW m \in Messages, message[m].sid # 0
    PROVE  /\ Latest(m) \in Attempts /\ attempt[Latest(m)].sid
           /\ message[m].sid = message[m].count
<1> DEFINE k == message[m].sid
<1>1. k \in 1 .. MaxAttempts
  BY OutboxAssumption DEF TypeOK, MessageRows
<1>2. <<m, k>> \in Attempts /\ <<m, k>>[1] = m /\ <<m, k>>[2] = k
  BY <1>1, AttemptKeys
<1>3. attempt[<<m, k>>].sid
  BY <1>2 DEF EvidenceAgrees
<1>4. <<m, k>> = Latest(m)
  BY <1>2, <1>3 DEF EvidenceAgrees
<1> QED
  BY <1>2, <1>3, <1>4 DEF Latest

(* What keeps every row's evidence keeps it in agreement.                  *)
LEMMA EvidenceRests ==
    ASSUME OutboxInv, TruthInv, [Next]_vars,
           \A b \in Attempts :
              attempt'[b].sid = attempt[b].sid /\ attempt'[b].shown = attempt[b].shown,
           \A m \in Messages :
              /\ message'[m].sid = message[m].sid
              /\ message[m].sid # 0 => /\ message'[m].count = message[m].count
                                       /\ message'[m].shown = message[m].shown
              /\ message[m].sid = 0 => message'[m].shown = None
    PROVE  EvidenceAgrees' /\ BlankEvidence'
<1> USE DEF OutboxInv, TruthInv
<1>1. BlankEvidence'
  BY DEF BlankEvidence
<1>2. ASSUME NEW b \in Attempts, attempt[b].sid
      PROVE  /\ b = <<b[1], message'[b[1]].count>> /\ truth'[b] \in ReportedStatus
             /\ message'[b[1]].sid = b[2] /\ message'[b[1]].shown = attempt'[b].shown
  <2>1. /\ b = <<b[1], message[b[1]].count>> /\ truth[b] \in ReportedStatus
        /\ message[b[1]].sid = b[2] /\ message[b[1]].shown = attempt[b].shown
    BY <1>2 DEF EvidenceAgrees, Latest, Accepted
  <2>2. truth'[b] \in ReportedStatus
    BY <2>1, TruthStays
  <2>3. b[1] \in Messages /\ message[b[1]].sid # 0
    BY <2>1, AttemptKeys
  <2> QED
    BY <2>1, <2>2, <2>3
<1>3. ASSUME NEW b \in Attempts, ~attempt[b].sid
      PROVE  attempt'[b].shown = None /\ message'[b[1]].sid # b[2]
  BY <1>3, AttemptKeys DEF EvidenceAgrees
<1>4. EvidenceAgrees'
  BY <1>2, <1>3 DEF EvidenceAgrees, Latest, Accepted
<1> QED
  BY <1>1, <1>4

(* A step that writes one attempt in place, and no evidence but a blank.   *)
LEMMA InPlaceRests ==
    ASSUME OutboxInv, TruthInv, [Next]_vars, NEW a \in Attempts,
           Only(a), EvidenceKept(a),
           \/ message'[a[1]].shown = message[a[1]].shown
           \/ message'[a[1]].shown = None /\ message[a[1]].sid = 0
    PROVE  EvidenceAgrees' /\ BlankEvidence'
<1>1. \A b \in Attempts :
         attempt'[b].sid = attempt[b].sid /\ attempt'[b].shown = attempt[b].shown
  BY DEF Only, EvidenceKept
<1>2. ASSUME NEW m \in Messages
      PROVE  /\ message'[m].sid = message[m].sid
             /\ message[m].sid # 0 => /\ message'[m].count = message[m].count
                                      /\ message'[m].shown = message[m].shown
             /\ message[m].sid = 0 => message'[m].shown = None
  <2>1. message[m].sid = 0 => message[m].shown = None
    BY DEF TruthInv, BlankEvidence
  <2>2. CASE m # a[1]
    BY <2>1, <2>2 DEF Only
  <2>3. CASE m = a[1]
    BY <2>1, <2>3 DEF Only, EvidenceKept
  <2> QED
    BY <2>2, <2>3
<1> QED
  BY <1>1, <1>2, EvidenceRests

(* Binding a report gives it to the latest attempt and its message alone.  *)
LEMMA BindAgrees ==
    ASSUME OutboxInv, TruthInv, [Next]_vars, NEW a \in Attempts,
           NEW status \in ReportedStatus, Binds(a, status)
    PROVE  EvidenceAgrees' /\ BlankEvidence'
<1> USE DEF OutboxInv, TruthInv
<1>1. /\ a[1] \in Messages /\ a[2] \in 1 .. MaxAttempts /\ a[2] # 0
      /\ a = <<a[1], a[2]>> /\ a[2] = message[a[1]].count
  BY AttemptKeys DEF Binds, Only
<1>2. truth[a] \in ReportedStatus /\ truth'[a] \in ReportedStatus
  <2>1. truth[a] \in ReportedStatus
    BY DEF Binds, Reported, ReportedStatus
  <2> QED
    BY <2>1, TruthStays
<1>3. BlankEvidence'
  <2> SUFFICES ASSUME NEW m \in Messages, message'[m].sid = 0 PROVE message'[m].shown = None
    BY DEF BlankEvidence
  <2>1. CASE m = a[1]
    BY <1>1, <2>1 DEF Binds
  <2>2. CASE m # a[1]
    BY <2>2 DEF Binds, Only, BlankEvidence
  <2> QED
    BY <2>1, <2>2
<1>4. ASSUME NEW b \in Attempts, attempt'[b].sid
      PROVE  /\ b = <<b[1], message'[b[1]].count>> /\ truth'[b] \in ReportedStatus
             /\ message'[b[1]].sid = b[2] /\ message'[b[1]].shown = attempt'[b].shown
  <2>1. CASE b = a
    BY <1>1, <1>2, <2>1 DEF Binds, Only
  <2>2. CASE b # a
    <3>1. attempt'[b] = attempt[b] /\ attempt[b].sid
      BY <1>4, <2>2 DEF Binds, Only
    <3>2. /\ b = <<b[1], message[b[1]].count>> /\ truth[b] \in ReportedStatus
          /\ message[b[1]].sid = b[2] /\ message[b[1]].shown = attempt[b].shown
      BY <3>1 DEF EvidenceAgrees, Latest, Accepted
    <3>3. b[1] # a[1] /\ b[1] \in Messages
      BY <1>1, <2>2, <3>2, AttemptKeys
    <3>4. message'[b[1]] = message[b[1]]
      BY <3>3 DEF Binds, Only
    <3> QED
      BY <3>1, <3>2, <3>4, TruthStays
  <2> QED
    BY <2>1, <2>2
<1>5. ASSUME NEW b \in Attempts, ~attempt'[b].sid
      PROVE  attempt'[b].shown = None /\ message'[b[1]].sid # b[2]
  <2>1. b # a
    BY <1>5 DEF Binds
  <2>2. attempt'[b] = attempt[b] /\ attempt[b].shown = None /\ message[b[1]].sid # b[2]
    BY <1>5, <2>1 DEF Binds, Only, EvidenceAgrees
  <2>3. CASE b[1] = a[1]
    BY <2>1, <2>2, <2>3, AttemptKeys DEF Binds
  <2>4. CASE b[1] # a[1]
    BY <2>2, <2>4, AttemptKeys DEF Binds, Only
  <2> QED
    BY <2>2, <2>3, <2>4
<1>6. EvidenceAgrees'
  BY <1>4, <1>5 DEF EvidenceAgrees, Latest, Accepted
<1> QED
  BY <1>3, <1>6

(* Evidence agrees after every step.                                       *)
LEMMA EvidenceStep ==
    ASSUME OutboxInv, TruthInv, [Next]_vars
    PROVE  EvidenceAgrees' /\ BlankEvidence'
<1> USE DEF OutboxInv
<1>0. EvidenceAgrees /\ BlankEvidence
  BY DEF TruthInv
<1>1. CASE UNCHANGED rows
  BY <1>0, <1>1, EvidenceRests DEF rows, BlankEvidence
<1>2. ASSUME NEW m \in Messages, Accepts(m) PROVE EvidenceAgrees' /\ BlankEvidence'
  <2>1. message[m].sid = 0
    <3> SUFFICES ASSUME message[m].sid # 0 PROVE FALSE
      OBVIOUS
    <3>1. Latest(m) \in Attempts /\ Latest(m)[2] = 0
      BY <1>0, <1>2, SidIsLatest DEF Accepts, Latest
    <3> QED
      BY <3>1, AttemptKeys
  <2>2. ASSUME NEW b \in Attempts
        PROVE  attempt'[b].sid = attempt[b].sid /\ attempt'[b].shown = attempt[b].shown
    <3>1. CASE b = <<m, 1>>
      BY <1>2, <3>1, QueuedIsBlank DEF Accepts
    <3>2. CASE b # <<m, 1>>
      BY <1>2, <3>2 DEF Accepts
    <3> QED
      BY <3>1, <3>2
  <2>3. ASSUME NEW k \in Messages
        PROVE  /\ message'[k].sid = message[k].sid
               /\ message[k].sid # 0 => /\ message'[k].count = message[k].count
                                        /\ message'[k].shown = message[k].shown
               /\ message[k].sid = 0 => message'[k].shown = None
    BY <1>0, <1>2, <2>1 DEF Accepts, BlankEvidence
  <2> QED
    BY <2>2, <2>3, EvidenceRests
<1>3. ASSUME NEW batch \in SUBSET Attempts, Claims(batch)
      PROVE  EvidenceAgrees' /\ BlankEvidence'
  <2>1. ASSUME NEW b \in Attempts
        PROVE  attempt'[b].sid = attempt[b].sid /\ attempt'[b].shown = attempt[b].shown
    <3>1. CASE b \in batch
      BY <1>3, <3>1 DEF Claims, EvidenceKept
    <3>2. CASE b \notin batch
      BY <1>3, <3>2 DEF Claims
    <3> QED
      BY <3>1, <3>2
  <2>2. ASSUME NEW k \in Messages
        PROVE  /\ message'[k].sid = message[k].sid
               /\ message[k].sid # 0 => /\ message'[k].count = message[k].count
                                        /\ message'[k].shown = message[k].shown
               /\ message[k].sid = 0 => message'[k].shown = None
    BY <1>0, <1>3 DEF Claims, BlankEvidence
  <2> QED
    BY <2>1, <2>2, EvidenceRests
<1>4. ASSUME NEW a \in Attempts,
             Flags(a) \/ Authorises(a) \/ Cancels(a) \/ Doubts(a) \/ Attests(a)
      PROVE  EvidenceAgrees' /\ BlankEvidence'
  <2>1. Only(a) /\ EvidenceKept(a) /\ message'[a[1]].shown = message[a[1]].shown
    BY <1>4 DEF Flags, Authorises, Cancels, Doubts, Attests
  <2> QED
    BY <2>1, InPlaceRests
<1>5. ASSUME NEW a \in Attempts, Fails(a) PROVE EvidenceAgrees' /\ BlankEvidence'
  <2>1. Only(a) /\ EvidenceKept(a) /\ message'[a[1]].shown = None
        /\ attempt[a].status = "PROCESSING"
    BY <1>5 DEF Fails
  <2>2. message[a[1]].sid = 0
    BY <2>1, OpenIsBlank DEF Only
  <2> QED
    BY <2>1, <2>2, InPlaceRests
<1>6. ASSUME NEW a \in Attempts, Reopens(a) PROVE EvidenceAgrees' /\ BlankEvidence'
  <2>1. a[2] = message[a[1]].count /\ a[2] < MaxAttempts
        /\ attempt[a].status \in {"PROCESSING", "RESOLVED_NOT_SENT"}
    BY <1>6 DEF Reopens
  <2>2. message[a[1]].sid = 0 /\ message[a[1]].shown = None
    BY <2>1, OpenIsBlank
  <2>3. message'[a[1]].shown = None /\ message'[a[1]].sid = 0
    BY <1>6, <2>2 DEF Reopens, EvidenceKept
  <2>4. ASSUME NEW b \in Attempts
        PROVE  attempt'[b].sid = attempt[b].sid /\ attempt'[b].shown = attempt[b].shown
    <3>1. CASE b = a
      BY <1>6, <3>1 DEF Reopens, EvidenceKept
    <3>2. CASE b = Successor(a)
      <4>1. PICK due \in BOOLEAN : attempt'[b] = QueuedRow(due)
        BY <1>6, <3>2 DEF Reopens
      <4>2. attempt[b] = NoRow
        BY <1>6, <3>2 DEF Reopens
      <4> QED
        BY <4>1, <4>2, QueuedIsBlank
    <3>3. CASE b # a /\ b # Successor(a)
      BY <1>6, <3>3 DEF Reopens
    <3> QED
      BY <3>1, <3>2, <3>3
  <2>5. ASSUME NEW k \in Messages
        PROVE  /\ message'[k].sid = message[k].sid
               /\ message[k].sid # 0 => /\ message'[k].count = message[k].count
                                        /\ message'[k].shown = message[k].shown
               /\ message[k].sid = 0 => message'[k].shown = None
    <3>1. CASE k = a[1]
      BY <2>2, <2>3, <3>1
    <3>2. CASE k # a[1]
      BY <1>0, <1>6, <3>2 DEF Reopens, BlankEvidence
    <3> QED
      BY <3>1, <3>2
  <2> QED
    BY <2>4, <2>5, EvidenceRests
<1>7. ASSUME NEW a \in Attempts, NEW status \in ReportedStatus, Binds(a, status)
      PROVE  EvidenceAgrees' /\ BlankEvidence'
  BY <1>7, BindAgrees
<1> QED
  BY <1>1, <1>2, <1>3, <1>4, <1>5, <1>6, <1>7, StepMoves DEF RowsMove

(* What one step may settle or put in doubt had passed the frontier, and   *)
(* only what is settled has a SID.                                         *)
Settled == {"SUCCEEDED", "FAILED"}
Past    == Settled \cup {"AMBIGUOUS", "RESOLVED_NOT_SENT"}

(* Both hold after every step.                                             *)
LEMMA SettledStep ==
    ASSUME OutboxInv, TruthInv, [Next]_vars
    PROVE  EvidenceSettles' /\ SettledWasCalled'
<1> DEFINE Fits(b) == /\ attempt'[b].sid => attempt'[b].status \in Settled
                      /\ attempt'[b].status \in Past => attempt'[b].frontier
<1>0. \A b \in Attempts : /\ attempt[b].sid => attempt[b].status \in Settled
                          /\ attempt[b].status \in Past => attempt[b].frontier
  BY DEF TruthInv, EvidenceSettles, SettledWasCalled, Settled, Past
<1>1. ASSUME NEW b \in Attempts, attempt'[b] = attempt[b] PROVE Fits(b)
  BY <1>0, <1>1
<1>2. ASSUME NEW b \in Attempts, attempt'[b].sid = attempt[b].sid,
             attempt'[b].frontier = attempt[b].frontier,
             \/ attempt'[b].status = attempt[b].status
             \/ attempt[b].status \notin Settled /\ attempt'[b].status \notin Past
             \/ attempt[b].status \notin Settled /\ attempt[b].frontier
      PROVE  Fits(b)
  BY <1>0, <1>2
<1>3. ASSUME NEW b \in Attempts, NEW due \in BOOLEAN, attempt'[b] = QueuedRow(due)
      PROVE  Fits(b)
  <2>1. QueuedRow(due).sid = FALSE /\ QueuedRow(due).status = "QUEUED"
    BY QueuedFields
  <2> QED
    BY <1>3, <2>1 DEF Settled, Past
<1>4. ASSUME NEW b \in Attempts PROVE Fits(b)
  <2> HIDE DEF Fits
  <2>1. CASE UNCHANGED rows
    BY <1>1, <2>1 DEF rows
  <2>2. ASSUME NEW m \in Messages, Accepts(m) PROVE Fits(b)
    BY <1>1, <1>3, <2>2 DEF Accepts
  <2>3. ASSUME NEW batch \in SUBSET Attempts, Claims(batch) PROVE Fits(b)
    <3>1. CASE b \in batch
      BY <1>2, <2>3, <3>1 DEF Claims, EvidenceKept, FrontierKept, Settled, Past
    <3>2. CASE b \notin batch
      BY <1>1, <2>3, <3>2 DEF Claims
    <3> QED
      BY <3>1, <3>2
  <2>4. ASSUME NEW a \in Attempts, Only(a), a = b => Fits(b) PROVE Fits(b)
    BY <1>1, <2>4 DEF Only
  <2>5. ASSUME NEW a \in Attempts, a = b,
               Flags(a) \/ Cancels(a) \/ Doubts(a) \/ Attests(a) \/ Fails(a)
        PROVE  Fits(b)
    <3>1. /\ attempt'[b].sid = attempt[b].sid /\ attempt'[b].frontier = attempt[b].frontier
          /\ \/ attempt'[b].status = attempt[b].status
             \/ attempt[b].status \notin Settled /\ attempt'[b].status \notin Past
             \/ attempt[b].status \notin Settled /\ attempt[b].frontier
      BY <1>0, <2>5
      DEF Flags, Cancels, Doubts, Attests, Fails, EvidenceKept, FrontierKept, Settled, Past
    <3> QED
      BY <1>2, <3>1
  <2>6. ASSUME NEW a \in Attempts, a = b, Authorises(a) PROVE Fits(b)
    BY <1>0, <2>6 DEF Authorises, EvidenceKept, Fits, Settled, Past
  <2>7. ASSUME NEW a \in Attempts, a = b, NEW status \in ReportedStatus, Binds(a, status)
        PROVE  Fits(b)
    <3>1. attempt'[a].status \in Settled
      BY <2>7 DEF Binds, AttemptStatusFor, Settled
    <3> QED
      BY <2>7, <3>1 DEF Binds, FrontierKept, Fits
  <2>8. ASSUME NEW a \in Attempts, Reopens(a) PROVE Fits(b)
    <3>1. CASE b = a
      <4>1. /\ attempt'[b].sid = attempt[b].sid /\ attempt'[b].frontier = attempt[b].frontier
            /\ \/ attempt'[b].status = attempt[b].status
               \/ attempt[b].status \notin Settled /\ attempt[b].frontier
        BY <2>8, <3>1 DEF Reopens, EvidenceKept, FrontierKept, Settled
      <4> QED
        BY <1>2, <4>1
    <3>2. CASE b = Successor(a)
      BY <1>3, <2>8, <3>2 DEF Reopens
    <3>3. CASE b # a /\ b # Successor(a)
      BY <1>1, <2>8, <3>3 DEF Reopens
    <3> QED
      BY <3>1, <3>2, <3>3
  <2>9. ASSUME NEW a \in Attempts,
               \/ Flags(a) \/ Authorises(a) \/ Cancels(a) \/ Doubts(a) \/ Attests(a)
               \/ Fails(a) \/ \E status \in ReportedStatus : Binds(a, status)
        PROVE  Fits(b)
    <3>1. Only(a)
      BY <2>9 DEF Flags, Authorises, Cancels, Doubts, Attests, Fails, Binds
    <3>2. a = b => Fits(b)
      BY <2>5, <2>6, <2>7, <2>9
    <3> QED
      BY <2>4, <3>1, <3>2
  <2> QED
    BY <2>1, <2>2, <2>3, <2>8, <2>9, StepMoves DEF RowsMove
<1> QED
  BY <1>4 DEF EvidenceSettles, SettledWasCalled, Settled, Past

(* The outcome stays true: it is what was reported, and what was reported  *)
(* is not undone.                                                          *)
LEMMA OutcomeStep ==
    ASSUME OutboxInv, TruthInv, [Next]_vars
    PROVE  OutcomeIsTrue'
<1> USE DEF OutboxInv
<1> DEFINE True(m) ==
      LET last == <<m, message'[m].count>> IN
      /\ message'[m].status = "SENT" => truth'[last] \in ReportedStatus
      /\ message'[m].status = "DELIVERED" => truth'[last] = "delivered"
      /\ message'[m].status = "FAILED" => truth'[last] \in Refusals \cup {"undelivered"}
<1>1. ASSUME NEW m \in Messages, message'[m].status \notin {"SENT", "DELIVERED", "FAILED"}
      PROVE  True(m)
  BY <1>1
<1>2. ASSUME NEW m \in Messages, message'[m].status = message[m].status,
             message'[m].count = message[m].count
      PROVE  True(m)
  <2> DEFINE last == <<m, message[m].count>>
  <2>1. CASE message[m].status = "NONE"
    BY <1>1, <1>2, <2>1
  <2>2. CASE message[m].status # "NONE"
    <3>1. message[m].count \in 1 .. MaxAttempts
      BY <2>2, OutboxAssumption DEF CallsFollowFrontier, TypeOK, MessageRows
    <3>2. last \in Attempts
      BY <3>1, AttemptKeys
    <3>3. /\ message[m].status = "SENT" => truth[last] \in ReportedStatus
          /\ message[m].status = "DELIVERED" => truth[last] = "delivered"
          /\ message[m].status = "FAILED" => truth[last] \in Refusals \cup {"undelivered"}
      BY DEF TruthInv, OutcomeIsTrue, Latest, Accepted
    <3> HIDE DEF last
    <3>4. /\ truth[last] \in ReportedStatus => truth'[last] \in ReportedStatus
          /\ truth[last] \in Refusals \cup {"delivered", "undelivered"} =>
                truth'[last] = truth[last]
      BY <3>2, TruthStays
    <3>5. /\ message[m].status = "SENT" => truth'[last] \in ReportedStatus
          /\ message[m].status = "DELIVERED" => truth'[last] = "delivered"
          /\ message[m].status = "FAILED" => truth'[last] \in Refusals \cup {"undelivered"}
      BY <3>3, <3>4
    <3> QED
      BY <1>2, <3>5 DEF last
  <2> QED
    BY <2>1, <2>2
<1>3. ASSUME NEW m \in Messages, NEW a \in Attempts, Only(a), m = a[1] => True(m)
      PROVE  True(m)
  BY <1>2, <1>3 DEF Only
<1>4. ASSUME NEW m \in Messages PROVE True(m)
  <2>1. CASE UNCHANGED rows
    BY <1>2, <2>1 DEF rows
  <2>2. ASSUME NEW k \in Messages, Accepts(k) PROVE True(m)
    <3>1. CASE m = k
      BY <1>1, <2>2, <3>1 DEF Accepts
    <3>2. CASE m # k
      BY <1>2, <2>2, <3>2 DEF Accepts
    <3> QED
      BY <3>1, <3>2
  <2>3. ASSUME NEW batch \in SUBSET Attempts, Claims(batch) PROVE True(m)
    <3>1. message'[m].status = "PROCESSING" \/ message'[m] = message[m]
      BY <2>3 DEF Claims
    <3> QED
      BY <1>1, <1>2, <3>1
  <2>4. ASSUME NEW a \in Attempts, Flags(a) \/ Authorises(a) \/ Attests(a) PROVE True(m)
    <3>1. Only(a) /\ message'[a[1]] = message[a[1]]
      BY <2>4 DEF Flags, Authorises, Attests
    <3> QED
      BY <1>2, <3>1 DEF Only
  <2>5. ASSUME NEW a \in Attempts, Cancels(a) \/ Doubts(a) PROVE True(m)
    <3>1. Only(a) /\ message'[a[1]].status \in {"CANCELLED", "AMBIGUOUS"}
      BY <2>5 DEF Cancels, Doubts
    <3> QED
      BY <1>1, <1>3, <3>1
  <2>6. ASSUME NEW a \in Attempts, Reopens(a) PROVE True(m)
    <3>1. CASE m = a[1]
      BY <1>1, <2>6, <3>1 DEF Reopens
    <3>2. CASE m # a[1]
      BY <1>2, <2>6, <3>2 DEF Reopens
    <3> QED
      BY <3>1, <3>2
  <2>7. ASSUME NEW a \in Attempts, m = a[1], Fails(a) PROVE True(m)
    <3>1. a = <<m, message'[m].count>>
      BY <2>7, AttemptKeys DEF Fails, Only
    <3>2. message'[m].status = "FAILED" /\ truth'[a] \in Refusals
      BY <2>7, TruthStays DEF Fails
    <3> QED
      BY <3>1, <3>2
  <2>8. ASSUME NEW a \in Attempts, m = a[1], NEW status \in ReportedStatus,
               Binds(a, status)
        PROVE  True(m)
    <3>1. a = <<m, message'[m].count>>
      BY <2>8, AttemptKeys DEF Binds, Only
    <3>2. status \in Reported(truth[a]) /\ message'[m].status = ApplicationStatusFor(status)
      BY <2>8 DEF Binds
    <3>3. /\ truth[a] \in ReportedStatus
          /\ status \in {"delivered", "undelivered"} => truth[a] = status
      BY <3>2 DEF Reported, ReportedStatus
    <3>4. /\ truth'[a] \in ReportedStatus
          /\ status \in {"delivered", "undelivered"} => truth'[a] = status
      BY <3>3, TruthStays
    <3>5. /\ status \in {"queued", "sent"} => message'[m].status = "SENT"
          /\ status = "delivered" => message'[m].status = "DELIVERED"
          /\ status = "undelivered" => message'[m].status = "FAILED"
      BY <3>2 DEF ApplicationStatusFor, Failures, Successes
    <3>6. status \in {"queued", "sent", "delivered", "undelivered"}
      BY <2>8 DEF ReportedStatus
    <3>7. CASE status \in {"queued", "sent"}
      BY <3>1, <3>4, <3>5, <3>7
    <3>8. CASE status = "delivered"
      BY <3>1, <3>4, <3>5, <3>8
    <3>9. CASE status = "undelivered"
      BY <3>1, <3>4, <3>5, <3>9
    <3> QED
      BY <3>6, <3>7, <3>8, <3>9
  <2>9. ASSUME NEW a \in Attempts, Fails(a) \/ \E status \in ReportedStatus : Binds(a, status)
        PROVE  True(m)
    <3>1. Only(a)
      BY <2>9 DEF Fails, Binds
    <3> QED
      BY <1>3, <2>7, <2>8, <2>9, <3>1
  <2> QED
    BY <2>1, <2>2, <2>3, <2>4, <2>5, <2>6, <2>9, StepMoves DEF RowsMove
<1> QED
  BY <1>4 DEF OutcomeIsTrue, Latest, Accepted

-----------------------------------------------------------------------------
(* At first nothing was called, settled or heard.                          *)
LEMMA InitTruth == Init => TruthInv
<1> SUFFICES ASSUME Init PROVE TruthInv
  OBVIOUS
<1> USE DEF Init
<1>1. EvidenceAgrees
  BY AttemptKeys DEF EvidenceAgrees, NoRow, NoMessage
<1>2. EvidenceSettles /\ BlankEvidence /\ SettledWasCalled
  BY AttemptKeys DEF EvidenceSettles, BlankEvidence, SettledWasCalled, NoRow, NoMessage
<1>3. OutcomeIsTrue
  BY DEF OutcomeIsTrue, NoMessage
<1>4. RepliesAreTrue
  BY DEF RepliesAreTrue, IdleWorker, NoDecision, Decision
<1> QED
  BY <1>1, <1>2, <1>3, <1>4 DEF TruthInv

(* The inductive invariant of evidence and outcomes: what rows and workers *)
(* say of the provider is what it did.                                     *)
THEOREM TruthInvariant == Spec => [](OutboxInv /\ TruthInv)
<1>1. Init => TruthInv
  BY InitTruth
<1>2. OutboxInv /\ TruthInv /\ [Next]_vars => TruthInv'
  BY EvidenceStep, SettledStep, OutcomeStep, RepliesStep DEF TruthInv
<1> QED
  BY <1>1, <1>2, OutboxInvariant, PTL DEF Spec

(* Message and latest attempt carry the same provider evidence and no      *)
(* other attempt carries any, whoever stored it: the worker that heard a   *)
(* response or a callback that overtook it.                                *)
THEOREM EvidenceAlwaysAgrees == Spec => []EvidenceAgrees
<1>1. TruthInv => EvidenceAgrees
  BY DEF TruthInv
<1> QED
  BY <1>1, TruthInvariant, PTL

(* What a message shows its tenant is what the provider did with the       *)
(* current attempt, however late or out of order it was heard.             *)
THEOREM OutcomeIsAlwaysTrue == Spec => []OutcomeIsTrue
<1>1. TruthInv => OutcomeIsTrue
  BY DEF TruthInv
<1> QED
  BY <1>1, TruthInvariant, PTL

-----------------------------------------------------------------------------
(* What the triggers let one statement do to one message, one attempt.     *)
MessageAllowed(m) ==
    /\ \/ message'[m].status = message[m].status
       \/ message'[m].status \in MessageMoves[message[m].status]
    /\ message'[m].count \in {message[m].count, message[m].count + 1}
    /\ message[m].sid # 0 => message'[m].sid = message[m].sid

AttemptAllowed(a) ==
    /\ \/ attempt'[a].status = attempt[a].status
       \/ attempt'[a].status \in AttemptMoves[attempt[a].status]
    /\ attempt[a].frontier => attempt'[a].frontier
    /\ ~attempt[a].frontier /\ attempt'[a].frontier =>
          /\ attempt[a].status = "PROCESSING" /\ attempt'[a].status = "PROCESSING"
          /\ attempt'[a].token = attempt[a].token
    /\ attempt[a].frontier /\ attempt'[a].status = "PROCESSING" =>
          attempt'[a].token = attempt[a].token
    /\ attempt[a].sid => attempt'[a].sid

(* The rows of the two tables of moves that steps use.                     *)
LEMMA MoveTables ==
    /\ "ACCEPTED" \in MessageMoves["NONE"]
    /\ \A s \in {"ACCEPTED", "SCHEDULED"} : "PROCESSING" \in MessageMoves[s]
    /\ \A s \in OpenStatus : "CANCELLED" \in MessageMoves[s]
    /\ "AMBIGUOUS" \in MessageMoves["PROCESSING"]
    /\ \A s \in {"PROCESSING", "AMBIGUOUS"} : "SCHEDULED" \in MessageMoves[s]
    /\ \A s \in {"PROCESSING", "AMBIGUOUS"} :
          {"SENT", "DELIVERED", "FAILED"} \subseteq MessageMoves[s]
    /\ {"DELIVERED", "FAILED"} \subseteq MessageMoves["SENT"]
    /\ "QUEUED" \in AttemptMoves["NONE"]
    /\ \A s \in {"QUEUED", "PROCESSING"} : "CANCELLED" \in AttemptMoves[s]
    /\ "PROCESSING" \in AttemptMoves["QUEUED"]
    /\ {"AMBIGUOUS", "FAILED"} \subseteq AttemptMoves["PROCESSING"]
    /\ "RESOLVED_NOT_SENT" \in AttemptMoves["AMBIGUOUS"]
    /\ \A s \in {"PROCESSING", "AMBIGUOUS"} :
          {"SUCCEEDED", "FAILED"} \subseteq AttemptMoves[s]
BY DEF MessageMoves, AttemptMoves, OpenStatus

(* The status of a message whose latest attempt may still be bound.        *)
LEMMA BoundFrom ==
    ASSUME TypeOK, RowsAgree, NEW a \in Attempts, a[2] = message[a[1]].count
    PROVE  /\ attempt[a].status = "PROCESSING" => message[a[1]].status = "PROCESSING"
           /\ attempt[a].status = "AMBIGUOUS" => message[a[1]].status = "AMBIGUOUS"
           /\ attempt[a].status = "RESOLVED_NOT_SENT" => message[a[1]].status = "AMBIGUOUS"
           /\ attempt[a].status = "FAILED" => message[a[1]].status = "FAILED"
           /\ attempt[a].status = "SUCCEEDED" =>
                 message[a[1]].status \in {"SENT", "DELIVERED", "FAILED"}
<1>1. a[1] \in Messages /\ message[a[1]].status \in MessageStatus
      /\ attempt[a].status \in StatusesFor(message[a[1]].status)
  BY AttemptKeys DEF TypeOK, MessageRows, RowsAgree
<1>2. \A s \in MessageStatus :
         "SUCCEEDED" \in StatusesFor(s) => s \in {"SENT", "DELIVERED", "FAILED"}
  BY StatusTable DEF MessageStatus
<1> QED
  BY <1>1, <1>2, ReverseTable

(* A bound report moves an outcome forward or leaves it.                   *)
LEMMA BindsAllowed ==
    ASSUME TypeOK, RowsAgree, NEW a \in Attempts, NEW status \in ReportedStatus,
           Binds(a, status)
    PROVE  /\ \/ message'[a[1]].status = message[a[1]].status
              \/ message'[a[1]].status \in MessageMoves[message[a[1]].status]
           /\ \/ attempt'[a].status = attempt[a].status
              \/ attempt'[a].status \in AttemptMoves[attempt[a].status]
           /\ attempt'[a].status \in {"SUCCEEDED", "FAILED"}
<1> DEFINE old == message[a[1]].status
           new == message'[a[1]].status
<1>1. /\ attempt[a].status \in {"PROCESSING", "AMBIGUOUS", "SUCCEEDED", "FAILED"}
      /\ attempt'[a].status = AttemptStatusFor(attempt[a].status, status)
      /\ new = ApplicationStatusFor(status)
      /\ OutcomeGuard(status, old = "DELIVERED", old = "FAILED")
      /\ a[2] = message[a[1]].count
  BY DEF Binds, Only
<1> HIDE DEF old, new
<1>2. old \in {"PROCESSING", "AMBIGUOUS", "SENT", "DELIVERED", "FAILED"}
  BY <1>1, BoundFrom DEF old
<1>3. \/ status \in {"queued", "sent"} /\ new = "SENT" /\ old \notin {"DELIVERED", "FAILED"}
      \/ status = "delivered" /\ new = "DELIVERED" /\ old # "FAILED"
      \/ status = "undelivered" /\ new = "FAILED" /\ old # "DELIVERED"
  <2>1. status \in {"queued", "sent", "delivered", "undelivered"}
    BY DEF ReportedStatus
  <2>2. /\ "delivered" \in Successes /\ "delivered" \notin Failures
        /\ "undelivered" \in Failures
        /\ \A s \in {"queued", "sent"} : s \notin Failures /\ s \notin Successes
    BY DEF Failures, Successes
  <2>3. CASE status \in {"queued", "sent"}
    BY <1>1, <2>2, <2>3 DEF ApplicationStatusFor, OutcomeGuard, Terminal
  <2>4. CASE status = "delivered"
    BY <1>1, <2>2, <2>4 DEF ApplicationStatusFor, OutcomeGuard, Terminal
  <2>5. CASE status = "undelivered"
    BY <1>1, <2>2, <2>5 DEF ApplicationStatusFor, OutcomeGuard, Terminal
  <2> QED
    BY <2>1, <2>3, <2>4, <2>5
<1>4. new = old \/ new \in MessageMoves[old]
  BY <1>2, <1>3, MoveTables
<1>5. /\ \/ attempt'[a].status = attempt[a].status
         \/ attempt'[a].status \in AttemptMoves[attempt[a].status]
      /\ attempt'[a].status \in {"SUCCEEDED", "FAILED"}
  BY <1>1, MoveTables DEF AttemptStatusFor
<1> QED
  BY <1>4, <1>5 DEF old, new

(* No message is moved as its trigger forbids.                             *)
LEMMA MessageStep ==
    ASSUME OutboxInv, TruthInv, [Next]_vars, NEW m \in Messages
    PROVE  MessageAllowed(m)
<1> USE DEF OutboxInv
<1>1. ASSUME message'[m] = message[m] PROVE MessageAllowed(m)
  BY <1>1 DEF MessageAllowed
<1>2. ASSUME NEW a \in Attempts, Only(a), m = a[1] => MessageAllowed(m)
      PROVE  MessageAllowed(m)
  BY <1>1, <1>2 DEF Only
<1>3. CASE UNCHANGED rows
  BY <1>1, <1>3 DEF rows
<1>4. ASSUME NEW k \in Messages, Accepts(k) PROVE MessageAllowed(m)
  <2>1. CASE m = k
    BY <1>4, <2>1, MoveTables DEF Accepts, MessageAllowed
  <2>2. CASE m # k
    BY <1>1, <1>4, <2>2 DEF Accepts
  <2> QED
    BY <2>1, <2>2
<1>5. ASSUME NEW batch \in SUBSET Attempts, Claims(batch) PROVE MessageAllowed(m)
  <2>1. CASE \E a \in batch : a[1] = m
    <3>1. /\ message[m].status \in OpenStatus /\ message'[m].status = "PROCESSING"
          /\ message'[m].count = message[m].count /\ message'[m].sid = message[m].sid
      BY <1>5, <2>1 DEF Claims
    <3> QED
      BY <3>1, MoveTables DEF MessageAllowed, OpenStatus
  <2>2. CASE ~\E a \in batch : a[1] = m
    BY <1>1, <1>5, <2>2 DEF Claims
  <2> QED
    BY <2>1, <2>2
<1>6. ASSUME NEW a \in Attempts, Flags(a) \/ Authorises(a) \/ Attests(a)
      PROVE  MessageAllowed(m)
  <2>1. Only(a) /\ message'[a[1]] = message[a[1]]
    BY <1>6 DEF Flags, Authorises, Attests
  <2> QED
    BY <1>1, <1>2, <2>1
<1>7. ASSUME NEW a \in Attempts, Cancels(a) \/ Doubts(a) \/ Fails(a)
      PROVE  MessageAllowed(m)
  <2>1. /\ Only(a) /\ message'[a[1]].sid = message[a[1]].sid
        /\ message'[a[1]].status \in MessageMoves[message[a[1]].status]
    BY <1>7, MoveTables DEF Cancels, Doubts, Fails, EvidenceKept
  <2>2. m = a[1] => MessageAllowed(m)
    BY <2>1 DEF Only, MessageAllowed
  <2> QED
    BY <1>2, <2>1, <2>2
<1>8. ASSUME NEW a \in Attempts, Reopens(a) PROVE MessageAllowed(m)
  <2>1. CASE m = a[1]
    BY <1>8, <2>1, MoveTables DEF Reopens, EvidenceKept, MessageAllowed
  <2>2. CASE m # a[1]
    BY <1>1, <1>8, <2>2 DEF Reopens
  <2> QED
    BY <2>1, <2>2
<1>9. ASSUME NEW a \in Attempts, NEW status \in ReportedStatus, Binds(a, status)
      PROVE  MessageAllowed(m)
  <2>1. /\ Only(a) /\ message[a[1]].sid \in {0, a[2]} /\ message'[a[1]].sid = a[2]
        /\ \/ message'[a[1]].status = message[a[1]].status
           \/ message'[a[1]].status \in MessageMoves[message[a[1]].status]
    BY <1>9, BindsAllowed DEF Binds
  <2>2. m = a[1] => MessageAllowed(m)
    BY <2>1 DEF Only, MessageAllowed
  <2> QED
    BY <1>2, <2>1, <2>2
<1> QED
  BY <1>3, <1>4, <1>5, <1>6, <1>7, <1>8, <1>9, StepMoves DEF RowsMove

(* No attempt is moved as its trigger forbids.                             *)
LEMMA AttemptStep ==
    ASSUME OutboxInv, TruthInv, [Next]_vars, NEW b \in Attempts
    PROVE  AttemptAllowed(b)
<1> USE DEF OutboxInv
<1>1. ASSUME attempt'[b] = attempt[b] PROVE AttemptAllowed(b)
  BY <1>1 DEF AttemptAllowed
<1>2. ASSUME NEW a \in Attempts, Only(a), a = b => AttemptAllowed(b)
      PROVE  AttemptAllowed(b)
  BY <1>1, <1>2 DEF Only
<1>3. ASSUME NEW due \in BOOLEAN, attempt[b] = NoRow, attempt'[b] = QueuedRow(due)
      PROVE  AttemptAllowed(b)
  <2>1. NoRow.status = "NONE" /\ NoRow.frontier = FALSE /\ NoRow.sid = FALSE
    BY DEF NoRow
  <2>2. QueuedRow(due).status = "QUEUED" /\ QueuedRow(due).frontier = FALSE
    BY QueuedFields
  <2> QED
    BY <1>3, <2>1, <2>2, MoveTables DEF AttemptAllowed
<1>4. CASE UNCHANGED rows
  BY <1>1, <1>4 DEF rows
<1>5. ASSUME NEW k \in Messages, Accepts(k) PROVE AttemptAllowed(b)
  BY <1>1, <1>3, <1>5 DEF Accepts
<1>6. ASSUME NEW batch \in SUBSET Attempts, Claims(batch) PROVE AttemptAllowed(b)
  <2>1. CASE b \in batch
    <3>1. /\ attempt[b].status \in {"QUEUED", "PROCESSING"} /\ ~attempt[b].frontier
          /\ attempt'[b].status = "PROCESSING" /\ attempt'[b].sid = attempt[b].sid
          /\ attempt'[b].frontier = attempt[b].frontier
      BY <1>6, <2>1 DEF Claims, EvidenceKept, FrontierKept
    <3> QED
      BY <3>1, MoveTables DEF AttemptAllowed
  <2>2. CASE b \notin batch
    BY <1>1, <1>6, <2>2 DEF Claims
  <2> QED
    BY <2>1, <2>2
<1>7. ASSUME NEW a \in Attempts, Reopens(a) PROVE AttemptAllowed(b)
  <2>1. CASE b = a
    <3>1. /\ \/ attempt[a].status = "PROCESSING" /\ attempt'[a].status = "FAILED"
             \/ attempt'[a] = attempt[a]
          /\ attempt'[a].sid = attempt[a].sid
          /\ attempt'[a].frontier = attempt[a].frontier
      BY <1>7 DEF Reopens, EvidenceKept, FrontierKept
    <3> QED
      BY <1>1, <2>1, <3>1, MoveTables DEF AttemptAllowed
  <2>2. CASE b = Successor(a)
    BY <1>3, <1>7, <2>2 DEF Reopens
  <2>3. CASE b # a /\ b # Successor(a)
    BY <1>1, <1>7, <2>3 DEF Reopens
  <2> QED
    BY <2>1, <2>2, <2>3
<1>8. ASSUME NEW a \in Attempts, Cancels(a) \/ Doubts(a) \/ Attests(a) \/ Fails(a)
      PROVE  AttemptAllowed(b)
  <2>1. /\ Only(a) /\ attempt'[a].sid = attempt[a].sid
        /\ attempt'[a].frontier = attempt[a].frontier
        /\ attempt'[a].status \in AttemptMoves[attempt[a].status]
        /\ attempt'[a].status # "PROCESSING"
    BY <1>8, MoveTables DEF Cancels, Doubts, Attests, Fails, EvidenceKept, FrontierKept
  <2>2. a = b => AttemptAllowed(b)
    BY <2>1 DEF AttemptAllowed
  <2> QED
    BY <1>2, <2>1, <2>2
<1>9. ASSUME NEW a \in Attempts, Flags(a) \/ Authorises(a) PROVE AttemptAllowed(b)
  <2>1. /\ Only(a) /\ attempt'[a].sid = attempt[a].sid
        /\ attempt'[a].token = attempt[a].token
        /\ attempt'[a].status = attempt[a].status
        /\ \/ attempt'[a].frontier = attempt[a].frontier
           \/ attempt[a].status = "PROCESSING" /\ attempt'[a].frontier
    BY <1>9 DEF Flags, Authorises, EvidenceKept, FrontierKept
  <2>2. a = b => AttemptAllowed(b)
    BY <2>1 DEF AttemptAllowed
  <2> QED
    BY <1>2, <2>1, <2>2
<1>10. ASSUME NEW a \in Attempts, NEW status \in ReportedStatus, Binds(a, status)
       PROVE  AttemptAllowed(b)
  <2>1. /\ Only(a) /\ attempt'[a].sid /\ attempt'[a].frontier = attempt[a].frontier
        /\ \/ attempt'[a].status = attempt[a].status
           \/ attempt'[a].status \in AttemptMoves[attempt[a].status]
        /\ attempt'[a].status # "PROCESSING"
    BY <1>10, BindsAllowed DEF Binds, FrontierKept
  <2>2. a = b => AttemptAllowed(b)
    BY <2>1 DEF AttemptAllowed
  <2> QED
    BY <1>2, <2>1, <2>2
<1> QED
  BY <1>4, <1>5, <1>6, <1>7, <1>8, <1>9, <1>10, StepMoves DEF RowsMove

(* No writer of the outbox asks the database for a move that its triggers  *)
(* refuse, so none of the transactions that others rely on rolls back.     *)
THEOREM NoStepRefused == Spec => NoStepIsRefused
<1>1. ASSUME OutboxInv, TruthInv, [Next]_vars PROVE TriggersAllow
  BY <1>1, MessageStep, AttemptStep DEF TriggersAllow, MessageAllowed, AttemptAllowed
<1>2. OutboxInv /\ TruthInv /\ [Next]_vars => [TriggersAllow]_vars
  BY <1>1
<1> QED
  BY <1>2, TruthInvariant, PTL DEF Spec, NoStepIsRefused

-----------------------------------------------------------------------------
(* The outbox implements the contract.                                     *)

(* The latest attempt of a message that exists is a row.                   *)
LEMMA LatestRow ==
    ASSUME OutboxInv, NEW m \in Messages
    PROVE  /\ message[m].count \in Nat /\ message[m].count \in 0 .. MaxAttempts
           /\ message[m].status \in MessageStatus
           /\ message[m].status = "NONE" <=> message[m].count = 0
           /\ message[m].count # 0 =>
                 /\ Latest(m) \in Attempts /\ Latest(m)[1] = m
                 /\ Latest(m)[2] = message[m].count
                 /\ message[m].count \in 1 .. MaxAttempts
<1>1. /\ message[m].count \in 0 .. MaxAttempts /\ message[m].count \in Nat
      /\ message[m].status \in MessageStatus
      /\ message[m].status = "NONE" <=> message[m].count = 0
  BY OutboxAssumption DEF OutboxInv, TypeOK, MessageRows, CallsFollowFrontier
<1>2. message[m].count # 0 => message[m].count \in 1 .. MaxAttempts
  BY <1>1
<1> QED
  BY <1>1, <1>2, AttemptKeys DEF Latest

(* What is granted and what is excused, by attemptCount and the latest     *)
(* attempt: every earlier attempt was called and is excused.               *)
GrantsAreCalls ==
    \A m \in Messages :
        /\ GrantedOf(m) = {k \in 1 .. MaxAttempts :
              \/ k < message[m].count
              \/ k = message[m].count /\ attempt[Latest(m)].frontier}
        /\ ExcusedOf(m) = {k \in 1 .. MaxAttempts :
              \/ k < message[m].count
              \/ k = message[m].count /\ attempt[Latest(m)].status = "RESOLVED_NOT_SENT"}

(* That follows from the invariants.                                       *)
LEMMA GrantsFollow == OutboxInv /\ TruthInv => GrantsAreCalls
<1> SUFFICES ASSUME OutboxInv, TruthInv, NEW m \in Messages
             PROVE  /\ GrantedOf(m) = {k \in 1 .. MaxAttempts :
                          \/ k < message[m].count
                          \/ k = message[m].count /\ attempt[Latest(m)].frontier}
                    /\ ExcusedOf(m) = {k \in 1 .. MaxAttempts :
                          \/ k < message[m].count
                          \/ /\ k = message[m].count
                             /\ attempt[Latest(m)].status = "RESOLVED_NOT_SENT"}
  BY DEF GrantsAreCalls
<1> DEFINE n == message[m].count
<1>1. n \in Nat
  BY LatestRow
<1>2. ASSUME NEW k \in 1 .. MaxAttempts
      PROVE  /\ <<m, k>> \in Attempts
             /\ k < n => /\ attempt[<<m, k>>].status \in {"FAILED", "RESOLVED_NOT_SENT"}
                         /\ attempt[<<m, k>>].frontier
             /\ k > n => /\ attempt[<<m, k>>].status = "NONE"
                         /\ ~attempt[<<m, k>>].frontier
             /\ k = n => attempt[<<m, k>>] = attempt[Latest(m)]
  <2>1. <<m, k>> \in Attempts /\ <<m, k>>[1] = m /\ <<m, k>>[2] = k
    BY AttemptKeys
  <2>2. k < n => attempt[<<m, k>>].status \in {"FAILED", "RESOLVED_NOT_SENT"}
    BY <2>1 DEF OutboxInv, RowsAgree
  <2>3. k < n => attempt[<<m, k>>].frontier
    BY <2>1, <2>2 DEF TruthInv, SettledWasCalled
  <2>4. k > n => attempt[<<m, k>>] = NoRow
    BY <2>1 DEF OutboxInv, RowsAgree
  <2>5. NoRow.status = "NONE" /\ NoRow.frontier = FALSE
    BY DEF NoRow
  <2> QED
    BY <2>1, <2>2, <2>3, <2>4, <2>5 DEF Latest
<1>3. \A k \in 1 .. MaxAttempts : k \in Nat
  OBVIOUS
<1>4. ASSUME NEW k \in 1 .. MaxAttempts
      PROVE  /\ attempt[<<m, k>>].frontier <=>
                   k < n \/ (k = n /\ attempt[Latest(m)].frontier)
             /\ (\/ attempt[<<m, k>>].status = "RESOLVED_NOT_SENT"
                 \/ attempt[<<m, k>>].status = "FAILED" /\ k < n)
                <=> k < n \/ (k = n /\ attempt[Latest(m)].status = "RESOLVED_NOT_SENT")
  <2>1. k < n \/ k = n \/ k > n
    BY <1>1, <1>3
  <2>2. CASE k < n
    BY <1>2, <2>2
  <2>3. CASE k = n
    BY <1>1, <1>2, <2>3
  <2>4. CASE k > n
    <3>1. ~(k < n) /\ k # n
      BY <1>1, <1>3, <2>4
    <3> QED
      BY <1>2, <2>4, <3>1
  <2> QED
    BY <2>1, <2>2, <2>3, <2>4
<1> QED
  BY <1>4 DEF GrantedOf, ExcusedOf

(* A message of which nothing that the contract shows has changed.         *)
ViewKept(k) == /\ PhaseOf(k)' = PhaseOf(k)
               /\ GrantedOf(k)' = GrantedOf(k)
               /\ ExcusedOf(k)' = ExcusedOf(k)

(* Such is one whose rows changed, if at all, only in what is not shown.   *)
LEMMA ViewRests ==
    ASSUME OutboxInv, NEW m \in Messages,
           message'[m].count = message[m].count,
           \/ message'[m].status = message[m].status
           \/ message'[m].status \in OpenStatus /\ message[m].status \in OpenStatus,
           \A k \in 1 .. MaxAttempts :
              /\ attempt'[<<m, k>>].frontier = attempt[<<m, k>>].frontier
              /\ \/ attempt'[<<m, k>>].status = attempt[<<m, k>>].status
                 \/ /\ attempt[<<m, k>>].status \in {"QUEUED", "PROCESSING"}
                    /\ attempt'[<<m, k>>].status \in {"QUEUED", "PROCESSING"}
    PROVE  ViewKept(m)
<1>1. GrantedOf(m)' = GrantedOf(m) /\ ExcusedOf(m)' = ExcusedOf(m)
  BY DEF GrantedOf, ExcusedOf
<1>2. CASE message[m].status = "NONE"
  BY <1>1, <1>2 DEF PhaseOf, OpenStatus, ViewKept
<1>3. CASE message[m].status # "NONE"
  <2>1. message[m].count \in 1 .. MaxAttempts
    BY <1>3, LatestRow
  <2> DEFINE r == attempt[<<m, message[m].count>>]
             s == attempt'[<<m, message[m].count>>]
  <2>2. s.frontier = r.frontier /\ (s.status = "AMBIGUOUS" <=> r.status = "AMBIGUOUS")
    BY <2>1
  <2>3. message[m].status \in OpenStatus <=> message'[m].status \in OpenStatus
    OBVIOUS
  <2>4. PhaseOf(m)' = PhaseOf(m)
    BY <1>3, <2>2, <2>3 DEF PhaseOf, Latest, OpenStatus
  <2> QED
    BY <1>1, <2>4 DEF ViewKept
<1> QED
  BY <1>1, <1>2, <1>3 DEF ViewKept

(* What concerns one message alone leaves the view of the others.          *)
LEMMA OthersRest ==
    ASSUME OutboxInv, NEW m \in Messages,
           \A b \in Attempts : b[1] # m => attempt'[b] = attempt[b],
           \A k \in Messages : k # m => message'[k] = message[k]
    PROVE  \A k \in Messages : k # m => ViewKept(k)
<1> SUFFICES ASSUME NEW k \in Messages, k # m PROVE ViewKept(k)
  OBVIOUS
<1>1. \A i \in 1 .. MaxAttempts : attempt'[<<k, i>>] = attempt[<<k, i>>]
  BY AttemptKeys
<1> QED
  BY <1>1, ViewRests

(* A phase that moves is a step of the contract if the rest fits.          *)
LEMMA PhaseMoves ==
    ASSUME NEW m \in Messages, NEW from, NEW to, PhaseOf(m) \in from, PhaseOf(m)' = to,
           \A k \in Messages : k # m => ViewKept(k)
    PROVE  Contract!Move(m, from, to)
BY DEF ViewKept, Contract!Move
(* What no message of the contract changes, the whole table keeps.         *)
LEMMA GrantsStay ==
    ASSUME NEW m \in Messages, GrantedOf(m)' = GrantedOf(m),
           \A k \in Messages : k # m => ViewKept(k)
    PROVE  [k \in Messages |-> GrantedOf(k)]' = [k \in Messages |-> GrantedOf(k)]
BY DEF ViewKept

(* The same of the excuses.                                                *)
LEMMA ExcusesStay ==
    ASSUME NEW m \in Messages, ExcusedOf(m)' = ExcusedOf(m),
           \A k \in Messages : k # m => ViewKept(k)
    PROVE  [k \in Messages |-> ExcusedOf(k)]' = [k \in Messages |-> ExcusedOf(k)]
BY DEF ViewKept

(* A phase that is told and no grant that changes is a step of the         *)
(* contract.                                                               *)
LEMMA TellStep ==
    ASSUME NEW m \in Messages,
           GrantedOf(m)' = GrantedOf(m), ExcusedOf(m)' = ExcusedOf(m),
           \A k \in Messages : k # m => ViewKept(k),
           \/ PhaseOf(m) \in {"absent", "cleared"} /\ PhaseOf(m)' = "pending"
           \/ PhaseOf(m) = "pending" /\ PhaseOf(m)' = "cancelled"
           \/ PhaseOf(m) = "calling" /\ PhaseOf(m)' = "unknown"
           \/ PhaseOf(m) \in {"calling", "unknown"} /\ PhaseOf(m)' = "sent"
           \/ PhaseOf(m) \in {"calling", "unknown", "sent"} /\ PhaseOf(m)' = "delivered"
           \/ PhaseOf(m) \in {"calling", "unknown", "sent"} /\ PhaseOf(m)' = "failed"
           \/ PhaseOf(m)' = PhaseOf(m)
    PROVE  [Contract!Next]_(Contract!vars)
<1>1. /\ [k \in Messages |-> GrantedOf(k)]' = [k \in Messages |-> GrantedOf(k)]
      /\ [k \in Messages |-> ExcusedOf(k)]' = [k \in Messages |-> ExcusedOf(k)]
  BY GrantsStay, ExcusesStay
<1>2. CASE PhaseOf(m)' = PhaseOf(m)
  <2>1. [k \in Messages |-> PhaseOf(k)]' = [k \in Messages |-> PhaseOf(k)]
    BY <1>2 DEF ViewKept
  <2> QED
    BY <1>1, <2>1 DEF Contract!vars
<1>3. CASE \/ PhaseOf(m) \in {"absent", "cleared"} /\ PhaseOf(m)' = "pending"
           \/ PhaseOf(m) = "pending" /\ PhaseOf(m)' = "cancelled"
           \/ PhaseOf(m) = "calling" /\ PhaseOf(m)' = "unknown"
           \/ PhaseOf(m) \in {"calling", "unknown"} /\ PhaseOf(m)' = "sent"
           \/ PhaseOf(m) \in {"calling", "unknown", "sent"} /\ PhaseOf(m)' = "delivered"
           \/ PhaseOf(m) \in {"calling", "unknown", "sent"} /\ PhaseOf(m)' = "failed"
  <2>1. \/ Contract!Move(m, {"absent", "cleared"}, "pending")
        \/ Contract!Move(m, {"pending"}, "cancelled")
        \/ Contract!Move(m, {"calling"}, "unknown")
        \/ Contract!Move(m, {"calling", "unknown"}, "sent")
        \/ Contract!Move(m, {"calling", "unknown", "sent"}, "delivered")
        \/ Contract!Move(m, {"calling", "unknown", "sent"}, "failed")
    BY <1>3, PhaseMoves
  <2>2. Contract!Tell(m)
    BY <1>1, <2>1 DEF Contract!Tell
  <2> QED
    BY <2>2 DEF Contract!Next
<1> QED
  BY <1>2, <1>3

(* A phase that moves with every grant of the message excused.             *)
LEMMA ExcuseStep ==
    ASSUME NEW m \in Messages,
           GrantedOf(m)' = GrantedOf(m), ExcusedOf(m)' = GrantedOf(m),
           \A k \in Messages : k # m => ViewKept(k),
           \/ PhaseOf(m) = "calling" /\ PhaseOf(m)' = "pending"
           \/ PhaseOf(m) = "unknown" /\ PhaseOf(m)' = "cleared"
    PROVE  [Contract!Next]_(Contract!vars)
<1>1. Contract!Move(m, {"calling"}, "pending") \/ Contract!Move(m, {"unknown"}, "cleared")
  BY PhaseMoves
<1>2. Contract!Excuse(m)
  <2>1. [k \in Messages |-> GrantedOf(k)]' = [k \in Messages |-> GrantedOf(k)]
    BY GrantsStay
  <2>2. [k \in Messages |-> ExcusedOf(k)]' =
           [[k \in Messages |-> ExcusedOf(k)] EXCEPT ![m] = GrantedOf(m)]
    BY DEF ViewKept
  <2> QED
    BY <2>1, <2>2 DEF Contract!Excuse
<1>3. Contract!Refused(m) \/ Contract!Attested(m)
  BY <1>1, <1>2 DEF Contract!Refused, Contract!Attested
<1> QED
  BY <1>3 DEF Contract!Next

-----------------------------------------------------------------------------
(* Each kind of transaction is a step of the contract or none.             *)

(* A poll that claims shows nothing.                                       *)
LEMMA ClaimRefines ==
    ASSUME OutboxInv, NEW batch \in SUBSET Attempts, Claims(batch)
    PROVE  [Contract!Next]_(Contract!vars)
<1>1. ASSUME NEW m \in Messages PROVE ViewKept(m)
  <2>1. ASSUME NEW k \in 1 .. MaxAttempts
        PROVE  /\ attempt'[<<m, k>>].frontier = attempt[<<m, k>>].frontier
               /\ \/ attempt'[<<m, k>>].status = attempt[<<m, k>>].status
                  \/ /\ attempt[<<m, k>>].status \in {"QUEUED", "PROCESSING"}
                     /\ attempt'[<<m, k>>].status \in {"QUEUED", "PROCESSING"}
    <3>1. <<m, k>> \in Attempts
      BY AttemptKeys
    <3> QED
      BY <3>1 DEF Claims, FrontierKept
  <2>2. /\ message'[m].count = message[m].count
        /\ \/ message'[m].status = message[m].status
           \/ message'[m].status \in OpenStatus /\ message[m].status \in OpenStatus
    BY DEF Claims, OpenStatus
  <2> QED
    BY <2>1, <2>2, ViewRests
<1> QED
  BY <1>1 DEF ViewKept, Contract!vars

(* A reservation makes the message pending.                                *)
LEMMA AcceptRefines ==
    ASSUME OutboxInv, GrantsAreCalls, GrantsAreCalls', NEW m \in Messages, Accepts(m)
    PROVE  [Contract!Next]_(Contract!vars)
<1>1. <<m, 1>> \in Attempts /\ <<m, 1>>[1] = m
  BY FirstAttempt, AttemptKeys
<1>2. \A k \in Messages : k # m => ViewKept(k)
  BY <1>1, OthersRest DEF Accepts
<1>3. /\ attempt'[<<m, 1>>].frontier = FALSE /\ attempt'[<<m, 1>>].status = "QUEUED"
  BY QueuedFields DEF Accepts
<1>4. message[m].count = 0 /\ message'[m].count = 1
  BY DEF Accepts
<1>5. GrantedOf(m) = {} /\ ExcusedOf(m) = {}
  BY <1>4 DEF GrantsAreCalls
<1>6. GrantedOf(m)' = {} /\ ExcusedOf(m)' = {}
  BY <1>3, <1>4 DEF GrantsAreCalls, Latest
<1>7. PhaseOf(m) = "absent" /\ PhaseOf(m)' = "pending"
  BY <1>3, <1>4 DEF Accepts, PhaseOf, Latest, OpenStatus
<1> QED
  BY <1>2, <1>5, <1>6, <1>7, TellStep

(* What Only(a) says of the other messages and of a itself.                *)
LEMMA OnlyView ==
    ASSUME OutboxInv, GrantsAreCalls, GrantsAreCalls', NEW a \in Attempts, Only(a)
    PROVE  /\ a[1] \in Messages /\ message[a[1]].status \in MessageStatus
           /\ \A k \in Messages : k # a[1] => ViewKept(k)
           /\ Latest(a[1]) = a /\ Latest(a[1])' = a
           /\ attempt[a].status \in StatusesFor(message[a[1]].status)
           /\ GrantedOf(a[1]) = {k \in 1 .. MaxAttempts :
                 k < a[2] \/ (k = a[2] /\ attempt[a].frontier)}
           /\ GrantedOf(a[1])' = {k \in 1 .. MaxAttempts :
                 k < a[2] \/ (k = a[2] /\ attempt'[a].frontier)}
           /\ ExcusedOf(a[1]) = {k \in 1 .. MaxAttempts :
                 k < a[2] \/ (k = a[2] /\ attempt[a].status = "RESOLVED_NOT_SENT")}
           /\ ExcusedOf(a[1])' = {k \in 1 .. MaxAttempts :
                 k < a[2] \/ (k = a[2] /\ attempt'[a].status = "RESOLVED_NOT_SENT")}
<1>1. a[1] \in Messages /\ a = <<a[1], a[2]>>
  BY AttemptKeys
<1>2. \A k \in Messages : k # a[1] => ViewKept(k)
  BY <1>1, OthersRest DEF Only
<1>3. a[2] = message[a[1]].count /\ a[2] = message'[a[1]].count
  BY DEF Only
<1>4. Latest(a[1]) = a /\ Latest(a[1])' = a
  BY <1>1, <1>3 DEF Latest
<1>5. attempt[a].status \in StatusesFor(message[a[1]].status)
  BY <1>1, <1>3 DEF OutboxInv, RowsAgree
<1> DEFINE m == a[1]
<1>6. /\ GrantedOf(m) = {k \in 1 .. MaxAttempts :
            k < a[2] \/ (k = a[2] /\ attempt[a].frontier)}
      /\ ExcusedOf(m) = {k \in 1 .. MaxAttempts :
            k < a[2] \/ (k = a[2] /\ attempt[a].status = "RESOLVED_NOT_SENT")}
  BY <1>1, <1>3, <1>4 DEF GrantsAreCalls
<1>7. /\ GrantedOf(m)' = {k \in 1 .. MaxAttempts :
            k < a[2] \/ (k = a[2] /\ attempt'[a].frontier)}
      /\ ExcusedOf(m)' = {k \in 1 .. MaxAttempts :
            k < a[2] \/ (k = a[2] /\ attempt'[a].status = "RESOLVED_NOT_SENT")}
  BY <1>1, <1>3, <1>4 DEF GrantsAreCalls
<1> QED
  BY <1>1, <1>2, <1>4, <1>5, <1>6, <1>7, LatestRow

(* The phase of a message, by its status and its latest attempt.           *)
LEMMA PhaseTable ==
    ASSUME NEW m \in Messages
    PROVE  /\ message[m].status \in OpenStatus =>
                 PhaseOf(m) = IF attempt[Latest(m)].frontier THEN "calling" ELSE "pending"
           /\ message[m].status = "AMBIGUOUS" =>
                 PhaseOf(m) = IF attempt[Latest(m)].status = "AMBIGUOUS"
                              THEN "unknown" ELSE "cleared"
           /\ message[m].status = "SENT" => PhaseOf(m) = "sent"
           /\ message[m].status = "DELIVERED" => PhaseOf(m) = "delivered"
           /\ message[m].status = "FAILED" => PhaseOf(m) = "failed"
           /\ message[m].status = "CANCELLED" => PhaseOf(m) = "cancelled"
BY DEF PhaseOf, OpenStatus

(* The same after the step.                                                *)
LEMMA NextPhaseTable ==
    ASSUME NEW m \in Messages, NEW a, Latest(m)' = a
    PROVE  /\ message'[m].status \in OpenStatus =>
                 PhaseOf(m)' = IF attempt'[a].frontier THEN "calling" ELSE "pending"
           /\ message'[m].status = "AMBIGUOUS" =>
                 PhaseOf(m)' = IF attempt'[a].status = "AMBIGUOUS"
                               THEN "unknown" ELSE "cleared"
           /\ message'[m].status = "SENT" => PhaseOf(m)' = "sent"
           /\ message'[m].status = "DELIVERED" => PhaseOf(m)' = "delivered"
           /\ message'[m].status = "FAILED" => PhaseOf(m)' = "failed"
           /\ message'[m].status = "CANCELLED" => PhaseOf(m)' = "cancelled"
BY DEF PhaseOf, OpenStatus

(* A flag shows nothing.                                                   *)
LEMMA FlagRefines ==
    ASSUME OutboxInv, GrantsAreCalls, GrantsAreCalls', NEW a \in Attempts, Flags(a)
    PROVE  [Contract!Next]_(Contract!vars)
<1>1. Only(a) /\ attempt'[a].frontier = attempt[a].frontier
      /\ attempt'[a].status = attempt[a].status /\ message'[a[1]] = message[a[1]]
  BY DEF Flags, FrontierKept
<1>2. ViewKept(a[1])
  <2>1. \A k \in 1 .. MaxAttempts :
           /\ attempt'[<<a[1], k>>].frontier = attempt[<<a[1], k>>].frontier
           /\ attempt'[<<a[1], k>>].status = attempt[<<a[1], k>>].status
    BY <1>1, AttemptKeys DEF Only
  <2> QED
    BY <1>1, <2>1, ViewRests, AttemptKeys
<1> QED
  BY <1>1, <1>2, OnlyView, TellStep DEF ViewKept

(* The frontier is the grant: every earlier attempt is excused.            *)
LEMMA AuthoriseRefines ==
    ASSUME OutboxInv, GrantsAreCalls, GrantsAreCalls', NEW a \in Attempts, Authorises(a)
    PROVE  [Contract!Next]_(Contract!vars)
<1> DEFINE m == a[1]
<1>1. /\ Only(a) /\ message[m].status = "PROCESSING" /\ message'[m] = message[m]
      /\ ~attempt[a].frontier /\ attempt'[a].frontier
      /\ attempt[a].status = "PROCESSING" /\ attempt'[a].status = "PROCESSING"
  BY DEF Authorises
<1>2. m \in Messages /\ a[2] \in 1 .. MaxAttempts /\ a[2] \in Nat
  BY AttemptKeys
<1>3. /\ \A k \in Messages : k # m => ViewKept(k)
      /\ Latest(m) = a /\ Latest(m)' = a
      /\ GrantedOf(m) = {k \in 1 .. MaxAttempts : k < a[2]}
      /\ ExcusedOf(m) = {k \in 1 .. MaxAttempts : k < a[2]}
      /\ GrantedOf(m)' = {k \in 1 .. MaxAttempts : k < a[2] \/ k = a[2]}
      /\ ExcusedOf(m)' = {k \in 1 .. MaxAttempts : k < a[2]}
  BY <1>1, OnlyView
<1>4. PhaseOf(m) = "pending" /\ PhaseOf(m)' = "calling"
  BY <1>1, <1>2, <1>3, PhaseTable, NextPhaseTable DEF OpenStatus
<1> HIDE DEF m
<1>5. Contract!Move(m, {"pending"}, "calling")
  BY <1>2, <1>3, <1>4, PhaseMoves
<1>6. GrantedOf(m) \ ExcusedOf(m) = {} /\ a[2] \notin GrantedOf(m)
      /\ GrantedOf(m)' = GrantedOf(m) \cup {a[2]} /\ ExcusedOf(m)' = ExcusedOf(m)
  BY <1>2, <1>3
<1>7. [k \in Messages |-> GrantedOf(k)]' =
         [[k \in Messages |-> GrantedOf(k)] EXCEPT ![m] = @ \cup {a[2]}]
  BY <1>2, <1>3, <1>6 DEF ViewKept
<1>8. [k \in Messages |-> ExcusedOf(k)]' = [k \in Messages |-> ExcusedOf(k)]
  BY <1>2, <1>3, <1>6, ExcusesStay
<1>9. Contract!Grant(m, a[2])
  BY <1>2, <1>5, <1>6, <1>7, <1>8 DEF Contract!Grant, Contract!Live
<1> QED
  BY <1>2, <1>9 DEF Contract!Next

(* Cancelling, doubting, failing: the message is told and no grant moves.  *)
LEMMA CloseRefines ==
    ASSUME OutboxInv, GrantsAreCalls, GrantsAreCalls', NEW a \in Attempts,
           Cancels(a) \/ Doubts(a) \/ Fails(a)
    PROVE  [Contract!Next]_(Contract!vars)
<1> DEFINE m == a[1]
<1>1. /\ Only(a) /\ attempt'[a].frontier = attempt[a].frontier
      /\ attempt[a].status # "RESOLVED_NOT_SENT" /\ attempt'[a].status # "RESOLVED_NOT_SENT"
  BY DEF Cancels, Doubts, Fails, FrontierKept
<1>2. /\ m \in Messages /\ Latest(m) = a /\ Latest(m)' = a
      /\ \A k \in Messages : k # m => ViewKept(k)
  BY <1>1, OnlyView
<1>3. GrantedOf(m)' = GrantedOf(m) /\ ExcusedOf(m)' = ExcusedOf(m)
  BY <1>1, OnlyView
<1>4. \/ PhaseOf(m) = "pending" /\ PhaseOf(m)' = "cancelled"
      \/ PhaseOf(m) = "calling" /\ PhaseOf(m)' = "unknown"
      \/ PhaseOf(m) = "calling" /\ PhaseOf(m)' = "failed"
  <2>1. CASE Cancels(a)
    BY <1>2, <2>1, PhaseTable, NextPhaseTable DEF Cancels
  <2>2. CASE Doubts(a)
    BY <1>2, <2>2, PhaseTable, NextPhaseTable DEF Doubts, OpenStatus
  <2>3. CASE Fails(a)
    BY <1>2, <2>3, PhaseTable, NextPhaseTable DEF Fails, OpenStatus
  <2> QED
    BY <2>1, <2>2, <2>3
<1> HIDE DEF m
<1> QED
  BY <1>2, <1>3, <1>4, TellStep

(* An attestation excuses the one grant that was in doubt.                 *)
LEMMA AttestRefines ==
    ASSUME OutboxInv, TruthInv, GrantsAreCalls, GrantsAreCalls', NEW a \in Attempts,
           Attests(a)
    PROVE  [Contract!Next]_(Contract!vars)
<1> DEFINE m == a[1]
<1>1. /\ Only(a) /\ attempt'[a].frontier = attempt[a].frontier
      /\ attempt[a].status = "AMBIGUOUS" /\ attempt'[a].status = "RESOLVED_NOT_SENT"
      /\ message'[m] = message[m]
  BY DEF Attests, FrontierKept
<1>2. /\ m \in Messages /\ Latest(m) = a /\ Latest(m)' = a
      /\ \A k \in Messages : k # m => ViewKept(k)
  BY <1>1, OnlyView
<1>3. attempt[a].frontier /\ attempt'[a].frontier
  BY <1>1 DEF TruthInv, SettledWasCalled
<1>4. GrantedOf(m)' = GrantedOf(m) /\ ExcusedOf(m)' = GrantedOf(m)
  BY <1>1, <1>3, OnlyView
<1>5. message[m].status = "AMBIGUOUS"
  BY <1>1, BoundFrom DEF OutboxInv, Only
<1>6. PhaseOf(m) = "unknown" /\ PhaseOf(m)' = "cleared"
  BY <1>1, <1>2, <1>5, PhaseTable, NextPhaseTable
<1> HIDE DEF m
<1> QED
  BY <1>2, <1>4, <1>6, ExcuseStep

(* A bound report tells the message what the provider did.                 *)
LEMMA BindRefines ==
    ASSUME OutboxInv, GrantsAreCalls, GrantsAreCalls', NEW a \in Attempts,
           NEW status \in ReportedStatus, Binds(a, status)
    PROVE  [Contract!Next]_(Contract!vars)
<1> DEFINE m == a[1]
<1>1. /\ Only(a) /\ attempt'[a].frontier = attempt[a].frontier /\ attempt[a].frontier
      /\ attempt[a].status \in {"PROCESSING", "AMBIGUOUS", "SUCCEEDED", "FAILED"}
      /\ message'[m].status = ApplicationStatusFor(status)
      /\ OutcomeGuard(status, message[m].status = "DELIVERED", message[m].status = "FAILED")
  BY DEF Binds, FrontierKept
<1>2. attempt'[a].status \in {"SUCCEEDED", "FAILED"}
  BY BindsAllowed DEF OutboxInv
<1>3. /\ m \in Messages /\ Latest(m) = a /\ Latest(m)' = a
      /\ \A k \in Messages : k # m => ViewKept(k)
  BY <1>1, OnlyView
<1>4. GrantedOf(m)' = GrantedOf(m) /\ ExcusedOf(m)' = ExcusedOf(m)
  <2>1. attempt[a].status # "RESOLVED_NOT_SENT" /\ attempt'[a].status # "RESOLVED_NOT_SENT"
    BY <1>1, <1>2
  <2> QED
    BY <1>1, <2>1, OnlyView
<1>5. \/ message[m].status = "PROCESSING" /\ PhaseOf(m) = "calling"
      \/ message[m].status = "AMBIGUOUS" /\ PhaseOf(m) = "unknown"
      \/ message[m].status = "SENT" /\ PhaseOf(m) = "sent"
      \/ message[m].status = "DELIVERED" /\ PhaseOf(m) = "delivered"
      \/ message[m].status = "FAILED" /\ PhaseOf(m) = "failed"
  <2>1. /\ attempt[a].status = "PROCESSING" => message[m].status = "PROCESSING"
        /\ attempt[a].status = "AMBIGUOUS" => message[m].status = "AMBIGUOUS"
        /\ attempt[a].status = "FAILED" => message[m].status = "FAILED"
        /\ attempt[a].status = "SUCCEEDED" =>
              message[m].status \in {"SENT", "DELIVERED", "FAILED"}
    BY <1>1, BoundFrom DEF OutboxInv, Only
  <2>2. CASE attempt[a].status = "PROCESSING"
    BY <1>1, <1>3, <2>1, <2>2, PhaseTable DEF OpenStatus
  <2>3. CASE attempt[a].status = "AMBIGUOUS"
    BY <1>3, <2>1, <2>3, PhaseTable
  <2>4. CASE attempt[a].status \in {"SUCCEEDED", "FAILED"}
    BY <1>3, <2>1, <2>4, PhaseTable
  <2> QED
    BY <1>1, <2>2, <2>3, <2>4
<1> DEFINE old == message[m].status
<1>6. \/ PhaseOf(m)' = "sent" /\ old \notin {"DELIVERED", "FAILED"}
      \/ PhaseOf(m)' = "delivered" /\ old # "FAILED"
      \/ PhaseOf(m)' = "failed" /\ old # "DELIVERED"
  <2>1. status \in {"queued", "sent", "delivered", "undelivered"}
    BY DEF ReportedStatus
  <2>2. /\ "delivered" \in Successes /\ "delivered" \notin Failures
        /\ "undelivered" \in Failures
        /\ \A s \in {"queued", "sent"} : s \notin Failures /\ s \notin Successes
    BY DEF Failures, Successes
  <2>3. CASE status \in {"queued", "sent"}
    BY <1>1, <1>3, <2>2, <2>3, NextPhaseTable DEF ApplicationStatusFor, OutcomeGuard, Terminal
  <2>4. CASE status = "delivered"
    BY <1>1, <1>3, <2>2, <2>4, NextPhaseTable DEF ApplicationStatusFor, OutcomeGuard, Terminal
  <2>5. CASE status = "undelivered"
    BY <1>1, <1>3, <2>2, <2>5, NextPhaseTable DEF ApplicationStatusFor, OutcomeGuard, Terminal
  <2> QED
    BY <2>1, <2>3, <2>4, <2>5
<1>7. \/ PhaseOf(m) \in {"calling", "unknown"} /\ PhaseOf(m)' = "sent"
      \/ PhaseOf(m) \in {"calling", "unknown", "sent"} /\ PhaseOf(m)' = "delivered"
      \/ PhaseOf(m) \in {"calling", "unknown", "sent"} /\ PhaseOf(m)' = "failed"
      \/ PhaseOf(m)' = PhaseOf(m)
  BY <1>5, <1>6
<1> HIDE DEF m
<1> QED
  BY <1>3, <1>4, <1>7, TellStep

(* A successor is queued once its predecessor is excused.                  *)
LEMMA ReopenRefines ==
    ASSUME OutboxInv, TruthInv, GrantsAreCalls, GrantsAreCalls', NEW a \in Attempts,
           Reopens(a)
    PROVE  [Contract!Next]_(Contract!vars)
<1> DEFINE m == a[1]
           b == Successor(a)
<1>1. /\ a[2] < MaxAttempts /\ a[2] = message[m].count /\ message'[m].count = a[2] + 1
      /\ message'[m].status = "SCHEDULED"
      /\ \/ /\ attempt[a].status = "PROCESSING" /\ message[m].status = "PROCESSING"
            /\ attempt[a].frontier
         \/ attempt[a].status = "RESOLVED_NOT_SENT" /\ message[m].status = "AMBIGUOUS"
  BY DEF Reopens
<1>2. /\ m \in Messages /\ a[2] \in Nat /\ a = <<m, a[2]>> /\ a[1] = m
      /\ b \in Attempts /\ b[1] = m /\ b = <<m, a[2] + 1>>
  BY <1>1, AttemptKeys, SuccessorKey DEF Successor
<1>3. \A k \in Messages : k # m => ViewKept(k)
  <2>1. \A c \in Attempts : c[1] # m => attempt'[c] = attempt[c]
    BY <1>2 DEF Reopens
  <2> QED
    BY <1>2, <2>1, OthersRest DEF Reopens
<1>4. Latest(m) = a /\ Latest(m)' = b
  BY <1>1, <1>2 DEF Latest
<1>5. attempt'[b].frontier = FALSE /\ attempt'[b].status = "QUEUED"
  BY QueuedFields DEF Reopens
<1>6. attempt[a].frontier
  BY <1>1 DEF TruthInv, SettledWasCalled
<1> HIDE DEF m, b
<1>7. \A k \in 1 .. MaxAttempts : k < a[2] + 1 <=> k < a[2] \/ k = a[2]
  BY <1>2
<1>8. /\ GrantedOf(m) = {k \in 1 .. MaxAttempts : k < a[2] + 1}
      /\ ExcusedOf(m) = {k \in 1 .. MaxAttempts :
            k < a[2] \/ (k = a[2] /\ attempt[a].status = "RESOLVED_NOT_SENT")}
  BY <1>1, <1>2, <1>4, <1>6, <1>7 DEF GrantsAreCalls
<1>9. /\ GrantedOf(m)' = {k \in 1 .. MaxAttempts : k < a[2] + 1}
      /\ ExcusedOf(m)' = {k \in 1 .. MaxAttempts : k < a[2] + 1}
  BY <1>1, <1>2, <1>4, <1>5 DEF GrantsAreCalls
<1>10. PhaseOf(m)' = "pending"
  BY <1>1, <1>2, <1>4, <1>5, NextPhaseTable DEF OpenStatus
<1>11. CASE attempt[a].status = "PROCESSING" /\ message[m].status = "PROCESSING"
  <2>1. PhaseOf(m) = "calling"
    BY <1>2, <1>4, <1>6, <1>11, PhaseTable DEF OpenStatus
  <2> QED
    BY <1>2, <1>3, <1>8, <1>9, <1>10, <2>1, ExcuseStep
<1>12. CASE attempt[a].status = "RESOLVED_NOT_SENT" /\ message[m].status = "AMBIGUOUS"
  <2>1. PhaseOf(m) = "cleared"
    BY <1>2, <1>4, <1>12, PhaseTable
  <2>2. ExcusedOf(m) = {k \in 1 .. MaxAttempts : k < a[2] + 1}
    BY <1>7, <1>8, <1>12
  <2> QED
    BY <1>2, <1>3, <1>8, <1>9, <1>10, <2>1, <2>2, TellStep
<1> QED
  BY <1>1, <1>11, <1>12

(* Every step of the outbox is a step of the contract or shows nothing.    *)
LEMMA StepRefines ==
    ASSUME OutboxInv, TruthInv, GrantsAreCalls, GrantsAreCalls', [Next]_vars
    PROVE  [Contract!Next]_(Contract!vars)
<1>1. CASE UNCHANGED rows
  <2>1. \A m \in Messages : ViewKept(m)
    BY <1>1, ViewRests DEF rows
  <2> QED
    BY <2>1 DEF ViewKept, Contract!vars
<1> QED
  BY <1>1, ClaimRefines, AcceptRefines, FlagRefines, AuthoriseRefines, CloseRefines,
     AttestRefines, BindRefines, ReopenRefines, StepMoves DEF RowsMove

(* The first state of the outbox is the first of the contract.             *)
LEMMA InitRefines == Init => Contract!Init
<1> SUFFICES ASSUME Init PROVE Contract!Init
  OBVIOUS
<1>1. ASSUME NEW m \in Messages
      PROVE  PhaseOf(m) = "absent" /\ GrantedOf(m) = {} /\ ExcusedOf(m) = {}
  <2>1. message[m].status = "NONE"
    BY DEF Init, NoMessage
  <2>2. \A k \in 1 .. MaxAttempts :
           ~attempt[<<m, k>>].frontier /\ attempt[<<m, k>>].status = "NONE"
    BY AttemptKeys DEF Init, NoRow
  <2> QED
    BY <2>1, <2>2 DEF PhaseOf, GrantedOf, ExcusedOf, OpenStatus
<1> QED
  BY <1>1 DEF Contract!Init

(* The outbox implements the contract, for any number of messages, workers *)
(* and attempts: whatever requests, workers, callbacks and faults do, a    *)
(* tenant sees one grant at a time, excused before the next, and an        *)
(* outcome that only moves forward.                                        *)
THEOREM OutboxKeepsContract == Spec => ImplementsContract
<1>1. Init => Contract!Init
  BY InitRefines
<1>2. OutboxInv /\ TruthInv => GrantsAreCalls
  BY GrantsFollow
<1>3. /\ OutboxInv /\ TruthInv /\ GrantsAreCalls /\ GrantsAreCalls' /\ [Next]_vars
      => [Contract!Next]_(Contract!vars)
  BY StepRefines
<1> QED
  BY <1>1, <1>2, <1>3, TruthInvariant, PTL DEF Spec, ImplementsContract, Contract!Spec

=============================================================================
