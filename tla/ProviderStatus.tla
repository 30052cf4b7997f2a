--------------------------- MODULE ProviderStatus ---------------------------
(***************************************************************************)
(* The ordering of provider delivery statuses and the guard under which a  *)
(* signed status callback may overwrite the status a row already shows.    *)
(*                                                                         *)
(* The code builds the guard as a Prisma `where` clause, so the check and  *)
(* the write are one UPDATE.  Here it is a predicate on the row.           *)
(***************************************************************************)
EXTENDS Naturals, Sequences

None == "none"      \* providerStatus IS NULL

(* Statuses in the order the provider reaches them; the members of one     *)
(* group share a rank.                                                     *)
ProgressiveGroups == <<
    {"scheduled", "accepted"},
    {"queued", "receiving"},
    {"sending"},
    {"sent"},
    {"delivered", "received"},
    {"read"} >>

UpToGroup(i) == UNION {ProgressiveGroups[j] : j \in 1 .. i}

Progressive == UpToGroup(Len(ProgressiveGroups))
Failures    == {"failed", "undelivered", "canceled"}
Known       == Progressive \cup Failures
Successes   == {"delivered", "received", "read"}
Terminal    == Successes \cup Failures
Early       == UpToGroup(2)

GroupOf(status) ==
    CHOOSE i \in 1 .. Len(ProgressiveGroups) : status \in ProgressiveGroups[i]

AllowedKnownUnordered(next) == Known

AllowedKnownFailureLate(next) ==
    IF next \in Failures THEN UpToGroup(5) \cup {next}
    ELSE IF next \notin Progressive THEN Early
    ELSE UpToGroup(GroupOf(next))

(* The known statuses a row may show for next to overwrite it.             *)
AllowedKnown(next) ==
    IF next \in Failures THEN UpToGroup(4) \cup {next}
    ELSE IF next \notin Progressive THEN Early
    ELSE {s \in UpToGroup(GroupOf(next)) :
             next \in Terminal /\ s \in Terminal =>
                 s = next \/ (next = "read" /\ s \in {"delivered", "received"})}

(* The OR branch of the guard: it looks at providerStatus alone.           *)
StatusGuard(next, shown) ==
    \/ shown = None
    \/ shown \in AllowedKnown(next)
    \/ shown \notin Known

(* The timestamp branch: a recorded outcome shuts out what contradicts it. *)
OutcomeGuard(next, deliveredAt, failedAt) ==
    /\ next \in Failures => ~deliveredAt
    /\ next \in Successes => ~failedAt
    /\ next \notin Terminal => ~deliveredAt /\ ~failedAt

UpdateGuard(next, shown, deliveredAt, failedAt) ==
    StatusGuard(next, shown) /\ OutcomeGuard(next, deliveredAt, failedAt)

(* What a correlated callback makes of the message and of an attempt that  *)
(* is still PROCESSING or AMBIGUOUS.                                       *)
ApplicationStatusFor(status) ==
    IF status \in Failures THEN "FAILED"
    ELSE IF status \in Successes THEN "DELIVERED"
    ELSE "SENT"

AttemptStatusLeftAmbiguous(current, status) ==
    IF current # "PROCESSING" THEN current
    ELSE IF status \in Failures THEN "FAILED"
    ELSE "SUCCEEDED"

AttemptStatusOfMessage(current, status) == ApplicationStatusFor(status)

AttemptStatusFor(current, status) ==
    IF current \notin {"PROCESSING", "AMBIGUOUS"} THEN current
    ELSE IF status \in Failures THEN "FAILED"
    ELSE "SUCCEEDED"
=============================================================================
