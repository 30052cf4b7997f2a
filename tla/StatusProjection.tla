-------------------------- MODULE StatusProjection --------------------------
(***************************************************************************)
(* One provider message and the two rows that show its delivery status:    *)
(* the Message projection and the MessageAttempt that sent it.  Three      *)
(* writers race on them: the worker that persists the provider's response, *)
(* the correlated status callback, and the legacy callback that finds the  *)
(* Message by provider SID alone.  The provider delivers each report any   *)
(* number of times and in any order.                                       *)
(*                                                                         *)
(* One callback request is one step: the route runs the event claim, the   *)
(* row updates and the processed mark in one tenant transaction that holds *)
(* both rows.  Timestamps are the booleans "is not null".                  *)
(***************************************************************************)
EXTENDS ProviderStatus

CONSTANTS
    Reports,        \* statuses the provider reports for this message
    LegacyReports,  \* those that may also arrive without correlation evidence
    ResponseStatus  \* statuses the create call itself may answer with

VARIABLES
    message,    \* [applicationStatus, bound (SID known), shown, deliveredAt, failedAt]
    attempt,    \* [status, shown]
    processed,  \* reports whose WebhookEvent row is processed (the dedupe key)
    answered    \* the status the worker persisted from the response, or None

vars == <<message, attempt, processed, answered>>

ApplicationStatus == {"PROCESSING", "AMBIGUOUS", "SENT", "DELIVERED", "FAILED"}
AttemptStatus     == {"PROCESSING", "AMBIGUOUS", "SUCCEEDED", "FAILED"}
Shown             == Reports \cup ResponseStatus \cup {None}

TypeOK ==
    /\ message \in [applicationStatus : ApplicationStatus, bound : BOOLEAN,
                    shown : Shown, deliveredAt : BOOLEAN, failedAt : BOOLEAN]
    /\ attempt \in [status : AttemptStatus, shown : Shown]
    /\ processed \subseteq Reports
    /\ answered \in ResponseStatus \cup {None}

Init ==
    /\ message = [applicationStatus |-> "PROCESSING", bound |-> FALSE,
                  shown |-> None, deliveredAt |-> FALSE, failedAt |-> FALSE]
    /\ attempt = [status |-> "PROCESSING", shown |-> None]
    /\ processed = {}
    /\ answered = None

-----------------------------------------------------------------------------
(* The worker finalizes a create response that carries the SID.            *)
PersistResponse(status) ==
    /\ attempt.status = "PROCESSING" /\ message.applicationStatus = "PROCESSING"
    /\ answered' = status
    /\ attempt' = [status |-> AttemptStatusFor("PROCESSING", status), shown |-> status]
    /\ message' = [applicationStatus |-> ApplicationStatusFor(status), bound |-> TRUE,
                   shown |-> status,
                   deliveredAt |-> ApplicationStatusFor(status) = "DELIVERED",
                   failedAt |-> ApplicationStatusFor(status) = "FAILED"]
    /\ UNCHANGED processed

(* The response is lost: the attempt is left for review without a SID.     *)
LoseResponse ==
    /\ attempt.status = "PROCESSING" /\ message.applicationStatus = "PROCESSING"
    /\ attempt' = [attempt EXCEPT !.status = "AMBIGUOUS"]
    /\ message' = [message EXCEPT !.applicationStatus = "AMBIGUOUS"]
    /\ UNCHANGED <<processed, answered>>

MessageAccepts(status) ==
    UpdateGuard(status, message.shown, message.deliveredAt, message.failedAt)

(* twilioStatusTransition: only "delivered" itself stamps deliveredAt.     *)
LegacyTransition(status) ==
    [message EXCEPT !.shown = status,
        !.deliveredAt = (@ /\ status \notin Failures) \/ status = "delivered",
        !.failedAt = (@ /\ status # "delivered") \/ status \in Failures]

CorrelatedTransitionUnshown(status) ==
    [message EXCEPT !.bound = TRUE, !.applicationStatus = ApplicationStatusFor(status)]

CorrelatedTransition(status) ==
    LET app == ApplicationStatusFor(status)
    IN  [message EXCEPT !.shown = status, !.bound = TRUE, !.applicationStatus = app,
            !.deliveredAt = (@ /\ app # "FAILED") \/ app = "DELIVERED",
            !.failedAt = (@ /\ app # "DELIVERED") \/ app = "FAILED"]

(* The message row takes the report but the attempt row refuses it: the    *)
(* handler throws, the transaction rolls back, the event stays unprocessed.*)
Conflicts(status) == MessageAccepts(status) /\ ~StatusGuard(status, attempt.shown)

CorrelatedCallback(status) ==
    /\ status \in Reports \ processed
    /\ ~Conflicts(status)
    /\ processed' = processed \cup {status}
    /\ IF MessageAccepts(status)
       THEN /\ message' = CorrelatedTransition(status)
            /\ attempt' = [status |-> AttemptStatusFor(attempt.status, status),
                           shown |-> status]
       ELSE UNCHANGED <<message, attempt>>
    /\ UNCHANGED answered

(* The legacy path needs the SID on the Message; unmatched reports release *)
(* their claim and change nothing.                                         *)
LegacyCallback(status) ==
    /\ status \in LegacyReports \ processed
    /\ message.bound
    /\ processed' = processed \cup {status}
    /\ message' = IF MessageAccepts(status) THEN LegacyTransition(status) ELSE message
    /\ UNCHANGED <<attempt, answered>>

Next ==
    \/ \E status \in ResponseStatus : PersistResponse(status)
    \/ LoseResponse
    \/ \E status \in Reports : CorrelatedCallback(status) \/ LegacyCallback(status)

Spec == Init /\ [][Next]_vars

-----------------------------------------------------------------------------
Heard == processed \cup ({answered} \ {None})

(* Order independence.  Whatever order, duplication and writer brought the *)
(* reports, the message shows the furthest progress heard so far, or, once *)
(* an outcome was heard, an outcome ("read" once it was heard, unless a    *)
(* failure was).  Claimed while only statuses this version knows were      *)
(* heard.                                                                  *)
FurthestReportShown ==
    Heard \subseteq Known /\ Heard # {} =>
        IF Heard \cap Terminal # {}
        THEN /\ message.shown \in Heard \cap Terminal
             /\ "read" \in Heard /\ Heard \cap Failures = {} => message.shown = "read"
        ELSE /\ message.shown \in Heard
             /\ \A s \in Heard : GroupOf(s) <= GroupOf(message.shown)

(* A correlated callback never finds the message willing and the attempt   *)
(* unwilling, so it never rolls back with "status transition conflicted":  *)
(* legacy updates leave the attempt behind the message, never ahead of it. *)
CorrelatedNeverConflicts ==
    Heard \subseteq Known =>
        \A s \in (Reports \ processed) \cap Known : ~Conflicts(s)

(* An outcome is final: no report, known or not, ever replaces a success   *)
(* with a failure, a failure with anything, or clears either.              *)
OutcomeIsFinal ==
    [][/\ message.shown \in Failures => message'.shown = message.shown
       /\ message.shown \in Successes => message'.shown \in Successes
       /\ message.deliveredAt => message'.deliveredAt
       /\ message.failedAt => message'.failedAt]_vars
=============================================================================
