--------------------------- MODULE PublicRequests ---------------------------
(* What a client of the public API meets, composed: the admission of its    *)
(* requests and the answers under their idempotency keys (PublicApi), and    *)
(* what its campaign routes do while workers send a campaign               *)
(* (CampaignQueue).  The two share no row, and both may be taken by the     *)
(* same requests; which of them moves is chosen at the start and stays, so  *)
(* that their behaviours stand side by side, not multiplied.                *)
EXTENDS PublicApi

CONSTANTS Contacts, Workers, NoOwner, LastTime, MaxFaults  \* CampaignQueue

VARIABLES
    scene,                                         \* the module that moves
    campaign, recipients, job, messages, consenting, everBlocked, worker,
    transaction, clock, faults

Queue == INSTANCE CampaignQueue WITH
    Requests <- Request, Interfaces <- {"public"}, MaxTime <- LastTime,
    request <- transaction, now <- clock

\* What the queue takes for granted of its constants.
ASSUME QueueConstants == NoOwner \notin Workers /\ LastTime \in Nat /\ MaxFaults \in Nat

queueVars == <<campaign, recipients, job, messages, consenting, everBlocked, worker,
               transaction, clock, faults>>
allVars == <<scene, vars, queueVars>>

PublicInit == scene \in {"admission", "campaign"} /\ Init /\ Queue!Init

AdmissionMoves == scene = "admission" /\ Next /\ UNCHANGED <<scene, queueVars>>
CampaignMoves == scene = "campaign" /\ Queue!Next /\ UNCHANGED <<scene, vars>>

PublicSpec == PublicInit /\ [][AdmissionMoves \/ CampaignMoves]_allVars

-----------------------------------------------------------------------------
(* The properties of CampaignQueue that rest on its callers being clients   *)
(* of the public API, stated and explained there.                           *)

\* A waiting job is the current schedule and a running one the latest.
LiveJobIsCurrent == Queue!LiveJobIsCurrent

\* A completed campaign has a message for everyone who stayed opted in.
CompletedReachedEveryone == Queue!CompletedReachedEveryone

\* Recipients change only in a draft, and a completed campaign never.
OnlyDraftsChange == Queue!OnlyDraftsChange
=============================================================================
