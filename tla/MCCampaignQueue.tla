--------------------------- MODULE MCCampaignQueue ---------------------------
(* Instances of the campaign queue for TLC.  Contacts, workers and requests *)
(* are interchangeable, so the safety runs may permute them; times are not. *)
EXTENDS CampaignQueue, TLC

CONSTANTS c1, c2, w1, w2, r1, r2

OneContact  == {c1}
TwoContacts == {c1, c2}
OneWorker   == {w1}
TwoWorkers  == {w1, w2}
OneRequest  == {r1}
TwoRequests == {r1, r2}
Console == {"console"}
Public  == {"public"}
Both    == {"console", "public"}

Interchangeable ==
    Permutations(Contacts) \cup Permutations(Workers) \cup Permutations(Requests)

(* No action, fairness condition or property of queue_liveness reads       *)
(* messages or everBlocked, and no step changes them alone: states that    *)
(* differ in nothing else behave alike and are not told apart there.       *)
WithoutHistory == <<campaign, recipients, job, consenting, worker, request, now, faults>>
=============================================================================
