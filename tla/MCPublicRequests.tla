-------------------------- MODULE MCPublicRequests --------------------------
(* One instance of the public API for TLC: admission and campaigns.         *)
EXTENDS PublicRequests, TLC

CONSTANTS r1, r2, k1, b1, b2, key1, c1, c2, w1, w2

TwoRequests == {r1, r2}
OneCredential == {k1}
OneKey == {key1}
TwoBodies == {b1, b2}
AllButReplies == {Route \ {"replies"}}
AtTwo == {2}
TwoContacts == {c1, c2}
TwoWorkers  == {w1, w2}

\* Bodies and workers never meet, so one permutation moves both.
SwapBodiesAndWorkers == (b1 :> b2) @@ (b2 :> b1) @@ (w1 :> w2) @@ (w2 :> w1)
Interchangeable ==
    Permutations(Request) \cup Permutations(Contacts) \cup {SwapBodiesAndWorkers}

\* Of an answered request, steps and properties read only a success: what it
\* named, and the secret a rotation was admitted with.  States are told apart
\* by nothing else of it.
Remembered(r) ==
    LET q == request[r] IN
    IF q.step \notin {"idle", "answered"} THEN q
    ELSE IF q.answer.status # "ok" \/ q.route = "revoke" THEN Idle
    ELSE [Idle EXCEPT !.step = "answered", !.slot = q.slot, !.route = q.route, !.body = q.body,
                      !.secret = IF q.route = "rotate" THEN q.secret ELSE 0, !.answer = q.answer]
WithoutPast ==
    IF scene = "campaign" THEN <<scene, queueVars>>
    ELSE <<credential, record, holder, made, [r \in Request |-> Remembered(r)], consent, now, sent>>
=============================================================================
