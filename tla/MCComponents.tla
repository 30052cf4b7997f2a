---------------------------- MODULE MCComponents ----------------------------
(* Instances of the composed components for TLC: one run for all of them.   *)
EXTENDS Components, MCContactConsent

CONSTANTS o1, o2, a1, a2, n1, n2, s1, c1, c2, c3, u1, mine, theirs

OneOrg == {o1}
TwoAccounts == {a1, a2}
TwoNumbers == {n1, n2}
OneService == {s1}

ThreeRows == 1..3
TwoTimes == {1, 2}
TwoOrgs == {o1, o2}
OneUser == {u1}

\* One report of every rank, two that share one, both failures that contradict
\* them, and one status the code does not know.
MCReports  == {"accepted", "queued", "sending", "sent", "delivered", "received",
               "read", "undelivered", "failed", "partially_delivered"}
MCLegacy   == {"sent", "delivered", "received", "undelivered"}
MCResponse == {"queued", "accepted", "delivered", "failed"}

\* Three copies of a request, one of which somebody else sends.
ThreeCallers == {c1, c2, c3}
WhoAsks(c) == IF c = c3 THEN theirs ELSE mine
TwoClients == {c1, c2}

\* The documented postures (a local demo, a public demo, production without
\* and with live direct messages), and every environment that differs from one
\* of them in one variable.
Posture(stage, demo, live, ack, provider, class, worker) ==
    [stage |-> stage, demo |-> demo, live |-> live, ack |-> ack, provider |-> provider,
     class |-> class, worker |-> worker, override |-> live = "true", flaw |-> "nothing"]
Postures == {
    Posture("local", "true", "false", "false", "dummy", "local-demo", "disabled"),
    Posture("production", "true", "false", "true", "dummy", "local-demo", "disabled"),
    Posture("production", "false", "false", "false", "dummy", "local-demo", "web"),
    Posture("production", "false", "true", "false", "twilio", "production-live-direct", "runs")}
NearPostures == UNION {{[p EXCEPT ![variable] = value] : value \in Choices[variable]} :
    p \in Postures, variable \in DOMAIN Choices}

AllAlike == Alike \cup Permutations(Account) \cup Permutations(Number)
=============================================================================
