---------------------------- MODULE LiveTestSms ----------------------------
(* The live test SMS of a demo: one request id, sent perhaps many times and *)
(* by several people, that must reach the carrier once.  The message row and *)
(* the audit event that binds it to who asked for what are written together *)
(* before the carrier is called; whatever cannot be told for certain stays  *)
(* pending.                                                                 *)
EXTENDS Naturals

CONSTANTS
    Caller,    \* copies of the request, each with a process of its own
    Says(_),   \* who asks, to whom and what: the fingerprint of a copy
    Nothing    \* an absent value

VARIABLES
    row,      \* the message and its reservation audit
    caller,   \* [Caller -> how far it has come and what it has answered]
    carrier   \* what the carrier did: calls it got and the fate of the message

vars == <<row, caller, carrier>>

Init ==
    /\ row = [by |-> Nothing, sid |-> FALSE, failed |-> FALSE]
    /\ caller = [c \in Caller |-> [at |-> "start", reply |-> Nothing, answer |-> Nothing]]
    /\ carrier = [calls |-> 0, fate |-> Nothing]

\* What the carrier can reply to a message it refused, took, or took and failed
\* at once; an answer may be cut off or garbled.
Reply(fate) ==
    [ok : {fate # "refused"}, status4xx : {FALSE}, code : {FALSE},
     sid : {FALSE, fate # "refused"}, terminal : {fate = "failed"}]
    \cup [ok : {FALSE}, status4xx : BOOLEAN, code : BOOLEAN,
          sid : {fate # "refused"}, terminal : {fate = "failed"}]
    \cup [ok : {FALSE}, status4xx : {fate = "refused"}, code : BOOLEAN,
          sid : {FALSE}, terminal : {fate = "failed"}]

\* Mutant: every reply that is not a success is a rejection.
NotOk(reply) == ~reply.ok
\* DefinitiveTwilioLiveTestSmsError
Definitive(reply) == ~reply.ok /\ reply.status4xx /\ reply.code /\ ~reply.sid
Accepted(reply) == reply.ok /\ reply.sid

Answer(c, answer) == caller' = [caller EXCEPT ![c].at = "answered", ![c].answer = answer]
Go(c, place) == caller' = [caller EXCEPT ![c].at = place]

\* getStoredLiveTestSmsResult
Stored(c) ==
    CASE row.by # Says(c) -> "conflict"
      [] row.by = Says(c) /\ row.failed -> "failed"
      [] row.by = Says(c) /\ ~row.failed /\ row.sid -> "sent"
      [] OTHER -> "pending"

\* Whoever lacks the operator's token is turned away.  A copy of a known request
\* is answered from its row before the other gates are looked at.
Look(c) ==
    /\ caller[c].at = "start"
    /\ \/ Answer(c, "blocked")
       \/ row.by # Nothing /\ Answer(c, Stored(c))
       \/ row.by = Nothing /\ Go(c, "reserve")
    /\ UNCHANGED <<row, carrier>>

\* The unique key lets one copy insert; the others answer what that one stored.
Reserve(c) ==
    /\ caller[c].at = "reserve"
    /\ \/ /\ row.by = Nothing
          /\ row' = [row EXCEPT !.by = Says(c)]
          /\ Go(c, "call")
       \/ row.by # Nothing /\ Answer(c, Stored(c)) /\ UNCHANGED row
    /\ UNCHANGED carrier

Call(c) ==
    /\ caller[c].at = "call"
    /\ \E fate \in {"refused", "took", "failed"} : \E reply \in Reply(fate) :
          /\ carrier' = [calls |-> carrier.calls + 1, fate |-> fate]
          /\ caller' = [caller EXCEPT ![c].at = "store", ![c].reply = reply]
    /\ UNCHANGED row

\* Storing may fail, or succeed and look like a failure: then the answer is
\* that nothing is known yet.
Store(c) ==
    LET reply == caller[c].reply
        failed == Definitive(reply) \/ (Accepted(reply) /\ reply.terminal)
    IN
    /\ caller[c].at = "store"
    /\ \/ /\ failed \/ Accepted(reply)
          /\ row' = [row EXCEPT !.sid = reply.sid, !.failed = failed]
          /\ \E lost \in BOOLEAN :
                Answer(c, IF lost THEN "pending" ELSE IF failed THEN "failed" ELSE "sent")
       \/ Answer(c, "pending") /\ UNCHANGED row
    /\ UNCHANGED carrier

Crash(c) ==
    /\ caller[c].at \in {"reserve", "call", "store"}
    /\ Go(c, "dead")
    /\ UNCHANGED <<row, carrier>>

Next == \E c \in Caller : Look(c) \/ Reserve(c) \/ Call(c) \/ Store(c) \/ Crash(c)

Spec == Init /\ [][Next]_vars

\* However many copies of a request run, whichever crash, the carrier is called
\* once, and no copy is told of success or failure but for its own request and
\* as the carrier has it: a copy sent again after a wrong "failed" would be a
\* second SMS (CONTRACT-API.md:507, live-test-sms.ts:308).
OneCallAnsweredTruly ==
    /\ carrier.calls <= 1
    /\ \A c \in Caller :
          /\ caller[c].answer = "sent" => carrier.fate = "took" /\ row.by = Says(c)
          /\ caller[c].answer = "failed" =>
                carrier.fate \in {"refused", "failed"} /\ row.by = Says(c)
=============================================================================
