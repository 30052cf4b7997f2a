------------------------ MODULE DirectMessageContract ------------------------
(***************************************************************************)
(* What the outbox promises a tenant about one direct message, with no     *)
(* workers, leases, tokens, requests or callbacks in sight.                *)
(*                                                                         *)
(* Each attempt number may be granted one provider call.  A grant is an    *)
(* impact the recipient may feel until it is excused: the provider refused *)
(* the call, or an operator attested that nothing was sent.  A new grant   *)
(* needs every earlier one excused, and a message is cancelled only while  *)
(* it has no grant that is not.                                            *)
(***************************************************************************)
EXTENDS Naturals

CONSTANTS Messages, MaxAttempts

VARIABLES
    phase,      \* what is known about the message
    granted,    \* attempt numbers the provider may have been called for
    excused     \* of those, the ones that had no effect

vars == <<phase, granted, excused>>

Phases == {"absent", "pending", "calling", "unknown", "cleared",
           "sent", "delivered", "failed", "cancelled"}

Live(m) == granted[m] \ excused[m]

TypeOK == /\ phase \in [Messages -> Phases]
          /\ granted \in [Messages -> SUBSET (1 .. MaxAttempts)]
          /\ excused \in [Messages -> SUBSET (1 .. MaxAttempts)]

Init == /\ phase = [m \in Messages |-> "absent"]
        /\ granted = [m \in Messages |-> {}]
        /\ excused = [m \in Messages |-> {}]

Move(m, from, to) == phase[m] \in from /\ phase' = [phase EXCEPT ![m] = to]

Grant(m, k) ==
    /\ Move(m, {"pending"}, "calling")
    /\ Live(m) = {} /\ k \notin granted[m]
    /\ granted' = [granted EXCEPT ![m] = @ \cup {k}]
    /\ UNCHANGED excused

Excuse(m) == /\ excused' = [excused EXCEPT ![m] = granted[m]]
             /\ UNCHANGED granted

Refused(m) == Move(m, {"calling"}, "pending") /\ Excuse(m)
Attested(m) == Move(m, {"unknown"}, "cleared") /\ Excuse(m)

Tell(m) ==
    /\ \/ Move(m, {"absent", "cleared"}, "pending")
       \/ Move(m, {"pending"}, "cancelled")
       \/ Move(m, {"calling"}, "unknown")
       \/ Move(m, {"calling", "unknown"}, "sent")
       \/ Move(m, {"calling", "unknown", "sent"}, "delivered")
       \/ Move(m, {"calling", "unknown", "sent"}, "failed")
    /\ UNCHANGED <<granted, excused>>

Next == \E m \in Messages :
    \/ \E k \in 1 .. MaxAttempts : Grant(m, k)
    \/ Refused(m) \/ Attested(m) \/ Tell(m)

Spec == Init /\ [][Next]_vars

-----------------------------------------------------------------------------
(* At most one grant is live, and none once the message is cancelled.      *)
OneLiveGrant ==
    \A m \in Messages :
        /\ \A k, l \in Live(m) : k = l
        /\ phase[m] \in {"absent", "pending", "cleared", "cancelled"} => Live(m) = {}
=============================================================================
