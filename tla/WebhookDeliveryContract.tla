----------------------- MODULE WebhookDeliveryContract -----------------------
(* What the customer webhooks promise about one event, one endpoint and one *)
(* generation of its delivery: it is opened at most once, a later           *)
(* generation only after an earlier one failed; it is tried a bounded       *)
(* number of times; it is called delivered only when its receiver has       *)
(* acknowledged one of those tries; every try is signed with one and the    *)
(* same secret; and once settled it stays as it is, although an             *)
(* acknowledgement may still arrive.                                        *)
EXTENDS Naturals

CONSTANTS Slot,           \* endpoint and event
          MaxGeneration, MaxAttempts

VARIABLES phase,    \* [Slot \X generation -> none, open or how it settled]
          tries,    \* [Slot \X generation -> requests the receiver may have seen]
          secret,   \* [Slot \X generation -> what its requests are signed with]
          acked     \* [Slot \X generation -> the tries acknowledged]

vars == <<phase, tries, secret, acked>>

Promise == Slot \X (1..MaxGeneration)

Init ==
    /\ phase = [p \in Promise |-> "none"]
    /\ tries = [p \in Promise |-> 0]
    /\ secret = [p \in Promise |-> 0]
    /\ acked = [p \in Promise |-> {}]

Moves(p, from, to) == phase[p] = from /\ phase'[p] = to
Signs(p) == secret'[p] = secret[p]
Keeps(p) == tries'[p] = tries[p] /\ acked'[p] = acked[p]

Opens(p) ==
    /\ Moves(p, "none", "open")
    /\ p[2] > 1 => \E g \in 1..(p[2] - 1) : phase[<<p[1], g>>] = "failed"
    /\ secret'[p] # 0
    /\ Keeps(p)

Tries(p) ==
    /\ Moves(p, "open", "open")
    /\ tries[p] < MaxAttempts
    /\ tries'[p] = tries[p] + 1
    /\ acked'[p] = acked[p]
    /\ Signs(p)

Acknowledges(p) ==
    /\ phase'[p] = phase[p]
    /\ tries'[p] = tries[p]
    /\ \E n \in 1..tries[p] : acked'[p] = acked[p] \cup {n}
    /\ Signs(p)

Settles(p) ==
    /\ \/ Moves(p, "open", "delivered") /\ acked[p] # {}
       \/ Moves(p, "open", "failed")
       \/ Moves(p, "open", "cancelled")
    /\ Keeps(p) /\ Signs(p)

Same(p) == phase'[p] = phase[p] /\ Keeps(p) /\ Signs(p)

Next == \A p \in Promise : Opens(p) \/ Tries(p) \/ Acknowledges(p) \/ Settles(p) \/ Same(p)

Spec == Init /\ [][Next]_vars
=============================================================================
