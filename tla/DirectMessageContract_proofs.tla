--------------------- MODULE DirectMessageContract_proofs ---------------------
(***************************************************************************)
(* The contract keeps its own promise, for any number of messages and      *)
(* attempts.                                                               *)
(***************************************************************************)
EXTENDS DirectMessageContract, TLAPS

(* What a Move leaves of the phases.                                       *)
LEMMA MoveType ==
    ASSUME TypeOK, NEW m \in Messages, NEW from, NEW to \in Phases, Move(m, from, to)
    PROVE  /\ phase' \in [Messages -> Phases]
           /\ phase[m] \in from /\ phase'[m] = to
           /\ \A n \in Messages : n # m => phase'[n] = phase[n]
BY DEF TypeOK, Move

(* A grant follows only an excused past, so OneLiveGrant is inductive.     *)
LEMMA ContractStep ==
    ASSUME TypeOK, OneLiveGrant, [Next]_vars
    PROVE  TypeOK' /\ OneLiveGrant'
<1> USE DEF TypeOK
<1>1. ASSUME NEW m \in Messages, NEW k \in 1 .. MaxAttempts, Grant(m, k)
      PROVE  TypeOK' /\ OneLiveGrant'
  <2>1. phase' \in [Messages -> Phases] /\ phase'[m] = "calling"
        /\ \A n \in Messages : n # m => phase'[n] = phase[n]
    BY <1>1, MoveType DEF Grant, Phases
  <2>2. TypeOK'
    BY <1>1, <2>1 DEF Grant
  <2>3. granted'[m] \ excused'[m] \subseteq {k}
    BY <1>1 DEF Grant, Live
  <2> QED
    BY <1>1, <2>1, <2>2, <2>3 DEF Grant, OneLiveGrant, Live
<1>2. ASSUME NEW m \in Messages, Refused(m) \/ Attested(m)
      PROVE  TypeOK' /\ OneLiveGrant'
  <2>1. phase' \in [Messages -> Phases]
        /\ \A n \in Messages : n # m => phase'[n] = phase[n]
    BY <1>2, MoveType DEF Refused, Attested, Phases
  <2>2. TypeOK'
    BY <1>2, <2>1 DEF Refused, Attested, Excuse
  <2>3. granted'[m] \ excused'[m] = {}
    BY <1>2 DEF Refused, Attested, Excuse
  <2> QED
    BY <1>2, <2>1, <2>2, <2>3 DEF Refused, Attested, Excuse, OneLiveGrant, Live
<1>3. ASSUME NEW m \in Messages, Tell(m) PROVE TypeOK' /\ OneLiveGrant'
  <2>1. /\ phase' \in [Messages -> Phases]
        /\ \A n \in Messages : n # m => phase'[n] = phase[n]
        /\ phase'[m] \in {"absent", "pending", "cleared", "cancelled"} =>
              phase[m] \in {"absent", "pending", "cleared", "cancelled"}
    BY <1>3, MoveType DEF Tell, Phases
  <2> QED
    BY <1>3, <2>1 DEF Tell, OneLiveGrant, Live
<1>4. CASE UNCHANGED vars
  BY <1>4 DEF vars, OneLiveGrant, Live
<1> QED
  BY <1>1, <1>2, <1>3, <1>4 DEF Next

(* At most one provider call of a message may be felt by its recipient.    *)
THEOREM ContractKept == Spec => []OneLiveGrant
<1>1. Init => TypeOK /\ OneLiveGrant
  BY DEF Init, TypeOK, OneLiveGrant, Live, Phases
<1>2. TypeOK /\ OneLiveGrant /\ [Next]_vars => TypeOK' /\ OneLiveGrant'
  BY ContractStep
<1> QED
  BY <1>1, <1>2, PTL DEF Spec
=============================================================================
