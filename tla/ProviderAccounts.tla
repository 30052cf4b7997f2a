-------------------------- MODULE ProviderAccounts --------------------------
(* The provider accounts of the organizations, their credentials, and the   *)
(* phone numbers and messaging services imported under them; and the        *)
(* carrier's callbacks, which are let in on their word.                     *)
(*                                                                          *)
(* Whatever asks the carrier something runs in two steps: it loads the      *)
(* credential in force and asks, then it records the answer in a            *)
(* SERIALIZABLE transaction that locks the account.  `task' holds what each  *)
(* of those under way has loaded and been told.  A SERIALIZABLE transaction *)
(* is one step: PostgreSQL aborts the ones that could not be.               *)
EXTENDS Naturals

CONSTANTS
    Org,
    Account,     \* the carrier's accounts, whoever connects them
    Number,      \* the carrier's phone numbers
    Service,     \* and messaging services
    Worker,      \* requests under way
    MaxVersion,  \* bound: rotations of a credential
    MaxTasks,    \* bound: questions asked of the carrier and callbacks
    Nothing      \* an absent value

Resource == Number \cup Service

VARIABLES
    account,   \* [Account -> ProviderAccount and the version of its active secret]
    resource,  \* [Resource -> ProviderPhoneNumber or ProviderMessagingService]
    local,     \* [Org -> its default number, when that is bound to no account]
    task,      \* [Worker -> what it has loaded and been told]
    begun

vars == <<account, resource, local, task, begun>>

\* `fresh' (history): the answer recorded last came with the credential in force.
NoAccount == [org |-> Nothing, status |-> "none", isDefault |-> FALSE,
              version |-> 0, fresh |-> TRUE]
NoResource == [account |-> Nothing, status |-> "none", isDefault |-> FALSE, fresh |-> TRUE]
Idle == [kind |-> "idle", account |-> Nothing, version |-> 0, healthy |-> FALSE,
         found |-> {}, number |-> Nothing]

TypeOK ==
    /\ account \in [Account -> [org : Org \cup {Nothing},
                                status : {"none", "VERIFIED", "DEGRADED", "REVOKED"},
                                isDefault : BOOLEAN, version : Nat, fresh : BOOLEAN]]
    /\ resource \in [Resource -> [account : Account \cup {Nothing},
                                  status : {"none", "VERIFIED", "DISABLED"},
                                  isDefault : BOOLEAN, fresh : BOOLEAN]]
    /\ local \in [Org -> Number \cup {Nothing}]
    /\ task \in [Worker -> [kind : {"idle", "rotate", "verify", "health", "import",
                                    "callback", "persisting"},
                            account : Account \cup {Nothing}, version : Nat,
                            healthy : BOOLEAN, found : SUBSET Resource,
                            number : Number \cup {Nothing}]]
    /\ begun \in Nat

Init ==
    /\ account = [a \in Account |-> NoAccount]
    /\ resource = [r \in Resource |-> NoResource]
    /\ local = [o \in Org |-> Nothing]
    /\ task = [w \in Worker |-> Idle]
    /\ begun = 0

Live(a) == account[a].status \in {"VERIFIED", "DEGRADED"}
Verified(a) == account[a].status = "VERIFIED"
Bound(r, a) == resource[r].account = a

\* Whom a default takes the place of: numbers of the whole organization,
\* services of the account.
NumbersOf(o) == {q \in Number : \E b \in Account : Bound(q, b) /\ account[b].org = o}
Peers(r, a) ==
    IF r \in Number THEN NumbersOf(account[a].org) ELSE {q \in Service : Bound(q, a)}

-----------------------------------------------------------------------------
(* Locks.  A callback holds its account, number and secret FOR SHARE from   *)
(* its recheck to its commit; who would write one of these rows waits.      *)

Held(a) == \E w \in Worker : task[w].kind = "persisting" /\ task[w].account = a
HeldNumber(r) == \E w \in Worker : task[w].kind = "persisting" /\ task[w].number = r
AccountsWait == \A a \in Account : account'[a] # account[a] => ~Held(a)
ResourcesWait == \A r \in Resource : resource'[r] # resource[r] => ~HeldNumber(r)
\* Mutant: the rows are read again but not locked.
NobodyWaits == TRUE
WritesWait == AccountsWait /\ ResourcesWait

-----------------------------------------------------------------------------
(* Questions to the carrier.                                                *)

Begin(w, what) ==
    /\ task[w] = Idle /\ begun < MaxTasks
    /\ task' = [task EXCEPT ![w] = what]
    /\ begun' = begun + 1

End(w) == task' = [task EXCEPT ![w] = Idle] /\ UNCHANGED begun

\* Imports ask for a verified account, the others bear with a degraded one.
Ready(kind, a) == IF kind = "import" THEN Verified(a) ELSE Live(a)

\* loadActiveProviderCredential; the carrier answers at once or much later.
Load(w, kind, a) ==
    /\ Ready(kind, a)
    /\ \E healthy \in BOOLEAN, found \in SUBSET Resource :
          /\ kind # "health" => healthy
          /\ kind # "import" => found = {}
          /\ Begin(w, [Idle EXCEPT !.kind = kind, !.account = a,
                                   !.version = account[a].version,
                                   !.healthy = healthy, !.found = found])
    /\ UNCHANGED <<account, resource, local>>

\* The carrier fails to answer, or the transaction rolls back.
GiveUp(w) ==
    /\ task[w] # Idle
    /\ End(w)
    /\ UNCHANGED <<account, resource, local>>

Current(w) == account[task[w].account].version = task[w].version

\* Mutants: only the account, or only its credential, is looked at again.
SameAccount(w) == Ready(task[w].kind, task[w].account)
SameSecret(w) == Current(w)
\* assertCredentialGeneration
SameGeneration(w) == Ready(task[w].kind, task[w].account) /\ Current(w)

Rotate(w) ==
    LET a == task[w].account IN
    /\ task[w].kind = "rotate"
    /\ SameGeneration(w)
    /\ account[a].version < MaxVersion
    /\ account' = [account EXCEPT
                      ![a] = [@ EXCEPT !.status = "VERIFIED", !.fresh = TRUE,
                                       !.version = account[a].version + 1]]
    /\ UNCHANGED <<resource, local>>
    /\ End(w)
    /\ WritesWait

Record(w, status) ==
    /\ SameGeneration(w)
    /\ account' = [account EXCEPT ![task[w].account] =
                      [@ EXCEPT !.status = status, !.fresh = Current(w)]]
    /\ UNCHANGED <<resource, local>>
    /\ End(w)
    /\ WritesWait

RecordVerification(w) == task[w].kind = "verify" /\ Record(w, "VERIFIED")
RecordHealth(w) ==
    /\ task[w].kind = "health"
    /\ Record(w, IF task[w].healthy THEN "VERIFIED" ELSE "DEGRADED")

\* What the request selects of what the carrier showed; asked for a default of
\* a kind, the import takes it from the one that is.  A number of the
\* organization's own becomes the carrier's and stays the default if it was.
Import(w, selected, defaults) ==
    LET a == task[w].account
        o == account[a].org
        Deposed == UNION {Peers(d, a) : d \in defaults}
        Asked(r) == \E d \in defaults : {d, r} \subseteq Number \/ {d, r} \subseteq Service
        Imported(r) == [account |-> a, status |-> "VERIFIED", fresh |-> Current(w),
                        isDefault |-> IF Asked(r) THEN r \in defaults
                                      ELSE resource[r].isDefault \/ local[o] = r]
    IN
    /\ task[w].kind = "import"
    /\ SameGeneration(w)
    /\ selected # {} /\ selected \subseteq task[w].found /\ defaults \subseteq selected
    /\ \A d, e \in defaults : {d, e} \subseteq Number \/ {d, e} \subseteq Service => d = e
    /\ \A r \in selected : resource[r].status = "none" \/ Bound(r, a)
    /\ resource' = [r \in Resource |->
                       IF r \in selected THEN Imported(r)
                       ELSE IF r \in Deposed THEN [resource[r] EXCEPT !.isDefault = FALSE]
                       ELSE resource[r]]
    /\ local' = IF defaults \cap Number # {} \/ local[o] \in selected
                THEN [local EXCEPT ![o] = Nothing] ELSE local
    /\ UNCHANGED account
    /\ End(w)
    /\ WritesWait

-----------------------------------------------------------------------------
(* What the organization does by itself.                                    *)

\* Whom the new default takes the place of.
Deposing(o, a) == {b \in Account : account[b].org = o /\ account[b].isDefault} \ {a}
Depose(others) ==
    [b \in Account |-> IF b \in others THEN [account[b] EXCEPT !.isDefault = FALSE]
                                       ELSE account[b]]

\* The carrier has confirmed the credential before anything is stored.
Connect(o, a, isDefault) ==
    /\ account[a].status = "none"
    /\ account' = [Depose(IF isDefault THEN Deposing(o, a) ELSE {}) EXCEPT
                      ![a] = [org |-> o, status |-> "VERIFIED", isDefault |-> isDefault,
                              version |-> 1, fresh |-> TRUE]]
    /\ UNCHANGED <<resource, local, task, begun>>
    /\ WritesWait

SetDefault(a) ==
    /\ Verified(a)
    /\ account' = [Depose(Deposing(account[a].org, a)) EXCEPT ![a].isDefault = TRUE]
    /\ UNCHANGED <<resource, local, task, begun>>
    /\ WritesWait

Disabled(row) == [row EXCEPT !.status = "DISABLED", !.isDefault = FALSE]

Revoke(a) ==
    /\ Live(a)
    /\ account' = [account EXCEPT ![a] = [@ EXCEPT !.status = "REVOKED", !.isDefault = FALSE]]
    /\ resource' = [r \in Resource |-> IF Bound(r, a) THEN Disabled(resource[r])
                                                      ELSE resource[r]]
    /\ UNCHANGED <<local, task, begun>>
    /\ WritesWait

MakeDefault(r) ==
    LET a == resource[r].account IN
    /\ resource[r].status = "VERIFIED" /\ Verified(a)
    /\ resource' = [q \in Resource |-> [resource[q] EXCEPT
                       !.isDefault = (q = r) \/ (@ /\ q \notin Peers(r, a))]]
    /\ local' = IF r \in Number THEN [local EXCEPT ![account[a].org] = Nothing] ELSE local
    /\ UNCHANGED <<account, task, begun>>
    /\ WritesWait

Disable(r) ==
    /\ resource[r].status # "none"
    /\ resource' = [resource EXCEPT ![r] = Disabled(@)]
    /\ UNCHANGED <<account, local, task, begun>>
    /\ WritesWait

\* upsertProviderPhoneNumber: a CHECK keeps it from a number bound to an account.
Upsert(o, n, isDefault) ==
    /\ n \notin NumbersOf(o)
    /\ resource' = [r \in Resource |->
          IF isDefault /\ r \in NumbersOf(o) THEN [resource[r] EXCEPT !.isDefault = FALSE]
                                             ELSE resource[r]]
    /\ local' = [local EXCEPT ![o] = IF isDefault THEN n ELSE IF @ = n THEN Nothing ELSE @]
    /\ UNCHANGED <<account, task, begun>>
    /\ WritesWait

-----------------------------------------------------------------------------
(* Callbacks.                                                               *)

\* What the signature is checked with, and what is checked again.
Authority(w) ==
    /\ Verified(task[w].account) /\ Current(w)
    /\ resource[task[w].number].status = "VERIFIED"
    /\ Bound(task[w].number, task[w].account)

Authenticate(w, r) ==
    LET a == resource[r].account IN
    /\ resource[r].status = "VERIFIED" /\ Verified(a)
    /\ Begin(w, [Idle EXCEPT !.kind = "callback", !.account = a, !.number = r,
                             !.version = account[a].version])
    /\ UNCHANGED <<account, resource, local>>

\* assertProviderCallbackBindingActive; without authority the callback is refused.
Recheck(w) ==
    /\ task[w].kind = "callback" /\ Authority(w)
    /\ task' = [task EXCEPT ![w].kind = "persisting"]
    /\ UNCHANGED <<account, resource, local, begun>>

Persist(w) ==
    /\ task[w].kind = "persisting"
    /\ End(w)
    /\ UNCHANGED <<account, resource, local>>

Next ==
    \/ \E w \in Worker :
          \/ \E kind \in {"rotate", "verify", "health", "import"}, a \in Account :
                Load(w, kind, a)
          \/ \E selected, defaults \in SUBSET Resource : Import(w, selected, defaults)
          \/ \E r \in Number : Authenticate(w, r)
          \/ Rotate(w) \/ RecordVerification(w) \/ RecordHealth(w)
          \/ Recheck(w) \/ Persist(w) \/ GiveUp(w)
    \/ \E o \in Org, a \in Account, isDefault \in BOOLEAN : Connect(o, a, isDefault)
    \/ \E a \in Account : SetDefault(a) \/ Revoke(a)
    \/ \E r \in Resource : MakeDefault(r) \/ Disable(r)
    \/ \E o \in Org, n \in Number, isDefault \in BOOLEAN : Upsert(o, n, isDefault)

Spec == Init /\ [][Next]_vars

-----------------------------------------------------------------------------
(* Properties.                                                              *)

\* No default points to what is disabled, and nothing of a revoked account is
\* in use: an import that asked the carrier before the revocation brings
\* nothing back (CONTRACT-DB.md:201, service.ts:754).
RevokedIsOut ==
    /\ \A r \in Resource :
          /\ resource[r].isDefault => resource[r].status = "VERIFIED"
          /\ resource[r].status = "VERIFIED" => Live(resource[r].account)
    /\ \A a \in Account : account[a].isDefault => Live(a)

\* The organization of a resource that is bound to an account.
Owner(r) == account[resource[r].account].org

\* One default account and one default number to an organization, the numbers
\* no account is bound to counted, and one default service to an account,
\* whichever of the ways to make a default were taken (service.ts:641; the index
\* ProviderPhoneNumber_one_default_per_org).
OneDefault ==
    /\ \A a, b \in Account :
          a # b /\ account[a].isDefault /\ account[b].isDefault =>
             account[a].org # account[b].org
    /\ \A m, n \in Number :
          m # n /\ resource[m].isDefault /\ resource[n].isDefault => Owner(m) # Owner(n)
    /\ \A s, t \in Service :
          s # t /\ resource[s].isDefault /\ resource[t].isDefault =>
             resource[s].account # resource[t].account
    /\ \A n \in Number : resource[n].isDefault => local[Owner(n)] = Nothing

\* What is recorded of an account, and what is imported under it, was answered
\* under the credential in force: the answer to one that has been rotated away
\* meanwhile counts for nothing (service.ts:1282, CONTRACT-DB.md:214).
AnswersAreCurrent ==
    /\ \A a \in Account : account[a].fresh
    /\ \A r \in Resource : resource[r].fresh

\* From a callback's recheck to its commit its account, its number and its
\* credential stay in force: revoking, disabling, degrading and rotating wait
\* (webhook-routing.ts:192).
CallbacksKeepAuthority == \A w \in Worker : task[w].kind = "persisting" => Authority(w)

\* All of them: an organization sends, and its callbacks are believed, only on
\* authority that is in force and in order, whatever raced.
AuthorityIsCurrent ==
    RevokedIsOut /\ OneDefault /\ AnswersAreCurrent /\ CallbacksKeepAuthority
=============================================================================
