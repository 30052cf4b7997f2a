---------------------------- MODULE TenantContext ----------------------------
(* Which organization's rows a database statement reads. A process keeps a   *)
(* pool of connections; a unit of work takes one for a transaction, selects  *)
(* one of four roles and writes the whole context (organization, user,       *)
(* evidence) with SET LOCAL, and calls of one asynchronous task nested in a   *)
(* tenant transaction join it. The database's row policies read the context. *)
(* A process that serves production first inspects those policies, once.     *)
EXTENDS Integers, Sequences

CONSTANTS
    Task,         \* requests and worker passes the process runs concurrently
    Connection,   \* its pool
    Org, User,
    MaxDepth,     \* calls of one task nested in each other, the outermost included
    Nothing       \* no organization, no user

VARIABLES
    required,    \* the process requires the posture (production)
    policies,    \* the database's row policies are complete
    posture,     \* what the process remembers of its one inspection
    pool,        \* per connection: the role and the context in force on it
    stack,       \* per task: its calls, the innermost last
    reads        \* <<organization asked for, organization read>>, of all statements

tenantVars == <<required, policies, posture, pool, stack, reads>>

\* A connection outside a transaction: the login role and no context.
Clean == [role |-> "login", org |-> Nothing, user |-> Nothing]

Roles == {"signalstack_runtime", "signalstack_control", "signalstack_worker",
          "signalstack_web"}

\* A call: the role it runs under, what it asked for, its connection.
Calls == [role : Roles, org : Org \cup {Nothing}, user : User \cup {Nothing},
          on : Connection]

TenantTypeOK ==
    /\ required \in BOOLEAN /\ policies \in BOOLEAN
    /\ posture \in {"unknown", "attested", "refused"}
    /\ pool \in [Connection -> [role : Roles \cup {"login"}, org : Org \cup {Nothing},
                                user : User \cup {Nothing}]]
    /\ stack \in [Task -> Seq(Calls)]
    /\ reads \subseteq (Org \cup {Nothing}) \X Org

Init ==
    /\ required \in BOOLEAN /\ policies \in BOOLEAN
    /\ posture = "unknown"
    /\ pool = [c \in Connection |-> Clean]
    /\ stack = [t \in Task |-> << >>]
    /\ reads = {}

Top(t) == stack[t][Len(stack[t])]
Used == {Top(t).on : t \in {u \in Task : stack[u] # << >>}}

-----------------------------------------------------------------------------
(* The posture. The inspection's promise is kept, a refusal too: only a      *)
(* restart inspects again, after the operator completed the policies.        *)

Inspect ==
    /\ required /\ posture = "unknown"
    /\ posture' = IF policies THEN "attested" ELSE "refused"
    /\ UNCHANGED <<required, policies, pool, stack, reads>>

Restart ==
    /\ posture = "refused"
    /\ posture' = "unknown" /\ policies' = TRUE
    /\ UNCHANGED <<required, pool, stack, reads>>

Postured == required => posture = "attested"

-----------------------------------------------------------------------------
(* Calls. A transaction waits for a free connection.                         *)

Begin(t, role, org, user) ==
    /\ stack[t] = << >> /\ Postured
    /\ \E c \in Connection \ Used :
        /\ pool' = [pool EXCEPT ![c] = [role |-> role, org |-> org, user |-> user]]
        /\ stack' = [stack EXCEPT ![t] = <<[role |-> role, org |-> org, user |-> user, on |-> c]>>]
    /\ UNCHANGED <<required, policies, posture, reads>>

TenantTransaction(t, org, user) == Begin(t, "signalstack_runtime", org, user)
\* normalizeAuthContext: a control transaction needs some evidence.
Evidence(org, user) == org # Nothing \/ user # Nothing
AuthContext(t, org, user) ==
    /\ Evidence(org, user)
    /\ Begin(t, "signalstack_control", org, user)
WorkerDispatch(t) == Begin(t, "signalstack_worker", Nothing, Nothing)
ProviderRouting(t) == Begin(t, "signalstack_web", Nothing, Nothing)

\* Mutant: a nested call may ask for any organization.
NestedAllowedAnyOrg(active, org, user) == user \in {Nothing, active.user}

\* A nested tenant call joins the transaction of the call around it, or is an
\* error when it would switch the organization or the user.
NestedAllowed(active, org, user) ==
    active.org = org /\ user \in {Nothing, active.user}

NestedTenant(t, org, user) ==
    /\ stack[t] # << >> /\ Len(stack[t]) < MaxDepth
    /\ Top(t).role = "signalstack_runtime"
    /\ NestedAllowed(Top(t), org, user)
    /\ stack' = [stack EXCEPT ![t] = Append(@,
                    [role |-> "signalstack_runtime", org |-> org,
                     user |-> Top(t).user, on |-> Top(t).on])]
    /\ UNCHANGED <<required, policies, posture, pool, reads>>

\* A session, a token or an invitation told the tenant: the control
\* transaction's context is written anew.
SetAuthTransactionContext(t, org, user) ==
    /\ stack[t] # << >> /\ Top(t).role = "signalstack_control"
    /\ Evidence(org, user)
    /\ pool' = [pool EXCEPT ![Top(t).on].org = org, ![Top(t).on].user = user]
    /\ stack' = [stack EXCEPT ![t][Len(stack[t])].org = org, ![t][Len(stack[t])].user = user]
    /\ UNCHANGED <<required, policies, posture, reads>>

\* The roles that may read tables: the worker and web roles may only execute
\* their functions.
TableRoles == {"signalstack_runtime", "signalstack_control"}

\* The organizations whose rows a connection reads: the policies compare each
\* row with the context in force.
Visible(settings) ==
    IF settings.role \notin TableRoles THEN {}
    ELSE IF policies THEN {settings.org} \cap Org ELSE Org

Statement(t) ==
    /\ stack[t] # << >>
    /\ reads' = reads \cup {<<Top(t).org, o>> : o \in Visible(pool[Top(t).on])}
    /\ UNCHANGED <<required, policies, posture, pool, stack>>

\* A nested call returns to the call around it; the outermost one commits, and
\* what SET LOCAL wrote ends with the transaction.
Return(t) ==
    /\ stack[t] # << >>
    /\ stack' = [stack EXCEPT ![t] = SubSeq(@, 1, Len(@) - 1)]
    /\ pool' = IF Len(stack[t]) = 1 THEN [pool EXCEPT ![Top(t).on] = Clean] ELSE pool
    /\ UNCHANGED <<required, policies, posture, reads>>

\* An error ends all of a task's calls and rolls its transaction back.
Throw(t) ==
    /\ stack[t] # << >>
    /\ stack' = [stack EXCEPT ![t] = << >>]
    /\ pool' = [pool EXCEPT ![Top(t).on] = Clean]
    /\ UNCHANGED <<required, policies, posture, reads>>

Next ==
    \/ Inspect \/ Restart
    \/ \E t \in Task :
        \/ \E org \in Org, user \in User \cup {Nothing} :
            TenantTransaction(t, org, user) \/ NestedTenant(t, org, user)
        \/ \E org \in Org \cup {Nothing}, user \in User \cup {Nothing} :
            AuthContext(t, org, user) \/ SetAuthTransactionContext(t, org, user)
        \/ WorkerDispatch(t) \/ ProviderRouting(t)
        \/ Statement(t) \/ Return(t) \/ Throw(t)

Spec == Init /\ [][Next]_tenantVars

-----------------------------------------------------------------------------
\* In a process that requires the posture every statement reads rows of the
\* organization its own call asked for and of no other, whatever tasks share
\* the pool and however calls nest; in any process a connection at rest keeps
\* no role and no tenant, and the context of one in use is what each of the
\* calls on it asked for.
TenantsApart ==
    /\ required => \A pair \in reads : pair[1] = pair[2]
    /\ \A c \in Connection \ Used : pool[c] = Clean
    /\ \A t \in Task : \A i \in 1..Len(stack[t]) :
        pool[stack[t][i].on] =
            [role |-> stack[t][i].role, org |-> stack[t][i].org, user |-> stack[t][i].user]
=============================================================================
