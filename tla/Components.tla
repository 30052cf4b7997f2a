----------------------------- MODULE Components -----------------------------
(* The components that share no state with each other, composed: which of   *)
(* them moves is chosen at the start and stays, so that their behaviours     *)
(* stand side by side, not multiplied.                                      *)
EXTENDS ContactConsent, ApiRoutes, RuntimeSettings, Integers

CONSTANTS
    Org, Account, Number, Service, MaxVersion, MaxTasks,      \* ProviderAccounts
    Reports, LegacyReports, ResponseStatus,                   \* StatusProjection
    Caller, Says(_),                                          \* LiveTestSms
    Limit, Window, Block, Client, MaxTime, MaxCount,          \* Throttles
    MaxTries,                                                 \* ApiHandlers
    Row, Position, PageLimit,                                 \* Pages
    TenantOrg, Task, Connection, User, MaxDepth,              \* TenantContext
    Environment                                               \* Deployment

VARIABLES
    scene,                                         \* the component that moves
    account, resource, local, task, asked,
    message, attempt, heard, answered,
    row, caller, carrier,
    now, throttle, bucket, client,
    request, whose,
    kind, shelf, walk,
    required, policies, posture, pool, stack, reads,
    env, keys, letter

Provider == INSTANCE ProviderAccounts WITH begun <- asked
Projection == INSTANCE StatusProjection WITH processed <- heard
LiveTest == INSTANCE LiveTestSms
Throttle == INSTANCE Throttles WITH row <- throttle
Handlers == INSTANCE ApiHandlers WITH caller <- whose
Paging == INSTANCE Pages
Tenants == INSTANCE TenantContext WITH Org <- TenantOrg
Settings == INSTANCE Deployment

\* What the modules take for granted of their constants.
ASSUME ProviderConstants ==
    Number \cap Service = {} /\ Nothing \notin Org \cup Account \cup Number \cup Service
ASSUME ProjectionConstants ==
    Projection!None \notin Reports /\ LegacyReports \subseteq Reports
    /\ ResponseStatus \subseteq Projection!Known
ASSUME LiveTestConstants ==
    /\ \A c \in Caller : Says(c) # Nothing
    /\ Nothing \notin {"sent", "failed", "took", "refused"}
ASSUME HandlerConstants == MaxTries \in Nat \ {0}
\* Of the routes as they are written.
ASSUME HandlerTables == Handlers!TablesAreSound
ASSUME PagingConstants ==
    /\ Row \cup Position \subseteq Int /\ PageLimit \in Nat \ {0}
    /\ Nothing \notin Int \cup [of : {"mine", "theirs"}, id : Row, at : Position]
ASSUME TenantConstants ==
    MaxDepth \in Nat \ {0} /\ Nothing \notin TenantOrg \cup User \cup Connection
ASSUME SettingsConstants == Environment \subseteq AllEnvironments /\ Environment # {}
ASSUME ThrottleConstants ==
    {Limit, Window, Block} \subseteq Nat \ {0} /\ MaxTime \in Nat /\ Nothing \notin Nat

providerVars == <<account, resource, local, task, asked>>
projectionVars == <<message, attempt, heard, answered>>
liveTestVars == <<row, caller, carrier>>
throttleVars == <<now, throttle, bucket, client>>
requestVars == <<request, whose>>
pagesVars == <<kind, shelf, walk>>
tenantVars == <<required, policies, posture, pool, stack, reads>>
settingsVars == <<env, keys, letter>>
allVars == <<scene, vars, providerVars, projectionVars, liveTestVars, throttleVars, requestVars,
             pagesVars, tenantVars, settingsVars>>

\* A component with several initial states has none while another moves.
ComponentsInit ==
    /\ scene \in {"consent", "provider", "projection", "live test", "throttles", "requests",
                  "pages", "tenants", "settings"}
    /\ Init /\ Provider!Init /\ Projection!Init /\ LiveTest!Init /\ Throttle!Init
    /\ IF scene = "requests" THEN Handlers!Init ELSE request = Nothing /\ whose = Nothing
    /\ IF scene = "pages" THEN Paging!Init ELSE kind = Nothing /\ shelf = Nothing /\ walk = Nothing
    /\ IF scene = "tenants" THEN Tenants!Init
       ELSE /\ required = Nothing /\ policies = Nothing /\ posture = Nothing
            /\ pool = Nothing /\ stack = Nothing /\ reads = Nothing
    /\ IF scene = "settings" THEN Settings!Init ELSE env = Nothing /\ keys = Nothing /\ letter = Nothing

ConsentMoves ==
    /\ scene = "consent" /\ Next
    /\ UNCHANGED <<scene, providerVars, projectionVars, liveTestVars, throttleVars, requestVars,
                  pagesVars, tenantVars, settingsVars>>
ProviderMoves ==
    /\ scene = "provider" /\ Provider!Next
    /\ UNCHANGED <<scene, vars, projectionVars, liveTestVars, throttleVars, requestVars,
                  pagesVars, tenantVars, settingsVars>>
ProjectionMoves ==
    /\ scene = "projection" /\ Projection!Next
    /\ UNCHANGED <<scene, vars, providerVars, liveTestVars, throttleVars, requestVars,
                  pagesVars, tenantVars, settingsVars>>
LiveTestMoves ==
    /\ scene = "live test" /\ LiveTest!Next
    /\ UNCHANGED <<scene, vars, providerVars, projectionVars, throttleVars, requestVars,
                  pagesVars, tenantVars, settingsVars>>
ThrottlesMove ==
    /\ scene = "throttles" /\ Throttle!Next
    /\ UNCHANGED <<scene, vars, providerVars, projectionVars, liveTestVars, requestVars,
                  pagesVars, tenantVars, settingsVars>>
RequestsMove ==
    /\ scene = "requests" /\ Handlers!Next
    /\ UNCHANGED <<scene, vars, providerVars, projectionVars, liveTestVars, throttleVars,
                  pagesVars, tenantVars, settingsVars>>
PagesTurn ==
    /\ scene = "pages" /\ Paging!Next
    /\ UNCHANGED <<scene, vars, providerVars, projectionVars, liveTestVars, throttleVars,
                  requestVars, tenantVars, settingsVars>>
TenantsMove ==
    /\ scene = "tenants" /\ Tenants!Next
    /\ UNCHANGED <<scene, vars, providerVars, projectionVars, liveTestVars, throttleVars,
                  requestVars, pagesVars, settingsVars>>
SettingsMove ==
    /\ scene = "settings" /\ Settings!Next
    /\ UNCHANGED <<scene, vars, providerVars, projectionVars, liveTestVars, throttleVars,
                  requestVars, pagesVars, tenantVars>>

ComponentsNext ==
    ConsentMoves \/ ProviderMoves \/ ProjectionMoves \/ LiveTestMoves \/ ThrottlesMove
    \/ RequestsMove \/ PagesTurn \/ TenantsMove \/ SettingsMove

ComponentsSpec == ComponentsInit /\ [][ComponentsNext]_allVars

-----------------------------------------------------------------------------
(* The components' properties, under the names the configuration lists.      *)

\* Of ProviderAccounts, where each is stated and explained.
AuthorityIsCurrent == Provider!AuthorityIsCurrent
\* Of StatusProjection, where each is stated and explained.
FurthestReportShown == Projection!FurthestReportShown
\* Of StatusProjection.
CorrelatedNeverConflicts == Projection!CorrelatedNeverConflicts
\* Of StatusProjection.
OutcomeIsFinal == Projection!OutcomeIsFinal
\* Of LiveTestSms.
OneCallAnsweredTruly == LiveTest!OneCallAnsweredTruly
\* Of Throttles.
RefusalsEnd == Throttle!RefusalsEnd
\* Of ApiHandlers.
EffectsAsDeclared == scene = "requests" => Handlers!EffectsAsDeclared
\* Of ApiHandlers.
ErrorsLeaveNothing == scene = "requests" => Handlers!ErrorsLeaveNothing
\* Of Pages.
WalkIsComplete == scene = "pages" => Paging!WalkIsComplete
\* Of TenantContext.
TenantsApart == scene = "tenants" => Tenants!TenantsApart
\* Of Deployment.
OnlyAsConfigured == scene = "settings" => Settings!OnlyAsConfigured
=============================================================================
