----------------------------- MODULE Deployment ------------------------------
(* Messages outlive a reconfiguration: one accepted under one environment is *)
(* dispatched under another. The web process and the workers start with the   *)
(* environment the operator gives them, and each reads it as RuntimeSettings  *)
(* says.                                                                     *)
EXTENDS RuntimeSettings

CONSTANTS
    Environment,    \* the environments the operator may start the processes in,
                    \* a subset of AllEnvironments
    Nothing

VARIABLES
    env,      \* what the processes now run with
    keys,     \* the organizations an API key was made for
    letter    \* a direct message: who wrote it for which organization, its fate

deploymentVars == <<env, keys, letter>>

Organizations == {"demo", "real"}

DeploymentTypeOK ==
    /\ env \in Environment
    /\ keys \subseteq Organizations
    /\ letter \in {Nothing} \cup
        [org : Organizations, by : {"visitor", "member", "key"},
         transport : {"dummy", "twilio"},
         fate : {"due", "simulated", "sent live", "cancelled"}]

Init == env \in Environment /\ keys = {} /\ letter = Nothing

-----------------------------------------------------------------------------
(* The processes.                                                           *)

\* What the code knows of a recipient: may be sent to, may but not at this
\* hour, never consented, opted out or archived.
Recipient == {"willing", "asleep", "silent", "opted out"}

\* The operator starts the processes with other variables.
Configure(e) ==
    /\ env' = e
    /\ UNCHANGED <<keys, letter>>

\* A demo visitor or a member makes an API key for the organization.
CreateApiKey(org) ==
    /\ AuthMode(env) = IF org = "demo" THEN "demo" ELSE "local"
    /\ env.flaw # "pepper"
    /\ keys' = keys \cup {org}
    /\ UNCHANGED <<env, letter>>

\* acceptancePolicyReasons: a key's message needs the contact's consent, a reply
\* from the inbox only that it was not withdrawn.
Acceptable(by, recipient) ==
    IF by = "key" THEN recipient \in {"willing", "asleep"} ELSE recipient # "opted out"

\* reserveDirectMessage, for an organization that has a sender to bind. The
\* dummy transport settles a message in the transaction that accepts it, a live
\* one waits for the worker.
Accept(org, by, recipient) ==
    /\ letter = Nothing
    /\ env.flaw # "pepper" /\ Transport(env) # "none"
    /\ Acceptable(by, recipient)
    /\ letter' = [org |-> org, by |-> by, transport |-> Transport(env),
                  fate |-> IF Transport(env) = "dummy" THEN "simulated" ELSE "due"]
    /\ UNCHANGED <<env, keys>>

VisitorReplies(recipient) == AuthMode(env) = "demo" /\ Accept("demo", "visitor", recipient)
MemberReplies(recipient)  == AuthMode(env) = "local" /\ Accept("real", "member", recipient)
\* The public API asks its credential only, not the runtime configuration.
KeySends(org, recipient)  == org \in keys /\ Accept(org, "key", recipient)

\* A pass of the direct-message worker. A worker ready for the dummy transport
\* alone claims live messages too, and cancels them.
DirectPass(recipient) ==
    /\ letter # Nothing /\ letter.fate = "due"
    /\ DirectReadiness(env) # "blocked"
    /\ letter' = [letter EXCEPT !.fate =
            IF DirectReadiness(env) = "twilio" /\ HardGate(env, letter.org, recipient)
            THEN "sent live" ELSE "cancelled"]
    /\ UNCHANGED <<env, keys>>

Next ==
    \/ \E e \in Environment : Configure(e)
    \/ \E org \in Organizations : CreateApiKey(org)
    \/ \E recipient \in Recipient :
        \/ VisitorReplies(recipient) \/ MemberReplies(recipient) \/ DirectPass(recipient)
        \/ \E org \in Organizations : KeySends(org, recipient)

Spec == Init /\ [][Next]_deploymentVars

-----------------------------------------------------------------------------
\* Whatever the operator changes between accepting a message and sending it,
\* no message leaves for a phone that was written for the demo organization,
\* whose owner anybody is, not even with a key made in demo mode and used long
\* after; what a demo visitor wrote was simulated at once. No environment lets
\* the workers do live and demo work side by side, and none the production gate
\* passes without its override lets a message leave.
OnlyAsConfigured ==
    /\ letter # Nothing =>
        /\ letter.fate = "sent live" => letter.org = "real"
        /\ letter.by = "visitor" => letter.fate = "simulated"
    /\ DirectReadiness(env) = "twilio" => ~CampaignReadiness(env)
    /\ ProductionLike(env) /\ GateAllows(env) /\ ~env.override => DirectReadiness(env) # "twilio"
=============================================================================
