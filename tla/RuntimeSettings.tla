--------------------------- MODULE RuntimeSettings ---------------------------
(* The environment variables that decide whether a message leaves for a      *)
(* phone, and their readers: the runtime configuration of the web process,   *)
(* the readiness of the direct-message worker, that of the campaign worker,  *)
(* and the production gate an operator runs before a deployment. Each reads   *)
(* the same variables in its own way.                                        *)

\* Switches: "yes" stands for 1, yes, on and TRUE, which only the runtime
\* configuration reads as true.
Switch == {"true", "yes", "false"}

\* What may be wrong with the rest of the environment, one thing at a time: a
\* secret missing or malformed, an address that is not HTTPS, a limit out of
\* range, a credential too many, a build or a boundary that production refuses.
Flaw == {"nothing", "master key", "auth secret", "development build", "pepper",
         "row policies", "proxy", "https", "migration credential", "oidc", "limits"}

\* The values of each variable, or of each group that the readers use alike.
Choices == [
    stage |-> {"local",             \* no marker of production
               "hosted",            \* VERCEL_ENV or DEPLOYMENT_ENV alone
               "production"},       \* NODE_ENV or APP_ENV
    demo |-> Switch, live |-> Switch, ack |-> Switch,
    provider |-> {"dummy", "twilio", "other"},
    class |-> {"local-demo", "production-live-direct", "production-live-campaign"},
    worker |-> {"runs", "disabled", "web"},
    override |-> BOOLEAN,
    flaw |-> Flaw]

AllEnvironments ==
    [stage : Choices.stage, demo : Switch, live : Switch, ack : Switch,
     provider : Choices.provider, class : Choices.class, worker : Choices.worker,
     override : BOOLEAN, flaw : Flaw]

-----------------------------------------------------------------------------
(* The readers.                                                             *)

\* booleanFromEnv.
On(word) == word \in {"true", "yes"}

ProductionLike(e) == e.stage # "local"

\* resolveEnvironment does not know the hosting platform's variables.
Production(e) == e.stage = "production"

\* runtimeEnvironmentSchema and its refinement.
ConfigIssues(e) ==
    {issue \in {"provider", "boundary", "public demo", "demo provider", "demo live",
                "live provider", "local auth", "proxy", "oidc", "live secrets",
                "production secrets", "credential", "limits"} :
        CASE issue = "provider"      -> e.provider = "other"
          [] issue = "boundary"      -> Production(e) /\ e.flaw = "row policies"
          [] issue = "public demo"   -> Production(e) /\ On(e.demo) /\ ~On(e.ack)
          [] issue = "demo provider" -> On(e.demo) /\ e.provider # "dummy"
          [] issue = "demo live"     -> On(e.demo) /\ On(e.live)
          [] issue = "live provider" -> On(e.live) /\ e.provider # "twilio"
          [] issue = "local auth"    -> ~On(e.demo) /\ e.flaw \in {"auth secret", "development build"}
          [] issue = "proxy"         -> ~On(e.demo) /\ Production(e) /\ e.flaw = "proxy"
          [] issue = "oidc"          -> ~On(e.demo) /\ e.flaw = "oidc"
          [] issue = "live secrets"  -> On(e.live) /\ e.provider = "twilio"
                                            /\ e.flaw \in {"master key", "https"}
          [] issue = "production secrets" -> Production(e) /\ e.flaw \in {"master key", "pepper"}
          [] issue = "credential"    -> e.flaw = "migration credential"
          [] issue = "limits"        -> e.flaw = "limits"}

\* How the web process answers a browser: with an error, as the demo
\* organization's owner whoever asks, or for a signed-in member.
AuthMode(e) ==
    IF ConfigIssues(e) # {} THEN "error" ELSE IF On(e.demo) THEN "demo" ELSE "local"

\* resolveDirectMessageTransport.
Transport(e) == IF e.provider = "other" THEN "none" ELSE e.provider

\* directMessageWorkerReadiness: what the direct-message worker may send by.
DirectReadiness(e) ==
    IF e.provider = "dummy"
    THEN IF ~ProductionLike(e) /\ e.live # "true" /\ e.demo = "true" /\ e.class = "local-demo"
         THEN "dummy" ELSE "blocked"
    ELSE IF /\ e.worker = "runs" /\ e.provider = "twilio"
            /\ e.live = "true" /\ e.demo # "true"
            /\ e.class = "production-live-direct"
            /\ e.flaw \notin {"https", "master key"}
         THEN "twilio" ELSE "blocked"

\* localWorkerReadiness: none of the reserved class's controls is implemented.
CampaignReadiness(e) ==
    ~ProductionLike(e) /\ e.class = "local-demo" /\ e.live = "false" /\ e.provider = "dummy"

\* Mutant: the demo organization is told by the environment alone.
HardGateOfEnvironment(e, org, recipient) ==
    e.live = "true" /\ e.provider # "dummy" /\ e.demo # "true" /\ recipient = "willing"

\* evaluateMessagingHardGate, where a live message is prepared.
HardGate(e, org, recipient) ==
    /\ e.live = "true" /\ e.provider # "dummy"
    /\ ~(e.demo = "true" \/ org = "demo")
    /\ recipient = "willing"

\* evaluateProductionDeploymentGate.
GateAllows(e) ==
    ProductionLike(e) =>
        /\ e.demo = "false" \/ e.ack = "true"
        /\ e.override \/ (e.live # "true" /\ e.provider = "dummy")
=============================================================================
