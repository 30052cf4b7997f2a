----------------------------- MODULE ApiRoutes -----------------------------
(* The handlers of the HTTP routes, and what is declared of them.  A handler *)
(* is a sequence of steps, any of which may end it: who calls, what the      *)
(* caller may do, whether the request makes sense, and where among those it  *)
(* changes what is stored.  The steps of a route are its module's, in order. *)
EXTENDS Naturals, Sequences, TLC

Methods == {"GET", "POST", "PUT", "PATCH", "DELETE", "HEAD", "OPTIONS"}

MEMBER == 1
ADMIN == 2
OWNER == 3

Scope == {"organization:read", "contacts:read", "contacts:write", "tags:read", "tags:write",
          "lists:read", "lists:write", "segments:read", "segments:write", "templates:read",
          "templates:write", "messages:read", "messages:write", "messages:send",
          "campaigns:read", "campaigns:write", "campaigns:send", "conversations:read",
          "conversations:write", "deliveries:read", "credentials:read", "credentials:write",
          "webhooks:read", "webhooks:write", "webhooks:replay"}

(* The steps:                                                               *)
(*   session, role, origin, key   who calls, and from where                 *)
(*   mode, budget                 the deployment has it; not asked too often *)
(*   input, find                  the request makes sense; what it names is  *)
(*   ensure                       a missing default row is made              *)
(*   call                         a provider is asked and may not answer     *)
(*   commit, also                 a transaction; one that is not always there *)
(*   once                         a transaction that keeps its answer        *)
(*   tell                         best effort: what fails here is logged     *)
(*   verdict                      what was stored is not what was hoped for, *)
(*                                or no longer what was read before          *)
(*   closed                       nobody gets further                        *)
Handler(role, scopes, steps) == [role |-> role, scopes |-> scopes, steps |-> steps]
Anonymous(steps) == Handler(0, {}, steps)
Views(steps) == Handler(0, {}, <<"session">> \o steps)
AdminViews(steps) == Handler(ADMIN, {}, <<"session", "role">> \o steps)
Mutates(role, steps) == Handler(role, {}, <<"session", "origin", "role">> \o steps)
\* Where the origin is looked at last.
Manages(role, steps) == Handler(role, {}, <<"session", "role", "mode", "origin">> \o steps)
Keyed(scopes, steps) == Handler(0, scopes, <<"key">> \o steps)
Reads(scopes) == Keyed(scopes, <<"input", "find">>)
Writes(scopes) == Keyed(scopes, <<"input", "once">>)
\* Whoever has a key learns that there is nothing here.
Refused == Keyed({}, <<"closed">>)

-----------------------------------------------------------------------------
(* The routes.                                                              *)

\* Contacts.
ContactsRoute == "contacts" :>
    [GET |-> Views(<<"find">>),
     POST |-> Mutates(ADMIN, <<"input", "call", "commit">>)]
ContactRoute == "contacts/[contactId]" :>
    [GET |-> Views(<<"find">>),
     PATCH |-> Mutates(ADMIN, <<"input", "commit">>),
     DELETE |-> Mutates(ADMIN, <<"commit">>)]
ContactMergeRoute == "contacts/[contactId]/merge" :>
    [POST |-> Mutates(ADMIN, <<"input", "commit">>)]
ContactImportsRoute == "contacts/imports" :> [POST |-> Mutates(ADMIN, <<"input", "commit">>)]
ContactSegmentsRoute == "contacts/segments" :> [GET |-> Views(<<"input", "find">>)]
ContactSegmentsExportRoute == "contacts/segments/export" :> [GET |-> Views(<<"input", "find">>)]

\* Campaigns and templates.
CampaignsRoute == "campaigns" :>
    [GET |-> Views(<<"find">>),
     POST |-> Mutates(ADMIN, <<"input", "commit">>)]
CampaignRoute == "campaigns/[campaignId]" :>
    [GET |-> Views(<<"find">>),
     PATCH |-> Mutates(ADMIN, <<"input", "commit">>)]
CampaignPreflightRoute == "campaigns/[campaignId]/preflight" :>
    [POST |-> Mutates(ADMIN, <<"input", "find">>)]
CampaignScheduleRoute == "campaigns/[campaignId]/schedule" :>
    [POST |-> Mutates(ADMIN, <<"input", "commit", "tell">>)]
CampaignCancelRoute == "campaigns/[campaignId]/cancel" :> [POST |-> Mutates(ADMIN, <<"commit">>)]
TemplatesRoute == "templates" :>
    [GET |-> Views(<<"find">>),
     POST |-> Mutates(ADMIN, <<"input", "commit">>)]
TemplateRoute == "templates/[templateId]" :>
    [GET |-> Views(<<"find">>),
     PATCH |-> Mutates(ADMIN, <<"input", "commit">>)]
TemplatePreviewRoute == "templates/preview" :> [POST |-> Mutates(MEMBER, <<"input", "find">>)]

\* Conversations.
ConversationsRoute == "inbox/conversations" :>
    [GET |-> Views(<<"find">>),
     POST |-> Mutates(ADMIN, <<"input", "commit", "also", "tell">>)]
ConversationRoute == "inbox/conversations/[conversationId]" :> [GET |-> Views(<<"find">>)]
ConversationMessagesRoute == "inbox/conversations/[conversationId]/messages" :>
    [GET |-> Views(<<"find">>),
     POST |-> Mutates(MEMBER, <<"input", "commit", "also", "tell">>)]
ConversationNotesRoute == "inbox/conversations/[conversationId]/notes" :>
    [GET |-> Views(<<"find">>),
     POST |-> Mutates(MEMBER, <<"input", "commit">>)]
ConversationReplyRoute == "inbox/conversations/[conversationId]/reply" :>
    [POST |-> Mutates(MEMBER, <<"input", "commit">>)]
ConversationResolveRoute == "inbox/conversations/[conversationId]/resolve" :>
    [POST |-> Mutates(MEMBER, <<"input", "commit">>)]
ConversationAssignRoute == "inbox/conversations/[conversationId]/assign" :>
    [POST |-> Mutates(ADMIN, <<"input", "commit">>)]
DemoInboundRoute == "demo/inbound" :>
    [POST |-> Mutates(ADMIN, <<"input", "commit", "also", "tell">>)]
LiveTestSmsRoute == "demo/live-test-sms" :>
    [GET |-> Views(<<>>),
     POST |-> Mutates(ADMIN, <<"input", "commit", "tell", "also", "verdict">>)]

\* Drafts, usage and reports.
CampaignCopyRoute == "ai/campaign-copy" :>
    [POST |-> Mutates(ADMIN, <<"input", "find", "call", "commit">>)]
ConversationSummaryRoute == "ai/conversation-summary" :>
    [POST |-> Mutates(MEMBER, <<"input", "find", "find", "call", "commit">>)]
ReplySuggestionRoute == "ai/reply-suggestion" :>
    [POST |-> Mutates(MEMBER, <<"input", "find", "find", "call", "commit">>)]
LeadQualificationRoute == "ai/lead-qualification" :>
    [POST |-> Mutates(MEMBER, <<"input", "find", "find", "call", "commit", "also">>)]
BillingUsageRoute == "billing/usage" :>
    [GET |-> Views(<<"ensure">>),
     POST |-> Mutates(ADMIN, <<"input", "commit", "ensure">>)]
CurrentOrganizationRoute == "orgs/current" :> [GET |-> Views(<<"find">>)]
AnalyticsOverviewRoute == "analytics/overview" :> [GET |-> Views(<<"find">>)]
MetricsRoute == "metrics" :> [GET |-> Anonymous(<<"mode", "session", "find">>)]
HealthRoute == "health" :> [GET |-> Anonymous(<<>>)]

\* Settings.
ApiKeysRoute == "settings/api-keys" :>
    [GET |-> AdminViews(<<"find">>),
     POST |-> Mutates(ADMIN, <<"input", "commit">>)]
ApiKeyRoute == "settings/api-keys/[credentialId]" :>
    [POST |-> Mutates(ADMIN, <<"input", "commit">>),
     DELETE |-> Mutates(ADMIN, <<"input", "commit">>)]
ComplianceRoute == "settings/compliance" :>
    [GET |-> Views(<<"ensure">>),
     PATCH |-> Mutates(ADMIN, <<"input", "commit", "commit">>)]
DeliveryAttemptsRoute == "settings/delivery-attempts" :> [GET |-> AdminViews(<<"input", "find">>)]
DeliveryAttemptRoute == "settings/delivery-attempts/[attemptId]" :>
    [GET |-> AdminViews(<<"input", "find">>)]
\* These three answer with the attempt as a transaction of its own finds it after
\* the one that changed it (delivery-attempt-review.ts:352, 416, 534).
ReconcileRoute == "settings/delivery-attempts/[attemptId]/reconcile" :>
    [POST |-> Mutates(ADMIN, <<"input", "find", "call", "commit", "find">>)]
AttestNotSentRoute == "settings/delivery-attempts/[attemptId]/attest-not-sent" :>
    [POST |-> Mutates(ADMIN, <<"input", "commit", "find">>)]
RetryRoute == "settings/delivery-attempts/[attemptId]/retry" :>
    [POST |-> Mutates(ADMIN, <<"input", "commit", "find">>)]
NumbersRoute == "settings/numbers" :>
    [GET |-> AdminViews(<<"find">>),
     POST |-> Mutates(ADMIN, <<"input", "commit">>)]
NumberRoute == "settings/numbers/[numberId]" :> [PATCH |-> Mutates(ADMIN, <<"input", "commit">>)]
ProviderRoute == "settings/provider" :>
    [GET |-> Views(<<"find">>),
     PATCH |-> Mutates(ADMIN, <<"closed">>),
     DELETE |-> Mutates(ADMIN, <<"find", "commit">>)]
ProviderAccountsRoute == "settings/provider/accounts" :>
    [GET |-> AdminViews(<<"find">>),
     POST |-> Mutates(ADMIN, <<"input", "call", "commit">>)]
ProviderAccountRoute == "settings/provider/accounts/[accountId]" :>
    [GET |-> AdminViews(<<"find">>),
     PATCH |-> Mutates(ADMIN, <<"input", "commit">>),
     DELETE |-> Mutates(ADMIN, <<"commit">>)]
DiscoverRoute == "settings/provider/accounts/[accountId]/discover" :>
    [POST |-> Mutates(ADMIN, <<"find", "call", "commit">>)]
AccountHealthRoute == "settings/provider/accounts/[accountId]/health" :>
    [POST |-> Mutates(ADMIN, <<"find", "call", "commit">>)]
VerifyRoute == "settings/provider/accounts/[accountId]/verify" :>
    [POST |-> Mutates(ADMIN, <<"find", "call", "commit">>)]
RotateRoute == "settings/provider/accounts/[accountId]/rotate" :>
    [POST |-> Mutates(ADMIN, <<"input", "find", "call", "commit">>)]
ImportRoute == "settings/provider/accounts/[accountId]/import" :>
    [POST |-> Mutates(ADMIN, <<"input", "find", "call", "commit">>)]
AccountServicesRoute == "settings/provider/accounts/[accountId]/messaging-services" :>
    [GET |-> AdminViews(<<"find">>)]
AccountNumbersRoute == "settings/provider/accounts/[accountId]/numbers" :>
    [GET |-> AdminViews(<<"find">>)]
AccountServiceRoute == "settings/provider/accounts/[accountId]/messaging-services/[serviceId]" :>
    [PATCH |-> Mutates(ADMIN, <<"input", "commit">>)]
RotationsRoute == "settings/provider/rotations" :> [GET |-> AdminViews(<<"input", "find">>)]
RotationsExportRoute == "settings/provider/rotations/export" :>
    [GET |-> AdminViews(<<"input", "find">>)]
ReadinessAuditRoute == "settings/readiness-audit" :> [GET |-> Views(<<"input", "find">>)]
ReadinessAuditExportRoute == "settings/readiness-audit/export" :>
    [GET |-> Views(<<"input", "find">>)]

\* Sign-in and team.
LoginRoute == "auth/login" :>
    [POST |-> Anonymous(<<"mode", "origin", "budget", "input", "budget", "find", "find",
                         "also", "commit">>)]
SetupRoute == "auth/setup" :>
    [POST |-> Anonymous(<<"mode", "origin", "budget", "input", "commit", "commit">>)]
LogoutRoute == "auth/logout" :> [POST |-> Anonymous(<<"origin", "commit">>)]
CurrentSessionRoute == "auth/session" :> [GET |-> Anonymous(<<"mode", "session">>)]
OrganizationsRoute == "auth/organizations" :>
    [GET |-> Views(<<"mode", "find">>),
     POST |-> Mutates(OWNER, <<"mode", "origin", "input", "commit">>)]
\* The session switched, its role is compared with the one of the membership
\* found before (organization-service.ts:307-326).
OrganizationSelectRoute == "auth/organizations/select" :>
    [POST |-> Manages(MEMBER, <<"input", "find", "commit", "verdict">>)]
PasswordResetsRoute == "auth/password-resets" :>
    [POST |-> Anonymous(<<"session", "origin", "closed">>)]
PasswordResetCompleteRoute == "auth/password-resets/complete" :>
    [POST |-> Anonymous(<<"mode", "origin", "budget", "input", "commit">>)]
RevokeAllSessionsRoute == "auth/sessions/revoke-all" :> [POST |-> Manages(MEMBER, <<"commit">>)]
TeamRoute == "auth/team" :> [GET |-> AdminViews(<<"mode", "find">>)]
TeamInvitesRoute == "auth/team/invites" :> [POST |-> Manages(ADMIN, <<"input", "commit">>)]
TeamInviteRoute == "auth/team/invites/[inviteId]" :> [DELETE |-> Manages(ADMIN, <<"commit">>)]
TeamMemberRoute == "auth/team/members/[userId]" :>
    [PATCH |-> Manages(ADMIN, <<"input", "commit">>),
     DELETE |-> Manages(ADMIN, <<"commit">>)]
AcceptInviteRoute == "auth/team/invites/accept" :>
    [POST |-> Anonymous(<<"mode", "origin", "budget", "input", "budget", "commit", "commit">>)]

\* Public API.
PublicContactsRoute == "v1/contacts" :>
    [GET |-> Reads({"contacts:read"}),
     POST |-> Writes({"contacts:write"})]
PublicContactRoute == "v1/contacts/[contactId]" :>
    [GET |-> Reads({"contacts:read"}),
     PATCH |-> Writes({"contacts:write"}),
     DELETE |-> Writes({"contacts:write"})]
PublicTagsRoute == "v1/tags" :> [GET |-> Reads({"tags:read"}), POST |-> Writes({"tags:write"})]
PublicTagRoute == "v1/tags/[tagId]" :>
    [GET |-> Reads({"tags:read"}),
     PATCH |-> Writes({"tags:write"}),
     DELETE |-> Writes({"tags:write"})]
PublicListsRoute == "v1/lists" :>
    [GET |-> Reads({"lists:read"}),
     POST |-> Writes({"lists:write"})]
PublicListRoute == "v1/lists/[listId]" :>
    [GET |-> Reads({"lists:read"}),
     PATCH |-> Writes({"lists:write"}),
     DELETE |-> Writes({"lists:write"})]
PublicListContactsRoute == "v1/lists/[listId]/contacts" :>
    [GET |-> Reads({"lists:read", "contacts:read"}),
     POST |-> Writes({"lists:write"})]
PublicListContactRoute == "v1/lists/[listId]/contacts/[contactId]" :>
    [DELETE |-> Writes({"lists:write"})]
PublicSegmentsRoute == "v1/segments" :>
    [GET |-> Reads({"segments:read"}),
     POST |-> Writes({"segments:write"})]
PublicSegmentRoute == "v1/segments/[segmentId]" :>
    [GET |-> Reads({"segments:read"}),
     PATCH |-> Writes({"segments:write"}),
     DELETE |-> Writes({"segments:write"})]
PublicSegmentContactsRoute == "v1/segments/[segmentId]/contacts" :>
    [GET |-> Reads({"segments:read", "contacts:read"})]
PublicTemplatesRoute == "v1/templates" :>
    [GET |-> Reads({"templates:read"}),
     POST |-> Writes({"templates:write"})]
PublicTemplateRoute == "v1/templates/[templateId]" :>
    [GET |-> Reads({"templates:read"}),
     PATCH |-> Writes({"templates:write"}),
     DELETE |-> Writes({"templates:write"})]
PublicCampaignsRoute == "v1/campaigns" :>
    [GET |-> Reads({"campaigns:read"}),
     POST |-> Writes({"campaigns:write"})]
PublicCampaignRoute == "v1/campaigns/[campaignId]" :>
    [GET |-> Reads({"campaigns:read"}),
     PATCH |-> Writes({"campaigns:write"})]
PublicScheduleRoute == "v1/campaigns/[campaignId]/schedule" :>
    [POST |-> Writes({"campaigns:send"})]
PublicCancelRoute == "v1/campaigns/[campaignId]/cancel" :> [POST |-> Writes({"campaigns:send"})]
PublicConversationsRoute == "v1/conversations" :> [GET |-> Reads({"conversations:read"})]
PublicConversationRoute == "v1/conversations/[conversationId]" :>
    [GET |-> Reads({"conversations:read"})]
PublicRepliesRoute == "v1/conversations/[conversationId]/messages" :>
    [GET |-> Reads({"conversations:read", "messages:read"}),
     POST |-> Writes({"conversations:write", "messages:send"})]
PublicMessagesRoute == "v1/messages" :>
    [GET |-> Reads({"messages:read"}),
     POST |-> Writes({"messages:send"})]
PublicMessageRoute == "v1/messages/[messageId]" :> [GET |-> Reads({"messages:read"})]
PublicMessageStatusRoute == "v1/messages/[messageId]/status" :>
    [GET |-> Reads({"deliveries:read"})]
PublicMessageCancelRoute == "v1/messages/[messageId]/cancel" :>
    [POST |-> Writes({"messages:send"})]
CurrentKeyRoute == "v1/api-keys/current" :>
    [GET |-> Keyed({"credentials:read"}, <<"find">>),
     DELETE |-> Keyed({"credentials:write"}, <<"once">>)]
CurrentKeyRotateRoute == "v1/api-keys/current/rotate" :>
    [POST |-> Keyed({"credentials:write"}, <<"once">>)]
PublicOrganizationRoute == "v1/organization" :> [GET |-> Keyed({"organization:read"}, <<"find">>)]
EventTypesRoute == "v1/webhook-event-types" :> [GET |-> Keyed({"webhooks:read"}, <<>>)]
OpenApiRoute == "v1/openapi.json" :> [GET |-> Anonymous(<<>>)]
EndpointsRoute == "v1/webhook-endpoints" :>
    [GET |-> Reads({"webhooks:read"}),
     POST |-> Writes({"webhooks:write"})]
EndpointRoute == "v1/webhook-endpoints/[endpointId]" :>
    [GET |-> Reads({"webhooks:read"}),
     PATCH |-> Writes({"webhooks:write"}),
     DELETE |-> Writes({"webhooks:write"})]
EndpointSecretRoute == "v1/webhook-endpoints/[endpointId]/rotate-secret" :>
    [POST |-> Writes({"webhooks:write"})]
EndpointDeliveriesRoute == "v1/webhook-endpoints/[endpointId]/deliveries" :>
    [GET |-> Reads({"deliveries:read"})]
ReplayRoute == "v1/webhook-deliveries/[deliveryId]/replay" :>
    [POST |-> Writes({"webhooks:replay"})]

\* What no route serves, and the root, are refused like any other request.
UnmatchedRoute == "v1/[...path]" :> [m \in Methods |-> Refused]
RootRoute == "v1" :> [m \in Methods |-> Refused]

Console ==
    ContactsRoute @@ ContactRoute @@ ContactMergeRoute @@ ContactImportsRoute @@
    ContactSegmentsRoute @@ ContactSegmentsExportRoute @@ CampaignsRoute @@ CampaignRoute @@
    CampaignPreflightRoute @@ CampaignScheduleRoute @@ CampaignCancelRoute @@ TemplatesRoute
    @@ TemplateRoute @@ TemplatePreviewRoute @@ ConversationsRoute @@ ConversationRoute @@
    ConversationMessagesRoute @@ ConversationNotesRoute @@ ConversationReplyRoute @@
    ConversationResolveRoute @@ ConversationAssignRoute @@ DemoInboundRoute @@
    LiveTestSmsRoute @@ CampaignCopyRoute @@ ConversationSummaryRoute @@
    ReplySuggestionRoute @@ LeadQualificationRoute @@ BillingUsageRoute @@
    CurrentOrganizationRoute @@ AnalyticsOverviewRoute @@ MetricsRoute @@ HealthRoute @@
    ApiKeysRoute @@ ApiKeyRoute @@ ComplianceRoute @@ DeliveryAttemptsRoute @@
    DeliveryAttemptRoute @@ ReconcileRoute @@ AttestNotSentRoute @@ RetryRoute @@
    NumbersRoute @@ NumberRoute @@ ProviderRoute @@ ProviderAccountsRoute @@
    ProviderAccountRoute @@ DiscoverRoute @@ AccountHealthRoute @@ VerifyRoute @@
    RotateRoute @@ ImportRoute @@ AccountServicesRoute @@ AccountNumbersRoute @@
    AccountServiceRoute @@ RotationsRoute @@ RotationsExportRoute @@ ReadinessAuditRoute @@
    ReadinessAuditExportRoute @@ LoginRoute @@ SetupRoute @@ LogoutRoute @@
    CurrentSessionRoute @@ OrganizationsRoute @@ OrganizationSelectRoute @@
    PasswordResetsRoute @@ PasswordResetCompleteRoute @@ RevokeAllSessionsRoute @@ TeamRoute
    @@ TeamInvitesRoute @@ TeamInviteRoute @@ TeamMemberRoute @@ AcceptInviteRoute
Public ==
    PublicContactsRoute @@ PublicContactRoute @@ PublicTagsRoute @@ PublicTagRoute @@
    PublicListsRoute @@ PublicListRoute @@ PublicListContactsRoute @@ PublicListContactRoute
    @@ PublicSegmentsRoute @@ PublicSegmentRoute @@ PublicSegmentContactsRoute @@
    PublicTemplatesRoute @@ PublicTemplateRoute @@ PublicCampaignsRoute @@
    PublicCampaignRoute @@ PublicScheduleRoute @@ PublicCancelRoute @@
    PublicConversationsRoute @@ PublicConversationRoute @@ PublicRepliesRoute @@
    PublicMessagesRoute @@ PublicMessageRoute @@ PublicMessageStatusRoute @@
    PublicMessageCancelRoute @@ CurrentKeyRoute @@ CurrentKeyRotateRoute @@
    PublicOrganizationRoute @@ EventTypesRoute @@ OpenApiRoute @@ EndpointsRoute @@
    EndpointRoute @@ EndpointSecretRoute @@ EndpointDeliveriesRoute @@ ReplayRoute @@
    UnmatchedRoute @@ RootRoute

\* The methods a route does not have are refused, to whoever has a key; the
\* document alone asks for none.
Served ==
    [path \in DOMAIN Public |-> [m \in Methods |->
        CASE m \in DOMAIN Public[path] -> Public[path][m]
          [] m \notin DOMAIN Public[path] /\ path = "v1/openapi.json" -> Anonymous(<<"closed">>)
          [] OTHER -> Refused]]

-----------------------------------------------------------------------------
(* What is declared of them: the table of the gates of every mutation, and   *)
(* the operations the public document lists.                                *)

\* What a place asks for: a role or a set of scopes.
Gate(what, places) == [p \in places |-> what]

TeamGates ==
    Gate(MEMBER, {<<"POST", "auth/sessions/revoke-all">>,
        <<"POST", "auth/organizations/select">>}) @@
    Gate(OWNER, {<<"POST", "auth/organizations">>}) @@
    Gate(ADMIN, {<<"POST", "auth/team/invites">>, <<"DELETE", "auth/team/invites/[inviteId]">>,
        <<"PATCH", "auth/team/members/[userId]">>, <<"DELETE", "auth/team/members/[userId]">>})
DraftAndCampaignGates ==
    Gate(ADMIN, {<<"POST", "ai/campaign-copy">>, <<"POST", "billing/usage">>,
        <<"POST", "campaigns">>, <<"PATCH", "campaigns/[campaignId]">>,
        <<"POST", "campaigns/[campaignId]/preflight">>,
        <<"POST", "campaigns/[campaignId]/schedule">>,
        <<"POST", "campaigns/[campaignId]/cancel">>}) @@
    Gate(MEMBER, {<<"POST", "ai/conversation-summary">>, <<"POST", "ai/lead-qualification">>,
        <<"POST", "ai/reply-suggestion">>})
ContactAndInboxGates ==
    Gate(ADMIN, {<<"POST", "contacts">>, <<"PATCH", "contacts/[contactId]">>,
        <<"DELETE", "contacts/[contactId]">>, <<"POST", "contacts/[contactId]/merge">>,
        <<"POST", "contacts/imports">>, <<"POST", "demo/inbound">>,
        <<"POST", "demo/live-test-sms">>, <<"POST", "inbox/conversations">>,
        <<"POST", "inbox/conversations/[conversationId]/assign">>}) @@
    Gate(MEMBER, {<<"POST", "inbox/conversations/[conversationId]/messages">>,
        <<"POST", "inbox/conversations/[conversationId]/notes">>,
        <<"POST", "inbox/conversations/[conversationId]/reply">>,
        <<"POST", "inbox/conversations/[conversationId]/resolve">>})
SettingsGates ==
    Gate(ADMIN, {<<"PATCH", "settings/compliance">>,
        <<"POST", "settings/delivery-attempts/[attemptId]/reconcile">>,
        <<"POST", "settings/delivery-attempts/[attemptId]/attest-not-sent">>,
        <<"POST", "settings/delivery-attempts/[attemptId]/retry">>,
        <<"POST", "settings/numbers">>, <<"PATCH", "settings/provider">>,
        <<"DELETE", "settings/provider">>, <<"POST", "settings/provider/accounts">>,
        <<"PATCH", "settings/provider/accounts/[accountId]">>,
        <<"DELETE", "settings/provider/accounts/[accountId]">>,
        <<"POST", "settings/provider/accounts/[accountId]/rotate">>,
        <<"POST", "settings/provider/accounts/[accountId]/verify">>,
        <<"POST", "settings/provider/accounts/[accountId]/health">>,
        <<"POST", "settings/provider/accounts/[accountId]/discover">>,
        <<"POST", "settings/provider/accounts/[accountId]/import">>,
        <<"PATCH", "settings/provider/accounts/[accountId]/messaging-services/[serviceId]">>,
        <<"PATCH", "settings/numbers/[numberId]">>, <<"POST", "settings/api-keys">>,
        <<"POST", "settings/api-keys/[credentialId]">>,
        <<"DELETE", "settings/api-keys/[credentialId]">>})
TemplateGates ==
    Gate(ADMIN, {<<"POST", "templates">>, <<"PATCH", "templates/[templateId]">>}) @@
    Gate(MEMBER, {<<"POST", "templates/preview">>})
EndpointGates ==
    Gate({"webhooks:write"}, {<<"POST", "v1/webhook-endpoints">>,
        <<"PATCH", "v1/webhook-endpoints/[endpointId]">>,
        <<"DELETE", "v1/webhook-endpoints/[endpointId]">>,
        <<"POST", "v1/webhook-endpoints/[endpointId]/rotate-secret">>}) @@
    Gate({"webhooks:replay"}, {<<"POST", "v1/webhook-deliveries/[deliveryId]/replay">>}) @@
    Gate({"credentials:write"}, {<<"POST", "v1/api-keys/current/rotate">>,
        <<"DELETE", "v1/api-keys/current">>})
ContactAndMessageGates ==
    Gate({"contacts:write"}, {<<"POST", "v1/contacts">>,
        <<"PATCH", "v1/contacts/[contactId]">>, <<"DELETE", "v1/contacts/[contactId]">>}) @@
    Gate({"messages:send"}, {<<"POST", "v1/messages">>,
        <<"POST", "v1/messages/[messageId]/cancel">>}) @@
    Gate({"tags:write"}, {<<"POST", "v1/tags">>, <<"PATCH", "v1/tags/[tagId]">>,
        <<"DELETE", "v1/tags/[tagId]">>}) @@
    Gate({"lists:write"}, {<<"POST", "v1/lists">>, <<"PATCH", "v1/lists/[listId]">>,
        <<"DELETE", "v1/lists/[listId]">>, <<"POST", "v1/lists/[listId]/contacts">>,
        <<"DELETE", "v1/lists/[listId]/contacts/[contactId]">>}) @@
    Gate({"segments:write"}, {<<"POST", "v1/segments">>,
        <<"PATCH", "v1/segments/[segmentId]">>, <<"DELETE", "v1/segments/[segmentId]">>})
CampaignGates ==
    Gate({"templates:write"}, {<<"POST", "v1/templates">>,
        <<"PATCH", "v1/templates/[templateId]">>, <<"DELETE", "v1/templates/[templateId]">>}) @@
    Gate({"campaigns:write"}, {<<"POST", "v1/campaigns">>,
        <<"PATCH", "v1/campaigns/[campaignId]">>}) @@
    Gate({"campaigns:send"}, {<<"POST", "v1/campaigns/[campaignId]/schedule">>,
        <<"POST", "v1/campaigns/[campaignId]/cancel">>}) @@
    Gate({"conversations:write", "messages:send"}, {
        <<"POST", "v1/conversations/[conversationId]/messages">>})
SignedOut ==
    {<<"POST", "auth/login">>,
     <<"POST", "auth/logout">>,
     <<"POST", "auth/password-resets/complete">>,
     <<"POST", "auth/setup">>,
     <<"POST", "auth/team/invites/accept">>}

DocumentedContacts ==
    Gate({}, {<<"GET", "v1/openapi.json">>}) @@
    Gate({"organization:read"}, {<<"GET", "v1/organization">>}) @@
    Gate({"contacts:read"}, {<<"GET", "v1/contacts">>, <<"GET", "v1/contacts/[contactId]">>}) @@
    Gate({"contacts:write"}, {<<"POST", "v1/contacts">>,
        <<"PATCH", "v1/contacts/[contactId]">>, <<"DELETE", "v1/contacts/[contactId]">>})
DocumentedTagsAndLists ==
    Gate({"tags:read"}, {<<"GET", "v1/tags">>, <<"GET", "v1/tags/[tagId]">>}) @@
    Gate({"tags:write"}, {<<"POST", "v1/tags">>, <<"PATCH", "v1/tags/[tagId]">>,
        <<"DELETE", "v1/tags/[tagId]">>}) @@
    Gate({"lists:read"}, {<<"GET", "v1/lists">>, <<"GET", "v1/lists/[listId]">>}) @@
    Gate({"lists:write"}, {<<"POST", "v1/lists">>, <<"PATCH", "v1/lists/[listId]">>,
        <<"DELETE", "v1/lists/[listId]">>, <<"POST", "v1/lists/[listId]/contacts">>,
        <<"DELETE", "v1/lists/[listId]/contacts/[contactId]">>}) @@
    Gate({"lists:read", "contacts:read"}, {<<"GET", "v1/lists/[listId]/contacts">>})
DocumentedSegmentsAndTemplates ==
    Gate({"segments:read"}, {<<"GET", "v1/segments">>, <<"GET", "v1/segments/[segmentId]">>}) @@
    Gate({"segments:write"}, {<<"POST", "v1/segments">>,
        <<"PATCH", "v1/segments/[segmentId]">>, <<"DELETE", "v1/segments/[segmentId]">>}) @@
    Gate({"segments:read", "contacts:read"}, {<<"GET", "v1/segments/[segmentId]/contacts">>}) @@
    Gate({"templates:read"}, {<<"GET", "v1/templates">>,
        <<"GET", "v1/templates/[templateId]">>}) @@
    Gate({"templates:write"}, {<<"POST", "v1/templates">>,
        <<"PATCH", "v1/templates/[templateId]">>, <<"DELETE", "v1/templates/[templateId]">>})
DocumentedMessages ==
    Gate({"messages:read"}, {<<"GET", "v1/messages">>, <<"GET", "v1/messages/[messageId]">>}) @@
    Gate({"messages:send"}, {<<"POST", "v1/messages">>,
        <<"POST", "v1/messages/[messageId]/cancel">>}) @@
    Gate({"deliveries:read"}, {<<"GET", "v1/messages/[messageId]/status">>})
DocumentedCampaigns ==
    Gate({"campaigns:read"}, {<<"GET", "v1/campaigns">>,
        <<"GET", "v1/campaigns/[campaignId]">>}) @@
    Gate({"campaigns:write"}, {<<"POST", "v1/campaigns">>,
        <<"PATCH", "v1/campaigns/[campaignId]">>}) @@
    Gate({"campaigns:send"}, {<<"POST", "v1/campaigns/[campaignId]/schedule">>,
        <<"POST", "v1/campaigns/[campaignId]/cancel">>})
DocumentedConversations ==
    Gate({"conversations:read"}, {<<"GET", "v1/conversations">>,
        <<"GET", "v1/conversations/[conversationId]">>}) @@
    Gate({"conversations:read", "messages:read"}, {
        <<"GET", "v1/conversations/[conversationId]/messages">>}) @@
    Gate({"conversations:write", "messages:send"}, {
        <<"POST", "v1/conversations/[conversationId]/messages">>})
DocumentedKeys ==
    Gate({"credentials:read"}, {<<"GET", "v1/api-keys/current">>}) @@
    Gate({"credentials:write"}, {<<"DELETE", "v1/api-keys/current">>,
        <<"POST", "v1/api-keys/current/rotate">>})
DocumentedEndpoints ==
    Gate({"webhooks:read"}, {<<"GET", "v1/webhook-event-types">>,
        <<"GET", "v1/webhook-endpoints">>, <<"GET", "v1/webhook-endpoints/[endpointId]">>}) @@
    Gate({"webhooks:write"}, {<<"POST", "v1/webhook-endpoints">>,
        <<"PATCH", "v1/webhook-endpoints/[endpointId]">>,
        <<"DELETE", "v1/webhook-endpoints/[endpointId]">>,
        <<"POST", "v1/webhook-endpoints/[endpointId]/rotate-secret">>}) @@
    Gate({"deliveries:read"}, {<<"GET", "v1/webhook-endpoints/[endpointId]/deliveries">>}) @@
    Gate({"webhooks:replay"}, {<<"POST", "v1/webhook-deliveries/[deliveryId]/replay">>})

RoleGates ==
    TeamGates @@ DraftAndCampaignGates @@ ContactAndInboxGates @@ SettingsGates @@ TemplateGates
KeyGates == EndpointGates @@ ContactAndMessageGates @@ CampaignGates
Documented ==
    DocumentedContacts @@ DocumentedTagsAndLists @@ DocumentedSegmentsAndTemplates
    @@ DocumentedMessages @@ DocumentedCampaigns @@ DocumentedConversations
    @@ DocumentedKeys @@ DocumentedEndpoints
=============================================================================
