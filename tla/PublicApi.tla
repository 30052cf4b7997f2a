----------------------------- MODULE PublicApi -----------------------------
(* The authenticated public API: keys, their rate budget, and mutations      *)
(* that a client may send again.                                            *)
(*                                                                          *)
(* A request is admitted in two transactions (Resolve looks the key's hash   *)
(* up, Consume re-reads the row under its lock and charges it) and executed  *)
(* in a third, which takes the advisory lock of <<credential, idempotency    *)
(* key>>, reads the record stored under them, and either answers from it or  *)
(* runs the mutation and stores the answer.  That third transaction is two   *)
(* steps (Begin: what it read; Execute: what it commits), for it is READ     *)
(* COMMITTED and only the advisory lock orders it with others.  Nothing it   *)
(* does is visible before the commit, so a process that dies in between      *)
(* leaves only the lock, which goes with the transaction.                    *)
EXTENDS Naturals, FiniteSets

CONSTANTS
    Request,       \* requests in flight
    Credential,
    Key,           \* values of the Idempotency-Key header
    Body,          \* canonical request bodies
    Scopes,        \* the sets of routes a credential may have been granted
    Expiries,      \* the expiry times it may have been given, or None
    Retention,     \* how long a stored answer is replayed
    RateWindow,    \* how long a rate window lasts
    RateLimit,     \* requests admitted in one window
    MaxTime,       \* bound: the clock
    MaxRequests,   \* bound: requests sent
    MaxSecret,     \* bound: generations of one credential's secret
    None

ASSUME NoneAssumption == None \notin Request \cup Nat
ASSUME TimeAssumption ==
    /\ Retention \in Nat \ {0} /\ RateWindow \in Nat \ {0} /\ RateLimit \in Nat \ {0}
    /\ MaxTime \in Nat /\ MaxRequests \in Nat /\ MaxSecret \in Nat

VARIABLES
    credential,  \* [Credential -> row of ApiCredential]
    record,      \* [Slot -> row of ApiIdempotencyRecord, or NoRecord]
    holder,      \* [Slot -> the request that holds the advisory lock]
    made,        \* what mutations committed: messages, campaigns, secrets
    request,     \* [Request -> a request and how far it has come]
    consent,     \* may the recipient be written to?
    now, sent

vars == <<credential, record, holder, made, request, consent, now, sent>>

Slot == Credential \X Key
Route == {"messages", "replies", "campaigns", "rotate", "revoke"}
\* Both send a message, which keeps the request's identity for good.
Sending == {"messages", "replies"}
Bodiless == {"rotate", "revoke"}

NoAnswer == [status |-> "none", resource |-> 0, replayed |-> FALSE]
Says(status, resource) == [status |-> status, resource |-> resource, replayed |-> FALSE]
NoRecord == [route |-> "none", body |-> None, answer |-> NoAnswer, expires |-> 0]
Idle == [step |-> "idle", slot |-> None, secret |-> 0, route |-> "none", body |-> None,
         found |-> NoRecord, began |-> 0, answer |-> NoAnswer]

Init ==
    /\ \E scopes \in Scopes, expiry \in Expiries :
          credential = [c \in Credential |->
              [secret |-> 1, revoked |-> FALSE, expires |-> expiry, scopes |-> scopes,
               window |-> None, count |-> 0]]
    /\ record = [s \in Slot |-> NoRecord]
    /\ holder = [s \in Slot |-> None]
    /\ made = {}
    /\ request = [r \in Request |-> Idle]
    /\ consent = TRUE
    /\ now = 0 /\ sent = 0

-----------------------------------------------------------------------------
(* What a request carries and finds.                                        *)

Of(r) == request[r].slot[1]
At(r, step) == request[r].step = step

\* Both columns a rotation replaces, prefix and hash, stand for the secret.
Usable(c, secret) ==
    /\ credential[c].secret = secret
    /\ ~credential[c].revoked
    /\ credential[c].expires # None => now < credential[c].expires

NewWindow(c) ==
    \/ credential[c].window = None
    \/ credential[c].window + RateWindow <= now
Charged(c) == IF NewWindow(c) THEN 0 ELSE credential[c].count
\* Mutant: the budget is spent one request late.
ExhaustedOneLate(c) == Charged(c) > RateLimit
Exhausted(c) == Charged(c) >= RateLimit

\* A row that has not expired when the transaction looks at its clock.
Live(rec) == rec # NoRecord /\ rec.expires > now
\* Mutant: the route is compared, the hash of the body is not.
SameRouteOnly(rec, r) == rec.route = request[r].route
SameRequest(rec, r) == rec.route = request[r].route /\ rec.body = request[r].body

\* What fingerprintRequest digests of a message that was reserved.
SameFingerprint(m, r) == m.route = request[r].route /\ m.body = request[r].body

\* Mutant: the stored answer is kept for one unit of time too few.
KeptTooBriefly == Retention - 1
Kept == Retention

\* pg_advisory_xact_lock waits for nobody else to hold it.
LockFree(slot) == holder[slot] = None

\* A new row's identifier.
Serial == Cardinality(made) + 1
Made(r, kind) ==
    [kind |-> kind, slot |-> request[r].slot, route |-> request[r].route,
     body |-> request[r].body, began |-> request[r].began, id |-> Serial,
     from |-> credential[Of(r)].secret]
MessageOf(slot) == {m \in made : m.kind = "message" /\ m.slot = slot}

Answer(r, answer) ==
    request' = [request EXCEPT ![r].step = "answered", ![r].answer = answer,
                               ![r].found = NoRecord, ![r].began = 0]
Free(r) == holder' = [holder EXCEPT ![request[r].slot] = None]

-----------------------------------------------------------------------------
(* Admission.                                                               *)

\* A client presents any secret it was ever given, and may send one request
\* again and again: under the same key, or with another body or route.  Until
\* resolveCredential looks the secret's hash up, the request did nothing; the
\* hash of a replaced secret is in no row.
Resolve(r, slot, secret, route, body) ==
    LET sending == [Idle EXCEPT !.slot = slot, !.secret = secret, !.route = route, !.body = body]
    IN
    /\ request[r].step \in {"idle", "answered"}
    /\ sent < MaxRequests
    /\ secret \in 1..credential[slot[1]].secret
    /\ (body = None) <=> (route \in Bodiless)
    /\ \/ /\ credential[slot[1]].secret = secret
          /\ request' = [request EXCEPT ![r] = [sending EXCEPT !.step = "resolved"]]
       \/ /\ credential[slot[1]].secret # secret
          /\ request' = [request EXCEPT ![r] =
               [sending EXCEPT !.step = "answered", !.answer = Says("unauthorized", 0)]]
    /\ sent' = sent + 1
    /\ UNCHANGED <<credential, record, holder, made, consent, now>>

\* consumeCredential, under the row's lock; the scopes are asked for only
\* after the request was charged.
Consume(r) ==
    /\ At(r, "resolved")
    /\ \/ /\ ~Usable(Of(r), request[r].secret)
          /\ Answer(r, Says("unauthorized", 0))
          /\ UNCHANGED credential
       \/ /\ Usable(Of(r), request[r].secret)
          /\ Exhausted(Of(r))
          /\ Answer(r, Says("limited", 0))
          /\ UNCHANGED credential
       \/ /\ Usable(Of(r), request[r].secret)
          /\ ~Exhausted(Of(r))
          /\ credential' = [credential EXCEPT
                 ![Of(r)].window = IF NewWindow(Of(r)) THEN now ELSE @,
                 ![Of(r)].count = Charged(Of(r)) + 1]
          /\ IF request[r].route \in credential[Of(r)].scopes
             THEN request' = [request EXCEPT ![r].step = "admitted"]
             ELSE Answer(r, Says("forbidden", 0))
    /\ UNCHANGED <<record, holder, made, consent, now, sent>>

-----------------------------------------------------------------------------
(* executeIdempotentMutation, in the caller's tenant transaction.           *)

\* The lock is had, the record read, the clock looked at.  An expired row is
\* deleted with the commit.
Begin(r) ==
    LET found == record[request[r].slot] IN
    /\ At(r, "admitted")
    /\ LockFree(request[r].slot)
    /\ \/ /\ Live(found) /\ SameRequest(found, r)
          /\ Answer(r, [found.answer EXCEPT !.replayed = TRUE])
          /\ UNCHANGED holder
       \/ /\ Live(found) /\ ~SameRequest(found, r)
          /\ Answer(r, Says("conflict", 0))
          /\ UNCHANGED holder
       \/ /\ ~Live(found)
          /\ request' = [request EXCEPT ![r].step = "executing", ![r].found = found,
                                        ![r].began = now]
          /\ holder' = [holder EXCEPT ![request[r].slot] = r]
    /\ UNCHANGED <<credential, record, made, consent, now, sent>>

\* The mutation succeeded or failed for a reason it reports: both are stored.
Stored(r, answer) ==
    record' = [record EXCEPT ![request[r].slot] =
        [route |-> request[r].route, body |-> request[r].body, answer |-> answer,
         expires |-> request[r].began + Kept]]

\* reserveDirectMessage: a message found under the identity is the answer if
\* its fingerprint agrees; else the recipient's consent decides.
SendMessage(r) ==
    LET mine == MessageOf(request[r].slot) IN
    /\ request[r].route \in Sending
    /\ UNCHANGED credential
    /\ \/ \E m \in mine :
             LET answer == IF SameFingerprint(m, r) THEN Says("ok", m.id)
                                                ELSE Says("conflict", 0)
             IN  Answer(r, answer) /\ Stored(r, answer) /\ UNCHANGED made
       \/ /\ mine = {} /\ consent
          /\ made' = made \cup {Made(r, "message")}
          /\ Answer(r, Says("ok", Serial)) /\ Stored(r, Says("ok", Serial))
       \/ /\ mine = {} /\ ~consent
          /\ Answer(r, Says("blocked", 0)) /\ Stored(r, Says("blocked", 0))
          /\ UNCHANGED made

\* A campaign carries nothing of the request: every execution makes another.
\* (So do contacts, tags, lists and webhook endpoints.)
CreateCampaign(r) ==
    /\ request[r].route = "campaigns"
    /\ made' = made \cup {Made(r, "campaign")}
    /\ Answer(r, Says("ok", Serial)) /\ Stored(r, Says("ok", Serial))
    /\ UNCHANGED credential

\* rotateApiCredential, for the prefix the request was admitted with.
\* Mutant: whatever the secret has become meanwhile.
ReplaceableAnyway(c, secret) == ~credential[c].revoked
Replaceable(c, secret) == ~credential[c].revoked /\ credential[c].secret = secret
Rotated(c) ==
    credential' = [credential EXCEPT ![c].secret = @ + 1, ![c].window = None, ![c].count = 0]

RotateOwn(r) ==
    /\ request[r].route = "rotate"
    /\ \/ /\ Replaceable(Of(r), request[r].secret)
          /\ credential[Of(r)].secret < MaxSecret
          /\ Rotated(Of(r))
          /\ made' = made \cup {Made(r, "secret")}
          /\ Answer(r, Says("ok", Serial)) /\ Stored(r, Says("ok", Serial))
       \/ /\ ~Replaceable(Of(r), request[r].secret)  \* thrown: nothing is stored
          /\ Answer(r, Says("conflict", 0))
          /\ UNCHANGED <<credential, made, record>>

RevokeOwn(r) ==
    /\ request[r].route = "revoke"
    /\ credential' = [credential EXCEPT ![Of(r)].revoked = TRUE]
    /\ Answer(r, Says("ok", 0)) /\ Stored(r, Says("ok", 0))
    /\ UNCHANGED made

\* The commit.  A row stored or deleted since it was read makes the statement
\* on it fail, and the transaction with it.
Execute(r) ==
    /\ At(r, "executing")
    /\ \/ /\ record[request[r].slot] = request[r].found
          /\ SendMessage(r) \/ CreateCampaign(r) \/ RotateOwn(r) \/ RevokeOwn(r)
       \/ /\ record[request[r].slot] # request[r].found
          /\ Answer(r, Says("conflict", 0))
          /\ UNCHANGED <<credential, made, record>>
    /\ Free(r)
    /\ UNCHANGED <<consent, now, sent>>

\* The process dies, the mutation throws, or its answer is too long to store:
\* the transaction is rolled back and the client knows nothing.
RollBack(r) ==
    /\ At(r, "executing")
    /\ Answer(r, Says("failed", 0))
    /\ Free(r)
    /\ UNCHANGED <<credential, record, made, consent, now, sent>>

-----------------------------------------------------------------------------
(* What happens beside the requests.                                        *)

\* The settings route names no prefix: it replaces whatever secret there is.
UserRotates(c) ==
    /\ ~credential[c].revoked
    /\ credential[c].secret < MaxSecret
    /\ Rotated(c)
    /\ UNCHANGED <<record, holder, made, request, consent, now, sent>>

UserRevokes(c) ==
    /\ ~credential[c].revoked
    /\ credential' = [credential EXCEPT ![c].revoked = TRUE]
    /\ UNCHANGED <<record, holder, made, request, consent, now, sent>>

ConsentChanges ==
    /\ consent' = ~consent
    /\ UNCHANGED <<credential, record, holder, made, request, now, sent>>

Tick ==
    /\ now < MaxTime
    /\ now' = now + 1
    /\ UNCHANGED <<credential, record, holder, made, request, consent, sent>>

Next ==
    \/ \E r \in Request :
          \/ \E slot \in Slot, secret \in 1..MaxSecret, route \in Route,
                body \in Body \cup {None} :
                Resolve(r, slot, secret, route, body)
          \/ Consume(r) \/ Begin(r) \/ Execute(r) \/ RollBack(r)
    \/ \E c \in Credential : UserRotates(c) \/ UserRevokes(c)
    \/ ConsentChanges \/ Tick

Spec == Init /\ [][Next]_vars

-----------------------------------------------------------------------------
(* Properties.                                                              *)

Status == {"none", "ok", "unauthorized", "limited", "forbidden", "conflict", "blocked", "failed"}
AnswerType == [status : Status, resource : Nat, replayed : BOOLEAN]
RecordType == [route : Route \cup {"none"}, body : Body \cup {None},
               answer : AnswerType, expires : Nat]

\* The rows and requests are well formed, and a key is never charged more
\* than its budget within one window (api-key-authentication.ts:202).
TypeOK ==
    /\ credential \in [Credential ->
         [secret : 1..(MaxSecret + 1), revoked : BOOLEAN, expires : Expiries, scopes : Scopes,
          window : Nat \cup {None}, count : 0..RateLimit]]
    /\ record \in [Slot -> RecordType]
    /\ holder \in [Slot -> Request \cup {None}]
    /\ \A m \in made : /\ m.kind \in {"message", "campaign", "secret"}
                      /\ m.slot \in Slot /\ m.route \in Route /\ m.body \in Body \cup {None}
                      /\ m.began \in Nat /\ m.id \in Nat /\ m.from \in Nat
    /\ request \in [Request ->
         [step : {"idle", "resolved", "admitted", "executing", "answered"},
          slot : Slot \cup {None}, secret : Nat, route : Route \cup {"none"},
          body : Body \cup {None}, found : RecordType, began : Nat, answer : AnswerType]]
    /\ consent \in BOOLEAN /\ now \in Nat /\ sent \in Nat

\* However often, concurrently and late a client repeats its requests under
\* one idempotency key, what they commit lies a whole retention apart; and a
\* key sends one message for ever, for the message keeps its identity when the
\* stored answer has expired (idempotency.ts:59, direct-message-reservation.ts:78).
EffectsAreRetentionApart ==
    \A x, y \in made : x # y /\ x.slot = y.slot =>
        /\ x.began + Retention <= y.began \/ y.began + Retention <= x.began
        /\ ~(x.kind = "message" /\ y.kind = "message")

\* A success that names a resource names one that this very request made, now
\* or before: never one that another body or route made under the same key, be
\* it replayed from the record or found by the message's fingerprint
\* (idempotency.ts:82, direct-message-reservation.ts:84). Of the rotations that
\* race, by clients and users, a client's replaces the secret it was admitted
\* with and never discards one that was issued to somebody else meanwhile
\* (api-keys/current/rotate/route.ts:38).
AnswersAreTrue ==
    \A r \in Request :
        At(r, "answered") /\ request[r].answer.status = "ok" /\ request[r].route # "revoke" =>
            \E m \in made :
                /\ m.id = request[r].answer.resource
                /\ m.slot = request[r].slot
                /\ m.route = request[r].route /\ m.body = request[r].body
                /\ request[r].route = "rotate" /\ ~request[r].answer.replayed
                       => m.from = request[r].secret
=============================================================================
