--------------------------- MODULE PublicApi_proofs ---------------------------
(* Proofs about the public API, for every set of requests, credentials and   *)
(* keys: its rows and requests are well formed and no window is overcharged;  *)
(* what requests under one key commit lies a retention apart; and a success   *)
(* that names a resource names one the very request made.                    *)
EXTENDS PublicApi, FiniteSetTheorems, TLAPS

CredentialRow ==
    [secret : 1..(MaxSecret + 1), revoked : BOOLEAN, expires : Expiries, scopes : Scopes,
     window : Nat \cup {None}, count : 0..RateLimit]
RequestRow ==
    [step : {"idle", "resolved", "admitted", "executing", "answered"},
     slot : Slot \cup {None}, secret : Nat, route : Route \cup {"none"},
     body : Body \cup {None}, found : RecordType, began : Nat, answer : AnswerType]
WellMade(m) ==
    /\ m.kind \in {"message", "campaign", "secret"}
    /\ m.slot \in Slot /\ m.route \in Route /\ m.body \in Body \cup {None}
    /\ m.began \in Nat /\ m.id \in Nat /\ m.from \in Nat

\* A request names its slot and its route from the moment it is sent.
Addressed == \A r \in Request :
    ~At(r, "idle") => request[r].slot \in Slot /\ request[r].route \in Route

\* What the actions rest on: the rows' types, and that few things were made.
Typed == TypeOK /\ Addressed /\ IsFiniteSet(made)

\* A request executes only when what it found stored had run out.
FoundNothingLive == \A r \in Request :
    At(r, "executing") =>
        request[r].found = NoRecord \/ request[r].found.expires <= request[r].began

\* The slot of everything made holds a record that outlasts its retention.
MadeIsRecorded == \A m \in made :
    record[m.slot] # NoRecord /\ m.began + Retention <= record[m.slot].expires

\* Something made under the slot by this route and body has this identifier.
IsMade(slot, route, body, id) ==
    \E m \in made : m.id = id /\ m.slot = slot /\ m.route = route /\ m.body = body

\* The stored successes are true of the requests they answer.
RecordsAreTrue == \A s \in Slot :
    record[s].answer.status = "ok" /\ record[s].route # "revoke" =>
        IsMade(s, record[s].route, record[s].body, record[s].answer.resource)

Inv ==
    /\ Typed
    /\ FoundNothingLive
    /\ MadeIsRecorded /\ EffectsAreRetentionApart
    /\ RecordsAreTrue /\ AnswersAreTrue

-----------------------------------------------------------------------------
(* Types.                                                                   *)

\* The rows of a well-formed state, one by one.
LEMMA Rows ==
    ASSUME TypeOK
    PROVE  /\ credential \in [Credential -> CredentialRow]
           /\ record \in [Slot -> RecordType]
           /\ holder \in [Slot -> Request \cup {None}]
           /\ \A m \in made : WellMade(m)
           /\ request \in [Request -> RequestRow]
           /\ consent \in BOOLEAN /\ now \in Nat /\ sent \in Nat
  BY DEF TypeOK, CredentialRow, RequestRow, WellMade

\* The same, the other way round, of a successor state.
LEMMA RowsNext ==
    ASSUME credential' \in [Credential -> CredentialRow],
           record' \in [Slot -> RecordType],
           holder' \in [Slot -> Request \cup {None}],
           \A m \in made' : WellMade(m),
           request' \in [Request -> RequestRow],
           consent' \in BOOLEAN, now' \in Nat, sent' \in Nat
    PROVE  TypeOK'
  BY DEF TypeOK, CredentialRow, RequestRow, WellMade

\* The rows an API begins with are typed.
LEMMA BlankTyped == NoAnswer \in AnswerType /\ NoRecord \in RecordType /\ Idle \in RequestRow
  <1>1. NoAnswer \in AnswerType
    BY DEF NoAnswer, AnswerType, Status
  <1>2. NoRecord \in RecordType
    BY <1>1 DEF NoRecord, RecordType
  <1>3. QED
    BY <1>1, <1>2 DEF Idle, RequestRow

\* Says builds an answer with what it is given.
LEMMA SaysTyped ==
    ASSUME NEW status \in Status, NEW n \in Nat
    PROVE  /\ Says(status, n) \in AnswerType
           /\ Says(status, n).status = status /\ Says(status, n).resource = n
           /\ Says(status, n).replayed = FALSE
  BY DEF Says, AnswerType

\* A request that was sent has a slot, whose credential has a row.
LEMMA SlotOf ==
    ASSUME Typed, NEW r \in Request, ~At(r, "idle")
    PROVE  /\ request[r] \in RequestRow
           /\ request[r].slot \in Slot /\ request[r].route \in Route
           /\ Of(r) \in Credential /\ credential[Of(r)] \in CredentialRow
           /\ record[request[r].slot] \in RecordType
  BY Rows DEF Typed, Addressed, Of, Slot

\* Serial numbers are natural, for few things were made.
LEMMA SerialTyped == ASSUME Typed PROVE Serial \in Nat
  BY FS_CardinalityType DEF Typed, Serial

\* What Answer does: one request gets its answer and keeps what it carries.
LEMMA AnswerStep ==
    ASSUME Typed, NEW r \in Request, ~At(r, "idle"), NEW a \in AnswerType, Answer(r, a)
    PROVE  /\ request' \in [Request -> RequestRow]
           /\ \A q \in Request \ {r} : request'[q] = request[q]
           /\ request'[r].step = "answered" /\ request'[r].answer = a
           /\ request'[r].slot = request[r].slot /\ request'[r].route = request[r].route
           /\ request'[r].body = request[r].body /\ request'[r].secret = request[r].secret
  <1>1. request \in [Request -> RequestRow] /\ request[r] \in RequestRow
    BY Rows DEF Typed
  <1> DEFINE row == [request[r] EXCEPT !.step = "answered", !.answer = a, !.found = NoRecord,
                                       !.began = 0]
  <1>2. request' = [request EXCEPT ![r] = row]
    BY <1>1 DEF Answer
  <1>3. row \in RequestRow
    BY <1>1, BlankTyped DEF RequestRow
  <1>4. /\ row.step = "answered" /\ row.answer = a
        /\ row.slot = request[r].slot /\ row.route = request[r].route
        /\ row.body = request[r].body /\ row.secret = request[r].secret
    BY <1>1 DEF RequestRow
  <1> HIDE DEF row
  <1>5. QED
    BY <1>1, <1>2, <1>3, <1>4

\* A step that changes one request, to one that has a slot and a route, keeps
\* every request that was sent addressed.
LEMMA AddressedNext ==
    ASSUME Typed, NEW r \in Request,
           \A q \in Request \ {r} : request'[q] = request[q],
           request'[r].slot \in Slot, request'[r].route \in Route
    PROVE  Addressed'
  BY DEF Typed, Addressed, At

-----------------------------------------------------------------------------
(* What the actions do.                                                     *)

\* A step that changes one request and commits nothing.
OnlyMoves(r) ==
    /\ \A q \in Request \ {r} : request'[q] = request[q]
    /\ UNCHANGED <<record, made>>

\* Such a step, after which the request neither executes nor has succeeded.
Harmless(r) ==
    /\ OnlyMoves(r)
    /\ ~At(r, "executing")'
    /\ At(r, "answered")' => request'[r].answer.status # "ok"

\* Being sent harms nothing.
LEMMA ResolveStep ==
    ASSUME Typed, NEW r \in Request, NEW slot \in Slot, NEW secret \in 1..MaxSecret,
           NEW route \in Route, NEW body \in Body \cup {None},
           Resolve(r, slot, secret, route, body)
    PROVE  Typed' /\ Harmless(r)
  <1> DEFINE sending == [Idle EXCEPT !.slot = slot, !.secret = secret, !.route = route,
                                     !.body = body]
             refused == Says("unauthorized", 0)
             looked == [sending EXCEPT !.step = "resolved"]
             turned == [sending EXCEPT !.step = "answered", !.answer = refused]
  <1>1. refused \in AnswerType /\ refused.status = "unauthorized"
    <2>1. "unauthorized" \in Status /\ 0 \in Nat
      BY DEF Status
    <2> QED
      BY ONLY <2>1, SaysTyped
  <1>2. request \in [Request -> RequestRow] /\ Idle \in RequestRow
    BY Rows, BlankTyped DEF Typed
  <1>3. secret \in Nat
    BY TimeAssumption
  <1> HIDE DEF refused
  <1>4. sending \in RequestRow /\ sending.slot = slot /\ sending.route = route
    BY <1>2, <1>3 DEF RequestRow, Idle
  <1> HIDE DEF sending
  <1>5. /\ looked \in RequestRow /\ looked.slot = slot /\ looked.route = route
        /\ looked.step = "resolved"
    BY <1>4 DEF RequestRow
  <1>6. /\ turned \in RequestRow /\ turned.slot = slot /\ turned.route = route
        /\ turned.step = "answered" /\ turned.answer = refused
    BY <1>1, <1>4 DEF RequestRow
  <1>7. request' = [request EXCEPT ![r] = looked] \/ request' = [request EXCEPT ![r] = turned]
    BY DEF Resolve, sending, refused
  <1> HIDE DEF looked, turned
  <1>8. /\ request' \in [Request -> RequestRow]
        /\ \A q \in Request \ {r} : request'[q] = request[q]
        /\ request'[r] \in {looked, turned}
    BY <1>2, <1>5, <1>6, <1>7
  <1>9. UNCHANGED <<credential, record, holder, made, consent, now>> /\ sent' = sent + 1
    BY DEF Resolve
  <1>10. TypeOK'
    <2>1. sent' \in Nat
      BY <1>9, Rows DEF Typed
    <2>2. \A m \in made' : WellMade(m)
      BY <1>9, Rows DEF Typed
    <2>3. QED
      BY <1>8, <1>9, <2>1, <2>2, Rows, RowsNext DEF Typed
  <1>11. Addressed'
    BY <1>5, <1>6, <1>8, AddressedNext
  <1>12. QED
    BY <1>1, <1>5, <1>6, <1>8, <1>9, <1>10, <1>11 DEF Typed, Harmless, OnlyMoves, At

\* A step that answers one request and touches nothing else but the lock and
\* the credentials, well-formed rows left behind.
LEMMA AnswerTyped ==
    ASSUME Typed, NEW r \in Request, ~At(r, "idle"), NEW a \in AnswerType, Answer(r, a),
           UNCHANGED <<record, made, consent, now, sent>>,
           credential' \in [Credential -> CredentialRow],
           holder' \in [Slot -> Request \cup {None}]
    PROVE  /\ Typed' /\ OnlyMoves(r) /\ ~At(r, "executing")'
           /\ request'[r].answer = a /\ request'[r].slot = request[r].slot
           /\ request'[r].route = request[r].route /\ request'[r].body = request[r].body
  <1>1. Addressed'
    BY AnswerStep, SlotOf, AddressedNext
  <1>2. \A m \in made' : WellMade(m)
    BY Rows DEF Typed
  <1>3. TypeOK'
    BY <1>2, AnswerStep, Rows, RowsNext DEF Typed
  <1>4. QED
    BY <1>1, <1>3, AnswerStep DEF Typed, OnlyMoves, At

\* A window holds no more requests than the budget: the one that is charged
\* found room in it.
LEMMA ChargeTyped ==
    ASSUME Typed, NEW c \in Credential, ~Exhausted(c),
           credential' = [credential EXCEPT
                 ![c].window = IF NewWindow(c) THEN now ELSE @,
                 ![c].count = Charged(c) + 1]
    PROVE  credential' \in [Credential -> CredentialRow]
  <1>1. credential \in [Credential -> CredentialRow] /\ now \in Nat
    BY Rows DEF Typed
  <1>2. credential[c] \in CredentialRow
    BY <1>1
  <1>3. credential[c].count \in 0..RateLimit /\ credential[c].window \in Nat \cup {None}
    BY <1>2 DEF CredentialRow
  <1>4. Charged(c) + 1 \in 0..RateLimit
    BY <1>3, TimeAssumption DEF Exhausted, Charged
  <1> DEFINE opened == IF NewWindow(c) THEN now ELSE credential[c].window
             charged == Charged(c) + 1
             row == [credential[c] EXCEPT !.window = opened, !.count = charged]
  <1>5. opened \in Nat \cup {None}
    BY <1>1, <1>3
  <1>6. credential' = [credential EXCEPT ![c] = row]
    BY <1>1
  <1> HIDE DEF opened, charged
  <1>7. row \in CredentialRow
    BY <1>2, <1>4, <1>5 DEF CredentialRow, charged
  <1> HIDE DEF row
  <1>8. QED
    BY <1>1, <1>6, <1>7

\* Admission harms nothing.
LEMMA ConsumeStep ==
    ASSUME Typed, NEW r \in Request, Consume(r)
    PROVE  Typed' /\ Harmless(r)
  <1>1. /\ ~At(r, "idle") /\ UNCHANGED <<record, holder, made, consent, now, sent>>
        /\ holder' \in [Slot -> Request \cup {None}]
    BY Rows DEF Consume, At, Typed
  <1>2. CASE /\ UNCHANGED credential
             /\ Answer(r, Says("unauthorized", 0)) \/ Answer(r, Says("limited", 0))
    <2>1. credential' \in [Credential -> CredentialRow]
      BY <1>2, Rows DEF Typed
    <2>2. PICK status \in {"unauthorized", "limited"} : Answer(r, Says(status, 0))
      BY <1>2
    <2>3. Says(status, 0) \in AnswerType /\ Says(status, 0).status # "ok"
      BY SaysTyped DEF Status
    <2>4. QED
      BY <1>1, <2>1, <2>2, <2>3, AnswerTyped DEF Harmless
  <1>3. ASSUME ~Exhausted(Of(r)),
               credential' = [credential EXCEPT
                 ![Of(r)].window = IF NewWindow(Of(r)) THEN now ELSE @,
                 ![Of(r)].count = Charged(Of(r)) + 1],
               \/ request' = [request EXCEPT ![r].step = "admitted"]
               \/ Answer(r, Says("forbidden", 0))
        PROVE  Typed' /\ Harmless(r)
    <2>1. credential' \in [Credential -> CredentialRow]
      BY <1>1, <1>3, SlotOf, ChargeTyped
    <2>2. CASE Answer(r, Says("forbidden", 0))
      <3>1. Says("forbidden", 0) \in AnswerType /\ Says("forbidden", 0).status # "ok"
        BY SaysTyped DEF Status
      <3>2. QED
        BY <1>1, <2>1, <2>2, <3>1, AnswerTyped DEF Harmless
    <2>3. CASE request' = [request EXCEPT ![r].step = "admitted"]
      <3>1. request \in [Request -> RequestRow] /\ request[r] \in RequestRow
        BY Rows DEF Typed
      <3> DEFINE row == [request[r] EXCEPT !.step = "admitted"]
      <3>2. row \in RequestRow /\ row.step = "admitted" /\ row.slot = request[r].slot
            /\ row.route = request[r].route
        BY <3>1 DEF RequestRow
      <3>3. request' = [request EXCEPT ![r] = row]
        BY <2>3, <3>1
      <3> HIDE DEF row
      <3>4. /\ request' \in [Request -> RequestRow] /\ request'[r] = row
            /\ \A q \in Request \ {r} : request'[q] = request[q]
        BY <3>1, <3>2, <3>3
      <3>5. Addressed'
        BY <1>1, <3>2, <3>4, SlotOf, AddressedNext
      <3>6. \A m \in made' : WellMade(m)
        BY <1>1, Rows DEF Typed
      <3>7. TypeOK'
        BY <1>1, <2>1, <3>4, <3>6, Rows, RowsNext DEF Typed
      <3>8. QED
        BY <1>1, <3>2, <3>4, <3>5, <3>7 DEF Typed, Harmless, OnlyMoves, At
    <2>4. QED
      BY <1>3, <2>2, <2>3
  <1>4. QED
    BY <1>2, <1>3 DEF Consume

\* What Begin finds decides: a live row answers, no live row lets it execute.
LEMMA BeginStep ==
    ASSUME Typed, NEW r \in Request, Begin(r)
    PROVE  /\ Typed' /\ OnlyMoves(r)
           /\ \/ Harmless(r)
              \/ /\ At(r, "executing")'
                 /\ request'[r].found = NoRecord
                        \/ request'[r].found.expires <= request'[r].began
              \/ /\ ~At(r, "executing")'
                 /\ request'[r].slot \in Slot /\ request'[r].answer.replayed
                 /\ record[request'[r].slot].route = request'[r].route
                 /\ record[request'[r].slot].body = request'[r].body
                 /\ request'[r].answer.status = record[request'[r].slot].answer.status
                 /\ request'[r].answer.resource = record[request'[r].slot].answer.resource
  <1> DEFINE found == record[request[r].slot]
  <1>1. /\ ~At(r, "idle") /\ UNCHANGED <<credential, record, made, consent, now, sent>>
        /\ credential' \in [Credential -> CredentialRow]
    BY Rows DEF Begin, At, Typed
  <1>2. /\ request[r] \in RequestRow /\ request[r].slot \in Slot
        /\ request[r].route \in Route /\ found \in RecordType
        /\ request \in [Request -> RequestRow] /\ holder \in [Slot -> Request \cup {None}]
        /\ now \in Nat
    BY <1>1, SlotOf, Rows DEF Typed
  <1>3. CASE SameRequest(found, r) /\ UNCHANGED holder
             /\ Answer(r, [found.answer EXCEPT !.replayed = TRUE])
    <2> DEFINE again == [found.answer EXCEPT !.replayed = TRUE]
    <2>1. found.answer \in AnswerType
      BY <1>2 DEF RecordType
    <2>2. /\ again \in AnswerType /\ again.status = found.answer.status
          /\ again.resource = found.answer.resource /\ again.replayed = TRUE
      BY <2>1 DEF AnswerType
    <2>3. Answer(r, again)
      BY <1>3
    <2> HIDE DEF again, found
    <2>4. /\ Typed' /\ OnlyMoves(r) /\ ~At(r, "executing")'
          /\ request'[r].answer = again /\ request'[r].slot = request[r].slot
          /\ request'[r].route = request[r].route /\ request'[r].body = request[r].body
      BY <1>1, <1>2, <1>3, <2>2, <2>3, AnswerTyped
    <2>5. QED
      BY <1>1, <1>2, <1>3, <2>2, <2>4 DEF found, SameRequest
  <1>4. CASE UNCHANGED holder /\ Answer(r, Says("conflict", 0))
    <2>1. Says("conflict", 0) \in AnswerType /\ Says("conflict", 0).status # "ok"
      BY SaysTyped DEF Status
    <2>2. QED
      BY <1>1, <1>2, <1>4, <2>1, AnswerTyped DEF Harmless
  <1>5. CASE /\ ~Live(found)
             /\ request' = [request EXCEPT ![r].step = "executing", ![r].found = found,
                                           ![r].began = now]
             /\ holder' = [holder EXCEPT ![request[r].slot] = r]
    <2> DEFINE row == [request[r] EXCEPT !.step = "executing", !.found = found, !.began = now]
    <2>1. request' = [request EXCEPT ![r] = row]
      BY <1>2, <1>5
    <2>2. holder' \in [Slot -> Request \cup {None}]
      BY <1>2, <1>5
    <2>3. found = NoRecord \/ found.expires <= now
      BY <1>2, <1>5 DEF Live, RecordType
    <2> HIDE DEF found
    <2>4. /\ row \in RequestRow /\ row.step = "executing" /\ row.found = found
          /\ row.began = now /\ row.slot = request[r].slot /\ row.route = request[r].route
      BY <1>2 DEF RequestRow
    <2> HIDE DEF row
    <2>5. /\ request' \in [Request -> RequestRow] /\ request'[r] = row
          /\ \A q \in Request \ {r} : request'[q] = request[q]
      BY <1>2, <2>1, <2>4
    <2>6. Addressed'
      BY <1>2, <2>4, <2>5, AddressedNext
    <2>7. \A m \in made' : WellMade(m)
      BY <1>1, Rows DEF Typed
    <2>8. TypeOK'
      BY <1>1, <2>2, <2>5, <2>7, Rows, RowsNext DEF Typed
    <2>9. QED
      BY <1>1, <2>3, <2>4, <2>5, <2>6, <2>8 DEF Typed, OnlyMoves, At
  <1>6. QED
    BY <1>3, <1>4, <1>5 DEF Begin

\* What a commit leaves: the answer, stored for a retention from when the
\* request began, and at most one thing made, which a success names.
Commits(r, a) ==
    LET slot == request[r].slot IN
    /\ \A q \in Request \ {r} : request'[q] = request[q]
    /\ request'[r].step = "answered" /\ request'[r].answer = a
    /\ request'[r].slot = slot /\ request'[r].route = request[r].route
    /\ request'[r].body = request[r].body /\ request'[r].secret = request[r].secret
    /\ record[slot] = request[r].found
    /\ \A s \in Slot \ {slot} : record'[s] = record[s]
    /\ record'[slot].route = request[r].route /\ record'[slot].body = request[r].body
    /\ record'[slot].answer = a
    /\ record'[slot].expires = request[r].began + Retention
    /\ \/ made' = made
       \/ \E kind \in {"message", "campaign", "secret"} :
             /\ made' = made \cup {Made(r, kind)}
             /\ kind = "message" => MessageOf(slot) = {}
    /\ a.status = "ok" /\ request[r].route # "revoke" =>
          \E m \in made' :
             /\ m.id = a.resource /\ m.slot = slot
             /\ m.route = request[r].route /\ m.body = request[r].body
             /\ request[r].route = "rotate" => m.from = request[r].secret

\* What is made carries its request's identity and the next serial number.
LEMMA MadeTyped ==
    ASSUME Typed, NEW r \in Request, ~At(r, "idle"),
           NEW kind \in {"message", "campaign", "secret"}
    PROVE  /\ WellMade(Made(r, kind))
           /\ Made(r, kind).kind = kind /\ Made(r, kind).id = Serial
           /\ Made(r, kind).slot = request[r].slot /\ Made(r, kind).route = request[r].route
           /\ Made(r, kind).body = request[r].body /\ Made(r, kind).began = request[r].began
           /\ Made(r, kind).from = credential[Of(r)].secret
  <1>1. /\ request[r].slot \in Slot /\ request[r].route \in Route
        /\ request[r] \in RequestRow /\ credential[Of(r)] \in CredentialRow
    BY SlotOf
  <1>2. credential[Of(r)].secret \in Nat
    BY <1>1, TimeAssumption DEF CredentialRow
  <1>3. QED
    BY <1>1, <1>2, SerialTyped DEF Made, WellMade, RequestRow

\* A commit leaves well-formed rows.
LEMMA CommitTyped ==
    ASSUME Typed, NEW r \in Request, At(r, "executing"), NEW a \in AnswerType,
           Answer(r, a), Stored(r, a), Free(r), UNCHANGED <<consent, now, sent>>,
           credential' \in [Credential -> CredentialRow],
           \/ made' = made
           \/ \E kind \in {"message", "campaign", "secret"} : made' = made \cup {Made(r, kind)}
    PROVE  /\ Typed'
           /\ \A s \in Slot \ {request[r].slot} : record'[s] = record[s]
           /\ record'[request[r].slot].route = request[r].route
           /\ record'[request[r].slot].body = request[r].body
           /\ record'[request[r].slot].answer = a
           /\ record'[request[r].slot].expires = request[r].began + Retention
  <1> DEFINE slot == request[r].slot
             row == [route |-> request[r].route, body |-> request[r].body, answer |-> a,
                     expires |-> request[r].began + Kept]
  <1>1. /\ ~At(r, "idle") /\ slot \in Slot /\ request[r].route \in Route
        /\ request[r] \in RequestRow /\ record \in [Slot -> RecordType]
        /\ holder \in [Slot -> Request \cup {None}]
    BY SlotOf, Rows DEF At, Typed
  <1>2. request[r].began + Kept \in Nat /\ Kept = Retention
    BY <1>1, TimeAssumption DEF RequestRow, Kept
  <1>3. row \in RecordType
    BY <1>1, <1>2 DEF RecordType, RequestRow
  <1>4. record' = [record EXCEPT ![slot] = row]
    BY DEF Stored
  <1>5. /\ row.route = request[r].route /\ row.body = request[r].body /\ row.answer = a
        /\ row.expires = request[r].began + Retention
    BY <1>2
  <1> HIDE DEF row
  <1>6. /\ record' \in [Slot -> RecordType] /\ record'[slot] = row
        /\ \A s \in Slot \ {slot} : record'[s] = record[s]
    BY <1>1, <1>3, <1>4
  <1>7. holder' \in [Slot -> Request \cup {None}]
    BY <1>1 DEF Free
  <1>8. IsFiniteSet(made') /\ \A m \in made' : WellMade(m)
    <2>1. IsFiniteSet(made) /\ \A m \in made : WellMade(m)
      BY Rows DEF Typed
    <2>2. CASE made' = made
      BY <2>1, <2>2
    <2>3. ASSUME NEW kind \in {"message", "campaign", "secret"},
                 made' = made \cup {Made(r, kind)}
          PROVE  IsFiniteSet(made') /\ \A m \in made' : WellMade(m)
      <3>1. WellMade(Made(r, kind))
        BY <1>1, MadeTyped
      <3>2. IsFiniteSet(made')
        BY <2>1, <2>3, FS_AddElement
      <3>3. QED
        BY <2>1, <2>3, <3>1, <3>2
    <2>4. QED
      BY <2>2, <2>3
  <1>9. Addressed'
    BY <1>1, AnswerStep, AddressedNext
  <1>10. TypeOK'
    BY <1>1, <1>6, <1>7, <1>8, AnswerStep, Rows, RowsNext DEF Typed
  <1>11. QED
    BY <1>5, <1>6, <1>8, <1>9, <1>10 DEF Typed

\* Rotating or revoking leaves well-formed credentials.
LEMMA RotatedTyped ==
    ASSUME Typed, NEW c \in Credential,
           \/ Rotated(c) /\ credential[c].secret < MaxSecret
           \/ credential' = [credential EXCEPT ![c].revoked = TRUE]
    PROVE  credential' \in [Credential -> CredentialRow]
  <1>1. credential \in [Credential -> CredentialRow] /\ credential[c] \in CredentialRow
    BY Rows DEF Typed
  <1>2. CASE credential' = [credential EXCEPT ![c].revoked = TRUE]
    <2> DEFINE row == [credential[c] EXCEPT !.revoked = TRUE]
    <2>1. row \in CredentialRow
      BY <1>1 DEF CredentialRow
    <2>2. credential' = [credential EXCEPT ![c] = row]
      BY <1>1, <1>2
    <2> HIDE DEF row
    <2>3. QED
      BY <1>1, <2>1, <2>2
  <1>3. CASE Rotated(c) /\ credential[c].secret < MaxSecret
    <2> DEFINE next == credential[c].secret + 1
               row == [credential[c] EXCEPT !.secret = next, !.window = None, !.count = 0]
    <2>1. credential[c].secret \in 1..(MaxSecret + 1)
      BY <1>1 DEF CredentialRow
    <2>2. next \in 1..(MaxSecret + 1) /\ 0 \in 0..RateLimit
      BY <1>3, <2>1, TimeAssumption
    <2>3. credential' = [credential EXCEPT ![c] = row]
      BY <1>1, <1>3 DEF Rotated
    <2> HIDE DEF next
    <2>4. row \in CredentialRow
      BY <1>1, <2>2 DEF CredentialRow
    <2> HIDE DEF row
    <2>5. QED
      BY <1>1, <2>3, <2>4
  <1>4. QED
    BY <1>2, <1>3

\* Execute either commits an answer or answers that it could not.
LEMMA ExecuteStep ==
    ASSUME Typed, NEW r \in Request, Execute(r)
    PROVE  Typed' /\ (Harmless(r) \/ \E a \in AnswerType : Commits(r, a))
  <1> DEFINE slot == request[r].slot
  <1>1. /\ At(r, "executing") /\ ~At(r, "idle") /\ Free(r) /\ UNCHANGED <<consent, now, sent>>
        /\ slot \in Slot /\ request[r] \in RequestRow /\ Of(r) \in Credential
        /\ holder' \in [Slot -> Request \cup {None}]
    BY SlotOf, Rows DEF Execute, At, Free, Typed
  <1>2. credential \in [Credential -> CredentialRow]
    BY Rows DEF Typed
  <1>3. CASE UNCHANGED <<credential, made, record>> /\ Answer(r, Says("conflict", 0))
    <2>1. Says("conflict", 0) \in AnswerType /\ Says("conflict", 0).status # "ok"
      BY SaysTyped DEF Status
    <2>2. QED
      BY <1>1, <1>2, <1>3, <2>1, AnswerTyped DEF Harmless
  <1>4. ASSUME record[slot] = request[r].found, NEW a \in AnswerType,
               Answer(r, a), Stored(r, a), credential' \in [Credential -> CredentialRow],
               \/ made' = made
               \/ \E kind \in {"message", "campaign", "secret"} :
                     /\ made' = made \cup {Made(r, kind)}
                     /\ kind = "message" => MessageOf(slot) = {},
               a.status = "ok" /\ request[r].route # "revoke" =>
                  \E m \in made' :
                     /\ m.id = a.resource /\ m.slot = slot
                     /\ m.route = request[r].route /\ m.body = request[r].body
                     /\ request[r].route = "rotate" => m.from = request[r].secret
        PROVE  Typed' /\ Commits(r, a)
    <2>1. \/ made' = made
          \/ \E kind \in {"message", "campaign", "secret"} : made' = made \cup {Made(r, kind)}
      BY <1>4
    <2>2. /\ Typed'
          /\ \A s \in Slot \ {slot} : record'[s] = record[s]
          /\ record'[slot].route = request[r].route /\ record'[slot].body = request[r].body
          /\ record'[slot].answer = a
          /\ record'[slot].expires = request[r].began + Retention
      BY <1>1, <1>4, <2>1, CommitTyped
    <2>3. QED
      BY <1>1, <1>4, <2>2, AnswerStep DEF Commits
  <1>5. CASE record[slot] = request[r].found /\ SendMessage(r)
    <2>1. request[r].route # "rotate" /\ credential' \in [Credential -> CredentialRow]
      BY <1>2, <1>5 DEF SendMessage, Sending
    <2>2. ASSUME NEW m \in MessageOf(slot), made' = made,
                 LET answer == IF SameFingerprint(m, r) THEN Says("ok", m.id)
                                                        ELSE Says("conflict", 0)
                 IN  Answer(r, answer) /\ Stored(r, answer)
          PROVE  Typed' /\ \E a \in AnswerType : Commits(r, a)
      <3>1. m \in made /\ m.slot = slot /\ m.id \in Nat
        BY Rows DEF MessageOf, Typed, WellMade
      <3>2. CASE SameFingerprint(m, r)
        <4>1. Says("ok", m.id) \in AnswerType /\ Says("ok", m.id).resource = m.id
          BY <3>1, SaysTyped DEF Status
        <4>2. m.route = request[r].route /\ m.body = request[r].body
          BY <3>2 DEF SameFingerprint
        <4>3. Answer(r, Says("ok", m.id)) /\ Stored(r, Says("ok", m.id))
          BY <2>2, <3>2
        <4>4. QED
          BY <1>4, <1>5, <2>1, <2>2, <3>1, <4>1, <4>2, <4>3
      <3>3. CASE ~SameFingerprint(m, r)
        <4>1. Says("conflict", 0) \in AnswerType /\ Says("conflict", 0).status # "ok"
          BY SaysTyped DEF Status
        <4>2. Answer(r, Says("conflict", 0)) /\ Stored(r, Says("conflict", 0))
          BY <2>2, <3>3
        <4>3. QED
          BY <1>4, <1>5, <2>1, <2>2, <4>1, <4>2
      <3>4. QED
        BY <3>2, <3>3
    <2>3. CASE /\ MessageOf(slot) = {} /\ made' = made \cup {Made(r, "message")}
               /\ Answer(r, Says("ok", Serial)) /\ Stored(r, Says("ok", Serial))
      <3> Serial \in Nat /\ "ok" \in Status
        BY SerialTyped DEF Status
      <3>1. Says("ok", Serial) \in AnswerType /\ Says("ok", Serial).resource = Serial
        BY SaysTyped
      <3>2. /\ Made(r, "message") \in made' /\ Made(r, "message").id = Serial
            /\ Made(r, "message").slot = slot /\ Made(r, "message").route = request[r].route
            /\ Made(r, "message").body = request[r].body
        BY <1>1, <2>3, MadeTyped
      <3>3. QED
        BY <1>4, <1>5, <2>1, <2>3, <3>1, <3>2
    <2>4. CASE made' = made /\ Answer(r, Says("blocked", 0)) /\ Stored(r, Says("blocked", 0))
      <3>1. Says("blocked", 0) \in AnswerType /\ Says("blocked", 0).status # "ok"
        BY SaysTyped DEF Status
      <3>2. QED
        BY <1>4, <1>5, <2>1, <2>4, <3>1
    <2>5. QED
      BY <1>5, <2>2, <2>3, <2>4 DEF SendMessage
  <1>6. ASSUME NEW kind \in {"campaign", "secret"}, record[slot] = request[r].found,
               made' = made \cup {Made(r, kind)}, credential' \in [Credential -> CredentialRow],
               Answer(r, Says("ok", Serial)), Stored(r, Says("ok", Serial)),
               request[r].route = "rotate" => credential[Of(r)].secret = request[r].secret
        PROVE  Typed' /\ \E a \in AnswerType : Commits(r, a)
    <2>0. Serial \in Nat /\ "ok" \in Status
      BY SerialTyped DEF Status
    <2>1. Says("ok", Serial) \in AnswerType /\ Says("ok", Serial).resource = Serial
      BY <2>0, SaysTyped
    <2>2. /\ Made(r, kind) \in made' /\ Made(r, kind).id = Serial
          /\ Made(r, kind).slot = slot /\ Made(r, kind).route = request[r].route
          /\ Made(r, kind).body = request[r].body
          /\ Made(r, kind).from = credential[Of(r)].secret
      BY <1>1, <1>6, MadeTyped
    <2>3. \E k \in {"message", "campaign", "secret"} :
             made' = made \cup {Made(r, k)} /\ (k = "message" => MessageOf(slot) = {})
      BY <1>6
    <2>4. QED
      BY <1>4, <1>6, <2>1, <2>2, <2>3
  <1>7. CASE record[slot] = request[r].found /\ CreateCampaign(r)
    BY <1>2, <1>6, <1>7 DEF CreateCampaign
  <1>8. CASE record[slot] = request[r].found /\ RotateOwn(r)
    <2>1. CASE /\ Replaceable(Of(r), request[r].secret) /\ credential[Of(r)].secret < MaxSecret
               /\ Rotated(Of(r)) /\ made' = made \cup {Made(r, "secret")}
               /\ Answer(r, Says("ok", Serial)) /\ Stored(r, Says("ok", Serial))
      <3>1. credential' \in [Credential -> CredentialRow]
        BY <1>1, <2>1, RotatedTyped
      <3>2. QED
        BY <1>6, <1>8, <2>1, <3>1 DEF Replaceable
    <2>2. QED
      BY <1>3, <1>8, <2>1 DEF RotateOwn
  <1>9. CASE record[slot] = request[r].found /\ RevokeOwn(r)
    <2>1. credential' \in [Credential -> CredentialRow]
      BY <1>1, <1>9, RotatedTyped DEF RevokeOwn
    <2>2. Says("ok", 0) \in AnswerType
      BY SaysTyped DEF Status
    <2>3. QED
      BY <1>4, <1>9, <2>1, <2>2 DEF RevokeOwn
  <1>10. QED
    BY <1>3, <1>5, <1>7, <1>8, <1>9 DEF Execute

-----------------------------------------------------------------------------
(* The invariant.                                                           *)

\* A step of one request, or of nobody, that makes nothing, stores nothing and
\* leaves no request that succeeded or executes, keeps the invariant.
LEMMA HarmlessInv ==
    ASSUME Inv, Typed',
           \/ \E r \in Request : Harmless(r)
           \/ UNCHANGED <<record, made, request>>
    PROVE  Inv'
  <1>1. record' = record /\ made' = made
    BY DEF Harmless, OnlyMoves
  <1>2. ASSUME NEW q \in Request
        PROVE  \/ request'[q] = request[q]
               \/ ~At(q, "executing")' /\ (At(q, "answered")' => request'[q].answer.status # "ok")
    <2>1. ASSUME NEW r \in Request, Harmless(r)
          PROVE  \/ request'[q] = request[q]
                 \/ /\ ~At(q, "executing")'
                    /\ At(q, "answered")' => request'[q].answer.status # "ok"
      <3>1. CASE q = r
        BY <2>1, <3>1 DEF Harmless, At
      <3>2. CASE q # r
        BY <2>1, <3>2 DEF Harmless, OnlyMoves
      <3>3. QED
        BY <3>1, <3>2
    <2>2. CASE UNCHANGED <<record, made, request>>
      BY <2>2
    <2>3. QED
      BY <2>1, <2>2
  <1>3. FoundNothingLive'
    BY <1>2 DEF Inv, FoundNothingLive, At
  <1>4. MadeIsRecorded' /\ EffectsAreRetentionApart'
    BY <1>1 DEF Inv, MadeIsRecorded, EffectsAreRetentionApart
  <1>5. RecordsAreTrue'
    BY <1>1 DEF Inv, RecordsAreTrue, IsMade
  <1>6. AnswersAreTrue'
    BY <1>1, <1>2 DEF Inv, AnswersAreTrue, At
  <1>7. QED
    BY <1>3, <1>4, <1>5, <1>6 DEF Inv

\* Begin keeps it: what it replays was true when it was stored, and what lets
\* it execute had run out.
LEMMA BeginInv ==
    ASSUME Inv, NEW r \in Request, Begin(r)
    PROVE  Inv'
  <1>1. Typed' /\ OnlyMoves(r)
    BY BeginStep DEF Inv
  <1>2. record' = record /\ made' = made /\ \A q \in Request \ {r} : request'[q] = request[q]
    BY <1>1 DEF OnlyMoves
  <1>3. MadeIsRecorded' /\ EffectsAreRetentionApart' /\ RecordsAreTrue'
    BY <1>2 DEF Inv, MadeIsRecorded, EffectsAreRetentionApart, RecordsAreTrue, IsMade
  <1>4. CASE Harmless(r)
    BY <1>1, <1>4, HarmlessInv
  <1>5. CASE /\ At(r, "executing")'
             /\ request'[r].found = NoRecord \/ request'[r].found.expires <= request'[r].began
    <2>1. FoundNothingLive'
      BY <1>2, <1>5 DEF Inv, FoundNothingLive, At
    <2>2. AnswersAreTrue'
      BY <1>2, <1>5 DEF Inv, AnswersAreTrue, At
    <2>3. QED
      BY <1>1, <1>3, <2>1, <2>2 DEF Inv
  <1>6. CASE /\ ~At(r, "executing")'
             /\ request'[r].slot \in Slot /\ request'[r].answer.replayed
             /\ record[request'[r].slot].route = request'[r].route
             /\ record[request'[r].slot].body = request'[r].body
             /\ request'[r].answer.status = record[request'[r].slot].answer.status
             /\ request'[r].answer.resource = record[request'[r].slot].answer.resource
    <2>1. FoundNothingLive'
      BY <1>2, <1>6 DEF Inv, FoundNothingLive, At
    <2>2. request'[r].answer.status = "ok" /\ request'[r].route # "revoke" =>
              IsMade(request'[r].slot, request'[r].route, request'[r].body,
                     request'[r].answer.resource)
      BY <1>6 DEF Inv, RecordsAreTrue
    <2>3. AnswersAreTrue'
      BY <1>2, <1>6, <2>2 DEF Inv, AnswersAreTrue, At, IsMade
    <2>4. QED
      BY <1>1, <1>3, <2>1, <2>3 DEF Inv
  <1>7. QED
    BY <1>4, <1>5, <1>6, BeginStep DEF Inv

\* A commit keeps it.  The record it read is the record that is there, so it
\* outlasts the retention of everything made under the slot; and it had run
\* out when the request began.
LEMMA CommitInv ==
    ASSUME Inv, Typed', NEW r \in Request, At(r, "executing"), NEW a \in AnswerType,
           Commits(r, a)
    PROVE  Inv'
  <1> DEFINE slot == request[r].slot
             began == request[r].began
  <1>1. /\ slot \in Slot /\ began \in Nat /\ Retention \in Nat /\ ~At(r, "idle")
        /\ record[slot] \in RecordType /\ record[slot].expires \in Nat
    BY SlotOf, TimeAssumption DEF Inv, At, RequestRow, RecordType
  <1>2. record[slot] = NoRecord \/ record[slot].expires <= began
    BY DEF Inv, FoundNothingLive, Commits
  <1>3. \A m \in made : WellMade(m)
    BY Rows DEF Inv, Typed
  <1>4. \A m \in made : m.slot = slot => m.began + Retention <= began
    <2> SUFFICES ASSUME NEW m \in made, m.slot = slot
                 PROVE  m.began + Retention <= began
      OBVIOUS
    <2>1. record[slot] # NoRecord /\ m.began + Retention <= record[slot].expires
      BY DEF Inv, MadeIsRecorded
    <2>2. m.began \in Nat
      BY <1>3 DEF WellMade
    <2>3. QED
      BY <1>1, <1>2, <2>1, <2>2
  <1>5. made \subseteq made'
    BY DEF Commits
  <1>6. \A m \in made' \ made :
           /\ m.slot = slot /\ m.began = began
           /\ m.kind = "message" => MessageOf(slot) = {}
           /\ made' = made \cup {m}
    BY <1>1, MadeTyped DEF Commits, Inv
  <1>7. /\ record'[slot].expires = began + Retention /\ record'[slot] # NoRecord
        /\ \A s \in Slot \ {slot} : record'[s] = record[s]
    <2>1. record'[slot].route = request[r].route /\ request[r].route # "none"
      BY <1>1, SlotOf DEF Commits, Inv, Route
    <2>2. QED
      BY <2>1 DEF Commits, NoRecord
  <1>8. MadeIsRecorded'
    <2> SUFFICES ASSUME NEW m \in made'
                 PROVE  /\ record'[m.slot] # NoRecord
                        /\ m.began + Retention <= record'[m.slot].expires
      BY DEF MadeIsRecorded
    <2>1. CASE m \in made /\ m.slot # slot
      BY <1>3, <1>7, <2>1 DEF Inv, MadeIsRecorded, WellMade
    <2>2. CASE m \in made /\ m.slot = slot
      <3>1. m.began \in Nat /\ m.began + Retention <= began
        BY <1>3, <1>4, <2>2 DEF WellMade
      <3>2. m.began + Retention <= began + Retention
        BY <1>1, <3>1
      <3>3. QED
        BY <1>7, <2>2, <3>2
    <2>3. CASE m \notin made
      BY <1>1, <1>6, <1>7, <2>3
    <2>4. QED
      BY <2>1, <2>2, <2>3
  <1>9. EffectsAreRetentionApart'
    <2> DEFINE Apart(x, y) ==
                  /\ x.began + Retention <= y.began \/ y.began + Retention <= x.began
                  /\ ~(x.kind = "message" /\ y.kind = "message")
    <2>1. ASSUME NEW x \in made, NEW y \in made' \ made, x.slot = y.slot
          PROVE  Apart(x, y) /\ Apart(y, x)
      <3>1. y.slot = slot /\ y.began = began /\ (y.kind = "message" => MessageOf(slot) = {})
        BY <1>6, <2>1
      <3>2. x.began + Retention <= y.began
        BY <1>4, <2>1, <3>1
      <3>3. ~(x.kind = "message" /\ y.kind = "message")
        BY <2>1, <3>1 DEF MessageOf
      <3>4. QED
        BY <3>2, <3>3
    <2>2. ASSUME NEW x \in made', NEW y \in made', x # y, x.slot = y.slot
          PROVE  Apart(x, y)
      <3>1. CASE x \in made /\ y \in made
        BY <2>2, <3>1 DEF Inv, EffectsAreRetentionApart
      <3>2. CASE x \notin made /\ y \notin made
        BY <1>6, <2>2, <3>2
      <3>3. QED
        BY <2>1, <2>2, <3>1, <3>2
    <2>3. QED
      BY <2>2 DEF EffectsAreRetentionApart
  <1>10. RecordsAreTrue'
    <2> SUFFICES ASSUME NEW s \in Slot, record'[s].answer.status = "ok",
                        record'[s].route # "revoke"
                 PROVE  \E m \in made' :
                           /\ m.id = record'[s].answer.resource /\ m.slot = s
                           /\ m.route = record'[s].route /\ m.body = record'[s].body
      BY DEF RecordsAreTrue, IsMade
    <2>1. CASE s = slot
      BY <2>1 DEF Commits
    <2>2. CASE s # slot
      BY <1>5, <1>7, <2>2 DEF Inv, RecordsAreTrue, IsMade
    <2>3. QED
      BY <2>1, <2>2
  <1>11. FoundNothingLive'
    BY DEF Inv, FoundNothingLive, Commits, At
  <1>12. AnswersAreTrue'
    <2> SUFFICES ASSUME NEW q \in Request, At(q, "answered")',
                        request'[q].answer.status = "ok", request'[q].route # "revoke"
                 PROVE  \E m \in made' :
                           /\ m.id = request'[q].answer.resource /\ m.slot = request'[q].slot
                           /\ m.route = request'[q].route /\ m.body = request'[q].body
                           /\ request'[q].route = "rotate" /\ ~request'[q].answer.replayed
                                => m.from = request'[q].secret
      BY DEF AnswersAreTrue, At
    <2>1. CASE q = r
      BY <2>1 DEF Commits
    <2>2. CASE q # r
      <3>1. request'[q] = request[q]
        BY <2>2 DEF Commits
      <3>2. QED
        BY <1>5, <3>1 DEF Inv, AnswersAreTrue, At
    <2>3. QED
      BY <2>1, <2>2
  <1>13. QED
    BY <1>8, <1>9, <1>10, <1>11, <1>12 DEF Inv

\* The invariant holds of the initial states: nothing was sent or made.
LEMMA InitInv == Init => Inv
  <1> SUFFICES ASSUME Init PROVE Inv
    OBVIOUS
  <1>1. credential \in [Credential -> CredentialRow]
    <2>1. PICK scopes \in Scopes, expiry \in Expiries :
             credential = [c \in Credential |->
                 [secret |-> 1, revoked |-> FALSE, expires |-> expiry, scopes |-> scopes,
                  window |-> None, count |-> 0]]
      BY DEF Init
    <2>2. 1 \in 1..(MaxSecret + 1) /\ 0 \in 0..RateLimit
      BY TimeAssumption
    <2>3. QED
      BY <2>1, <2>2 DEF CredentialRow
  <1>2. /\ record = [s \in Slot |-> NoRecord] /\ holder = [s \in Slot |-> None]
        /\ made = {} /\ request = [r \in Request |-> Idle] /\ consent = TRUE
        /\ now = 0 /\ sent = 0
    BY DEF Init
  <1>3. TypeOK
    <2>1. /\ record \in [Slot -> RecordType] /\ holder \in [Slot -> Request \cup {None}]
          /\ request \in [Request -> RequestRow] /\ \A m \in made : WellMade(m)
      BY <1>2, BlankTyped
    <2>2. QED
      BY <1>1, <1>2, <2>1 DEF TypeOK, CredentialRow, RequestRow, WellMade
  <1>4. Typed
    BY <1>2, <1>3, FS_EmptySet DEF Typed, Addressed, At, Idle
  <1>5. FoundNothingLive /\ AnswersAreTrue
    BY <1>2 DEF FoundNothingLive, AnswersAreTrue, At, Idle
  <1>6. MadeIsRecorded /\ EffectsAreRetentionApart
    BY <1>2 DEF MadeIsRecorded, EffectsAreRetentionApart
  <1>7. RecordsAreTrue
    BY <1>2 DEF RecordsAreTrue, NoRecord, NoAnswer
  <1>8. QED
    BY <1>4, <1>5, <1>6, <1>7 DEF Inv

\* What happens beside the requests leaves well-formed rows.
LEMMA BesideTyped ==
    ASSUME Typed, UNCHANGED <<record, holder, made, request, sent>>,
           credential' \in [Credential -> CredentialRow], consent' \in BOOLEAN, now' \in Nat
    PROVE  Typed'
  <1>1. \A m \in made' : WellMade(m)
    BY Rows DEF Typed
  <1>2. TypeOK'
    BY <1>1, Rows, RowsNext DEF Typed
  <1>3. QED
    BY <1>2 DEF Typed, Addressed, At

\* Every step keeps the invariant.
LEMMA NextInv ==
    ASSUME Inv, [Next]_vars
    PROVE  Inv'
  <1> Typed
    BY DEF Inv
  <1>1. ASSUME NEW r \in Request, NEW slot \in Slot, NEW secret \in 1..MaxSecret,
               NEW route \in Route, NEW body \in Body \cup {None},
               Resolve(r, slot, secret, route, body)
        PROVE  Inv'
    BY <1>1, ResolveStep, HarmlessInv
  <1>2. ASSUME NEW r \in Request, Consume(r) PROVE Inv'
    BY <1>2, ConsumeStep, HarmlessInv
  <1>3. ASSUME NEW r \in Request, Begin(r) PROVE Inv'
    BY <1>3, BeginInv
  <1>4. ASSUME NEW r \in Request, Execute(r) PROVE Inv'
    BY <1>4, ExecuteStep, HarmlessInv, CommitInv DEF Execute
  <1>5. ASSUME NEW r \in Request, RollBack(r) PROVE Inv'
    <2>1. Says("failed", 0) \in AnswerType /\ Says("failed", 0).status # "ok"
      BY SaysTyped DEF Status
    <2>2. /\ ~At(r, "idle") /\ credential' \in [Credential -> CredentialRow]
          /\ holder' \in [Slot -> Request \cup {None}]
      BY <1>5, SlotOf, Rows DEF RollBack, Free, At, Typed
    <2>3. Typed' /\ Harmless(r)
      BY <1>5, <2>1, <2>2, AnswerTyped DEF RollBack, Harmless
    <2>4. QED
      BY <2>3, HarmlessInv
  <1>6. credential \in [Credential -> CredentialRow] /\ consent \in BOOLEAN /\ now \in Nat
    BY Rows DEF Typed
  <1>7. ASSUME NEW c \in Credential, UserRotates(c) \/ UserRevokes(c) PROVE Inv'
    <2>1. credential' \in [Credential -> CredentialRow]
      BY <1>7, RotatedTyped DEF UserRotates, UserRevokes
    <2>2. UNCHANGED <<record, holder, made, request, consent, now, sent>>
      BY <1>7 DEF UserRotates, UserRevokes
    <2>3. QED
      BY <1>6, <2>1, <2>2, BesideTyped, HarmlessInv
  <1>8. CASE ConsentChanges
    BY <1>6, <1>8, BesideTyped, HarmlessInv DEF ConsentChanges
  <1>9. CASE Tick
    BY <1>6, <1>9, BesideTyped, HarmlessInv DEF Tick
  <1>10. CASE UNCHANGED vars
    BY <1>6, <1>10, BesideTyped, HarmlessInv DEF vars
  <1>11. QED
    BY <1>1, <1>2, <1>3, <1>4, <1>5, <1>7, <1>8, <1>9, <1>10 DEF Next

\* The invariant holds of the specification.
LEMMA SpecInv == Spec => []Inv
  BY InitInv, NextInv, PTL DEF Spec

-----------------------------------------------------------------------------

\* The rows and requests are well formed for ever, and no window holds more
\* requests than the key's budget (api-key-authentication.ts:202).
THEOREM RowsTyped == Spec => []TypeOK
  <1>1. Inv => TypeOK
    BY DEF Inv, Typed
  <1>2. QED
    BY <1>1, SpecInv, PTL

\* What requests under one idempotency key commit lies a retention apart, and
\* a key sends one message for ever (idempotency.ts:59,
\* direct-message-reservation.ts:78): however many clients repeat however many
\* requests, whoever dies between reading the record and the commit.
THEOREM EffectsApart == Spec => []EffectsAreRetentionApart
  <1>1. Inv => EffectsAreRetentionApart
    BY DEF Inv
  <1>2. QED
    BY <1>1, SpecInv, PTL

\* A success that names a resource names one that this very request made, now
\* or before, and a rotation replaces the secret its request was admitted with
\* (idempotency.ts:82, api-keys/current/rotate/route.ts:38).
THEOREM AnswersTrue == Spec => []AnswersAreTrue
  <1>1. Inv => AnswersAreTrue
    BY DEF Inv
  <1>2. QED
    BY <1>1, SpecInv, PTL

-----------------------------------------------------------------------------
(* Locks and stored answers.                                                *)

\* Who executes holds the lock of its key, and began before now.
Locked == \A r \in Request :
    At(r, "executing") => holder[request[r].slot] = r /\ request[r].began <= now

\* A step of r, which does not execute afterwards, keeps the others' locks if it
\* touches none or gives back its own.
LEMMA LockedAfter ==
    ASSUME Typed, Locked, NEW r \in Request, ~At(r, "executing")', now' = now,
           \A q \in Request \ {r} : request'[q] = request[q],
           holder' = holder \/ (At(r, "executing") /\ Free(r))
    PROVE  Locked'
  <1> SUFFICES ASSUME NEW q \in Request, At(q, "executing")'
               PROVE  holder'[request'[q].slot] = q /\ request'[q].began <= now'
    BY DEF Locked
  <1>1. q # r /\ request'[q] = request[q] /\ At(q, "executing")
    BY DEF At
  <1>2. holder[request[q].slot] = q /\ request[q].began <= now
    BY <1>1 DEF Locked
  <1>3. CASE At(r, "executing") /\ Free(r)
    <2>1. holder[request[r].slot] = r
      BY <1>3 DEF Locked
    <2>2. request[r].slot # request[q].slot
      BY <1>1, <1>2, <2>1
    <2>3. request[q].slot \in Slot /\ holder \in [Slot -> Request \cup {None}]
      BY <1>1, SlotOf, Rows DEF Typed, At
    <2>4. holder'[request[q].slot] = holder[request[q].slot]
      BY <1>3, <2>2, <2>3 DEF Free
    <2>5. QED
      BY <1>1, <1>2, <2>4
  <1>4. QED
    BY <1>1, <1>2, <1>3

\* Begin takes a lock that nobody has.
LEMMA LockedBegin ==
    ASSUME Typed, Locked, NEW r \in Request, Begin(r)
    PROVE  Locked'
  <1>1. OnlyMoves(r) /\ now' = now /\ At(r, "admitted")
    BY BeginStep DEF Begin
  <1>2. CASE UNCHANGED holder /\ ~At(r, "executing")'
    BY <1>1, <1>2, LockedAfter DEF OnlyMoves
  <1>3. CASE /\ request' = [request EXCEPT ![r].step = "executing",
                                           ![r].found = record[request[r].slot], ![r].began = now]
             /\ holder' = [holder EXCEPT ![request[r].slot] = r]
             /\ LockFree(request[r].slot)
    <2>1. /\ request[r] \in RequestRow /\ request[r].slot \in Slot /\ now \in Nat
          /\ request \in [Request -> RequestRow] /\ holder \in [Slot -> Request \cup {None}]
      BY <1>1, SlotOf, Rows DEF Typed, At
    <2>2. request'[r].slot = request[r].slot /\ request'[r].began = now
      BY <1>3, <2>1 DEF RequestRow
    <2>3. ASSUME NEW q \in Request \ {r}, At(q, "executing")'
          PROVE  holder'[request'[q].slot] = q /\ request'[q].began <= now'
      <3>1. request'[q] = request[q] /\ At(q, "executing")
        BY <1>1, <2>3 DEF OnlyMoves, At
      <3>2. holder[request[q].slot] = q /\ request[q].began <= now
        BY <3>1 DEF Locked
      <3>3. request[q].slot # request[r].slot
        BY <1>3, <3>2, NoneAssumption DEF LockFree
      <3>4. request[q].slot \in Slot
        BY <3>1, SlotOf DEF At
      <3>5. holder'[request[q].slot] = holder[request[q].slot]
        BY <1>3, <2>1, <3>3, <3>4
      <3>6. QED
        BY <1>1, <3>1, <3>2, <3>5
    <2>4. holder'[request'[r].slot] = r /\ request'[r].began <= now'
      BY <1>1, <1>3, <2>1, <2>2
    <2>5. QED
      BY <2>3, <2>4 DEF Locked
  <1>4. CASE UNCHANGED holder /\ \E a : Answer(r, a)
    <2>1. PICK a : Answer(r, a)
      BY <1>4
    <2>2. request'[r].step = "answered"
      <3>1. request \in [Request -> RequestRow] /\ request[r] \in RequestRow
        BY Rows DEF Typed
      <3>2. QED
        BY <2>1, <3>1 DEF Answer, RequestRow
    <2>3. QED
      BY <1>2, <1>4, <2>2 DEF At
  <1>5. QED
    BY <1>3, <1>4 DEF Begin

\* Of the steps of requests, and of those beside them.
LEMMA LockedNext ==
    ASSUME Inv, Locked, [Next]_vars
    PROVE  Locked'
  <1> Typed
    BY DEF Inv
  <1>1. ASSUME NEW r \in Request, NEW slot \in Slot, NEW secret \in 1..MaxSecret,
               NEW route \in Route, NEW body \in Body \cup {None},
               Resolve(r, slot, secret, route, body)
        PROVE  Locked'
    <2>1. Harmless(r) /\ UNCHANGED <<holder, now>>
      BY <1>1, ResolveStep DEF Resolve
    <2>2. QED
      BY <2>1, LockedAfter DEF Harmless, OnlyMoves
  <1>2. ASSUME NEW r \in Request, Consume(r) PROVE Locked'
    <2>1. Harmless(r) /\ UNCHANGED <<holder, now>>
      BY <1>2, ConsumeStep DEF Consume
    <2>2. QED
      BY <2>1, LockedAfter DEF Harmless, OnlyMoves
  <1>3. ASSUME NEW r \in Request, Begin(r) PROVE Locked'
    BY <1>3, LockedBegin
  <1>4. ASSUME NEW r \in Request, Execute(r) PROVE Locked'
    <2>1. At(r, "executing") /\ Free(r) /\ now' = now
      BY <1>4 DEF Execute
    <2>2. /\ ~At(r, "executing")'
          /\ \A q \in Request \ {r} : request'[q] = request[q]
      BY <1>4, ExecuteStep DEF Harmless, OnlyMoves, Commits, At
    <2>3. QED
      BY <2>1, <2>2, LockedAfter
  <1>5. ASSUME NEW r \in Request, RollBack(r) PROVE Locked'
    <2>1. At(r, "executing") /\ Free(r) /\ now' = now /\ ~At(r, "idle")
      BY <1>5 DEF RollBack, At
    <2>2. Says("failed", 0) \in AnswerType
      BY SaysTyped DEF Status
    <2>3. /\ ~At(r, "executing")'
          /\ \A q \in Request \ {r} : request'[q] = request[q]
      BY <1>5, <2>1, <2>2, AnswerStep DEF RollBack, At
    <2>4. QED
      BY <2>1, <2>3, LockedAfter
  <1>6. CASE /\ UNCHANGED <<request, holder>>
             /\ now' = now \/ now' = now + 1
    <2>1. now \in Nat /\ request \in [Request -> RequestRow]
      BY Rows DEF Typed
    <2>2. ASSUME NEW q \in Request, At(q, "executing")
          PROVE  holder[request[q].slot] = q /\ request[q].began <= now'
      <3>1. request[q].began \in Nat /\ request[q].began <= now /\ holder[request[q].slot] = q
        BY <2>1, <2>2 DEF Locked, RequestRow
      <3>2. QED
        BY <1>6, <2>1, <3>1
    <2>3. QED
      BY <1>6, <2>2 DEF Locked, At
  <1>7. ASSUME NEW c \in Credential, UserRotates(c) \/ UserRevokes(c) PROVE Locked'
    BY <1>6, <1>7 DEF UserRotates, UserRevokes
  <1>8. CASE ConsentChanges \/ Tick \/ UNCHANGED vars
    BY <1>6, <1>8 DEF ConsentChanges, Tick, vars
  <1>9. QED
    BY <1>1, <1>2, <1>3, <1>4, <1>5, <1>7, <1>8 DEF Next

\* What a step does to the records and to what was made: nothing, or a commit.
LEMMA CommitsOrKeeps ==
    ASSUME Inv, [Next]_vars
    PROVE  \/ UNCHANGED <<record, made>>
           \/ \E r \in Request : At(r, "executing") /\ \E a \in AnswerType : Commits(r, a)
  <1> Typed
    BY DEF Inv
  <1>1. ASSUME NEW r \in Request, Execute(r)
        PROVE  \/ UNCHANGED <<record, made>>
               \/ At(r, "executing") /\ \E a \in AnswerType : Commits(r, a)
    BY <1>1, ExecuteStep DEF Harmless, OnlyMoves, Execute
  <1>2. ASSUME NEW r \in Request,
               \/ \E slot \in Slot, secret \in 1..MaxSecret, route \in Route,
                     body \in Body \cup {None} : Resolve(r, slot, secret, route, body)
               \/ Consume(r) \/ Begin(r) \/ RollBack(r)
        PROVE  UNCHANGED <<record, made>>
    BY <1>2 DEF Resolve, Consume, Begin, RollBack
  <1>3. ASSUME NEW c \in Credential, UserRotates(c) \/ UserRevokes(c)
        PROVE  UNCHANGED <<record, made>>
    BY <1>3 DEF UserRotates, UserRevokes
  <1>4. CASE ConsentChanges \/ Tick \/ UNCHANGED vars
    BY <1>4 DEF ConsentChanges, Tick, vars
  <1>5. QED
    BY <1>1, <1>2, <1>3, <1>4 DEF Next

\* What Begin read is in the row as long as the request executes: only a commit
\* under the same key could change it, and that would need the lock.
ReadsStand == \A r \in Request :
    At(r, "executing") => record[request[r].slot] = request[r].found

\* A step leaves each request that executes afterwards as it was, except one
\* that begins, with what it finds.
LEMMA ExecutesOrBegins ==
    ASSUME Inv, [Next]_vars, NEW q \in Request, At(q, "executing")'
    PROVE  \/ request'[q] = request[q]
           \/ /\ request'[q].found = record[request'[q].slot]
              /\ UNCHANGED record
  <1> Typed
    BY DEF Inv
  <1>1. ASSUME NEW r \in Request, Begin(r)
        PROVE  \/ request'[q] = request[q]
               \/ request'[q].found = record[request'[q].slot] /\ UNCHANGED record
    <2>1. OnlyMoves(r) /\ ~At(r, "idle")
      BY <1>1, BeginStep DEF Begin, At
    <2>2. CASE q # r
      BY <2>1, <2>2 DEF OnlyMoves
    <2>3. CASE q = r /\ request' = [request EXCEPT ![r].step = "executing",
                                          ![r].found = record[request[r].slot], ![r].began = now]
      <3>1. request[r] \in RequestRow /\ request \in [Request -> RequestRow]
        BY <2>1, SlotOf, Rows DEF Typed
      <3>2. request'[r].slot = request[r].slot /\ request'[r].found = record[request[r].slot]
        BY <2>3, <3>1 DEF RequestRow
      <3>3. QED
        BY <2>1, <2>3, <3>2 DEF OnlyMoves
    <2>4. CASE q = r /\ \E a : Answer(r, a)
      <3>1. request[r] \in RequestRow /\ request \in [Request -> RequestRow]
        BY <2>1, SlotOf, Rows DEF Typed
      <3>2. PICK a : Answer(r, a)
        BY <2>4
      <3>3. request'[r].step = "answered"
        BY <3>1, <3>2 DEF Answer, RequestRow
      <3>4. QED
        BY <2>4, <3>3 DEF At
    <2>5. QED
      BY <1>1, <2>2, <2>3, <2>4 DEF Begin
  <1>2. ASSUME NEW r \in Request,
               ~At(r, "executing")', \A p \in Request \ {r} : request'[p] = request[p]
        PROVE  request'[q] = request[q]
    BY <1>2 DEF At
  <1>3. ASSUME NEW r \in Request, Execute(r)
        PROVE  request'[q] = request[q]
    <2>1. /\ ~At(r, "executing")'
          /\ \A p \in Request \ {r} : request'[p] = request[p]
      BY <1>3, ExecuteStep DEF Harmless, OnlyMoves, Commits, At
    <2>2. QED
      BY <1>2, <2>1
  <1>4. ASSUME NEW r \in Request, RollBack(r)
        PROVE  request'[q] = request[q]
    <2>1. Says("failed", 0) \in AnswerType /\ ~At(r, "idle")
      BY <1>4, SaysTyped DEF Status, RollBack, At
    <2>2. /\ ~At(r, "executing")'
          /\ \A p \in Request \ {r} : request'[p] = request[p]
      BY <1>4, <2>1, AnswerStep DEF RollBack, At
    <2>3. QED
      BY <1>2, <2>2
  <1>5. ASSUME NEW r \in Request, NEW slot \in Slot, NEW secret \in 1..MaxSecret,
               NEW route \in Route, NEW body \in Body \cup {None},
               Resolve(r, slot, secret, route, body)
        PROVE  request'[q] = request[q]
    BY <1>2, <1>5, ResolveStep DEF Harmless, OnlyMoves
  <1>6. ASSUME NEW r \in Request, Consume(r)
        PROVE  request'[q] = request[q]
    BY <1>2, <1>6, ConsumeStep DEF Harmless, OnlyMoves
  <1>7. ASSUME NEW c \in Credential, UserRotates(c) \/ UserRevokes(c)
        PROVE  request'[q] = request[q]
    BY <1>7 DEF UserRotates, UserRevokes
  <1>8. CASE ConsentChanges \/ Tick \/ UNCHANGED vars
    BY <1>8 DEF ConsentChanges, Tick, vars
  <1>9. QED
    BY <1>1, <1>3, <1>4, <1>5, <1>6, <1>7, <1>8 DEF Next

LEMMA ReadsStandNext ==
    ASSUME Inv, Locked, ReadsStand, [Next]_vars
    PROVE  ReadsStand'
  <1> SUFFICES ASSUME NEW q \in Request, At(q, "executing")'
               PROVE  record'[request'[q].slot] = request'[q].found
    BY DEF ReadsStand
  <1>1. CASE request'[q] = request[q]
    <2>1. At(q, "executing") /\ record[request[q].slot] = request[q].found
      BY <1>1 DEF At, ReadsStand
    <2>2. ASSUME NEW r \in Request, At(r, "executing"), NEW a \in AnswerType, Commits(r, a)
          PROVE  record'[request[q].slot] = record[request[q].slot]
      <3>1. r # q
        <4>1. request'[r].step = "answered"
          BY <2>2 DEF Commits
        <4>2. QED
          BY <4>1 DEF At
      <3>2. request[r].slot # request[q].slot
        BY <2>1, <2>2, <3>1 DEF Locked
      <3>3. request[q].slot \in Slot
        BY <2>1, SlotOf DEF At, Inv
      <3>4. QED
        BY <2>2, <3>2, <3>3 DEF Commits
    <2>3. QED
      BY <1>1, <2>1, <2>2, CommitsOrKeeps
  <1>2. QED
    BY <1>1, ExecutesOrBegins

LEMMA SpecLocked == Spec => [](Inv /\ Locked /\ ReadsStand)
  <1>1. Init => Locked /\ ReadsStand
    BY DEF Init, Locked, ReadsStand, At, Idle
  <1>2. QED
    BY <1>1, InitInv, NextInv, LockedNext, ReadsStandNext, PTL DEF Spec

\* The advisory lock suffices: what a request read of its key's record is still
\* there when it commits, so that no client that repeats a request is told of a
\* conflict with itself (idempotency.ts:69).
THEOREM CommitsNeverCollide == Spec => []ReadsStand
  BY SpecLocked, PTL

\* A stored answer that has not expired is never replaced nor deleted: who read
\* the record before it was there cannot commit over it (idempotency.ts:102).
StoredAnswersKept ==
    [][\A s \in Slot : Live(record[s]) => record'[s] = record[s]]_vars

\* Every retry within the retention finds the same answer, whatever requests
\* were under way when it was stored.
THEOREM StoredAnswersStand == Spec => StoredAnswersKept
  <1>1. ASSUME Inv, Locked, [Next]_vars, NEW s \in Slot, Live(record[s])
        PROVE  record'[s] = record[s]
    <2>1. CASE UNCHANGED record
      BY <2>1
    <2>2. ASSUME NEW r \in Request, At(r, "executing"), NEW a \in AnswerType, Commits(r, a)
          PROVE  record'[s] = record[s]
      <3>1. /\ record[request[r].slot] = request[r].found
            /\ \A t \in Slot \ {request[r].slot} : record'[t] = record[t]
        BY <2>2 DEF Commits
      <3>2. request[r].found = NoRecord \/ request[r].found.expires <= request[r].began
        BY <1>1, <2>2 DEF Inv, FoundNothingLive
      <3>3. request[r].began <= now
        BY <1>1, <2>2 DEF Locked
      <3>4. /\ request[r].began \in Nat /\ now \in Nat
            /\ record[s] \in RecordType /\ record[s].expires \in Nat
        BY <1>1, Rows DEF Inv, Typed, RequestRow, RecordType
      <3>5. s # request[r].slot
        BY <1>1, <3>1, <3>2, <3>3, <3>4 DEF Live
      <3>6. QED
        BY <3>1, <3>5
    <2>3. QED
      BY <1>1, <2>1, <2>2, CommitsOrKeeps
  <1>2. Inv /\ Locked /\ [Next]_vars => [\A s \in Slot : Live(record[s]) => record'[s] = record[s]]_vars
    BY <1>1
  <1>3. QED
    BY <1>2, SpecLocked, PTL DEF Spec, StoredAnswersKept
=============================================================================
