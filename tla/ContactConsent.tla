--------------------------- MODULE ContactConsent ---------------------------
(* What a contact has consented to, under everybody who writes it: keywords *)
(* that come in from the carrier, staff and API clients who edit, imports,   *)
(* and merges of duplicates.                                                *)
(*                                                                          *)
(* Every writer is one READ COMMITTED transaction that reads the rows, then *)
(* decides, then writes: what it decides on may be old when it writes.       *)
(* `work' holds what each transaction under way has read.  The database      *)
(* keeps the evidence of consent itself (a trigger and a CHECK); the status  *)
(* and the opt-out mark are only as good as the decision.                   *)
EXTENDS Naturals

CONSTANTS
    Contact,
    Inbound,      \* messages from the carrier, each perhaps delivered often
    From(_),      \* whose number one comes from
    Keyword(_),   \* what its first word asks for
    Capture,      \* occasions on which somebody noted down a consent
    Edits,        \* the edits staff and clients make
    DoubleOptIn,  \* DOUBLE_OPT_IN_REQUIRED
    Worker,       \* transactions under way
    MaxWork,      \* bound: transactions begun
    Keep,         \* undefined in an edit: the column keeps its value
    Nothing       \* an absent value

ASSUME NothingAssumption ==
    /\ Nothing \notin Capture \cup Inbound \cup Contact \cup {Keep}
    /\ Keep \notin Capture \cup Inbound \cup BOOLEAN
ASSUME KeywordAssumption ==
    \A i \in Inbound : From(i) \in Contact /\ Keyword(i) \in {"STOP", "START", "OTHER"}
ASSUME BoundAssumption == MaxWork \in Nat /\ DoubleOptIn \in BOOLEAN

VARIABLES
    contact,    \* [Contact -> the row's consent columns]
    processed,  \* inbound messages whose WebhookEvent and Message are stored
    work,       \* [Worker -> the transaction it runs]
    begun,
    stopped,    \* history: who said STOP and was not opted in anew since
    decided,    \* history: who wrote the status last
    applied     \* history: [Inbound -> how often its keyword took effect]

vars == <<contact, processed, work, begun, stopped, decided, applied>>

Status == {"UNKNOWN", "PENDING_DOUBLE_OPT_IN", "OPTED_IN", "OPTED_OUT"}

ASSUME EditAssumption ==
    /\ Keep \notin Status
    /\ Edits \subseteq [status : Status \cup {Keep}, at : Capture \cup {Keep, Nothing},
                        text : Capture \cup {Keep, Nothing}, archived : BOOLEAN \cup {Keep}]

\* Evidence is one timestamp and two texts; the texts fare alike.
NoEvidence == [at |-> Nothing, text |-> Nothing]
Fresh(occasion) == [at |-> occasion, text |-> occasion]
Complete(evidence) == evidence.at # Nothing /\ evidence.text # Nothing
Noted(evidence) == evidence # NoEvidence

NoContact == [known |-> FALSE, status |-> "UNKNOWN", optedOut |-> FALSE,
              evidence |-> NoEvidence, archived |-> FALSE]
Idle == [kind |-> "idle", inbound |-> Nothing, edit |-> Nothing, of |-> Nothing,
         row |-> NoContact, source |-> Nothing, sourceRow |-> NoContact]

Init ==
    /\ contact = [c \in Contact |-> NoContact]
    /\ processed = {}
    /\ work = [w \in Worker |-> Idle]
    /\ begun = 0
    /\ stopped = {}
    /\ decided = [c \in Contact |-> "nobody"]
    /\ applied = [i \in Inbound |-> 0]

-----------------------------------------------------------------------------
(* What preflights, gates and the database ask of a row.                    *)

\* preflightCampaignRecipients; evaluateMessagingHardGate asks for evidence too.
Sendable(row) ==
    /\ row.known /\ ~row.archived
    /\ row.status = "OPTED_IN" /\ ~row.optedOut

\* Mutant: the trigger is not installed.
WriteAtWill(old, new) == TRUE
\* The trigger that keeps evidence, the CHECK that keeps it whole.
WriteOnce(old, new) ==
    /\ old.at # Nothing => new.at = old.at
    /\ old.text # Nothing => new.text = old.text
Whole(evidence) == Noted(evidence) => Complete(evidence)
DatabaseAccepts(old, new) == WriteOnce(old.evidence, new.evidence) /\ Whole(new.evidence)

-----------------------------------------------------------------------------
(* Edits.                                                                   *)

Given(value, old) == IF value = Keep THEN old ELSE value
NewEvidence(edit, evidence) ==
    [at |-> Given(edit.at, evidence.at), text |-> Given(edit.text, evidence.text)]

\* verifyConsentEvidenceImmutability and ...Completeness, on the row as read.
Changes(given, old) == old # Nothing /\ given # Keep /\ given # old
Immutable(edit, evidence) ==
    ~Changes(edit.at, evidence.at) /\ ~Changes(edit.text, evidence.text)
Verified(edit, row) ==
    /\ Immutable(edit, row.evidence)
    /\ Whole(NewEvidence(edit, row.evidence))

StatusOf(edit) ==
    IF edit.status \notin {Keep, "OPTED_OUT"} /\ DoubleOptIn
    THEN "PENDING_DOUBLE_OPT_IN" ELSE edit.status

\* contactWriteData: a mark is set or cleared only by the two plain statuses.
Written(edit, row) ==
    [known |-> TRUE,
     status |-> Given(StatusOf(edit), row.status),
     optedOut |-> CASE StatusOf(edit) = "OPTED_OUT" -> TRUE
                    [] StatusOf(edit) = "OPTED_IN" -> FALSE
                    [] OTHER -> row.optedOut,
     evidence |-> NewEvidence(edit, row.evidence),
     archived |-> Given(edit.archived, row.archived)]

-----------------------------------------------------------------------------
(* Transactions.                                                            *)

Start(w, transaction) ==
    /\ work[w] = Idle /\ begun < MaxWork
    /\ work' = [work EXCEPT ![w] = transaction]
    /\ begun' = begun + 1
    /\ UNCHANGED <<contact, processed, stopped, decided, applied>>

End(w) == work' = [work EXCEPT ![w] = Idle] /\ UNCHANGED begun

RollBack(w) ==
    /\ work[w].kind # "idle"
    /\ End(w)
    /\ UNCHANGED <<contact, processed, stopped, decided, applied>>

\* Inserting the event's row waits for a transaction that inserted it before.
Reserved(i) == \E w \in Worker : work[w].kind = "inbound" /\ work[w].inbound = i
\* Mutant: the event is taken whether or not it was processed before.
TakenAnyway(i) == TRUE
NotProcessed(i) == i \notin processed

\* The row an inbound message inserted first is not to be seen nor written
\* before that transaction ends.
Inserting(c) == \E w \in Worker :
    work[w].kind = "inbound" /\ work[w].of = c /\ ~work[w].row.known

\* The inbound route: the claim, the message and its keyword are one
\* transaction.  A processed event is acknowledged and nothing is done.
Receive(w, i) ==
    /\ NotProcessed(i) /\ ~Reserved(i)
    /\ Start(w, [Idle EXCEPT !.kind = "inbound", !.inbound = i, !.of = From(i),
                             !.row = contact[From(i)]])
    /\ ~Inserting(From(i))

OptedOut(row) == [row EXCEPT !.status = "OPTED_OUT", !.optedOut = TRUE]
OptedIn(row, evidence) ==
    [row EXCEPT !.status = "OPTED_IN", !.optedOut = FALSE, !.evidence = evidence]

\* applyInboundKeyword: whether START counts is decided on the row as read; if
\* that had no evidence, the UPDATE asks for a row that still has none.
StartCounts(read, now) ==
    /\ read.status # "OPTED_IN"
    /\ ~Complete(read.evidence) => ~Noted(read.evidence) /\ ~Noted(now.evidence)
StartEvidence(read, now, i) == IF Complete(read.evidence) THEN now.evidence ELSE Fresh(i)

ApplyKeyword(w) ==
    LET i == work[w].inbound
        c == work[w].of
        read == work[w].row
        now == [contact[c] EXCEPT !.known = TRUE]  \* upserted
    IN
    /\ work[w].kind = "inbound"
    /\ processed' = processed \cup {i}
    /\ \/ /\ Keyword(i) = "STOP"
          /\ contact' = [contact EXCEPT ![c] = OptedOut(now)]
          /\ stopped' = stopped \cup {c}
          /\ decided' = [decided EXCEPT ![c] = "keyword"]
          /\ applied' = [applied EXCEPT ![i] = @ + 1]
       \/ /\ Keyword(i) = "START" /\ StartCounts(read, now)
          /\ contact' = [contact EXCEPT ![c] = OptedIn(now, StartEvidence(read, now, i))]
          /\ stopped' = stopped \ {c}
          /\ decided' = [decided EXCEPT ![c] = "keyword"]
          /\ applied' = [applied EXCEPT ![i] = @ + 1]
       \/ /\ Keyword(i) = "OTHER" \/ (Keyword(i) = "START" /\ ~StartCounts(read, now))
          /\ contact' = [contact EXCEPT ![c] = now]
          /\ UNCHANGED <<stopped, decided, applied>>
    /\ End(w)

\* updateContact, createContact, upsertContact and a row of importContacts.  An
\* import carries no evidence and always a status.
Edit(w, c, edit) ==
    /\ Start(w, [Idle EXCEPT !.kind = "edit", !.edit = edit, !.of = c, !.row = contact[c]])
    /\ Verified(edit, contact[c])
    /\ edit.status = Keep => contact[c].known

CommitEdit(w) ==
    LET c == work[w].of
        edit == work[w].edit
        new == Written(edit, contact[c])
    IN
    /\ work[w].kind = "edit" /\ ~Inserting(c)
    /\ DatabaseAccepts(contact[c], new)
    /\ contact' = [contact EXCEPT ![c] = new]
    /\ stopped' = CASE StatusOf(edit) = "OPTED_OUT" -> stopped \cup {c}
                    [] StatusOf(edit) = "OPTED_IN" -> stopped \ {c}
                    [] OTHER -> stopped
    /\ decided' = IF StatusOf(edit) = Keep THEN decided
                                             ELSE [decided EXCEPT ![c] = "edit"]
    /\ End(w)
    /\ UNCHANGED <<processed, applied>>

Merge(w, target, source) ==
    /\ target # source
    /\ contact[target].known /\ contact[source].known
    /\ Start(w, [Idle EXCEPT !.kind = "merge", !.of = target, !.row = contact[target],
                             !.source = source, !.sourceRow = contact[source]])

MayDowngrade(target) == target.status = "OPTED_IN" /\ ~Complete(target.evidence)
\* Mutant: the source's word is taken without evidence of the target's own.
MayUpgradeUnproved(target, source) ==
    target.status = "UNKNOWN" /\ source.status = "OPTED_IN"
MayUpgrade(target, source) ==
    /\ target.status = "UNKNOWN" /\ source.status = "OPTED_IN"
    /\ Complete(target.evidence)

\* mergedConsentData, decided on the rows as read, written on what they are.
Merged(target, source, now) ==
    CASE "OPTED_OUT" \in {target.status, source.status} -> OptedOut(now)
      [] "OPTED_OUT" \notin {target.status, source.status} /\ MayDowngrade(target) ->
            [now EXCEPT !.status = "UNKNOWN", !.optedOut = FALSE]
      [] "OPTED_OUT" \notin {target.status, source.status} /\ MayUpgrade(target, source) ->
            OptedIn(now, now.evidence)
      [] OTHER -> now

CommitMerge(w) ==
    LET c == work[w].of
        s == work[w].source
        new == Merged(work[w].row, work[w].sourceRow, contact[c])
    IN
    /\ work[w].kind = "merge"
    /\ contact' = [contact EXCEPT ![c] = new, ![s].archived = TRUE]
    /\ decided' = IF new.status # contact[c].status THEN [decided EXCEPT ![c] = "merge"]
                                                    ELSE decided
    /\ End(w)
    /\ UNCHANGED <<processed, stopped, applied>>

Next ==
    \E w \in Worker :
       \/ \E i \in Inbound : Receive(w, i)
       \/ \E c \in Contact, edit \in Edits : Edit(w, c, edit)
       \/ \E target, source \in Contact : Merge(w, target, source)
       \/ ApplyKeyword(w) \/ CommitEdit(w) \/ CommitMerge(w) \/ RollBack(w)

Spec == Init /\ [][Next]_vars

-----------------------------------------------------------------------------
(* Properties.                                                              *)

\* The evidence of a consent is noted down on one occasion and stays: writers
\* that read the row before it was there can neither replace it nor mix theirs
\* into it (CONTRACT-COMPLIANCE.md:22, contacts.ts:488).
EvidenceIsWrittenOnce ==
    [][\A c \in Contact : Noted(contact[c].evidence) =>
            contact'[c].evidence = contact[c].evidence]_vars

\* No keyword and no merge, whatever it read, leaves a contact opted in without
\* evidence (CONTRACT-COMPLIANCE.md:24, inbox.ts:128, contacts.ts:448).
OptInIsProved ==
    \A c \in Contact :
        contact[c].status = "OPTED_IN" /\ decided[c] \in {"keyword", "merge"} =>
            Complete(contact[c].evidence)

\* However often and however concurrently the carrier delivers a message, its
\* keyword takes effect once: a late copy of an old STOP does not undo a START
\* (webhooks.ts:30, CONTRACT-COMPLIANCE.md:38).
KeywordsTakeEffectOnce == \A i \in Inbound : applied[i] <= 1

\* A contact who said STOP is not written to before an opt-in of its own or an
\* edit that says so (SPEC-023-auto-responder.md:25).
StopBlocksSends == \A c \in stopped : ~Sendable(contact[c])
=============================================================================
