------------------------ MODULE ContactConsent_proofs ------------------------
(* Proofs about module ContactConsent, for any contacts, inbound messages,   *)
(* occasions and edits, any number of transactions, with and without double  *)
(* opt-in.                                                                   *)
EXTENDS ContactConsent, TLAPS

Occasion == Capture \cup Inbound \cup {Nothing}
EvidenceType == [at : Occasion, text : Occasion]
RowType == [known : BOOLEAN, status : Status, optedOut : BOOLEAN, evidence : EvidenceType,
            archived : BOOLEAN]
WorkType == [kind : {"idle", "inbound", "edit", "merge"}, inbound : Inbound \cup {Nothing},
             edit : Edits \cup {Nothing}, of : Contact \cup {Nothing}, row : RowType,
             source : Contact \cup {Nothing}, sourceRow : RowType]

\* Every row and transaction is one of the code's.
Shapes ==
    /\ contact \in [Contact -> RowType]
    /\ work \in [Worker -> WorkType]
    /\ decided \in [Contact -> {"nobody", "keyword", "edit", "merge"}]
    /\ applied \in [Inbound -> Nat]
    /\ \A w \in Worker :
          /\ work[w].kind # "idle" => work[w].of \in Contact
          /\ work[w].kind = "inbound" => work[w].inbound \in Inbound
          /\ work[w].kind = "edit" => work[w].edit \in Edits
          /\ work[w].kind = "merge" => work[w].source \in Contact /\ work[w].source # work[w].of

EvidenceIsWhole == \A c \in Contact : Whole(contact[c].evidence)

\* What a transaction read of evidence is still so when it writes.
ReadsStayTrue ==
    \A w \in Worker : work[w].kind # "idle" /\ Noted(work[w].row.evidence) =>
        contact[work[w].of].evidence = work[w].row.evidence

\* An inbound message is at one transaction, or processed.
OneAtATime ==
    \A w \in Worker : work[w].kind = "inbound" =>
        /\ work[w].inbound \notin processed
        /\ \A v \in Worker : work[v].kind = "inbound" /\ work[v].inbound = work[w].inbound => v = w

AppliedWhenProcessed ==
    \A i \in Inbound : applied[i] = 0 \/ (applied[i] = 1 /\ i \in processed)

CInv == /\ Shapes /\ EvidenceIsWhole /\ ReadsStayTrue /\ OptInIsProved
        /\ OneAtATime /\ AppliedWhenProcessed

-----------------------------------------------------------------------------
LEMMA InitCInv == Init => CInv
<1> SUFFICES ASSUME Init PROVE CInv OBVIOUS
<1>1. NoContact \in RowType
    BY DEF NoContact, RowType, NoEvidence, EvidenceType, Occasion, Status
<1>2. Idle \in WorkType /\ Idle.kind = "idle" BY <1>1 DEF Idle, WorkType
<1>3. Shapes BY <1>1, <1>2 DEF Init, Shapes
<1>4. EvidenceIsWhole BY DEF Init, EvidenceIsWhole, NoContact, Whole, Noted
<1>5. ReadsStayTrue /\ OneAtATime BY <1>2 DEF Init, ReadsStayTrue, OneAtATime
<1>6. OptInIsProved BY DEF Init, OptInIsProved
<1>7. AppliedWhenProcessed BY DEF Init, AppliedWhenProcessed
<1> QED BY <1>3, <1>4, <1>5, <1>6, <1>7 DEF CInv

\* What a step does to the columns of every contact.
Kept == \A c \in Contact : Noted(contact[c].evidence) => contact'[c].evidence = contact[c].evidence

\* Transactions end without a trace of them, or begin on the rows as they are.
LEMMA WorkGoesOn ==
    ASSUME CInv, Kept, contact' \in [Contact -> RowType],
           \A w \in Worker :
              \/ work'[w] = work[w] \/ work'[w] = Idle
              \/ /\ contact' = contact /\ work'[w] \in WorkType /\ work'[w].of \in Contact
                 /\ work'[w].row = contact[work'[w].of]
                 /\ work'[w].kind = "inbound" => work'[w].inbound \in Inbound
                 /\ work'[w].kind = "edit" => work'[w].edit \in Edits
                 /\ work'[w].kind = "merge" =>
                       work'[w].source \in Contact /\ work'[w].source # work'[w].of,
           work' \in [Worker -> WorkType],
           applied' \in [Inbound -> Nat],
           decided' \in [Contact -> {"nobody", "keyword", "edit", "merge"}]
    PROVE  Shapes' /\ ReadsStayTrue'
<1>1. Idle.kind = "idle" BY DEF Idle
<1>2. \A w \in Worker : work[w].kind # "idle" => work[w].of \in Contact BY DEF CInv, Shapes
<1>3. Shapes'
    <2> SUFFICES ASSUME NEW w \in Worker
                 PROVE  /\ work'[w].kind # "idle" => work'[w].of \in Contact
                        /\ work'[w].kind = "inbound" => work'[w].inbound \in Inbound
                        /\ work'[w].kind = "edit" => work'[w].edit \in Edits
                        /\ work'[w].kind = "merge" =>
                              work'[w].source \in Contact /\ work'[w].source # work'[w].of
        BY DEF Shapes
    <2>1. CASE work'[w] = work[w] BY <2>1 DEF CInv, Shapes
    <2>2. CASE work'[w] = Idle BY <1>1, <2>2
    <2> QED BY <2>1, <2>2
<1>4. ReadsStayTrue'
    <2> SUFFICES ASSUME NEW w \in Worker, work'[w].kind # "idle", Noted(work'[w].row.evidence)
                 PROVE  contact'[work'[w].of].evidence = work'[w].row.evidence
        BY DEF ReadsStayTrue, Noted
    <2>1. CASE work'[w] = work[w]
        <3>1. contact[work[w].of].evidence = work[w].row.evidence
            BY <2>1 DEF CInv, ReadsStayTrue
        <3> QED BY <1>2, <2>1, <3>1 DEF Kept
    <2>2. CASE work'[w] = Idle BY <1>1, <2>2
    <2> QED BY <2>1, <2>2
<1> QED BY <1>3, <1>4

\* An edit that the database accepts does not touch evidence that is there.
LEMMA EditsKeepEvidence ==
    ASSUME NEW edit, NEW row \in RowType, Whole(row.evidence),
           DatabaseAccepts(row, Written(edit, row))
    PROVE  /\ Noted(row.evidence) => Written(edit, row).evidence = row.evidence
           /\ Whole(Written(edit, row).evidence)
<1> DEFINE new == Written(edit, row)
<1>1. new.evidence = [at |-> new.evidence.at, text |-> new.evidence.text]
    BY DEF Written, NewEvidence
<1>2. row.evidence = [at |-> row.evidence.at, text |-> row.evidence.text]
    BY DEF RowType, EvidenceType
<1>3. WriteOnce(row.evidence, new.evidence) /\ Whole(new.evidence) BY DEF DatabaseAccepts
<1> HIDE DEF new
<1>4. Noted(row.evidence) => new.evidence.at = row.evidence.at /\ new.evidence.text = row.evidence.text
    BY <1>3 DEF WriteOnce, Whole, Complete
<1>5. Noted(row.evidence) => new.evidence = row.evidence BY <1>1, <1>2, <1>4
<1> QED BY <1>3, <1>5 DEF new

LEMMA EditsWriteRows ==
    ASSUME NEW edit \in Edits, NEW row \in RowType
    PROVE  Written(edit, row) \in RowType
<1> DEFINE status == Given(StatusOf(edit), row.status)
           optedOut == CASE StatusOf(edit) = "OPTED_OUT" -> TRUE
                         [] StatusOf(edit) = "OPTED_IN" -> FALSE
                         [] OTHER -> row.optedOut
           archived == Given(edit.archived, row.archived)
<1>1. edit.status \in Status \cup {Keep} /\ edit.archived \in BOOLEAN \cup {Keep}
        /\ edit.at \in Capture \cup {Keep, Nothing} /\ edit.text \in Capture \cup {Keep, Nothing}
    BY EditAssumption
<1>2. row.status \in Status /\ row.optedOut \in BOOLEAN /\ row.archived \in BOOLEAN
        /\ row.evidence.at \in Occasion /\ row.evidence.text \in Occasion
    BY DEF RowType, EvidenceType
<1>3. status \in Status BY <1>1, <1>2 DEF Given, StatusOf, Status
<1>4. optedOut \in BOOLEAN BY <1>2
<1>5. archived \in BOOLEAN BY <1>1, <1>2 DEF Given
<1>6. NewEvidence(edit, row.evidence) \in EvidenceType
    BY <1>1, <1>2 DEF NewEvidence, Given, EvidenceType, Occasion
<1>7. Written(edit, row) = [known |-> TRUE, status |-> status, optedOut |-> optedOut,
                            evidence |-> NewEvidence(edit, row.evidence), archived |-> archived]
    BY DEF Written
<1> HIDE DEF status, optedOut, archived
<1> QED BY <1>3, <1>4, <1>5, <1>6, <1>7 DEF RowType

\* What every step does to the contacts.
ContactsFare ==
    /\ contact' \in [Contact -> RowType] /\ Kept
    /\ EvidenceIsWhole' /\ OptInIsProved'
    /\ decided' \in [Contact -> {"nobody", "keyword", "edit", "merge"}]

\* One row is written: it keeps its evidence, whole, and is opted in on it if
\* a keyword or a merge has the last word.
LEMMA OneRowWritten ==
    ASSUME CInv, NEW c \in Contact, NEW new \in RowType, NEW by \in {"keyword", "edit", "merge"},
           contact' = [contact EXCEPT ![c] = new],
           \/ decided' = [decided EXCEPT ![c] = by]
           \/ decided' = decided /\ new.status = contact[c].status,
           Noted(contact[c].evidence) => new.evidence = contact[c].evidence,
           Whole(new.evidence),
           decided'[c] \in {"keyword", "merge"} /\ new.status = "OPTED_IN" =>
              Complete(new.evidence) \/ Complete(contact[c].evidence)
                \/ (contact[c].status = "OPTED_IN" /\ decided' = decided)
    PROVE  ContactsFare
<1>t. /\ contact \in [Contact -> RowType]
      /\ decided \in [Contact -> {"nobody", "keyword", "edit", "merge"}]
      /\ EvidenceIsWhole /\ OptInIsProved
    BY DEF CInv, Shapes
<1>1. \A d \in Contact : contact'[d] = IF d = c THEN new ELSE contact[d] BY <1>t
<1>2. contact' \in [Contact -> RowType]
        /\ decided' \in [Contact -> {"nobody", "keyword", "edit", "merge"}]
    BY <1>t
<1>3. Kept BY <1>1 DEF Kept
<1>4. EvidenceIsWhole' BY <1>1, <1>t DEF EvidenceIsWhole, Whole, Noted, Complete
<1>5. Complete(contact[c].evidence) => Complete(new.evidence)
    BY DEF Complete, Noted, NoEvidence
<1>6. OptInIsProved'
    <2> SUFFICES ASSUME NEW d \in Contact, contact'[d].status = "OPTED_IN",
                        decided'[d] \in {"keyword", "merge"}
                 PROVE  Complete(contact'[d].evidence)
        BY DEF OptInIsProved, Complete
    <2>1. CASE d # c
        BY <1>1, <1>t, <2>1 DEF OptInIsProved
    <2>2. CASE d = c
        <3>1. contact'[d] = new BY <1>1, <2>2
        <3>2. CASE contact[c].status = "OPTED_IN" /\ decided' = decided
            <4>1. Complete(contact[c].evidence) BY <1>t, <2>2, <3>2 DEF OptInIsProved
            <4> QED BY <1>5, <3>1, <4>1
        <3> QED BY <1>5, <2>2, <3>1, <3>2
    <2> QED BY <2>1, <2>2
<1> QED BY <1>2, <1>3, <1>4, <1>6 DEF ContactsFare

LEMMA ContactsUntouched ==
    ASSUME CInv, contact' = contact, decided' = decided PROVE ContactsFare
BY DEF ContactsFare, CInv, Shapes, Kept, EvidenceIsWhole, Whole, Noted, Complete, OptInIsProved

LEMMA KeywordsFare == ASSUME CInv, NEW w \in Worker, ApplyKeyword(w) PROVE ContactsFare
<1> DEFINE i == work[w].inbound
           c == work[w].of
           read == work[w].row
           now == [contact[c] EXCEPT !.known = TRUE]
<1>1. work[w].kind = "inbound" BY DEF ApplyKeyword
<1>2. c \in Contact /\ i \in Inbound /\ read \in RowType BY <1>1 DEF CInv, Shapes, WorkType
<1>3. contact[c] \in RowType /\ Whole(contact[c].evidence)
    BY <1>2 DEF CInv, Shapes, EvidenceIsWhole
<1>4. now \in RowType /\ now.evidence = contact[c].evidence /\ now.status = contact[c].status
    BY <1>3 DEF RowType
<1>5. Noted(read.evidence) => contact[c].evidence = read.evidence
    BY <1>1 DEF CInv, ReadsStayTrue
<1>6. \/ contact' = [contact EXCEPT ![c] = OptedOut(now)]
         /\ decided' = [decided EXCEPT ![c] = "keyword"]
      \/ /\ StartCounts(read, now)
         /\ contact' = [contact EXCEPT ![c] = OptedIn(now, StartEvidence(read, now, i))]
         /\ decided' = [decided EXCEPT ![c] = "keyword"]
      \/ contact' = [contact EXCEPT ![c] = now] /\ decided' = decided
    BY DEF ApplyKeyword
<1> HIDE DEF now, c, i, read
<1>7. CASE /\ contact' = [contact EXCEPT ![c] = OptedOut(now)]
           /\ decided' = [decided EXCEPT ![c] = "keyword"]
    <2> DEFINE new == OptedOut(now)
    <2>1. new \in RowType /\ new.evidence = contact[c].evidence /\ new.status = "OPTED_OUT"
        BY <1>4 DEF OptedOut, RowType, Status
    <2>2. contact' = [contact EXCEPT ![c] = new] BY <1>7
    <2> HIDE DEF new
    <2> QED BY <1>2, <1>3, <1>7, <2>1, <2>2, OneRowWritten
<1>8. CASE /\ StartCounts(read, now)
           /\ contact' = [contact EXCEPT ![c] = OptedIn(now, StartEvidence(read, now, i))]
           /\ decided' = [decided EXCEPT ![c] = "keyword"]
    <2> DEFINE evidence == StartEvidence(read, now, i)
               new == OptedIn(now, evidence)
    <2>1. Fresh(i) \in EvidenceType /\ Complete(Fresh(i))
        BY <1>2, NothingAssumption DEF Fresh, EvidenceType, Occasion, Complete
    <2>2. /\ evidence \in EvidenceType /\ Complete(evidence)
          /\ Noted(contact[c].evidence) => evidence = contact[c].evidence
        <3>1. CASE Complete(read.evidence)
            <4>1. Noted(read.evidence) BY <3>1 DEF Complete, Noted, NoEvidence
            <4>2. contact[c].evidence = read.evidence BY <1>5, <4>1
            <4> QED BY <1>2, <1>4, <3>1, <4>2 DEF StartEvidence, RowType
        <3>2. CASE ~Complete(read.evidence)
            <4>1. ~Noted(contact[c].evidence) BY <1>4, <1>8, <3>2 DEF StartCounts
            <4> QED BY <2>1, <3>2, <4>1 DEF StartEvidence
        <3> QED BY <3>1, <3>2
    <2> HIDE DEF evidence
    <2>3. new \in RowType /\ new.evidence = evidence
        BY <1>4, <2>2 DEF OptedIn, RowType, Status
    <2>4. contact' = [contact EXCEPT ![c] = new] BY <1>8 DEF evidence
    <2> HIDE DEF new
    <2>5. Complete(new.evidence) /\ Whole(new.evidence) BY <2>2, <2>3 DEF Whole
    <2>6. Noted(contact[c].evidence) => new.evidence = contact[c].evidence BY <2>2, <2>3
    <2>7. new \in RowType BY <2>3
    <2>8. decided' = [decided EXCEPT ![c] = "keyword"] BY <1>8
    <2> QED BY <1>2, <2>4, <2>5, <2>6, <2>7, <2>8, OneRowWritten
<1>9. CASE contact' = [contact EXCEPT ![c] = now] /\ decided' = decided
    <2>1. now.status = "OPTED_IN" => contact[c].status = "OPTED_IN" BY <1>4
    <2> QED BY <1>2, <1>3, <1>4, <1>9, <2>1, OneRowWritten
<1> QED BY <1>6, <1>7, <1>8, <1>9

LEMMA EditsFare == ASSUME CInv, NEW w \in Worker, CommitEdit(w) PROVE ContactsFare
<1> DEFINE c == work[w].of
           edit == work[w].edit
           new == Written(edit, contact[c])
<1>1. c \in Contact /\ edit \in Edits BY DEF CommitEdit, CInv, Shapes
<1>2. contact[c] \in RowType /\ Whole(contact[c].evidence)
    BY <1>1 DEF CInv, Shapes, EvidenceIsWhole
<1>3. new \in RowType BY <1>1, <1>2, EditsWriteRows
<1>4. DatabaseAccepts(contact[c], new) BY DEF CommitEdit
<1>5. (Noted(contact[c].evidence) => new.evidence = contact[c].evidence) /\ Whole(new.evidence)
    BY <1>2, <1>4, EditsKeepEvidence
<1>6. /\ contact' = [contact EXCEPT ![c] = new]
      /\ decided' = IF StatusOf(edit) = Keep THEN decided ELSE [decided EXCEPT ![c] = "edit"]
    BY DEF CommitEdit
<1>7. StatusOf(edit) = Keep => new.status = contact[c].status BY DEF Written, Given
<1> HIDE DEF new, c
<1>8. StatusOf(edit) # Keep => decided'[c] = "edit" BY <1>1, <1>6 DEF CInv, Shapes
<1> HIDE DEF edit
<1> QED BY <1>1, <1>3, <1>5, <1>6, <1>7, <1>8, OneRowWritten

LEMMA MergesFare == ASSUME CInv, NEW w \in Worker, CommitMerge(w) PROVE ContactsFare
<1> DEFINE c == work[w].of
           s == work[w].source
           target == work[w].row
           source == work[w].sourceRow
           new == Merged(target, source, contact[c])
           gone == [contact[s] EXCEPT !.archived = TRUE]
<1>1. c \in Contact /\ s \in Contact /\ s # c /\ target \in RowType
    BY DEF CommitMerge, CInv, Shapes, WorkType
<1>2. contact[c] \in RowType /\ contact[s] \in RowType BY <1>1 DEF CInv, Shapes
<1>3. Noted(target.evidence) => contact[c].evidence = target.evidence
    BY DEF CommitMerge, CInv, ReadsStayTrue
<1>4. /\ contact' = [contact EXCEPT ![c] = new, ![s].archived = TRUE]
      /\ decided' = IF new.status # contact[c].status THEN [decided EXCEPT ![c] = "merge"] ELSE decided
    BY DEF CommitMerge
<1>5. gone \in RowType /\ gone.evidence = contact[s].evidence /\ gone.status = contact[s].status
    BY <1>2 DEF RowType
<1>6. /\ new \in RowType /\ new.evidence = contact[c].evidence
      /\ new.status = "OPTED_IN" => contact[c].status = "OPTED_IN" \/ Complete(target.evidence)
    <2> HIDE DEF c, s, target, source
    <2>1. /\ OptedOut(contact[c]) \in RowType /\ OptedOut(contact[c]).evidence = contact[c].evidence
          /\ OptedOut(contact[c]).status = "OPTED_OUT"
        BY <1>2 DEF OptedOut, RowType, Status
    <2>2. /\ [contact[c] EXCEPT !.status = "UNKNOWN", !.optedOut = FALSE] \in RowType
          /\ [contact[c] EXCEPT !.status = "UNKNOWN", !.optedOut = FALSE].evidence = contact[c].evidence
          /\ [contact[c] EXCEPT !.status = "UNKNOWN", !.optedOut = FALSE].status = "UNKNOWN"
        BY <1>2 DEF RowType, Status
    <2>3. /\ OptedIn(contact[c], contact[c].evidence) \in RowType
          /\ OptedIn(contact[c], contact[c].evidence).evidence = contact[c].evidence
        BY <1>2 DEF OptedIn, RowType, Status
    <2>4. \/ new = OptedOut(contact[c])
          \/ new = [contact[c] EXCEPT !.status = "UNKNOWN", !.optedOut = FALSE]
          \/ new = OptedIn(contact[c], contact[c].evidence) /\ Complete(target.evidence)
          \/ new = contact[c]
        BY DEF Merged, MayUpgrade
    <2> HIDE DEF new
    <2> QED BY <1>2, <2>1, <2>2, <2>3, <2>4
<1>7. Complete(target.evidence) => Complete(contact[c].evidence)
    BY <1>3 DEF Complete, Noted, NoEvidence
<1> HIDE DEF c, s, target, source, new
<1>8. contact' = [[contact EXCEPT ![c] = new] EXCEPT ![s] = gone] BY <1>1, <1>4 DEF CInv, Shapes
<1> HIDE DEF gone
<1>t. /\ contact \in [Contact -> RowType]
      /\ decided \in [Contact -> {"nobody", "keyword", "edit", "merge"}]
      /\ EvidenceIsWhole /\ OptInIsProved
    BY DEF CInv, Shapes
<1>9. \A d \in Contact : contact'[d] = IF d = s THEN gone ELSE IF d = c THEN new ELSE contact[d]
    BY <1>1, <1>8, <1>t
<1>10. contact' \in [Contact -> RowType]
        /\ decided' \in [Contact -> {"nobody", "keyword", "edit", "merge"}]
    BY <1>1, <1>4, <1>5, <1>6, <1>8, <1>t
<1>11. \A d \in Contact : contact'[d].evidence = contact[d].evidence BY <1>5, <1>6, <1>9
<1>12. Kept BY <1>11 DEF Kept
<1>13. EvidenceIsWhole' BY <1>11, <1>t DEF EvidenceIsWhole, Whole, Noted, Complete
<1>14. OptInIsProved'
    <2> SUFFICES ASSUME NEW d \in Contact, contact'[d].status = "OPTED_IN",
                        decided'[d] \in {"keyword", "merge"}
                 PROVE  Complete(contact[d].evidence)
        BY <1>11 DEF OptInIsProved, Complete
    <2>1. CASE d = c
        <3>1. contact'[d] = new BY <1>1, <1>9, <2>1
        <3>2. CASE new.status # contact[c].status BY <1>6, <1>7, <2>1, <3>1, <3>2
        <3>3. CASE new.status = contact[c].status
            BY <1>4, <1>t, <2>1, <3>1, <3>3 DEF OptInIsProved
        <3> QED BY <3>2, <3>3
    <2>2. CASE d # c
        <3>1. contact'[d].status = contact[d].status /\ decided'[d] = decided[d]
            BY <1>1, <1>4, <1>5, <1>9, <1>t, <2>2
        <3> QED BY <1>t, <3>1 DEF OptInIsProved
    <2> QED BY <2>1, <2>2
<1> QED BY <1>10, <1>12, <1>13, <1>14 DEF ContactsFare

LEMMA EveryStepFares == ASSUME CInv, Next PROVE ContactsFare
<1>1. ASSUME NEW w \in Worker, NEW i \in Inbound, Receive(w, i) PROVE ContactsFare
    BY <1>1, ContactsUntouched DEF Receive, Start
<1>2. ASSUME NEW w \in Worker, NEW c \in Contact, NEW edit \in Edits, Edit(w, c, edit)
      PROVE  ContactsFare
    BY <1>2, ContactsUntouched DEF Edit, Start
<1>3. ASSUME NEW w \in Worker, NEW t \in Contact, NEW s \in Contact, Merge(w, t, s)
      PROVE  ContactsFare
    BY <1>3, ContactsUntouched DEF Merge, Start
<1>4. ASSUME NEW w \in Worker, RollBack(w) PROVE ContactsFare
    BY <1>4, ContactsUntouched DEF RollBack
<1> QED BY <1>1, <1>2, <1>3, <1>4, KeywordsFare, EditsFare, MergesFare DEF Next

-----------------------------------------------------------------------------
(* The transactions.                                                         *)

LEMMA EveryStepWorks ==
    ASSUME CInv, Next PROVE Shapes' /\ ReadsStayTrue' /\ OneAtATime' /\ AppliedWhenProcessed'
<1>f. ContactsFare BY EveryStepFares
<1>t. /\ contact \in [Contact -> RowType] /\ work \in [Worker -> WorkType]
      /\ applied \in [Inbound -> Nat] /\ OneAtATime /\ AppliedWhenProcessed
    BY DEF CInv, Shapes
<1>i. Idle \in WorkType /\ Idle.kind = "idle"
    BY DEF Idle, WorkType, NoContact, RowType, NoEvidence, EvidenceType, Occasion, Status
<1> DEFINE Lives(w) ==
        \/ work'[w] = work[w] \/ work'[w] = Idle
        \/ /\ contact' = contact /\ work'[w] \in WorkType /\ work'[w].of \in Contact
           /\ work'[w].row = contact[work'[w].of]
           /\ work'[w].kind = "inbound" => work'[w].inbound \in Inbound
           /\ work'[w].kind = "edit" => work'[w].edit \in Edits
           /\ work'[w].kind = "merge" => work'[w].source \in Contact /\ work'[w].source # work'[w].of
<1>w. ASSUME \A w \in Worker : Lives(w), work' \in [Worker -> WorkType], applied' \in [Inbound -> Nat]
      PROVE  Shapes' /\ ReadsStayTrue'
    BY <1>f, <1>w, WorkGoesOn DEF ContactsFare
\* A transaction ends.
<1>e. ASSUME NEW w \in Worker, work' = [work EXCEPT ![w] = Idle], applied' \in [Inbound -> Nat]
      PROVE  Shapes' /\ ReadsStayTrue'
    <2>1. work' \in [Worker -> WorkType] /\ \A v \in Worker : Lives(v) BY <1>e, <1>i, <1>t
    <2> QED BY <1>e, <1>w, <2>1
<1>o. ASSUME NEW w \in Worker, work' = [work EXCEPT ![w] = Idle],
             processed' = processed
      PROVE  OneAtATime'
    BY <1>o, <1>i, <1>t DEF OneAtATime
\* A transaction that is not an inbound message's begins.
<1>b. ASSUME NEW w \in Worker, NEW tx \in WorkType, Start(w, tx), tx.of \in Contact,
             tx.row = contact[tx.of],
             tx.kind = "inbound" => tx.inbound \in Inbound,
             tx.kind = "edit" => tx.edit \in Edits,
             tx.kind = "merge" => tx.source \in Contact /\ tx.source # tx.of
      PROVE  Shapes' /\ ReadsStayTrue' /\ AppliedWhenProcessed'
    <2>1. work' = [work EXCEPT ![w] = tx] /\ contact' = contact /\ applied' = applied
            /\ processed' = processed
        BY <1>b DEF Start
    <2>2. work' \in [Worker -> WorkType] /\ \A v \in Worker : Lives(v)
        BY <1>b, <1>t, <2>1
    <2>3. AppliedWhenProcessed' BY <1>t, <2>1 DEF AppliedWhenProcessed
    <2> QED BY <1>t, <1>w, <2>1, <2>2, <2>3
<1>1. ASSUME NEW w \in Worker, NEW i \in Inbound, Receive(w, i)
      PROVE  Shapes' /\ ReadsStayTrue' /\ OneAtATime' /\ AppliedWhenProcessed'
    <2> DEFINE tx == [Idle EXCEPT !.kind = "inbound", !.inbound = i, !.of = From(i),
                                  !.row = contact[From(i)]]
    <2>1. From(i) \in Contact BY KeywordAssumption
    <2>2. /\ tx \in WorkType /\ tx.kind = "inbound" /\ tx.inbound = i
          /\ tx.of = From(i) /\ tx.row = contact[From(i)]
        BY <1>i, <1>t, <2>1 DEF WorkType
    <2>3. Start(w, tx) /\ i \notin processed /\ ~Reserved(i) BY <1>1 DEF Receive, NotProcessed
    <2> HIDE DEF tx
    <2>4. Shapes' /\ ReadsStayTrue' /\ AppliedWhenProcessed' BY <1>b, <2>1, <2>2, <2>3
    <2>5. work' = [work EXCEPT ![w] = tx] /\ processed' = processed BY <2>3 DEF Start
    <2>6. OneAtATime' BY <1>t, <2>2, <2>3, <2>5 DEF OneAtATime, Reserved
    <2> QED BY <2>4, <2>6
<1>2. ASSUME NEW w \in Worker, NEW c \in Contact, NEW edit \in Edits, Edit(w, c, edit)
      PROVE  Shapes' /\ ReadsStayTrue' /\ OneAtATime' /\ AppliedWhenProcessed'
    <2> DEFINE tx == [Idle EXCEPT !.kind = "edit", !.edit = edit, !.of = c, !.row = contact[c]]
    <2>1. /\ tx \in WorkType /\ tx.kind = "edit" /\ tx.edit = edit
          /\ tx.of = c /\ tx.row = contact[c]
        BY <1>i, <1>t DEF WorkType
    <2>2. Start(w, tx) BY <1>2 DEF Edit
    <2> HIDE DEF tx
    <2>3. Shapes' /\ ReadsStayTrue' /\ AppliedWhenProcessed' BY <1>b, <2>1, <2>2
    <2>4. work' = [work EXCEPT ![w] = tx] /\ processed' = processed BY <2>2 DEF Start
    <2>5. OneAtATime' BY <1>t, <2>1, <2>4 DEF OneAtATime
    <2> QED BY <2>3, <2>5
<1>3. ASSUME NEW w \in Worker, NEW t \in Contact, NEW s \in Contact, Merge(w, t, s)
      PROVE  Shapes' /\ ReadsStayTrue' /\ OneAtATime' /\ AppliedWhenProcessed'
    <2> DEFINE tx == [Idle EXCEPT !.kind = "merge", !.of = t, !.row = contact[t],
                                  !.source = s, !.sourceRow = contact[s]]
    <2>1. /\ tx \in WorkType /\ tx.kind = "merge" /\ tx.source = s
          /\ tx.of = t /\ tx.row = contact[t]
        BY <1>i, <1>t DEF WorkType
    <2>2. Start(w, tx) /\ t # s BY <1>3 DEF Merge
    <2> HIDE DEF tx
    <2>3. Shapes' /\ ReadsStayTrue' /\ AppliedWhenProcessed' BY <1>b, <2>1, <2>2
    <2>4. work' = [work EXCEPT ![w] = tx] /\ processed' = processed BY <2>2 DEF Start
    <2>5. OneAtATime' BY <1>t, <2>1, <2>4 DEF OneAtATime
    <2> QED BY <2>3, <2>5
<1>4. ASSUME NEW w \in Worker, ApplyKeyword(w)
      PROVE  Shapes' /\ ReadsStayTrue' /\ OneAtATime' /\ AppliedWhenProcessed'
    <2> DEFINE i == work[w].inbound
    <2>1. work[w].kind = "inbound" /\ i \in Inbound BY <1>4 DEF ApplyKeyword, CInv, Shapes
    <2>2. i \notin processed /\ \A v \in Worker :
            work[v].kind = "inbound" /\ work[v].inbound = i => v = w
        BY <1>t, <2>1 DEF OneAtATime
    <2>3. /\ processed' = processed \cup {i} /\ work' = [work EXCEPT ![w] = Idle]
          /\ applied' = [applied EXCEPT ![i] = @ + 1] \/ applied' = applied
        BY <1>4 DEF ApplyKeyword, End
    <2> HIDE DEF i
    <2>4. applied[i] = 0 BY <1>t, <2>1, <2>2 DEF AppliedWhenProcessed
    <2>5. applied' \in [Inbound -> Nat] BY <1>t, <2>3
    <2>6. AppliedWhenProcessed' BY <1>t, <2>1, <2>3, <2>4 DEF AppliedWhenProcessed
    <2>7. OneAtATime' BY <1>i, <1>t, <2>2, <2>3 DEF OneAtATime
    <2> QED BY <1>e, <2>3, <2>5, <2>6, <2>7
<1>5. ASSUME NEW w \in Worker, CommitEdit(w) \/ CommitMerge(w) \/ RollBack(w)
      PROVE  Shapes' /\ ReadsStayTrue' /\ OneAtATime' /\ AppliedWhenProcessed'
    <2>1. work' = [work EXCEPT ![w] = Idle] /\ processed' = processed /\ applied' = applied
        BY <1>5 DEF CommitEdit, CommitMerge, RollBack, End
    <2>2. AppliedWhenProcessed' BY <1>t, <2>1 DEF AppliedWhenProcessed
    <2> QED BY <1>e, <1>o, <1>t, <2>1, <2>2
<1> QED BY <1>1, <1>2, <1>3, <1>4, <1>5 DEF Next

-----------------------------------------------------------------------------
(* The invariant, and what follows.                                          *)

LEMMA NextCInv == CInv /\ [Next]_vars => CInv' /\ Kept
<1> SUFFICES ASSUME CInv, [Next]_vars PROVE CInv' /\ Kept OBVIOUS
<1>1. CASE Next BY <1>1, EveryStepFares, EveryStepWorks DEF ContactsFare, CInv
<1>2. CASE UNCHANGED vars
    <2>1. Shapes' /\ ReadsStayTrue' BY <1>2 DEF CInv, vars, Shapes, ReadsStayTrue
    <2>2. EvidenceIsWhole' BY <1>2 DEF CInv, vars, EvidenceIsWhole, Whole, Noted, Complete
    <2>3. OptInIsProved' BY <1>2 DEF CInv, vars, OptInIsProved, Complete
    <2>4. OneAtATime' /\ AppliedWhenProcessed'
        BY <1>2 DEF CInv, vars, OneAtATime, AppliedWhenProcessed
    <2>5. Kept BY <1>2 DEF vars, Kept
    <2> QED BY <2>1, <2>2, <2>3, <2>4, <2>5 DEF CInv
<1> QED BY <1>1, <1>2

LEMMA SpecCInv == Spec => []CInv
<1>1. Init => CInv BY InitCInv
<1>2. CInv /\ [Next]_vars => CInv' BY NextCInv
<1> QED BY <1>1, <1>2, PTL DEF Spec

(* Evidence of consent that was noted down is neither replaced nor mixed     *)
(* with other evidence, by writers however old the row they read             *)
(* (contacts.ts verifyConsentEvidenceImmutability and the trigger).          *)
THEOREM EvidenceStays == Spec => EvidenceIsWrittenOnce
<1>1. CInv /\ [Next]_vars =>
        [\A c \in Contact : Noted(contact[c].evidence) =>
            contact'[c].evidence = contact[c].evidence]_vars
    BY NextCInv DEF Kept
<1> QED BY <1>1, SpecCInv, PTL DEF Spec, EvidenceIsWrittenOnce

(* No keyword and no merge leaves a contact opted in without evidence        *)
(* (inbox.ts applyInboundKeyword, contacts.ts mergedConsentData).            *)
THEOREM OptInsAreProved == Spec => []OptInIsProved
<1>1. CInv => OptInIsProved BY DEF CInv
<1> QED BY <1>1, SpecCInv, PTL

(* A message the carrier delivers any number of times takes effect once      *)
(* (webhooks.ts, the claim and the processing in one transaction).           *)
THEOREM OncePerKeyword == Spec => []KeywordsTakeEffectOnce
<1>1. CInv => KeywordsTakeEffectOnce
    BY DEF CInv, AppliedWhenProcessed, KeywordsTakeEffectOnce
<1> QED BY <1>1, SpecCInv, PTL

-----------------------------------------------------------------------------
(* What undoes a STOP.                                                       *)

\* Keywords and edits that opt a contact in forget its STOP, so one that is
\* opted in over its STOP was opted in by a merge.
OnlyMergesOverrule ==
    \A c \in Contact : c \in stopped /\ contact[c].status = "OPTED_IN" => decided[c] = "merge"

\* One row is written: out of its STOP, or over it by a merge.
LEMMA OverruledRow ==
    ASSUME CInv, OnlyMergesOverrule, NEW c \in Contact, NEW new,
           contact' = [contact EXCEPT ![c] = new],
           stopped' \subseteq stopped \cup {c},
           NEW by \in {"keyword", "edit", "merge"},
           decided' \in {decided, [decided EXCEPT ![c] = by]},
           c \in stopped' /\ new.status = "OPTED_IN" =>
              \/ decided'[c] = "merge"
              \/ c \in stopped /\ contact[c].status = "OPTED_IN" /\ decided' = decided
    PROVE  OnlyMergesOverrule'
<1> SUFFICES ASSUME NEW d \in Contact, d \in stopped', contact'[d].status = "OPTED_IN"
             PROVE  decided'[d] = "merge"
    BY DEF OnlyMergesOverrule
<1>t. contact \in [Contact -> RowType]
        /\ decided \in [Contact -> {"nobody", "keyword", "edit", "merge"}]
    BY DEF CInv, Shapes
<1>1. CASE d = c
    <2>1. contact'[d] = new BY <1>1, <1>t
    <2> QED BY <1>1, <2>1 DEF OnlyMergesOverrule
<1>2. CASE d # c
    <2>1. d \in stopped BY <1>2
    <2>2. contact'[d] = contact[d] /\ decided'[d] = decided[d] BY <1>2, <1>t
    <2> QED BY <2>1, <2>2 DEF OnlyMergesOverrule
<1> QED BY <1>1, <1>2

LEMMA KeywordsOverrule ==
    ASSUME CInv, OnlyMergesOverrule, NEW w \in Worker, ApplyKeyword(w)
    PROVE  OnlyMergesOverrule'
<1> DEFINE i == work[w].inbound
           c == work[w].of
           now == [contact[c] EXCEPT !.known = TRUE]
           evidence == StartEvidence(work[w].row, now, i)
<1>1. c \in Contact BY DEF ApplyKeyword, CInv, Shapes
<1>2. now.status = contact[c].status /\ OptedOut(now).status = "OPTED_OUT"
    BY <1>1 DEF CInv, Shapes, RowType, OptedOut
<1>3. \/ /\ contact' = [contact EXCEPT ![c] = OptedOut(now)]
         /\ stopped' = stopped \cup {c} /\ decided' = [decided EXCEPT ![c] = "keyword"]
      \/ /\ contact' = [contact EXCEPT ![c] = OptedIn(now, evidence)]
         /\ stopped' = stopped \ {c} /\ decided' = [decided EXCEPT ![c] = "keyword"]
      \/ contact' = [contact EXCEPT ![c] = now] /\ stopped' = stopped /\ decided' = decided
    BY DEF ApplyKeyword
<1> HIDE DEF now, c, i, evidence
<1>4. CASE /\ contact' = [contact EXCEPT ![c] = OptedOut(now)]
           /\ stopped' = stopped \cup {c} /\ decided' = [decided EXCEPT ![c] = "keyword"]
    <2> DEFINE new == OptedOut(now)
    <2>1. new.status # "OPTED_IN" BY <1>2
    <2>2. contact' = [contact EXCEPT ![c] = new] BY <1>4
    <2> HIDE DEF new
    <2> QED BY <1>1, <1>4, <2>1, <2>2, OverruledRow
<1>5. CASE /\ contact' = [contact EXCEPT ![c] = OptedIn(now, evidence)]
           /\ stopped' = stopped \ {c} /\ decided' = [decided EXCEPT ![c] = "keyword"]
    <2> DEFINE new == OptedIn(now, evidence)
    <2>1. contact' = [contact EXCEPT ![c] = new] BY <1>5
    <2> HIDE DEF new
    <2> QED BY <1>1, <1>5, <2>1, OverruledRow
<1>6. CASE contact' = [contact EXCEPT ![c] = now] /\ stopped' = stopped /\ decided' = decided
    BY <1>1, <1>2, <1>6, OverruledRow
<1> QED BY <1>3, <1>4, <1>5, <1>6

LEMMA EditsOverrule ==
    ASSUME CInv, OnlyMergesOverrule, NEW w \in Worker, CommitEdit(w)
    PROVE  OnlyMergesOverrule'
<1> DEFINE c == work[w].of
           edit == work[w].edit
           new == Written(edit, contact[c])
<1>1. c \in Contact BY DEF CommitEdit, CInv, Shapes
<1>2. contact' = [contact EXCEPT ![c] = new] BY DEF CommitEdit
<1>3. new.status = IF StatusOf(edit) = Keep THEN contact[c].status ELSE StatusOf(edit)
    BY DEF Written, Given
<1>4. /\ stopped' = CASE StatusOf(edit) = "OPTED_OUT" -> stopped \cup {c}
                      [] StatusOf(edit) = "OPTED_IN" -> stopped \ {c}
                      [] OTHER -> stopped
      /\ decided' = IF StatusOf(edit) = Keep THEN decided ELSE [decided EXCEPT ![c] = "edit"]
    BY DEF CommitEdit
<1> HIDE DEF new, c, edit
<1>5. c \in stopped' /\ new.status = "OPTED_IN" =>
        c \in stopped /\ contact[c].status = "OPTED_IN" /\ decided' = decided
    <2>1. CASE StatusOf(edit) = "OPTED_IN" BY <1>4, <2>1
    <2>2. CASE StatusOf(edit) = "OPTED_OUT" BY <1>1, <1>3, <1>4, <2>2, EditAssumption DEF Status
    <2>3. CASE StatusOf(edit) \notin {"OPTED_IN", "OPTED_OUT"} BY <1>3, <1>4, <2>3
    <2> QED BY <2>1, <2>2, <2>3
<1>6. stopped' \subseteq stopped \cup {c} BY <1>4
<1>7. decided' \in {decided, [decided EXCEPT ![c] = "edit"]} BY <1>4
<1> QED BY <1>1, <1>2, <1>5, <1>6, <1>7, OverruledRow

LEMMA MergesOverrule ==
    ASSUME CInv, OnlyMergesOverrule, NEW w \in Worker, CommitMerge(w)
    PROVE  OnlyMergesOverrule'
<1> DEFINE c == work[w].of
           s == work[w].source
           new == Merged(work[w].row, work[w].sourceRow, contact[c])
           gone == [contact[s] EXCEPT !.archived = TRUE]
<1>t. /\ contact \in [Contact -> RowType]
      /\ decided \in [Contact -> {"nobody", "keyword", "edit", "merge"}]
    BY DEF CInv, Shapes
<1>1. c \in Contact /\ s \in Contact /\ s # c BY DEF CommitMerge, CInv, Shapes
<1>2. /\ contact' = [contact EXCEPT ![c] = new, ![s].archived = TRUE]
      /\ decided' = IF new.status # contact[c].status THEN [decided EXCEPT ![c] = "merge"] ELSE decided
      /\ stopped' = stopped
    BY DEF CommitMerge
<1>3. gone.status = contact[s].status BY <1>1, <1>t DEF RowType
<1> HIDE DEF c, s, new
<1>4. contact' = [[contact EXCEPT ![c] = new] EXCEPT ![s] = gone] BY <1>1, <1>2, <1>t
<1> HIDE DEF gone
<1>5. \A d \in Contact : contact'[d] = IF d = s THEN gone ELSE IF d = c THEN new ELSE contact[d]
    BY <1>1, <1>4, <1>t
<1> SUFFICES ASSUME NEW d \in Contact, d \in stopped', contact'[d].status = "OPTED_IN"
             PROVE  decided'[d] = "merge"
    BY DEF OnlyMergesOverrule
<1>6. d \in stopped BY <1>2
<1>7. contact[d].status = "OPTED_IN" => decided[d] = "merge" BY <1>6 DEF OnlyMergesOverrule
<1>8. CASE d = c /\ new.status # contact[c].status
    BY <1>1, <1>2, <1>t, <1>8
<1>9. CASE ~(d = c /\ new.status # contact[c].status)
    <2>1. contact'[d].status = contact[d].status BY <1>1, <1>3, <1>5, <1>6, <1>9
    <2>2. decided'[d] = decided[d] BY <1>1, <1>2, <1>6, <1>9, <1>t
    <2> QED BY <1>7, <2>1, <2>2
<1> QED BY <1>8, <1>9

LEMMA NextOverrules ==
    ASSUME CInv, OnlyMergesOverrule, [Next]_vars PROVE OnlyMergesOverrule'
<1>1. ASSUME UNCHANGED <<contact, stopped, decided>> PROVE OnlyMergesOverrule'
    BY <1>1 DEF OnlyMergesOverrule
<1>2. CASE Next
    <2> PICK w \in Worker :
           \/ \E i \in Inbound : Receive(w, i)
           \/ \E c \in Contact, edit \in Edits : Edit(w, c, edit)
           \/ \E target, source \in Contact : Merge(w, target, source)
           \/ ApplyKeyword(w) \/ CommitEdit(w) \/ CommitMerge(w) \/ RollBack(w)
        BY <1>2 DEF Next
    <2>1. CASE \/ \E i \in Inbound : Receive(w, i)
               \/ \E c \in Contact, edit \in Edits : Edit(w, c, edit)
               \/ \E target, source \in Contact : Merge(w, target, source)
               \/ RollBack(w)
        BY <1>1, <2>1 DEF Receive, Edit, Merge, Start, RollBack
    <2> QED BY <2>1, KeywordsOverrule, EditsOverrule, MergesOverrule
<1>3. CASE UNCHANGED vars BY <1>1, <1>3 DEF vars
<1> QED BY <1>2, <1>3

(* A contact that may be sent to although it said STOP and was not opted in  *)
(* since was opted in by a merge with a duplicate: keywords, edits, imports  *)
(* and API clients, however late they commit, do not overrule a STOP         *)
(* (inbox.ts applyInboundKeyword, contacts.ts contactWriteData).             *)
THEOREM OnlyMergesOverruleStops ==
    Spec => [](\A c \in Contact : c \in stopped /\ Sendable(contact[c]) => decided[c] = "merge")
<1>1. Init => OnlyMergesOverrule BY DEF Init, OnlyMergesOverrule
<1>2. CInv /\ OnlyMergesOverrule /\ [Next]_vars => OnlyMergesOverrule' BY NextOverrules
<1>3. OnlyMergesOverrule =>
        \A c \in Contact : c \in stopped /\ Sendable(contact[c]) => decided[c] = "merge"
    BY DEF OnlyMergesOverrule, Sendable
<1> QED BY <1>1, <1>2, <1>3, SpecCInv, PTL DEF Spec
=============================================================================
