-------------------------------- MODULE Pages --------------------------------
(* Walking a collection page by page while it changes: the cursor pages of   *)
(* the public API (contacts, lists, segments, tags, templates, campaigns,    *)
(* conversations, messages, webhook endpoints and their deliveries) and the  *)
(* delivery-attempt review list.                                             *)
(*                                                                           *)
(* Every collection is ordered newest first, ties by id. The API hands out a *)
(* signed cursor that holds the position of the last row of a page, the      *)
(* review list hands out the row's id and looks its position up again.       *)
EXTENDS FiniteSets, Integers

CONSTANTS
    Row,         \* rows a collection may ever hold, ordered by their ids
    Position,    \* the creation times the rows may have, numbers like the ids
    PageLimit,   \* the largest page a client asks for, not zero
    Nothing

VARIABLES
    kind,     \* how the walk resumes: "position" (public API) or "row" (review)
    shelf,    \* the rows: when each was created, whether the collection lists it
    walk      \* the client: its cursor, the rows it was given, the answer it got

pagesVars == <<kind, shelf, walk>>

Created == {r \in Row : shelf[r].at # Nothing}
Listed  == {r \in Row : shelf[r].listed}

\* A cursor names the collection it was handed out for and a row of it.
Cursor(of, r) == [of |-> of, id |-> r, at |-> shelf[r].at]

PagesTypeOK ==
    /\ kind \in {"position", "row"}
    /\ shelf \in [Row -> [at : Position \cup {Nothing}, listed : BOOLEAN]]
    /\ \A r \in Row : shelf[r].listed => shelf[r].at # Nothing
    /\ walk \in [cursor : {Nothing} \cup
                    [of : {"mine", "theirs"}, id : Row, at : Position],
                 given : SUBSET Row, stayed : SUBSET Row, again : BOOLEAN,
                 state : {"new", "going", "over"}, refused : BOOLEAN]

Init ==
    /\ kind \in {"position", "row"}
    /\ shelf = [r \in Row |-> [at |-> Nothing, listed |-> FALSE]]
    /\ walk = [cursor |-> Nothing, given |-> {}, stayed |-> {}, again |-> FALSE,
               state |-> "new", refused |-> FALSE]

-----------------------------------------------------------------------------
(* The collection.                                                          *)

\* A row appears: its time was taken by the transaction that made it, which
\* may commit after later ones.
Create(r) ==
    /\ r \notin Created
    /\ \E at \in Position :
        shelf' = [shelf EXCEPT ![r] = [at |-> at, listed |-> TRUE]]
    /\ UNCHANGED <<kind, walk>>

\* A row stops meeting the collection's filter (archived, deleted, untagged,
\* another status) or meets it again.
Leave(r) ==
    /\ r \in Listed
    /\ shelf' = [shelf EXCEPT ![r].listed = FALSE]
    /\ walk' = [walk EXCEPT !.stayed = @ \ {r}]
    /\ UNCHANGED kind
Return(r) ==
    /\ r \in Created \ Listed
    /\ shelf' = [shelf EXCEPT ![r].listed = TRUE]
    /\ UNCHANGED <<kind, walk>>

-----------------------------------------------------------------------------
(* The queries.                                                             *)

\* Newest first, ties by id: row r comes behind a position.
Behind(r, at, id) == shelf[r].at < at \/ (shelf[r].at = at /\ r < id)

\* decodePublicApiCursor: a cursor of another organization or collection is an
\* error, not a position.
Accepted(cursor) == cursor = Nothing \/ cursor.of = "mine"

\* Mutant: the rows that share the cursor's time are passed over.
AfterByTimeOnly(cursor) ==
    {r \in Listed : cursor = Nothing \/
        shelf[r].at < IF kind = "row" THEN shelf[cursor.id].at ELSE cursor.at}

\* The rows a query reads after a cursor: publicApiCursorWhere compares the
\* position in the cursor, listDeliveryAttempts that of the row it names, looked
\* up whatever the filter says of it.
After(cursor) ==
    {r \in Listed : cursor = Nothing \/
        Behind(r, IF kind = "row" THEN shelf[cursor.id].at ELSE cursor.at, cursor.id)}

\* The first n rows of some, and the last row of a page.
First(rows, n) == {r \in rows : Cardinality({s \in rows : Behind(r, shelf[s].at, s)}) < n}
Last(rows) == CHOOSE r \in rows : \A s \in rows \ {r} : Behind(r, shelf[s].at, s)

\* createPublicApiPage: one row more than the page was asked of the database,
\* to know whether there is a next page.
Page(cursor, limit) ==
    LET rows == First(After(cursor), limit + 1)
        page == First(rows, limit)
    IN  [rows |-> page,
         next |-> IF Cardinality(rows) > limit THEN Cursor("mine", Last(page)) ELSE Nothing]

Answer(cursor, limit) ==
    LET page == Page(cursor, limit)
    IN  IF Accepted(cursor)
        THEN [walk EXCEPT !.cursor = page.next,
                          !.given = @ \cup page.rows,
                          !.again = @ \/ page.rows \cap walk.given # {},
                          !.stayed = IF walk.state = "new" THEN Listed ELSE @,
                          !.state = IF page.next = Nothing THEN "over" ELSE "going",
                          !.refused = FALSE]
        ELSE [walk EXCEPT !.refused = TRUE]

\* The client asks for the next page, or sends the cursor it holds of another
\* collection, is refused, and asks again.
Ask(cursor, limit) ==
    /\ walk.state # "over"
    /\ walk' = Answer(cursor, limit)
    /\ UNCHANGED <<kind, shelf>>

Next ==
    \/ \E r \in Row : Create(r) \/ Leave(r) \/ Return(r)
    \/ \E limit \in 1..PageLimit :
        Ask(walk.cursor, limit) \/ \E r \in Created : Ask(Cursor("theirs", r), limit)

Spec == Init /\ [][Next]_pagesVars

-----------------------------------------------------------------------------
\* A client that walks a collection to its end gets no row twice, and gets
\* every row the collection listed all the while, however many share a time
\* and whatever comes and goes between its pages.
WalkIsComplete ==
    /\ ~walk.again
    /\ walk.state = "over" => walk.stayed \subseteq walk.given
=============================================================================
