-------------------------- MODULE MCContactConsent --------------------------
(* Instances of the contacts' consent for TLC.                              *)
EXTENDS ContactConsent, TLC

CONSTANTS one, other, k1, k2, stop, start, join, w1, w2

TwoContacts == {one, other}
TwoCaptures == {k1, k2}
TwoWorkers == {w1, w2}

\* A STOP and a START of one contact, a START of the other.
Three == {stop, start, join}
Sender(i) == IF i = join THEN other ELSE one
Word(i) == IF i = stop THEN "STOP" ELSE "START"

Unchanged == [status |-> Keep, at |-> Keep, text |-> Keep, archived |-> Keep]
\* The whole evidence, halves of it, none of it; and each status by itself.
SomeEdits ==
    {[Unchanged EXCEPT !.status = s] : s \in {"OPTED_IN", "OPTED_OUT", "UNKNOWN"}}
    \cup {[Unchanged EXCEPT !.status = "OPTED_IN", !.at = k, !.text = k] : k \in Capture}
    \cup {[Unchanged EXCEPT !.at = k1], [Unchanged EXCEPT !.at = Nothing, !.text = Nothing],
          [Unchanged EXCEPT !.archived = TRUE]}

Alike == Permutations(Worker)
=============================================================================
