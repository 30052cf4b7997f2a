---------------------------- MODULE ApiHandlers ----------------------------
(* One request to one of the HTTP routes of ApiRoutes.  It runs step by step, *)
(* and may be sent again, while its caller's role, session or key are changed *)
(* by somebody else.                                                         *)
EXTENDS Naturals, Sequences, FiniteSets

CONSTANTS
    Console, Served,               \* path -> method -> handler: of people, of keys
    RoleGates, KeyGates,           \* <<method, path>> -> what is declared of it
    SignedOut, Documented,
    Scope,
    MaxTries                       \* bound: how often a request is sent

VARIABLES
    request,   \* what is asked for, how far it has come, what it has changed
    caller     \* the membership and the key of whoever asks, at this moment

vars == <<request, caller>>

Nobody == [live |-> FALSE, role |-> 0, scopes |-> {}]
Person == {[live |-> TRUE, role |-> r, scopes |-> {}] : r \in 1 .. 3}
\* A key with every scope, or without one that is asked for or declared.
At(table, place) == IF place \in DOMAIN table THEN table[place] ELSE {}
Matters(place, handler) ==
    handler.scopes \cup At(KeyGates, place) \cup At(Documented, place)
KeyHolder(place, handler) ==
    {[live |-> TRUE, role |-> 0, scopes |-> Scope \ lacks] :
        lacks \in {{}} \cup {{s} : s \in Matters(place, handler)}}

Asked(method, path, trusted) ==
    [method |-> method, path |-> path, trusted |-> trusted, at |-> 1, as |-> Nobody,
     answer |-> "none", changes |-> 0, earlier |-> 0, by |-> Nobody, kept |-> "nothing",
     tries |-> 1]

Init ==
    \/ \E path \in DOMAIN Console : \E method \in DOMAIN Console[path], trusted \in BOOLEAN :
          /\ request = Asked(method, path, trusted)
          /\ caller \in Person \cup {Nobody}
    \/ \E path \in DOMAIN Served : \E method \in DOMAIN Served[path] :
          /\ request = Asked(method, path, FALSE)
          /\ caller \in KeyHolder(<<method, path>>, Served[path][method]) \cup {Nobody}

HandlerOf(method, path) ==
    IF path \in DOMAIN Served THEN Served[path][method] ELSE Console[path][method]
Requires == HandlerOf(request.method, request.path)
Steps == Requires.steps
Step == IF request.answer = "none" /\ request.at <= Len(Steps) THEN Steps[request.at] ELSE "over"

On == [request EXCEPT !.at = @ + 1]
Ended(answer) == [request EXCEPT !.answer = answer]
\* A step that holds or ends the request.
Holds(condition) == request' = IF condition THEN On ELSE Ended("forbidden")
MayFail(next) == request' \in {next, Ended("error")}

Changed == [On EXCEPT !.changes = @ + 1, !.by = request.as]

\* Who calls is read here and not again.
Session ==
    /\ Step = "session"
    /\ request' = [(IF caller.live THEN On ELSE Ended("forbidden")) EXCEPT !.as = caller]
Key ==
    /\ Step = "key"
    /\ \/ request' = [(IF caller.live /\ Requires.scopes \subseteq caller.scopes
                       THEN On ELSE Ended("forbidden")) EXCEPT !.as = caller]
       \/ caller.live /\ request' = Ended("error")          \* over its rate
Origin == Step = "origin" /\ Holds(request.trusted)
\* Mutant: any member of the organization will do.
RoleHeldByMembership == Step = "role" /\ Holds(request.as.live)
RoleHeld == Step = "role" /\ Holds(request.as.role >= Requires.role)

Look ==
    /\ Step \in {"mode", "budget", "input", "find", "ensure", "call", "verdict"}
    /\ MayFail(On)
Tell == Step = "tell" /\ request' = On
Closed == Step = "closed" /\ request' = Ended("error")

Commit ==
    /\ Step \in {"commit", "also"}
    /\ \/ MayFail(Changed)
       \/ Step = "also" /\ request' = On

\* Mutant: the answer is kept in a transaction of its own, which may be lost.
OnceKeptApart ==
    /\ Step = "once"
    /\ CASE request.kept = "nothing" ->
                request' \in {Changed, [Changed EXCEPT !.kept = "done"], Ended("error")}
         [] request.kept = "done" -> request' = On
         [] OTHER -> request' = Ended("error")
\* What the first request of an idempotency key did, or why it did nothing, is
\* kept in its own transaction and told to every later one.
Once ==
    /\ Step = "once"
    /\ CASE request.kept = "nothing" ->
                request' \in {[Changed EXCEPT !.kept = "done"],
                              [Ended("error") EXCEPT !.kept = "refused"], Ended("error")}
         [] request.kept = "done" -> request' = On
         [] OTHER -> request' = Ended("error")

Answer ==
    /\ request.answer = "none" /\ request.at > Len(Steps)
    /\ request' = Ended("ok")

\* The process dies, or the answer is lost on its way; whoever hears nothing, or
\* of an error, may ask again.
Lose == request.answer = "none" /\ request' = Ended("lost")
AskAgain ==
    /\ request.answer \in {"error", "lost"} /\ request.tries < MaxTries
    /\ request' = [request EXCEPT !.at = 1, !.as = Nobody, !.answer = "none", !.tries = @ + 1,
                                 !.earlier = @ + request.changes, !.changes = 0]

Proceed ==
    /\ Session \/ Key \/ Origin \/ RoleHeld \/ Look \/ Tell \/ Closed \/ Commit \/ Once \/ Answer
       \/ Lose \/ AskAgain
    /\ UNCHANGED caller

\* Somebody lowers the role, or ends the session or the key.
LoseAuthority ==
    /\ caller.live
    /\ caller' \in {Nobody} \cup {[caller EXCEPT !.role = r] : r \in 1 .. caller.role - 1}
    /\ UNCHANGED request

Next == Proceed \/ LoseAuthority

Spec == Init /\ [][Next]_vars

-----------------------------------------------------------------------------
(* Properties.                                                              *)

Place == <<request.method, request.path>>

\* Whoever `as' is holds what the table of gates, or the document, asks for here.
HoldsGate(as) ==
    /\ Place \in DOMAIN RoleGates => as.live /\ as.role >= RoleGates[Place] /\ request.trusted
    /\ Place \in DOMAIN KeyGates => KeyGates[Place] \subseteq as.scopes
    /\ Place \in DOMAIN Documented => Documented[Place] \subseteq as.scopes
    /\ Place \in SignedOut => request.trusted

\* Nothing is changed but by a place the table of gates declares, for a caller
\* who, when the handler asked, held the role or scopes declared and came from
\* where it may; nothing documented is answered to a key without its scopes;
\* and who holds what is declared is nowhere turned away for lack of it
\* (api-rbac-matrix.ts, openapi-registry.ts; compared by tests with the text of
\* the handlers only).
EffectsAsDeclared ==
    /\ request.changes > 0 =>
          Place \in DOMAIN RoleGates \cup DOMAIN KeyGates \cup SignedOut /\ HoldsGate(request.by)
    /\ request.answer = "ok" /\ Place \in DOMAIN Documented => HoldsGate(request.as)
    /\ request.answer = "forbidden"
       /\ Place \in DOMAIN RoleGates \cup DOMAIN KeyGates \cup DOMAIN Documented =>
          ~HoldsGate(request.as)

\* The places that can fail once a change of theirs stands: those that change
\* things in two transactions, and those that read or compare something after
\* their transaction; and the one that settles its row and then gives a verdict.
FailsAfterFirst ==
    {<<"POST", "inbox/conversations">>, <<"POST", "demo/inbound">>,
     <<"POST", "inbox/conversations/[conversationId]/messages">>,
     <<"POST", "ai/lead-qualification">>, <<"POST", "billing/usage">>,
     <<"PATCH", "settings/compliance">>, <<"POST", "auth/setup">>, <<"POST", "auth/login">>,
     <<"POST", "auth/team/invites/accept">>, <<"POST", "auth/organizations/select">>,
     <<"POST", "settings/delivery-attempts/[attemptId]/reconcile">>,
     <<"POST", "settings/delivery-attempts/[attemptId]/attest-not-sent">>,
     <<"POST", "settings/delivery-attempts/[attemptId]/retry">>}
FailsAfterSecond == {<<"POST", "demo/live-test-sms">>}

\* How many changes an error may leave behind.
MayLeave(place) ==
    CASE place \in FailsAfterSecond -> 2
      [] place \in FailsAfterFirst  -> 1
      [] OTHER -> 0

\* Who is told of an error may take it that nothing was changed, but at the few
\* places named above, where no more than their first change stands (at the live
\* test both): an invitation whose acceptance ends in an error has made the
\* membership at most, and no session with it.  A mutation of the public API
\* changes things once however often it is sent and whichever answers are lost.
ErrorsLeaveNothing ==
    /\ request.answer \in {"error", "forbidden"} => request.changes <= MayLeave(Place)
    /\ Place \in DOMAIN KeyGates => request.earlier + request.changes <= 1

-----------------------------------------------------------------------------
(* What the tables of routes and of gates have to say of one another for     *)
(* these to hold of every request, whatever else happens meanwhile.          *)

Declared(place) == At(KeyGates, place) \cup At(Documented, place)
Changing == {"commit", "also", "once"}
Before(handler, i, step) == \E j \in 1 .. i - 1 : handler.steps[j] = step

\* Who gets as far as the i-th step has shown what the place declares.
AssuredAt(place, handler, i) ==
    /\ place \in DOMAIN RoleGates =>
          /\ Before(handler, i, "session") /\ Before(handler, i, "origin")
          /\ RoleGates[place] > 1 => Before(handler, i, "role") /\ handler.role >= RoleGates[place]
    /\ Declared(place) # {} => Before(handler, i, "key") /\ Declared(place) \subseteq handler.scopes
    /\ place \in SignedOut => Before(handler, i, "origin")

\* Nothing is changed before that, and nothing documented is answered.
GateHolds(place, handler) ==
    /\ \A i \in 1 .. Len(handler.steps) : handler.steps[i] \in Changing =>
          /\ place \in DOMAIN RoleGates \cup DOMAIN KeyGates \cup SignedOut
          /\ AssuredAt(place, handler, i)
    /\ place \in DOMAIN Documented => AssuredAt(place, handler, Len(handler.steps) + 1)

\* A handler looks once at who calls, before it looks at the role.
AsksOnce(handler) ==
    \A i \in 1 .. Len(handler.steps) :
        /\ handler.steps[i] \in {"session", "key"} =>
              ~Before(handler, i, "session") /\ ~Before(handler, i, "key")
        /\ handler.steps[i] = "role" => Before(handler, i, "session")

\* It asks for no more than is declared.
AsksNoMore(place, handler) ==
    LET Has(step) == Before(handler, Len(handler.steps) + 1, step) IN
    place \in DOMAIN RoleGates \cup DOMAIN KeyGates \cup DOMAIN Documented =>
        /\ Has("session") => place \in DOMAIN RoleGates
        /\ Has("origin") => place \in DOMAIN RoleGates \cup SignedOut
        /\ Has("role") => place \in DOMAIN RoleGates /\ handler.role <= RoleGates[place]
        /\ Has("key") => Declared(place) # {} /\ handler.scopes \subseteq Declared(place)

\* What follows the changes an error may leave can no longer fail; and what a
\* key may change is changed where the answer is kept.
ChangesBefore(handler, i) ==
    Cardinality({j \in 1 .. i - 1 : handler.steps[j] \in Changing})
FailsInTime(place, handler) ==
    \A i \in 1 .. Len(handler.steps) :
        handler.steps[i] = "tell" \/ ChangesBefore(handler, i) <= MayLeave(place)
KeepsAnswers(place, handler) ==
    place \in DOMAIN KeyGates =>
        \A i \in 1 .. Len(handler.steps) : handler.steps[i] \notin {"commit", "also"}

SoundAt(place, handler) ==
    /\ handler.steps \in Seq(STRING) /\ handler.role \in Nat
    /\ GateHolds(place, handler) /\ AsksOnce(handler) /\ AsksNoMore(place, handler)
    /\ FailsInTime(place, handler) /\ KeepsAnswers(place, handler)
TablesAreSound ==
    /\ DOMAIN Console \cap DOMAIN Served = {}
    /\ \A path \in DOMAIN Console : \A method \in DOMAIN Console[path] :
          SoundAt(<<method, path>>, Console[path][method])
    /\ \A path \in DOMAIN Served : \A method \in DOMAIN Served[path] :
          SoundAt(<<method, path>>, Served[path][method]) /\ <<method, path>> \notin DOMAIN RoleGates
    /\ \A place \in DOMAIN RoleGates : RoleGates[place] \in Nat
=============================================================================
