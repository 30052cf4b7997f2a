------------------------------ MODULE Identity ------------------------------
(* Who may act for which organization: local accounts, memberships, team    *)
(* invitations, password resets and the sessions that requests carry.       *)
(*                                                                          *)
(* Team mutations and reset redemptions run SERIALIZABLE, under a lock of    *)
(* the organization (731) or of the subject (742).  They are one action     *)
(* each, except that the two that end sessions work on the snapshot their   *)
(* first statement took: sessions are opened and moved in READ COMMITTED    *)
(* transactions, which that isolation level does not order.  `txn' holds    *)
(* those transactions while they run.  A `request' is a login, an           *)
(* acceptance or a switch between its own transactions.                     *)
EXTENDS Naturals, FiniteSets

CONSTANTS
    User,        \* people, each with one normalized e-mail address
    Org,
    Session,     \* rows of AuthSession, present or yet to come
    Invite,      \* rows of AuthToken of type INVITE
    ResetToken,  \* rows of AuthToken of type PASSWORD_RESET
    Request,
    MaxVersion,  \* bound: generations of one account's credentials
    MaxChanges,  \* bound: changes of memberships
    None

ASSUME NoneAssumption == None \notin User \cup Session \cup Invite \cup ResetToken
ASSUME BoundAssumption == MaxVersion \in Nat \ {0} /\ MaxChanges \in Nat

VARIABLES
    account,  \* [User -> password generation (0: no identity), authVersion]
    member,   \* [Org -> [User -> row of Membership]]
    session, invite, reset, request,
    txn,      \* session-ending transactions between snapshot and commit
    changes

vars == <<account, member, session, invite, reset, request, txn, changes>>

Role == {"MEMBER", "ADMIN", "OWNER"}
NoAccount == [password |-> 0, version |-> 0]
NoMember == [role |-> "NONE", status |-> "NONE"]
\* Mutant: a membership that still waits for its acceptance.
JoinedInvited(role) == [role |-> role, status |-> "INVITED"]
Joined(role) == [role |-> role, status |-> "ACTIVE"]
NoSession == [user |-> None, org |-> None, version |-> 0, state |-> "NONE", password |-> 0]
NoInvite == [org |-> None, email |-> None, role |-> "NONE", issuer |-> None, state |-> "NONE"]
NoReset == [user |-> None, state |-> "NONE"]
\* Nothing of a revoked, expired or consumed row is ever acted on again: the
\* model keeps only that it is spent.
SpentSession == [NoSession EXCEPT !.state = "SPENT"]
SpentInvite == [NoInvite EXCEPT !.state = "SPENT"]
SpentReset == [NoReset EXCEPT !.state = "SPENT"]
Idle == [pc |-> "idle", user |-> None, org |-> None, version |-> 0, password |-> 0,
         session |-> None, invite |-> None]

Init ==
    /\ account = [u \in User |-> NoAccount]
    /\ member = [o \in Org |-> [u \in User |-> NoMember]]
    /\ session = [s \in Session |-> NoSession]
    /\ invite = [i \in Invite |-> NoInvite]
    /\ reset = [t \in ResetToken |-> NoReset]
    /\ request = [r \in Request |-> Idle]
    /\ txn = {}
    /\ changes = 0

-----------------------------------------------------------------------------
(* What the services ask of the rows.                                       *)

Known(u) == account[u].password > 0
Belongs(o, u) == member[o][u].status # "NONE"
Active(o, u) == member[o][u].status = "ACTIVE"
Founded(o) == \E u \in User : Belongs(o, u)
ActiveOwner(o, u) == Active(o, u) /\ member[o][u].role = "OWNER"

CanGrant(actorRole, role) ==
    \/ actorRole = "OWNER"
    \/ actorRole = "ADMIN" /\ role # "OWNER"
CanManage(actorRole, role) == CanGrant(actorRole, role)

\* findEligibleActorRole, then the rank the operation asks for.
Grants(o, actor, role) == Active(o, actor) /\ CanGrant(member[o][actor].role, role)
Manages(o, actor, role) == Active(o, actor) /\ CanManage(member[o][actor].role, role)

Pending(i) == invite[i].state = "PENDING"

Open(s) == session[s].state = "OPEN"

\* Mutant: resolution does not compare the versions.
ResolvesAnyVersion(s) == Open(s) /\ Active(session[s].org, session[s].user)
\* resolveStoredSession: the row, its user, its membership and its version.
Resolves(s) ==
    /\ Open(s) /\ Active(session[s].org, session[s].user)
    /\ session[s].version = account[session[s].user].version

\* Lock 742: held from createSession's check to its commit.
SubjectLocked(u) == \E r \in Request : request[r].pc = "opening" /\ request[r].user = u
\* Mutant: team mutations of one organization overlap.
NeverLocked(o) == FALSE
\* Lock 731: held by a suspension or a removal until it commits.
OrganizationLocked(o) == \E x \in txn : x.kind # "RESET" /\ x.org = o

\* The rows an UPDATE finds are those its transaction's snapshot shows, with
\* the organization it shows them in.
Snapshot(rows) == [s \in rows |-> session[s].org]
\* Another transaction has written one of them: PostgreSQL aborts this one.
Conflicted(x) == \E s \in DOMAIN x.seen : ~Open(s) \/ session[s].org # x.seen[s]
Revoked(rows) == [s \in Session |-> IF s \in rows THEN SpentSession ELSE session[s]]
RevokedInvites(rows) == [i \in Invite |-> IF i \in rows THEN SpentInvite ELSE invite[i]]

-----------------------------------------------------------------------------
(* Accounts and organizations.                                              *)

\* bootstrapFirstOwner, open while no local credential exists at all; the
\* setup route goes on to open a session, the operator's command does not.
Bootstrap(r, u, o) ==
    /\ \A v \in User : ~Known(v)
    /\ ~Founded(o) /\ request[r] = Idle
    /\ account' = [account EXCEPT ![u] = [password |-> 1, version |-> 1]]
    /\ member' = [member EXCEPT ![o][u] = Joined("OWNER")]
    /\ request' = [request EXCEPT ![r] =
                     [Idle EXCEPT !.pc = "granted", !.user = u, !.org = o,
                                  !.version = 1, !.password = 1]]
    /\ UNCHANGED <<session, invite, reset, txn, changes>>

\* The operator's recovery owner: always a new identity.
RecoverOwner(u, o) ==
    /\ changes < MaxChanges /\ changes' = changes + 1
    /\ Founded(o) /\ ~Known(u)
    /\ account' = [account EXCEPT ![u] = [password |-> 1, version |-> 1]]
    /\ member' = [member EXCEPT ![o][u] = Joined("OWNER")]
    /\ invite' = RevokedInvites({i \in Invite :
                    Pending(i) /\ invite[i].org = o /\ invite[i].email = u})
    /\ UNCHANGED <<session, reset, request, txn>>

CreateOrganization(s, o) ==
    /\ changes < MaxChanges /\ changes' = changes + 1
    /\ Resolves(s) /\ ~Founded(o)
    /\ member' = [member EXCEPT ![o][session[s].user] = Joined("OWNER")]
    /\ UNCHANGED <<account, session, invite, reset, request, txn>>

-----------------------------------------------------------------------------
(* Sessions.                                                                *)

\* authenticate: the password matches the credential that was just read.
\* A login's revocation of the browser's earlier session is Logout.
VerifyPassword(r, u) ==
    /\ request[r] = Idle /\ Known(u)
    /\ request' = [request EXCEPT ![r] =
                     [Idle EXCEPT !.pc = "verified", !.user = u,
                                  !.version = account[u].version,
                                  !.password = account[u].password]]
    /\ UNCHANGED <<account, member, session, invite, reset, txn, changes>>

\* The login's first active membership, and findPrincipal for it.
SelectMembership(r, o) ==
    /\ request[r].pc = "verified"
    /\ Active(o, request[r].user)
    /\ account[request[r].user].version = request[r].version
    /\ request' = [request EXCEPT ![r].pc = "granted", ![r].org = o]
    /\ UNCHANGED <<account, member, session, invite, reset, txn, changes>>

\* createSession takes the subject's lock and re-reads the membership ...
CheckSession(r) ==
    /\ request[r].pc = "granted" /\ ~SubjectLocked(request[r].user)
    /\ Active(request[r].org, request[r].user)
    /\ account[request[r].user].version = request[r].version
    /\ request' = [request EXCEPT ![r].pc = "opening"]
    /\ UNCHANGED <<account, member, session, invite, reset, txn, changes>>

\* ... and inserts the row; its foreign key needs the membership row to exist.
OpenSession(r, s) ==
    /\ request[r].pc = "opening" /\ session[s] = NoSession
    /\ Belongs(request[r].org, request[r].user)
    /\ session' = [session EXCEPT ![s] =
                     [user |-> request[r].user, org |-> request[r].org,
                      version |-> request[r].version, state |-> "OPEN",
                      password |-> request[r].password]]
    /\ request' = [request EXCEPT ![r] = Idle]
    /\ UNCHANGED <<account, member, invite, reset, txn, changes>>

\* switchSessionOrg reads the target membership, without either lock ...
CheckSwitch(r, s, o) ==
    /\ request[r] = Idle /\ Resolves(s) /\ session[s].org # o
    /\ Active(o, session[s].user)
    /\ request' = [request EXCEPT ![r] =
                     [Idle EXCEPT !.pc = "moving", !.user = session[s].user, !.org = o,
                                  !.version = session[s].version, !.session = s]]
    /\ UNCHANGED <<account, member, session, invite, reset, txn, changes>>

\* ... and moves the row if it is still the open one of that version.
MoveSession(r) ==
    LET q == request[r] IN
    /\ q.pc = "moving"
    /\ Open(q.session) /\ session[q.session].user = q.user
    /\ session[q.session].version = q.version /\ session[q.session].org # q.org
    /\ Belongs(q.org, q.user)
    /\ session' = [session EXCEPT ![q.session].org = q.org]
    /\ request' = [request EXCEPT ![r] = Idle]
    /\ UNCHANGED <<account, member, invite, reset, txn, changes>>

\* revokeSessionByTokenHash, or the end of the idle or the absolute lifetime.
Logout(s) ==
    /\ Open(s)
    /\ session' = Revoked({s})
    /\ UNCHANGED <<account, member, invite, reset, request, txn, changes>>

\* revokeAllSessions: READ COMMITTED, but under the subject's lock.
LogoutEverywhere(s) ==
    LET u == session[s].user IN
    /\ Resolves(s) /\ ~SubjectLocked(u) /\ account[u].version < MaxVersion
    /\ account' = [account EXCEPT ![u].version = @ + 1]
    /\ session' = Revoked({x \in Session : Open(x) /\ session[x].user = u})
    /\ UNCHANGED <<member, invite, reset, request, txn, changes>>

\* A request is refused, or its process dies between two transactions.
Abandon(r) ==
    /\ request[r] # Idle
    /\ request' = [request EXCEPT ![r] = Idle]
    /\ UNCHANGED <<account, member, session, invite, reset, txn, changes>>

-----------------------------------------------------------------------------
(* Invitations.                                                             *)

CreateInvite(i, o, actor, u, role) ==
    /\ invite[i] = NoInvite /\ ~OrganizationLocked(o)
    /\ Grants(o, actor, role)
    /\ ~Belongs(o, u)
    /\ ~\E j \in Invite : Pending(j) /\ invite[j].org = o /\ invite[j].email = u
    /\ invite' = [invite EXCEPT ![i] = [org |-> o, email |-> u, role |-> role,
                                         issuer |-> actor, state |-> "PENDING"]]
    /\ UNCHANGED <<account, member, session, reset, request, txn, changes>>

RevokeInvite(i, actor) ==
    /\ Pending(i) /\ ~OrganizationLocked(invite[i].org)
    /\ Manages(invite[i].org, actor, invite[i].role)
    /\ invite' = RevokedInvites({i})
    /\ UNCHANGED <<account, member, session, reset, request, txn, changes>>

ExpireInvite(i) ==
    /\ Pending(i)
    /\ invite' = RevokedInvites({i})
    /\ UNCHANGED <<account, member, session, reset, request, txn, changes>>

InviteAvailable(i) == Pending(i) /\ Grants(invite[i].org, invite[i].issuer, invite[i].role)

\* The preflight, and the proof of identity the route asks for: a session of
\* the invited user, that user's password, or nothing for a new identity.
PresentInvite(r, i, s) ==
    LET u == invite[i].email IN
    /\ request[r] = Idle /\ InviteAvailable(i)
    /\ s # None => Resolves(s) /\ session[s].user = u
    /\ request' = [request EXCEPT ![r] =
                     [Idle EXCEPT !.pc = "accepting", !.user = u, !.org = invite[i].org,
                                  !.version = account[u].version,
                                  !.password = account[u].password,
                                  !.session = s, !.invite = i]]
    /\ UNCHANGED <<account, member, session, invite, reset, txn, changes>>

\* A proven password is re-checked by its version, under the subject's lock;
\* a new identity must still be new; a session only names the user.
StillProven(q) ==
    \/ q.session # None
    \/ q.version > 0 /\ account[q.user].version = q.version /\ ~SubjectLocked(q.user)
    \/ q.version = 0 /\ ~Known(q.user)

\* acceptInvite; a session's acceptance goes on with CheckSwitch.
AcceptInvite(r) ==
    LET q == request[r]
        new == q.version = 0
        known == IF new THEN [password |-> 1, version |-> 1] ELSE account[q.user]
    IN
    /\ q.pc = "accepting" /\ changes < MaxChanges /\ changes' = changes + 1
    /\ InviteAvailable(q.invite) /\ ~OrganizationLocked(q.org)
    /\ StillProven(q) /\ ~Belongs(q.org, q.user)
    /\ account' = [account EXCEPT ![q.user] = known]
    /\ member' = [member EXCEPT ![q.org][q.user] = Joined(invite[q.invite].role)]
    /\ invite' = RevokedInvites({q.invite})
    /\ request' = [request EXCEPT ![r] =
                     IF q.session # None THEN Idle
                     ELSE [q EXCEPT !.pc = "granted", !.version = known.version,
                                    !.password = known.password, !.invite = None]]
    /\ UNCHANGED <<session, reset, txn>>

-----------------------------------------------------------------------------
(* Members.                                                                 *)

\* mutateMember's checks, up to the one that keeps the final owner.
MayMutate(o, actor, target) ==
    /\ changes < MaxChanges /\ ~OrganizationLocked(o)
    /\ Belongs(o, target) /\ Manages(o, actor, member[o][target].role)

LastOwner(o, target) ==
    ActiveOwner(o, target) /\ Cardinality({u \in User : ActiveOwner(o, u)}) <= 1

\* Mutant: a member who loses rank keeps the invitations issued with it.
KeepInvitesOf(o, u) == invite
WithoutInvitesOf(o, u) ==
    RevokedInvites({i \in Invite : Pending(i) /\ invite[i].org = o /\ invite[i].issuer = u})

ChangeRole(o, actor, target, role) ==
    /\ MayMutate(o, actor, target) /\ Grants(o, actor, role)
    /\ role # "OWNER" => ~LastOwner(o, target)
    /\ invite' = WithoutInvitesOf(o, target)
    /\ member' = [member EXCEPT ![o][target].role = role]
    /\ changes' = changes + 1
    /\ UNCHANGED <<account, session, reset, request, txn>>

Reactivate(o, actor, target) ==
    /\ MayMutate(o, actor, target) /\ member[o][target].status = "SUSPENDED"
    /\ member' = [member EXCEPT ![o][target].status = "ACTIVE"]
    /\ changes' = changes + 1
    /\ UNCHANGED <<account, session, invite, reset, request, txn>>

\* A suspension or a removal, from its snapshot ...
BeginEnd(kind, o, actor, target) ==
    /\ MayMutate(o, actor, target) /\ ~LastOwner(o, target)
    /\ kind = "SUSPEND" => Active(o, target)
    /\ txn' = txn \cup {[kind |-> kind, org |-> o, user |-> target, token |-> None,
                        seen |-> Snapshot({s \in Session : session[s].org = o
                                             /\ session[s].user = target /\ Open(s)})]}
    /\ changes' = changes + 1
    /\ UNCHANGED <<account, member, session, invite, reset, request>>

\* ... to its commit.
CommitSuspend(x) ==
    /\ x.kind = "SUSPEND" /\ ~Conflicted(x)
    /\ member' = [member EXCEPT ![x.org][x.user].status = "SUSPENDED"]
    /\ invite' = WithoutInvitesOf(x.org, x.user)
    /\ session' = Revoked(DOMAIN x.seen)
    /\ txn' = txn \ {x}
    /\ UNCHANGED <<account, reset, request, changes>>

\* The foreign key deletes the sessions of the membership with it.
CommitRemove(x) ==
    /\ x.kind = "REMOVE" /\ ~Conflicted(x)
    /\ member' = [member EXCEPT ![x.org][x.user] = NoMember]
    /\ invite' = WithoutInvitesOf(x.org, x.user)
    /\ session' = [s \in Session |->
                     IF session[s].org = x.org /\ session[s].user = x.user
                     THEN NoSession ELSE session[s]]
    /\ txn' = txn \ {x}
    /\ UNCHANGED <<account, reset, request, changes>>

\* Rolled back: a conflict, to be tried again from a new snapshot, or a crash.
Abort(x) ==
    /\ txn' = txn \ {x}
    /\ UNCHANGED <<account, member, session, invite, reset, request, changes>>

-----------------------------------------------------------------------------
(* Password resets.                                                         *)

Resetting(u) == \E x \in txn : x.kind = "RESET" /\ x.user = u

\* issueOperatorPasswordReset: the new link replaces the earlier ones.
IssueReset(t, u) ==
    /\ reset[t] = NoReset /\ \E o \in Org : Active(o, u)
    /\ ~SubjectLocked(u) /\ ~Resetting(u)
    /\ reset' = [x \in ResetToken |->
                   IF x = t THEN [user |-> u, state |-> "LIVE"]
                   ELSE IF reset[x].user = u THEN SpentReset ELSE reset[x]]
    /\ UNCHANGED <<account, member, session, invite, request, txn, changes>>

ExpireReset(t) ==
    /\ reset[t].state = "LIVE" /\ ~Resetting(reset[t].user)
    /\ reset' = [reset EXCEPT ![t] = SpentReset]
    /\ UNCHANGED <<account, member, session, invite, request, txn, changes>>

\* completeReset, from its snapshot: the wait for lock 742 is still ahead ...
BeginReset(t) ==
    LET u == reset[t].user IN
    /\ reset[t].state = "LIVE" /\ ~Resetting(u) /\ account[u].version < MaxVersion
    /\ \E o \in Org : Belongs(o, u)
    /\ txn' = txn \cup {[kind |-> "RESET", org |-> None, user |-> u, token |-> t,
                        seen |-> Snapshot({s \in Session :
                                             session[s].user = u /\ Open(s)})]}
    /\ UNCHANGED <<account, member, session, invite, reset, request, changes>>

\* ... to its commit, with the lock.
CommitReset(x) ==
    /\ x.kind = "RESET" /\ ~Conflicted(x) /\ ~SubjectLocked(x.user)
    /\ account[x.user].version < MaxVersion
    /\ account' = [account EXCEPT ![x.user] = [password |-> @.password + 1,
                                                version |-> @.version + 1]]
    /\ session' = Revoked(DOMAIN x.seen)
    /\ reset' = [reset EXCEPT ![x.token] = SpentReset]
    /\ txn' = txn \ {x}
    /\ UNCHANGED <<member, invite, request, changes>>

-----------------------------------------------------------------------------
Next ==
    \/ \E r \in Request, u \in User, o \in Org : Bootstrap(r, u, o)
    \/ \E u \in User, o \in Org : RecoverOwner(u, o)
    \/ \E s \in Session, o \in Org : CreateOrganization(s, o)
    \/ \E r \in Request, u \in User : VerifyPassword(r, u)
    \/ \E r \in Request, o \in Org : SelectMembership(r, o)
    \/ \E r \in Request : CheckSession(r) \/ MoveSession(r) \/ AcceptInvite(r) \/ Abandon(r)
    \/ \E r \in Request, s \in Session : OpenSession(r, s)
    \/ \E r \in Request, s \in Session, o \in Org : CheckSwitch(r, s, o)
    \/ \E s \in Session : Logout(s) \/ LogoutEverywhere(s)
    \/ \E i \in Invite, o \in Org, a, u \in User, role \in Role : CreateInvite(i, o, a, u, role)
    \/ \E i \in Invite, a \in User : RevokeInvite(i, a)
    \/ \E i \in Invite : ExpireInvite(i)
    \/ \E r \in Request, i \in Invite, s \in Session \cup {None} : PresentInvite(r, i, s)
    \/ \E o \in Org, a, u \in User, role \in Role : ChangeRole(o, a, u, role)
    \/ \E o \in Org, a, u \in User : Reactivate(o, a, u)
    \/ \E kind \in {"SUSPEND", "REMOVE"}, o \in Org, a, u \in User : BeginEnd(kind, o, a, u)
    \/ \E t \in ResetToken, u \in User : IssueReset(t, u)
    \/ \E t \in ResetToken : ExpireReset(t) \/ BeginReset(t)
    \/ \E x \in txn : CommitSuspend(x) \/ CommitRemove(x) \/ CommitReset(x) \/ Abort(x)

Spec == Init /\ [][Next]_vars

-----------------------------------------------------------------------------
(* Properties.                                                              *)

RequestPc == {"idle", "verified", "granted", "opening", "moving", "accepting"}
SessionState == {"NONE", "OPEN", "SPENT"}
InviteState == {"NONE", "PENDING", "SPENT"}
ResetState == {"NONE", "LIVE", "SPENT"}

(* Every row, request and running transaction is one of the code's.         *)
TypeOK ==
    /\ account \in [User -> [password : 0..MaxVersion, version : 0..MaxVersion]]
    /\ member \in [Org -> [User -> [role : Role \cup {"NONE"},
                                    status : {"NONE", "ACTIVE", "SUSPENDED"}]]]
    /\ session \in [Session -> [user : User \cup {None}, org : Org \cup {None},
                                version : 0..MaxVersion, state : SessionState,
                                password : 0..MaxVersion]]
    /\ invite \in [Invite -> [org : Org \cup {None}, email : User \cup {None},
                              role : Role \cup {"NONE"}, issuer : User \cup {None},
                              state : InviteState]]
    /\ reset \in [ResetToken -> [user : User \cup {None}, state : ResetState]]
    /\ request \in [Request -> [pc : RequestPc, user : User \cup {None},
                                org : Org \cup {None}, version : 0..MaxVersion,
                                password : 0..MaxVersion, session : Session \cup {None},
                                invite : Invite \cup {None}]]
    /\ \A x \in txn : x.kind \in {"SUSPEND", "REMOVE", "RESET"} /\ x.user \in User
    /\ changes \in 0..MaxChanges

(* An organization that has members has an active owner, whoever demotes,   *)
(* suspends or removes whom, and however these overlap                      *)
(* (team-service.ts countActiveOwners under lockOrganization).              *)
AlwaysAnOwner == \A o \in Org : Founded(o) => \E u \in User : ActiveOwner(o, u)

(* A pending invitation was issued by somebody who is still an active       *)
(* member of a rank that may grant its role, invites somebody who has no    *)
(* membership it could reactivate or upgrade, and is the only one for that  *)
(* address (CONTRACT-AUTH.md, POST /api/auth/team/invites/accept).          *)
PendingInvitesStand ==
    \A i \in Invite : Pending(i) =>
        /\ Grants(invite[i].org, invite[i].issuer, invite[i].role)
        /\ ~Belongs(invite[i].org, invite[i].email)
        /\ \A j \in Invite :
              Pending(j) /\ invite[j].org = invite[i].org /\ invite[j].email = invite[i].email
                => j = i

(* Whoever can use a session proved the account's present password: a       *)
(* login that overlaps a reset leaves no session of the old password        *)
(* (local-session.ts createSession, password-reset-service.ts               *)
(* completeReset).                                                          *)
UsableSessionsAreCurrent ==
    \A s \in Session : Resolves(s) => session[s].password = account[session[s].user].password

(* What CONTRACT-AUTH.md says of resets, suspensions and global logouts,    *)
(* that they revoke the sessions they end: no session is left unrevoked     *)
(* that its account's version or its membership has outlived.               *)
EndedSessionsAreRevoked ==
    \A s \in Session : Open(s) =>
        /\ session[s].version = account[session[s].user].version
        /\ Active(session[s].org, session[s].user)
=============================================================================
