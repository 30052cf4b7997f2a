--------------------------- MODULE Identity_proofs ---------------------------
(* Proofs about module Identity, for any number of users, organizations,     *)
(* sessions, invitations, tokens and requests, any bound on changes and on   *)
(* generations of credentials.                                               *)
EXTENDS Identity, FiniteSetTheorems, TLAPS

\* The suspensions and removals under way.
Ends == {x \in txn : x.kind # "RESET"}

EndsAreOfMembers == \A x \in Ends : x.org \in Org

\* A password is no newer than the version of its account.
AccountsAreWhole ==
    \A u \in User : /\ account[u].password <= account[u].version
                    /\ account[u].password = 0 => account[u].version = 0

LinksNameUsers == \A t \in ResetToken : reset[t].state = "LIVE" => reset[t].user \in User

Shapes == TypeOK /\ EndsAreOfMembers /\ AccountsAreWhole /\ LinksNameUsers

\* A session, or a login on its way to one, was proven with a password of a
\* version the account has or had, and with the present one if it has it.
Proven(x) ==
    /\ x.user \in User
    /\ 1 <= x.version /\ x.version <= account[x.user].version
    /\ x.version = account[x.user].version => x.password = account[x.user].password

SessionsAreProven == \A s \in Session : Open(s) => Proven(session[s])
LoginsAreProven ==
    \A r \in Request : request[r].pc \in {"verified", "granted", "opening"} => Proven(request[r])

Passwords == SessionsAreProven /\ LoginsAreProven

\* While a member is being suspended or removed another owner stays, because
\* nothing else is done to the members of the organization meanwhile.
EndsLeaveAnOwner ==
    \A x \in Ends : /\ Belongs(x.org, x.user)
                    /\ \E u \in User : u # x.user /\ ActiveOwner(x.org, u)
OneEndAtATime == \A x, y \in Ends : x.org = y.org => x = y
\* Nobody accepts an invitation of an organization that has no members, and
\* a session never vouches for a new identity.
AcceptancesAreFounded ==
    \A r \in Request : request[r].pc = "accepting" =>
        /\ request[r].org \in Org /\ request[r].user \in User /\ Founded(request[r].org)
        /\ request[r].session # None => request[r].version > 0

Owners == AlwaysAnOwner /\ EndsLeaveAnOwner /\ OneEndAtATime /\ AcceptancesAreFounded

PendingAreWhole ==
    \A i \in Invite : Pending(i) =>
        /\ invite[i].org \in Org /\ invite[i].email \in User
        /\ invite[i].issuer \in User /\ invite[i].role \in Role
\* A request that accepts holds the invitation as it is, or a spent one.
AcceptancesMatch ==
    \A r \in Request : request[r].pc = "accepting" =>
        /\ request[r].invite \in Invite
        /\ invite[request[r].invite].state \in {"PENDING", "SPENT"}
        /\ Pending(request[r].invite) =>
              /\ invite[request[r].invite].org = request[r].org
              /\ invite[request[r].invite].email = request[r].user

Invitations == PendingInvitesStand /\ PendingAreWhole /\ AcceptancesMatch

IInv == Shapes /\ Passwords /\ Owners /\ Invitations

-----------------------------------------------------------------------------
(* Shapes.                                                                   *)

LEMMA InitShapes == Init => Shapes
BY BoundAssumption
   DEF Init, Shapes, TypeOK, EndsAreOfMembers, Ends, AccountsAreWhole, LinksNameUsers, NoAccount, NoMember,
       NoSession, NoInvite, NoReset, Idle, SessionState, InviteState, ResetState, RequestPc, Role

LEMMA FirstVersion == 1 \in 0..MaxVersion /\ 0 \in 0..MaxVersion
BY BoundAssumption

MemberType == [role : Role \cup {"NONE"}, status : {"NONE", "ACTIVE", "SUSPENDED"}]
AccountType == [password : 0..MaxVersion, version : 0..MaxVersion]
SessionType == [user : User \cup {None}, org : Org \cup {None}, version : 0..MaxVersion,
                state : SessionState, password : 0..MaxVersion]
InviteType == [org : Org \cup {None}, email : User \cup {None}, role : Role \cup {"NONE"},
               issuer : User \cup {None}, state : InviteState]
ResetType == [user : User \cup {None}, state : ResetState]
RequestType == [pc : RequestPc, user : User \cup {None}, org : Org \cup {None},
                version : 0..MaxVersion, password : 0..MaxVersion,
                session : Session \cup {None}, invite : Invite \cup {None}]

LEMMA IdleIsARequest == Idle \in RequestType
BY FirstVersion DEF Idle, RequestType, RequestPc

LEMMA OwnerIsAMember == Joined("OWNER") \in MemberType /\ NoMember \in MemberType
BY DEF Joined, NoMember, MemberType, Role

LEMMA RevokedKeepTheirType ==
    ASSUME TypeOK, NEW rows PROVE Revoked(rows) \in [Session -> SessionType]
BY FirstVersion DEF TypeOK, Revoked, SpentSession, NoSession, SessionType, SessionState

LEMMA RevokedInvitesKeepTheirType ==
    ASSUME TypeOK, NEW rows PROVE RevokedInvites(rows) \in [Invite -> InviteType]
BY DEF TypeOK, RevokedInvites, SpentInvite, NoInvite, InviteType, InviteState

LEMMA NextKeepsShapes == ASSUME IInv, Next PROVE Shapes'
<1> USE FirstVersion
<1>s. Shapes BY DEF IInv
<1>t. /\ account \in [User -> AccountType] /\ member \in [Org -> [User -> MemberType]]
      /\ session \in [Session -> SessionType] /\ invite \in [Invite -> InviteType]
      /\ reset \in [ResetToken -> ResetType] /\ request \in [Request -> RequestType]
      /\ changes \in 0..MaxChanges
      /\ \A x \in txn : x.kind \in {"SUSPEND", "REMOVE", "RESET"} /\ x.user \in User
    BY <1>s DEF Shapes, TypeOK, AccountType, MemberType, SessionType, InviteType, ResetType, RequestType
<1>w. TypeOK /\ EndsAreOfMembers /\ AccountsAreWhole /\ LinksNameUsers BY <1>s DEF Shapes
<1> DEFINE Goal ==
      /\ account' \in [User -> AccountType] /\ member' \in [Org -> [User -> MemberType]]
      /\ session' \in [Session -> SessionType] /\ invite' \in [Invite -> InviteType]
      /\ reset' \in [ResetToken -> ResetType] /\ request' \in [Request -> RequestType]
      /\ changes' \in 0..MaxChanges
      /\ \A x \in txn' : x.kind \in {"SUSPEND", "REMOVE", "RESET"} /\ x.user \in User
                         /\ (x.kind # "RESET" => x.org \in Org)
      /\ \A u \in User : /\ account'[u].password <= account'[u].version
                         /\ account'[u].password = 0 => account'[u].version = 0
      /\ \A t \in ResetToken : reset'[t].state = "LIVE" => reset'[t].user \in User
<1>g. Goal => Shapes'
    BY DEF Shapes, TypeOK, AccountType, MemberType, SessionType, InviteType, ResetType,
           RequestType, EndsAreOfMembers, AccountsAreWhole, LinksNameUsers, Ends
<1>k. /\ \A x \in txn : x.kind # "RESET" => x.org \in Org
      /\ \A u \in User : /\ account[u].password <= account[u].version
                         /\ account[u].password = 0 => account[u].version = 0
      /\ \A t \in ResetToken : reset[t].state = "LIVE" => reset[t].user \in User
    BY <1>w DEF EndsAreOfMembers, Ends, AccountsAreWhole, LinksNameUsers
<1>c. changes < MaxChanges => changes + 1 \in 0..MaxChanges BY <1>t, BoundAssumption
<1>1. ASSUME NEW r \in Request, NEW u \in User, NEW o \in Org, Bootstrap(r, u, o) PROVE Goal
    <2>1. account' \in [User -> AccountType] /\ member' \in [Org -> [User -> MemberType]]
        BY <1>1, <1>t, OwnerIsAMember DEF Bootstrap, AccountType
    <2>2. request' \in [Request -> RequestType]
        BY <1>1, <1>t DEF Bootstrap, RequestType, RequestPc, Idle
    <2>3. \A v \in User : /\ account'[v].password <= account'[v].version
                          /\ account'[v].password = 0 => account'[v].version = 0
        BY <1>1, <1>t, <1>k DEF Bootstrap
    <2> QED BY <1>1, <1>t, <1>k, <2>1, <2>2, <2>3 DEF Bootstrap
<1>2. ASSUME NEW u \in User, NEW o \in Org, RecoverOwner(u, o) PROVE Goal
    <2>1. account' \in [User -> AccountType] /\ member' \in [Org -> [User -> MemberType]]
        BY <1>2, <1>t, OwnerIsAMember DEF RecoverOwner, AccountType
    <2>2. invite' \in [Invite -> InviteType]
        BY <1>2, RevokedInvitesKeepTheirType, <1>w DEF RecoverOwner
    <2>3. \A v \in User : /\ account'[v].password <= account'[v].version
                          /\ account'[v].password = 0 => account'[v].version = 0
        BY <1>2, <1>t, <1>k DEF RecoverOwner
    <2> QED BY <1>2, <1>t, <1>k, <1>c, <2>1, <2>2, <2>3 DEF RecoverOwner
<1>3. ASSUME NEW s \in Session, NEW o \in Org, CreateOrganization(s, o) PROVE Goal
    <2>1. member' \in [Org -> [User -> MemberType]]
        BY <1>3, <1>t, OwnerIsAMember DEF CreateOrganization
    <2> QED BY <1>3, <1>t, <1>k, <1>c, <2>1 DEF CreateOrganization
<1>4. ASSUME NEW r \in Request, NEW u \in User, VerifyPassword(r, u) PROVE Goal
    <2>1. request' \in [Request -> RequestType]
        BY <1>4, <1>t DEF VerifyPassword, RequestType, RequestPc, Idle, AccountType
    <2> QED BY <1>4, <1>t, <1>k, <2>1 DEF VerifyPassword
<1>5. ASSUME NEW r \in Request, NEW o \in Org, SelectMembership(r, o) PROVE Goal
    <2>1. request' \in [Request -> RequestType]
        <3>1. request' = [request EXCEPT ![r] = [request[r] EXCEPT !.pc = "granted", !.org = o]]
            BY <1>5, <1>t DEF SelectMembership
        <3>2. [request[r] EXCEPT !.pc = "granted", !.org = o] \in RequestType
            BY <1>t DEF RequestType, RequestPc
        <3> QED BY <1>t, <3>1, <3>2
    <2> QED BY <1>5, <1>t, <1>k, <2>1 DEF SelectMembership
<1>6. ASSUME NEW r \in Request, CheckSession(r) PROVE Goal
    <2>1. request' \in [Request -> RequestType]
        <3>1. request' = [request EXCEPT ![r] = [request[r] EXCEPT !.pc = "opening"]]
            BY <1>6, <1>t DEF CheckSession
        <3>2. [request[r] EXCEPT !.pc = "opening"] \in RequestType
            BY <1>t DEF RequestType, RequestPc
        <3> QED BY <1>t, <3>1, <3>2
    <2> QED BY <1>6, <1>t, <1>k, <2>1 DEF CheckSession
<1>7. ASSUME NEW r \in Request, MoveSession(r) PROVE Goal
    <2>1. request' \in [Request -> RequestType]
        BY <1>7, <1>t, IdleIsARequest DEF MoveSession
    <2>2. session' \in [Session -> SessionType]
        <3> DEFINE q == request[r]
        <3>1. session' = [session EXCEPT ![q.session].org = q.org] BY <1>7 DEF MoveSession
        <3>2. q.org \in Org \cup {None} BY <1>t DEF RequestType
        <3> HIDE DEF q
        <3>3. \A x \in Session : [session[x] EXCEPT !.org = q.org] \in SessionType
            BY <1>t, <3>2 DEF SessionType
        <3> QED BY <1>t, <3>1, <3>3
    <2> QED BY <1>7, <1>t, <1>k, <2>1, <2>2 DEF MoveSession
<1>8. ASSUME NEW r \in Request, Abandon(r) PROVE Goal
    <2>1. request' \in [Request -> RequestType] BY <1>8, <1>t, IdleIsARequest DEF Abandon
    <2> QED BY <1>8, <1>t, <1>k, <2>1 DEF Abandon
<1>9. ASSUME NEW r \in Request, NEW s \in Session, OpenSession(r, s) PROVE Goal
    <2>1. request' \in [Request -> RequestType]
        BY <1>9, <1>t, IdleIsARequest DEF OpenSession
    <2>2. session' \in [Session -> SessionType]
        BY <1>9, <1>t DEF OpenSession, SessionType, RequestType, SessionState
    <2> QED BY <1>9, <1>t, <1>k, <2>1, <2>2 DEF OpenSession
<1>10. ASSUME NEW r \in Request, NEW s \in Session, NEW o \in Org, CheckSwitch(r, s, o) PROVE Goal
    <2>1. request' \in [Request -> RequestType]
        BY <1>10, <1>t DEF CheckSwitch, RequestType, RequestPc, Idle, SessionType
    <2> QED BY <1>10, <1>t, <1>k, <2>1 DEF CheckSwitch
<1>11. ASSUME NEW s \in Session, Logout(s) PROVE Goal
    BY <1>11, <1>t, <1>k, RevokedKeepTheirType, <1>w DEF Logout
<1>12. ASSUME NEW s \in Session, LogoutEverywhere(s) PROVE Goal
    <2> DEFINE u == session[s].user
    <2>1. account' = [account EXCEPT ![u].version = @ + 1] /\ account[u].version < MaxVersion
        BY <1>12 DEF LogoutEverywhere
    <2> HIDE DEF u
    <2>2. u \in User => account[u].version + 1 \in 0..MaxVersion
        BY <1>t, <2>1, BoundAssumption DEF AccountType
    <2>3. account' \in [User -> AccountType] BY <1>t, <2>1, <2>2 DEF AccountType
    <2>4. \A v \in User : /\ account'[v].password <= account'[v].version
                          /\ account'[v].password = 0 => account'[v].version = 0
        <3> TAKE v \in User
        <3>1. CASE v # u BY <1>t, <1>k, <2>1, <3>1
        <3>2. CASE v = u
            <4>1. account'[v] = [account[v] EXCEPT !.version = @ + 1] BY <1>t, <2>1, <3>2
            <4>2. Open(s) /\ account[v].version = session[s].version
                BY <1>12, <3>2 DEF LogoutEverywhere, Resolves, u
            <4>3. 1 <= account[v].version
                BY <4>2 DEF IInv, Passwords, SessionsAreProven, Proven
            <4>4. account[v].password \in Nat /\ account[v].version \in Nat
                BY <1>t, BoundAssumption DEF AccountType
            <4>5. account'[v].password = account[v].password
                    /\ account'[v].version = account[v].version + 1
                BY <1>t, <4>1 DEF AccountType
            <4> QED BY <1>k, <4>3, <4>4, <4>5
        <3> QED BY <3>1, <3>2
    <2>5. session' \in [Session -> SessionType]
        BY <1>12, RevokedKeepTheirType, <1>w DEF LogoutEverywhere
    <2> QED BY <1>12, <1>t, <1>k, <2>3, <2>4, <2>5 DEF LogoutEverywhere
<1>13. ASSUME NEW i \in Invite, NEW o \in Org, NEW a \in User, NEW u \in User, NEW role \in Role,
              CreateInvite(i, o, a, u, role)
       PROVE  Goal
    <2>1. invite' \in [Invite -> InviteType]
        BY <1>13, <1>t DEF CreateInvite, InviteType, InviteState
    <2> QED BY <1>13, <1>t, <1>k, <2>1 DEF CreateInvite
<1>14. ASSUME NEW i \in Invite, NEW a \in User, RevokeInvite(i, a) PROVE Goal
    BY <1>14, <1>t, <1>k, RevokedInvitesKeepTheirType, <1>w DEF RevokeInvite
<1>15. ASSUME NEW i \in Invite, ExpireInvite(i) PROVE Goal
    BY <1>15, <1>t, <1>k, RevokedInvitesKeepTheirType, <1>w DEF ExpireInvite
<1>16. ASSUME NEW r \in Request, NEW i \in Invite, NEW s \in Session \cup {None},
              PresentInvite(r, i, s)
       PROVE  Goal
    <2> DEFINE u == invite[i].email
    <2>1. invite[i].org \in Org /\ u \in User
        BY <1>16 DEF PresentInvite, InviteAvailable, IInv, Invitations, PendingAreWhole
    <2> DEFINE asks == [Idle EXCEPT !.pc = "accepting", !.user = u, !.org = invite[i].org,
                             !.version = account[u].version, !.password = account[u].password,
                             !.session = s, !.invite = i]
    <2>2. request' = [request EXCEPT ![r] = asks] BY <1>16 DEF PresentInvite
    <2>3. asks \in RequestType
        <3>1. account[u].version \in 0..MaxVersion /\ account[u].password \in 0..MaxVersion
            BY <1>t, <2>1 DEF AccountType
        <3> HIDE DEF u
        <3> QED BY <2>1, <3>1 DEF RequestType, RequestPc, Idle
    <2> HIDE DEF asks
    <2>4. request' \in [Request -> RequestType] BY <1>t, <2>2, <2>3
    <2> QED BY <1>16, <1>t, <1>k, <2>4 DEF PresentInvite
<1>17. ASSUME NEW r \in Request, AcceptInvite(r) PROVE Goal
    <2> DEFINE q == request[r]
               new == q.version = 0
               known == IF new THEN [password |-> 1, version |-> 1] ELSE account[q.user]
               joined == Joined(invite[q.invite].role)
    <2>1. q \in RequestType /\ q.pc = "accepting" BY <1>17, <1>t DEF AcceptInvite
    <2>2. q.user \in User /\ q.org \in Org BY <2>1 DEF IInv, Owners, AcceptancesAreFounded
    <2>3. q.invite \in Invite /\ Pending(q.invite)
        BY <1>17, <2>1 DEF IInv, Invitations, AcceptancesMatch, AcceptInvite, InviteAvailable
    <2>4. joined \in MemberType
        BY <2>3 DEF IInv, Invitations, PendingAreWhole, Joined, MemberType
    <2>5. known \in AccountType BY <1>t, <2>2 DEF AccountType
    <2>6. known.password <= known.version /\ (known.password = 0 => known.version = 0)
        BY <1>k, <2>2
    <2>7. /\ account' = [account EXCEPT ![q.user] = known]
          /\ member' = [member EXCEPT ![q.org][q.user] = joined]
          /\ invite' = RevokedInvites({q.invite})
          /\ request' = [request EXCEPT ![r] =
                IF q.session # None THEN Idle
                ELSE [q EXCEPT !.pc = "granted", !.version = known.version,
                               !.password = known.password, !.invite = None]]
          /\ changes < MaxChanges /\ changes' = changes + 1
          /\ UNCHANGED <<session, reset, txn>>
        BY <1>17 DEF AcceptInvite
    <2> HIDE DEF q, known, joined
    <2>8. [q EXCEPT !.pc = "granted", !.version = known.version,
                    !.password = known.password, !.invite = None] \in RequestType
        BY <2>1, <2>5 DEF RequestType, RequestPc, AccountType
    <2>9. request' \in [Request -> RequestType] BY <1>t, <2>7, <2>8, IdleIsARequest
    <2>10. member' \in [Org -> [User -> MemberType]] BY <1>t, <2>4, <2>7
    <2>11. account' \in [User -> AccountType] BY <1>t, <2>5, <2>7
    <2>12. \A v \in User : /\ account'[v].password <= account'[v].version
                           /\ account'[v].password = 0 => account'[v].version = 0
        BY <1>t, <1>k, <2>6, <2>7
    <2>13. invite' \in [Invite -> InviteType] BY <2>7, <1>w, RevokedInvitesKeepTheirType
    <2> QED BY <1>t, <1>k, <1>c, <2>7, <2>9, <2>10, <2>11, <2>12, <2>13
<1>18. ASSUME NEW o \in Org, NEW a \in User, NEW u \in User, NEW role \in Role,
              ChangeRole(o, a, u, role)
       PROVE  Goal
    <2>1. member' \in [Org -> [User -> MemberType]]
        <3>1. [member[o][u] EXCEPT !.role = role] \in MemberType BY <1>t DEF MemberType
        <3>2. member' = [member EXCEPT ![o] = [member[o] EXCEPT ![u] =
                            [member[o][u] EXCEPT !.role = role]]]
            BY <1>18 DEF ChangeRole
        <3> QED BY <1>t, <3>1, <3>2
    <2>2. invite' \in [Invite -> InviteType]
        BY <1>18, <1>w, RevokedInvitesKeepTheirType DEF ChangeRole, WithoutInvitesOf
    <2>3. changes' \in 0..MaxChanges BY <1>18, <1>c DEF ChangeRole, MayMutate
    <2> QED BY <1>18, <1>t, <1>k, <2>1, <2>2, <2>3 DEF ChangeRole
<1>19. ASSUME NEW o \in Org, NEW a \in User, NEW u \in User, Reactivate(o, a, u) PROVE Goal
    <2>1. member' \in [Org -> [User -> MemberType]]
        <3> DEFINE m == member[o][u]
        <3>1. m \in MemberType BY <1>t
        <3> HIDE DEF m
        <3>2. [m EXCEPT !.status = "ACTIVE"] \in MemberType BY <3>1 DEF MemberType
        <3>3. member' = [member EXCEPT ![o] = [member[o] EXCEPT ![u] =
                            [m EXCEPT !.status = "ACTIVE"]]]
            BY <1>19 DEF Reactivate, m
        <3> QED BY <1>t, <3>2, <3>3
    <2>2. changes' \in 0..MaxChanges BY <1>19, <1>c DEF Reactivate, MayMutate
    <2> QED BY <1>19, <1>t, <1>k, <2>1, <2>2 DEF Reactivate
<1>20. ASSUME NEW kind \in {"SUSPEND", "REMOVE"}, NEW o \in Org, NEW a \in User, NEW u \in User,
              BeginEnd(kind, o, a, u)
       PROVE  Goal
    <2> DEFINE rows == Snapshot({s \in Session : session[s].org = o
                                    /\ session[s].user = u /\ Open(s)})
               end == [kind |-> kind, org |-> o, user |-> u, token |-> None, seen |-> rows]
    <2>1. txn' = txn \cup {end} BY <1>20 DEF BeginEnd
    <2>2. end.kind = kind /\ end.user = u /\ end.org = o OBVIOUS
    <2> HIDE DEF end
    <2>3. \A x \in txn' : x.kind \in {"SUSPEND", "REMOVE", "RESET"} /\ x.user \in User
                         /\ (x.kind # "RESET" => x.org \in Org)
        BY <1>t, <1>k, <2>1, <2>2
    <2>4. changes' \in 0..MaxChanges BY <1>20, <1>c DEF BeginEnd, MayMutate
    <2> QED BY <1>20, <1>t, <1>k, <2>3, <2>4 DEF BeginEnd
<1>21. ASSUME NEW t \in ResetToken, NEW u \in User, IssueReset(t, u) PROVE Goal
    <2>1. SpentReset \in ResetType BY DEF SpentReset, NoReset, ResetType, ResetState
    <2>2. [user |-> u, state |-> "LIVE"] \in ResetType BY DEF ResetType, ResetState
    <2>3. reset' \in [ResetToken -> ResetType] BY <1>21, <1>t, <2>1, <2>2 DEF IssueReset
    <2>4. \A x \in ResetToken : reset'[x].state = "LIVE" => reset'[x].user \in User
        BY <1>21, <1>k DEF IssueReset, SpentReset, NoReset
    <2> QED BY <1>21, <1>t, <1>k, <2>3, <2>4 DEF IssueReset
<1>22. ASSUME NEW t \in ResetToken, ExpireReset(t) PROVE Goal
    <2>1. SpentReset \in ResetType BY DEF SpentReset, NoReset, ResetType, ResetState
    <2>2. reset' \in [ResetToken -> ResetType] BY <1>22, <1>t, <2>1 DEF ExpireReset
    <2>3. \A x \in ResetToken : reset'[x].state = "LIVE" => reset'[x].user \in User
        BY <1>22, <1>t, <1>k DEF ExpireReset, SpentReset, NoReset
    <2> QED BY <1>22, <1>t, <1>k, <2>2, <2>3 DEF ExpireReset
<1>23. ASSUME NEW t \in ResetToken, BeginReset(t) PROVE Goal
    <2> DEFINE u == reset[t].user
               end == [kind |-> "RESET", org |-> None, user |-> u, token |-> t,
                       seen |-> Snapshot({s \in Session : session[s].user = u /\ Open(s)})]
    <2>1. txn' = txn \cup {end} BY <1>23 DEF BeginReset
    <2>2. end.kind = "RESET" /\ end.user \in User BY <1>23, <1>k DEF BeginReset
    <2> HIDE DEF end
    <2>3. \A x \in txn' : x.kind \in {"SUSPEND", "REMOVE", "RESET"} /\ x.user \in User
                         /\ (x.kind # "RESET" => x.org \in Org)
        BY <1>t, <1>k, <2>1, <2>2
    <2> QED BY <1>23, <1>t, <1>k, <2>3 DEF BeginReset
<1>24. ASSUME NEW x \in txn, CommitSuspend(x) PROVE Goal
    <2>1. x.kind # "RESET" /\ x.org \in Org /\ x.user \in User
        BY <1>24, <1>t, <1>k DEF CommitSuspend
    <2> DEFINE m == member[x.org][x.user]
    <2>2. m \in MemberType BY <1>t, <2>1
    <2>3. member' = [member EXCEPT ![x.org] = [member[x.org] EXCEPT ![x.user] =
                        [m EXCEPT !.status = "SUSPENDED"]]]
        BY <1>24 DEF CommitSuspend
    <2> HIDE DEF m
    <2>4. [m EXCEPT !.status = "SUSPENDED"] \in MemberType BY <2>2 DEF MemberType
    <2>5. member' \in [Org -> [User -> MemberType]] BY <1>t, <2>1, <2>3, <2>4
    <2>6. invite' \in [Invite -> InviteType]
        BY <1>24, <1>w, RevokedInvitesKeepTheirType DEF CommitSuspend, WithoutInvitesOf
    <2>7. session' \in [Session -> SessionType]
        BY <1>24, <1>w, RevokedKeepTheirType DEF CommitSuspend
    <2> QED BY <1>24, <1>t, <1>k, <2>5, <2>6, <2>7 DEF CommitSuspend
<1>25. ASSUME NEW x \in txn, CommitRemove(x) PROVE Goal
    <2>1. x.kind # "RESET" /\ x.org \in Org /\ x.user \in User
        BY <1>25, <1>t, <1>k DEF CommitRemove
    <2>2. member' \in [Org -> [User -> MemberType]]
        BY <1>25, <1>t, <2>1, OwnerIsAMember DEF CommitRemove
    <2>3. invite' \in [Invite -> InviteType]
        BY <1>25, <1>w, RevokedInvitesKeepTheirType DEF CommitRemove, WithoutInvitesOf
    <2>4. NoSession \in SessionType BY DEF NoSession, SessionType, SessionState
    <2>5. session' \in [Session -> SessionType] BY <1>25, <1>t, <2>4 DEF CommitRemove
    <2> QED BY <1>25, <1>t, <1>k, <2>2, <2>3, <2>5 DEF CommitRemove
<1>26. ASSUME NEW x \in txn, CommitReset(x) PROVE Goal
    <2>1. x.user \in User BY <1>t
    <2> DEFINE old == account[x.user]
               new == [password |-> old.password + 1, version |-> old.version + 1]
    <2>2. old.password \in Nat /\ old.version \in Nat /\ old.password <= old.version
            /\ old.version < MaxVersion
        BY <1>26, <1>t, <1>k, <2>1 DEF CommitReset, AccountType
    <2>3. account' = [account EXCEPT ![x.user] = new] BY <1>26 DEF CommitReset
    <2> HIDE DEF old
    <2>4. new \in AccountType /\ new.password <= new.version /\ new.password # 0
        BY <2>2, BoundAssumption DEF AccountType
    <2> HIDE DEF new
    <2>5. account' \in [User -> AccountType] BY <1>t, <2>3, <2>4
    <2>6. \A u \in User : /\ account'[u].password <= account'[u].version
                          /\ account'[u].password = 0 => account'[u].version = 0
        BY <1>t, <1>k, <2>3, <2>4
    <2>7. session' \in [Session -> SessionType]
        BY <1>26, <1>w, RevokedKeepTheirType DEF CommitReset
    <2>8. SpentReset \in ResetType BY DEF SpentReset, NoReset, ResetType, ResetState
    <2>9. reset' \in [ResetToken -> ResetType] BY <1>26, <1>t, <2>8 DEF CommitReset
    <2>10. \A t \in ResetToken : reset'[t].state = "LIVE" => reset'[t].user \in User
        BY <1>26, <1>t, <1>k DEF CommitReset, SpentReset, NoReset
    <2> QED BY <1>26, <1>t, <1>k, <2>5, <2>6, <2>7, <2>9, <2>10 DEF CommitReset
<1>27. ASSUME NEW x \in txn, Abort(x) PROVE Goal BY <1>27, <1>t, <1>k DEF Abort
<1> HIDE DEF Goal
<1> QED
    BY <1>g, <1>1, <1>2, <1>3, <1>4, <1>5, <1>6, <1>7, <1>8, <1>9, <1>10, <1>11, <1>12, <1>13,
       <1>14, <1>15, <1>16, <1>17, <1>18, <1>19, <1>20, <1>21, <1>22, <1>23, <1>24, <1>25,
       <1>26, <1>27
    DEF Next

-----------------------------------------------------------------------------
(* Passwords.                                                                *)

Login(r) == request[r].pc \in {"verified", "granted", "opening"}
Same(x, y) == x.user = y.user /\ x.version = y.version /\ x.password = y.password

\* A step that opens no session or login but a proven one keeps all proven,
\* as long as the versions of accounts it changes grow.
LEMMA PasswordsKeep ==
    ASSUME IInv, Shapes',
           \A u \in User : account'[u] = account[u] \/ account'[u].version > account[u].version,
           \A s \in Session : Open(s)' =>
                (Open(s) /\ Same(session'[s], session[s])) \/ Proven(session[s])',
           \A r \in Request : Login(r)' =>
                (Login(r) /\ Same(request'[r], request[r])) \/ Proven(request[r])'
    PROVE  Passwords'
<1>1. \A u \in User : account[u].version \in Nat /\ account'[u].version \in Nat
    BY BoundAssumption DEF IInv, Shapes, TypeOK
<1>2. \A x, y : Same(y, x) /\ Proven(x) /\ x.version \in Nat =>
        /\ y.user \in User /\ 1 <= y.version /\ y.version <= account'[y.user].version
        /\ y.version = account'[y.user].version => y.password = account'[y.user].password
    BY <1>1 DEF Same, Proven
<1>3. SessionsAreProven'
    <2> SUFFICES ASSUME NEW s \in Session, Open(s)' PROVE Proven(session[s])'
        BY DEF SessionsAreProven
    <2>1. CASE Open(s) /\ Same(session'[s], session[s])
        <3>1. Proven(session[s]) BY <2>1 DEF IInv, Passwords, SessionsAreProven
        <3>2. session[s].version \in Nat BY BoundAssumption DEF IInv, Shapes, TypeOK
        <3> QED BY <1>2, <2>1, <3>1, <3>2 DEF Proven
    <2> QED BY <2>1
<1>4. LoginsAreProven'
    <2> SUFFICES ASSUME NEW r \in Request, Login(r)' PROVE Proven(request[r])'
        BY DEF LoginsAreProven, Login
    <2>1. CASE Login(r) /\ Same(request'[r], request[r])
        <3>1. Proven(request[r]) BY <2>1 DEF IInv, Passwords, LoginsAreProven, Login
        <3>2. request[r].version \in Nat BY BoundAssumption DEF IInv, Shapes, TypeOK
        <3> QED BY <1>2, <2>1, <3>1, <3>2 DEF Proven
    <2> QED BY <2>1
<1> QED BY <1>3, <1>4 DEF Passwords

LEMMA RevokedAreShut ==
    ASSUME NEW rows, session' = Revoked(rows)
    PROVE  \A s \in Session : Open(s)' => Open(s) /\ Same(session'[s], session[s])
BY DEF Revoked, Open, SpentSession, NoSession, Same

LEMMA NextKeepsPasswords == ASSUME IInv, Shapes', Next PROVE Passwords'
<1> DEFINE SameAccounts == \A u \in User :
                account'[u] = account[u] \/ account'[u].version > account[u].version
           SameSessions == \A s \in Session : Open(s)' =>
                (Open(s) /\ Same(session'[s], session[s])) \/ Proven(session[s])'
           SameLogins == \A r \in Request : Login(r)' =>
                (Login(r) /\ Same(request'[r], request[r])) \/ Proven(request[r])'
<1>q. SameAccounts /\ SameSessions /\ SameLogins => Passwords' BY PasswordsKeep
<1>t. /\ account \in [User -> AccountType] /\ session \in [Session -> SessionType]
      /\ request \in [Request -> RequestType]
    BY DEF IInv, Shapes, TypeOK, AccountType, SessionType, RequestType
<1>u. \A u \in User : account[u].version \in Nat /\ account[u].password \in Nat
        /\ (account[u].password = 0 => account[u].version = 0)
    BY <1>t, BoundAssumption DEF AccountType, IInv, Shapes, AccountsAreWhole
<1>a. account' = account => SameAccounts OBVIOUS
<1>s. session' = session => SameSessions BY DEF Open, Same
<1>v. \A rows : session' = Revoked(rows) => SameSessions BY RevokedAreShut
<1>r. ASSUME NEW r \in Request, NEW new, request' = [request EXCEPT ![r] = new],
             new.pc \notin {"verified", "granted", "opening"}
      PROVE  SameLogins
    BY <1>r, <1>t DEF Login, Same
<1>i. Idle.pc \notin {"verified", "granted", "opening"} BY DEF Idle
<1>l. request' = request => SameLogins BY DEF Login, Same
<1>n. ASSUME NEW u \in User, ~Known(u), account' = [account EXCEPT ![u] = [password |-> 1, version |-> 1]]
      PROVE  SameAccounts /\ account'[u].version = 1 /\ account'[u].password = 1
    BY <1>n, <1>t, <1>u DEF Known
<1>1. ASSUME NEW r \in Request, NEW u \in User, NEW o \in Org, Bootstrap(r, u, o)
      PROVE  SameAccounts /\ SameSessions /\ SameLogins
    <2> DEFINE new == [Idle EXCEPT !.pc = "granted", !.user = u, !.org = o,
                                  !.version = 1, !.password = 1]
    <2>1. new.user = u /\ new.version = 1 /\ new.password = 1 BY DEF Idle
    <2>2. request' = [request EXCEPT ![r] = new] BY <1>1 DEF Bootstrap
    <2> HIDE DEF new
    <2>3. SameAccounts /\ account'[u].version = 1 /\ account'[u].password = 1
        BY <1>1, <1>n DEF Bootstrap
    <2>4. Proven(request[r])' BY <1>t, <2>1, <2>2, <2>3 DEF Proven
    <2>5. SameLogins BY <1>t, <2>2, <2>4 DEF Login, Same
    <2> QED BY <1>1, <1>s, <2>3, <2>5 DEF Bootstrap
<1>2. ASSUME NEW u \in User, NEW o \in Org, RecoverOwner(u, o)
      PROVE  SameAccounts /\ SameSessions /\ SameLogins
    BY <1>2, <1>n, <1>s, <1>l DEF RecoverOwner
<1>3. ASSUME NEW r \in Request, NEW u \in User, VerifyPassword(r, u)
      PROVE  SameAccounts /\ SameSessions /\ SameLogins
    <2> DEFINE new == [Idle EXCEPT !.pc = "verified", !.user = u,
                                  !.version = account[u].version,
                                  !.password = account[u].password]
    <2>1. new.user = u /\ new.version = account[u].version /\ new.password = account[u].password
        BY DEF Idle
    <2>2. request' = [request EXCEPT ![r] = new] /\ account' = account /\ session' = session
        BY <1>3 DEF VerifyPassword
    <2> HIDE DEF new
    <2>3. 1 <= account[u].version
        <3>1. account[u].password > 0 BY <1>3 DEF VerifyPassword, Known
        <3>2. account[u].password <= account[u].version
            BY DEF IInv, Shapes, AccountsAreWhole
        <3> QED BY <1>u, <3>1, <3>2
    <2>4. Proven(request[r])' BY <1>t, <1>u, <2>1, <2>2, <2>3 DEF Proven
    <2>5. SameLogins BY <1>t, <2>2, <2>4 DEF Login, Same
    <2> QED BY <1>a, <1>s, <2>2, <2>5
<1>4. ASSUME NEW r \in Request, NEW o \in Org, SelectMembership(r, o)
      PROVE  SameAccounts /\ SameSessions /\ SameLogins
    <2> DEFINE new == [request[r] EXCEPT !.pc = "granted", !.org = o]
    <2>1. Same(new, request[r]) BY <1>t DEF Same, RequestType
    <2>2. request' = [request EXCEPT ![r] = new] BY <1>4 DEF SelectMembership
    <2>3. Login(r) BY <1>4 DEF SelectMembership, Login
    <2> HIDE DEF new
    <2>4. SameLogins BY <1>t, <2>1, <2>2, <2>3 DEF Login, Same
    <2> QED BY <1>4, <1>a, <1>s, <2>4 DEF SelectMembership
<1>5. ASSUME NEW r \in Request, CheckSession(r)
      PROVE  SameAccounts /\ SameSessions /\ SameLogins
    <2> DEFINE new == [request[r] EXCEPT !.pc = "opening"]
    <2>1. Same(new, request[r]) BY <1>t DEF Same, RequestType
    <2>2. request' = [request EXCEPT ![r] = new] BY <1>5 DEF CheckSession
    <2>3. Login(r) BY <1>5 DEF CheckSession, Login
    <2> HIDE DEF new
    <2>4. SameLogins BY <1>t, <2>1, <2>2, <2>3 DEF Login, Same
    <2> QED BY <1>5, <1>a, <1>s, <2>4 DEF CheckSession
<1>6. ASSUME NEW r \in Request, NEW s \in Session, OpenSession(r, s)
      PROVE  SameAccounts /\ SameSessions /\ SameLogins
    <2>1. Proven(request[r]) BY <1>6 DEF IInv, Passwords, LoginsAreProven, OpenSession
    <2> DEFINE new == [user |-> request[r].user, org |-> request[r].org,
                       version |-> request[r].version, state |-> "OPEN",
                       password |-> request[r].password]
    <2>2. session' = [session EXCEPT ![s] = new] /\ account' = account BY <1>6 DEF OpenSession
    <2>3. Same(new, request[r]) BY DEF Same
    <2> HIDE DEF new
    <2>4. Proven(session[s])' BY <1>t, <2>1, <2>2, <2>3 DEF Proven, Same
    <2>5. SameSessions BY <1>t, <2>2, <2>4 DEF Open, Same
    <2>6. request' = [request EXCEPT ![r] = Idle] BY <1>6 DEF OpenSession
    <2> QED BY <1>a, <1>i, <1>r, <2>2, <2>5, <2>6
<1>7. ASSUME NEW r \in Request, NEW s \in Session, NEW o \in Org, CheckSwitch(r, s, o)
      PROVE  SameAccounts /\ SameSessions /\ SameLogins
    <2> DEFINE new == [Idle EXCEPT !.pc = "moving", !.user = session[s].user, !.org = o,
                                  !.version = session[s].version, !.session = s]
    <2>1. new.pc = "moving" BY DEF Idle
    <2>2. request' = [request EXCEPT ![r] = new] BY <1>7 DEF CheckSwitch
    <2> HIDE DEF new
    <2>3. SameLogins BY <1>r, <2>1, <2>2
    <2> QED BY <1>7, <1>a, <1>s, <2>3 DEF CheckSwitch
<1>8. ASSUME NEW r \in Request, MoveSession(r)
      PROVE  SameAccounts /\ SameSessions /\ SameLogins
    <2>1. session' = [session EXCEPT ![request[r].session].org = request[r].org]
            /\ request' = [request EXCEPT ![r] = Idle] /\ account' = account
        BY <1>8 DEF MoveSession
    <2>2. SameSessions
        <3> DEFINE org == request[r].org
        <3> DEFINE x == request[r].session
        <3>1. session' = [session EXCEPT ![x].org = org] BY <2>1
        <3> HIDE DEF org, x
        <3>2. ASSUME NEW s \in Session PROVE Open(s)' => Open(s) /\ Same(session'[s], session[s])
            <4>1. session'[s] = session[s] \/ session'[s] = [session[s] EXCEPT !.org = org]
                BY <1>t, <3>1
            <4>2. session[s] \in SessionType BY <1>t
            <4>3. Same([session[s] EXCEPT !.org = org], session[s])
                    /\ [session[s] EXCEPT !.org = org].state = session[s].state
                BY <4>2 DEF Same, SessionType
            <4> QED BY <4>1, <4>3 DEF Open, Same
        <3> QED BY <3>2
    <2> QED BY <1>a, <1>i, <1>r, <2>1, <2>2
<1>9. ASSUME NEW r \in Request, Abandon(r)
      PROVE  SameAccounts /\ SameSessions /\ SameLogins
    BY <1>9, <1>a, <1>s, <1>i, <1>r DEF Abandon
<1>10. ASSUME NEW s \in Session, LogoutEverywhere(s)
       PROVE  SameAccounts /\ SameSessions /\ SameLogins
    <2> DEFINE u == session[s].user
    <2>1. account' = [account EXCEPT ![u].version = @ + 1] BY <1>10 DEF LogoutEverywhere
    <2> HIDE DEF u
    <2>2. SameAccounts
        <3> SUFFICES ASSUME NEW v \in User, v = u
                     PROVE  account'[v].version > account[v].version
            BY <1>t, <2>1
        <3>1. account'[v] = [account[v] EXCEPT !.version = @ + 1] BY <1>t, <2>1
        <3>2. account'[v].version = account[v].version + 1 BY <1>t, <3>1 DEF AccountType
        <3> QED BY <1>u, <3>2
    <2> QED BY <1>10, <1>v, <1>l, <2>2 DEF LogoutEverywhere
<1>11. ASSUME NEW r \in Request, NEW i \in Invite, NEW s \in Session \cup {None},
              PresentInvite(r, i, s)
       PROVE  SameAccounts /\ SameSessions /\ SameLogins
    <2> DEFINE u == invite[i].email
               new == [Idle EXCEPT !.pc = "accepting", !.user = u, !.org = invite[i].org,
                                  !.version = account[u].version,
                                  !.password = account[u].password,
                                  !.session = s, !.invite = i]
    <2>1. new.pc = "accepting" BY DEF Idle
    <2>2. request' = [request EXCEPT ![r] = new] BY <1>11 DEF PresentInvite
    <2> HIDE DEF new
    <2>3. SameLogins BY <1>r, <2>1, <2>2
    <2> QED BY <1>11, <1>a, <1>s, <2>3 DEF PresentInvite
<1>12. ASSUME NEW r \in Request, AcceptInvite(r)
       PROVE  SameAccounts /\ SameSessions /\ SameLogins
    <2> DEFINE q == request[r]
               known == IF q.version = 0 THEN [password |-> 1, version |-> 1] ELSE account[q.user]
               new == [q EXCEPT !.pc = "granted", !.version = known.version,
                                !.password = known.password, !.invite = None]
    <2>1. q \in RequestType /\ q.pc = "accepting" BY <1>12, <1>t DEF AcceptInvite
    <2>2. q.user \in User BY <2>1 DEF IInv, Owners, AcceptancesAreFounded
    <2>3. /\ account' = [account EXCEPT ![q.user] = known]
          /\ request' = [request EXCEPT ![r] = IF q.session # None THEN Idle ELSE new]
          /\ session' = session /\ StillProven(q)
        BY <1>12 DEF AcceptInvite
    <2> HIDE DEF q
    <2>4. new.user = q.user /\ new.version = known.version /\ new.password = known.password
            /\ new.pc = "granted"
        BY <2>1 DEF RequestType
    <2>5. q.session # None => q.version > 0
        BY <2>1 DEF IInv, Owners, AcceptancesAreFounded, q
    <2>6. q.version \in Nat BY <2>1, BoundAssumption DEF RequestType
    <2>7. CASE q.version = 0
        <3>1. q.session = None /\ ~Known(q.user) BY <2>3, <2>5, <2>7 DEF StillProven
        <3>2. SameAccounts /\ account'[q.user].version = 1 /\ account'[q.user].password = 1
            BY <1>n, <2>2, <2>3, <2>7, <3>1
        <3>3. new.user = q.user /\ new.version = 1 /\ new.password = 1 BY <2>4, <2>7
        <3>4. request' = [request EXCEPT ![r] = new] BY <2>3, <3>1
        <3> HIDE DEF new, known
        <3>5. Proven(request[r])' BY <1>t, <2>2, <3>2, <3>3, <3>4 DEF Proven
        <3>6. SameLogins BY <1>t, <3>4, <3>5 DEF Login, Same
        <3> QED BY <1>s, <2>3, <3>2, <3>6
    <2>8. CASE q.version # 0
        <3>1. account' = account BY <1>t, <2>2, <2>3, <2>8
        <3>2. CASE q.session # None BY <1>a, <1>i, <1>r, <1>s, <2>3, <3>1, <3>2
        <3>3. CASE q.session = None
            <4>1. q.version > 0 /\ account[q.user].version = q.version
                BY <2>3, <2>6, <2>8, <3>3 DEF StillProven
            <4>2. new.user = q.user /\ new.version = account[q.user].version
                    /\ new.password = account[q.user].password
                BY <2>4, <2>8
            <4>3. request' = [request EXCEPT ![r] = new] BY <2>3, <3>3
            <4> HIDE DEF new, known
            <4>4. Proven(request[r])'
                BY <1>t, <1>u, <2>2, <2>6, <3>1, <4>1, <4>2, <4>3 DEF Proven
            <4>5. SameLogins BY <1>t, <4>3, <4>4 DEF Login, Same
            <4> QED BY <1>a, <1>s, <2>3, <3>1, <4>5
        <3> QED BY <3>2, <3>3
    <2> QED BY <2>7, <2>8
<1>13. ASSUME NEW s \in Session, NEW o \in Org, CreateOrganization(s, o)
       PROVE  SameAccounts /\ SameSessions /\ SameLogins
    BY <1>13, <1>a, <1>s, <1>l DEF CreateOrganization
<1>14. ASSUME NEW s \in Session, Logout(s)
       PROVE  SameAccounts /\ SameSessions /\ SameLogins
    BY <1>14, <1>a, <1>v, <1>l DEF Logout
<1>15. ASSUME NEW i \in Invite, NEW o \in Org, NEW a \in User, NEW u \in User, NEW role \in Role,
              CreateInvite(i, o, a, u, role)
       PROVE  SameAccounts /\ SameSessions /\ SameLogins
    BY <1>15, <1>a, <1>s, <1>l DEF CreateInvite
<1>16. ASSUME NEW i \in Invite, NEW a \in User, RevokeInvite(i, a)
       PROVE  SameAccounts /\ SameSessions /\ SameLogins
    BY <1>16, <1>a, <1>s, <1>l DEF RevokeInvite
<1>17. ASSUME NEW i \in Invite, ExpireInvite(i)
       PROVE  SameAccounts /\ SameSessions /\ SameLogins
    BY <1>17, <1>a, <1>s, <1>l DEF ExpireInvite
<1>18. ASSUME NEW o \in Org, NEW a \in User, NEW u \in User, NEW role \in Role,
              ChangeRole(o, a, u, role)
       PROVE  SameAccounts /\ SameSessions /\ SameLogins
    BY <1>18, <1>a, <1>s, <1>l DEF ChangeRole
<1>19. ASSUME NEW o \in Org, NEW a \in User, NEW u \in User, Reactivate(o, a, u)
       PROVE  SameAccounts /\ SameSessions /\ SameLogins
    BY <1>19, <1>a, <1>s, <1>l DEF Reactivate
<1>20. ASSUME NEW kind \in {"SUSPEND", "REMOVE"}, NEW o \in Org, NEW a \in User, NEW u \in User,
              BeginEnd(kind, o, a, u)
       PROVE  SameAccounts /\ SameSessions /\ SameLogins
    BY <1>20, <1>a, <1>s, <1>l DEF BeginEnd
<1>21. ASSUME NEW t \in ResetToken, NEW u \in User, IssueReset(t, u)
       PROVE  SameAccounts /\ SameSessions /\ SameLogins
    BY <1>21, <1>a, <1>s, <1>l DEF IssueReset
<1>22. ASSUME NEW t \in ResetToken, ExpireReset(t)
       PROVE  SameAccounts /\ SameSessions /\ SameLogins
    BY <1>22, <1>a, <1>s, <1>l DEF ExpireReset
<1>23. ASSUME NEW t \in ResetToken, BeginReset(t)
       PROVE  SameAccounts /\ SameSessions /\ SameLogins
    BY <1>23, <1>a, <1>s, <1>l DEF BeginReset
<1>24. ASSUME NEW x \in txn, CommitSuspend(x)
       PROVE  SameAccounts /\ SameSessions /\ SameLogins
    BY <1>24, <1>a, <1>v, <1>l DEF CommitSuspend
<1>25. ASSUME NEW x \in txn, CommitRemove(x)
       PROVE  SameAccounts /\ SameSessions /\ SameLogins
    <2>1. SameSessions BY <1>25, <1>t DEF CommitRemove, Open, NoSession, Same
    <2> QED BY <1>25, <1>a, <1>l, <2>1 DEF CommitRemove
<1>26. ASSUME NEW x \in txn, CommitReset(x)
       PROVE  SameAccounts /\ SameSessions /\ SameLogins
    <2> DEFINE new == [password |-> account[x.user].password + 1,
                       version |-> account[x.user].version + 1]
    <2>1. account' = [account EXCEPT ![x.user] = new] BY <1>26 DEF CommitReset
    <2>2. x.user \in User => new.version > account[x.user].version BY <1>u
    <2> HIDE DEF new
    <2>3. SameAccounts BY <1>t, <2>1, <2>2
    <2> QED BY <1>26, <1>v, <1>l, <2>3 DEF CommitReset
<1>27. ASSUME NEW x \in txn, Abort(x)
       PROVE  SameAccounts /\ SameSessions /\ SameLogins
    BY <1>27, <1>a, <1>s, <1>l DEF Abort
<1> HIDE DEF SameAccounts, SameSessions, SameLogins
<1> QED
    BY <1>q, <1>1, <1>2, <1>3, <1>4, <1>5, <1>6, <1>7, <1>8, <1>9, <1>10, <1>11, <1>12, <1>13,
       <1>14, <1>15, <1>16, <1>17, <1>18, <1>19, <1>20, <1>21, <1>22, <1>23, <1>24, <1>25,
       <1>26, <1>27
    DEF Next

-----------------------------------------------------------------------------
(* Owners.                                                                   *)

\* When the final owner may not be touched, another owner stays.
LEMMA AnotherOwner ==
    ASSUME IInv, NEW o \in Org, NEW t \in User, Belongs(o, t), ~LastOwner(o, t)
    PROVE  \E u \in User : u # t /\ ActiveOwner(o, u)
<1> DEFINE owners == {u \in User : ActiveOwner(o, u)}
<1>1. CASE ~ActiveOwner(o, t)
    <2>1. \E u \in User : ActiveOwner(o, u)
        BY DEF Founded, IInv, Owners, AlwaysAnOwner
    <2> QED BY <1>1, <2>1
<1>2. CASE ActiveOwner(o, t)
    <2>1. ~(Cardinality(owners) <= 1) BY <1>2 DEF LastOwner
    <2>2. Cardinality({t}) = 1 BY FS_Singleton
    <2>3. owners # {t} BY <2>1, <2>2
    <2> QED BY <1>2, <2>3
<1> QED BY <1>1, <1>2

\* A request that accepts an invitation of an organization with members.
FoundedAcceptance(r) ==
    /\ request[r].org \in Org /\ request[r].user \in User /\ Founded(request[r].org)
    /\ request[r].session # None => request[r].version > 0

\* A step that takes nobody's membership or ownership away, starts no
\* suspension or removal and leaves every organization it founds an owner.
LEMMA OwnersGrow ==
    ASSUME IInv,
           \A o \in Org, u \in User : /\ Belongs(o, u) => Belongs(o, u)'
                                      /\ ActiveOwner(o, u) => ActiveOwner(o, u)',
           \A o \in Org : Founded(o)' => Founded(o) \/ \E u \in User : ActiveOwner(o, u)',
           \A x \in txn' : x.kind # "RESET" => x \in txn,
           \A r \in Request : request'[r].pc = "accepting" =>
                request'[r] = request[r] \/ FoundedAcceptance(r)'
    PROVE  Owners'
<1>t. \A x \in Ends : x.org \in Org /\ x.user \in User
    BY DEF IInv, Shapes, TypeOK, EndsAreOfMembers, Ends
<1>i. AlwaysAnOwner /\ EndsLeaveAnOwner /\ OneEndAtATime /\ AcceptancesAreFounded
    BY DEF IInv, Owners
<1>e. \A x \in Ends' : x \in Ends BY DEF Ends
<1>1. AlwaysAnOwner' BY <1>i DEF AlwaysAnOwner
<1>2. EndsLeaveAnOwner'
    <2> SUFFICES ASSUME NEW x \in Ends'
                 PROVE  Belongs(x.org, x.user)' /\ \E u \in User : u # x.user /\ ActiveOwner(x.org, u)'
        BY DEF EndsLeaveAnOwner
    <2>1. x \in Ends BY <1>e
    <2>2. Belongs(x.org, x.user) /\ \E u \in User : u # x.user /\ ActiveOwner(x.org, u)
        BY <1>i, <2>1 DEF EndsLeaveAnOwner
    <2> QED BY <1>t, <2>1, <2>2
<1>3. OneEndAtATime' BY <1>i, <1>e DEF OneEndAtATime
<1>4. \A o \in Org : Founded(o) => Founded(o)' BY DEF Founded
<1>5. AcceptancesAreFounded'
    <2> SUFFICES ASSUME NEW r \in Request, request'[r].pc = "accepting" PROVE FoundedAcceptance(r)'
        BY DEF AcceptancesAreFounded, FoundedAcceptance
    <2>1. CASE request'[r] = request[r]
        BY <1>i, <1>4, <2>1 DEF AcceptancesAreFounded, FoundedAcceptance
    <2> QED BY <2>1
<1> QED BY <1>1, <1>2, <1>3, <1>5 DEF Owners

\* A step that changes one membership of an organization with another owner,
\* and leaves no suspension or removal under way there.
LEMMA OwnerRemains ==
    ASSUME IInv, NEW o \in Org, NEW t \in User,
           \E u \in User : u # t /\ ActiveOwner(o, u),
           \A p \in Org, v \in User : p # o \/ v # t => member'[p][v] = member[p][v],
           \A x \in txn' : x.kind # "RESET" => x \in txn /\ x.org # o,
           request' = request
    PROVE  Owners'
<1>t. \A x \in Ends : x.org \in Org /\ x.user \in User
    BY DEF IInv, Shapes, TypeOK, EndsAreOfMembers, Ends
<1>i. AlwaysAnOwner /\ EndsLeaveAnOwner /\ OneEndAtATime /\ AcceptancesAreFounded
    BY DEF IInv, Owners
<1>e. \A x \in Ends' : x \in Ends /\ x.org # o BY DEF Ends
<1>o. \E u \in User : u # t /\ ActiveOwner(o, u)' BY DEF ActiveOwner, Active
<1>p. \A q \in Org, v \in User : q # o =>
        /\ Belongs(q, v)' = Belongs(q, v) /\ ActiveOwner(q, v)' = ActiveOwner(q, v)
    BY DEF Belongs, ActiveOwner, Active
<1>1. AlwaysAnOwner'
    <2> SUFFICES ASSUME NEW q \in Org, Founded(q)' PROVE \E u \in User : ActiveOwner(q, u)'
        BY DEF AlwaysAnOwner
    <2>1. CASE q = o BY <1>o, <2>1
    <2>2. CASE q # o BY <1>i, <1>p, <2>2 DEF AlwaysAnOwner, Founded
    <2> QED BY <2>1, <2>2
<1>2. EndsLeaveAnOwner'
    <2> SUFFICES ASSUME NEW x \in Ends'
                 PROVE  Belongs(x.org, x.user)' /\ \E u \in User : u # x.user /\ ActiveOwner(x.org, u)'
        BY DEF EndsLeaveAnOwner
    <2>1. x \in Ends /\ x.org # o BY <1>e
    <2>2. Belongs(x.org, x.user) /\ \E u \in User : u # x.user /\ ActiveOwner(x.org, u)
        BY <1>i, <2>1 DEF EndsLeaveAnOwner
    <2> QED BY <1>t, <1>p, <2>1, <2>2
<1>3. OneEndAtATime' BY <1>i, <1>e DEF OneEndAtATime
<1>4. Founded(o)'
    <2>1. \A u \in User : ActiveOwner(o, u)' => Belongs(o, u)' BY DEF ActiveOwner, Active, Belongs
    <2> QED BY <1>o, <2>1 DEF Founded
<1>5. \A q \in Org : Founded(q) => Founded(q)' BY <1>4, <1>p DEF Founded
<1>6. AcceptancesAreFounded' BY <1>i, <1>5 DEF AcceptancesAreFounded
<1> QED BY <1>1, <1>2, <1>3, <1>6 DEF Owners

LEMMA NextKeepsOwners == ASSUME IInv, Next PROVE Owners'
<1> DEFINE Grow == \A o \in Org, u \in User : /\ Belongs(o, u) => Belongs(o, u)'
                                              /\ ActiveOwner(o, u) => ActiveOwner(o, u)'
           OwnersFound == \A o \in Org : Founded(o)' => Founded(o) \/ \E u \in User : ActiveOwner(o, u)'
           NoNewEnds == \A x \in txn' : x.kind # "RESET" => x \in txn
           SameAcceptances == \A r \in Request : request'[r].pc = "accepting" =>
                request'[r] = request[r] \/ FoundedAcceptance(r)'
           Growing == Grow /\ OwnersFound
<1>q. Growing /\ NoNewEnds /\ SameAcceptances => Owners' BY OwnersGrow
<1>t. /\ member \in [Org -> [User -> MemberType]] /\ session \in [Session -> SessionType]
      /\ request \in [Request -> RequestType]
      /\ \A x \in txn : x.kind \in {"SUSPEND", "REMOVE", "RESET"} /\ x.user \in User
                        /\ (x.kind # "RESET" => x.org \in Org)
    BY DEF IInv, Shapes, TypeOK, MemberType, SessionType, RequestType, EndsAreOfMembers, Ends
<1>i. Idle.pc # "accepting" BY DEF Idle
<1>m. member' = member => Growing BY DEF Belongs, ActiveOwner, Active, Founded
<1>x. txn' = txn => NoNewEnds OBVIOUS
<1>l. request' = request => SameAcceptances OBVIOUS
<1>r. ASSUME NEW r \in Request, NEW new, request' = [request EXCEPT ![r] = new],
             new.pc # "accepting"
      PROVE  SameAcceptances
    BY <1>r, <1>t
<1>o. ASSUME NEW o \in Org, NEW u \in User, member' = [member EXCEPT ![o][u] = Joined("OWNER")]
      PROVE  Growing
    <2>1. Grow BY <1>o, <1>t DEF Belongs, ActiveOwner, Active, Joined
    <2>2. OwnersFound BY <1>o, <1>t DEF Belongs, ActiveOwner, Active, Joined, Founded
    <2> QED BY <2>1, <2>2
<1>1. ASSUME NEW r \in Request, NEW u \in User, NEW o \in Org, Bootstrap(r, u, o) PROVE Owners'
    <2> DEFINE new == [Idle EXCEPT !.pc = "granted", !.user = u, !.org = o,
                                  !.version = 1, !.password = 1]
    <2>1. new.pc = "granted" BY DEF Idle
    <2>2. request' = [request EXCEPT ![r] = new] BY <1>1 DEF Bootstrap
    <2> HIDE DEF new
    <2>3. SameAcceptances BY <1>r, <2>1, <2>2
    <2>4. Growing BY <1>1, <1>o DEF Bootstrap
    <2> QED BY <1>1, <1>q, <1>x, <2>3, <2>4 DEF Bootstrap
<1>2. ASSUME NEW u \in User, NEW o \in Org, RecoverOwner(u, o) PROVE Owners'
    <2>1. Growing BY <1>2, <1>o DEF RecoverOwner
    <2> QED BY <1>2, <1>q, <1>l, <1>x, <2>1 DEF RecoverOwner
<1>3. ASSUME NEW s \in Session, NEW o \in Org, CreateOrganization(s, o) PROVE Owners'
    <2>1. Open(s) /\ Active(session[s].org, session[s].user)
        BY <1>3 DEF CreateOrganization, Resolves
    <2>2. session[s].user \in User
        BY <2>1 DEF IInv, Passwords, SessionsAreProven, Proven
    <2> DEFINE u == session[s].user
    <2>3. member' = [member EXCEPT ![o][u] = Joined("OWNER")] BY <1>3 DEF CreateOrganization
    <2> HIDE DEF u
    <2>4. Growing BY <1>o, <2>2, <2>3 DEF u
    <2> QED BY <1>3, <1>q, <1>l, <1>x, <2>4 DEF CreateOrganization
<1>4. ASSUME NEW r \in Request, NEW u \in User, VerifyPassword(r, u) PROVE Owners'
    <2> DEFINE new == [Idle EXCEPT !.pc = "verified", !.user = u,
                                  !.version = account[u].version,
                                  !.password = account[u].password]
    <2>1. new.pc = "verified" BY DEF Idle
    <2>2. request' = [request EXCEPT ![r] = new] BY <1>4 DEF VerifyPassword
    <2> HIDE DEF new
    <2>3. SameAcceptances BY <1>r, <2>1, <2>2
    <2> QED BY <1>4, <1>q, <1>m, <1>x, <2>3 DEF VerifyPassword
<1>5. ASSUME NEW r \in Request, NEW o \in Org, SelectMembership(r, o) PROVE Owners'
    <2> DEFINE new == [request[r] EXCEPT !.pc = "granted", !.org = o]
    <2>1. new.pc = "granted" BY <1>t DEF RequestType
    <2>2. request' = [request EXCEPT ![r] = new] BY <1>5 DEF SelectMembership
    <2> HIDE DEF new
    <2>3. SameAcceptances BY <1>r, <2>1, <2>2
    <2> QED BY <1>5, <1>q, <1>m, <1>x, <2>3 DEF SelectMembership
<1>6. ASSUME NEW r \in Request, CheckSession(r) PROVE Owners'
    <2> DEFINE new == [request[r] EXCEPT !.pc = "opening"]
    <2>1. new.pc = "opening" BY <1>t DEF RequestType
    <2>2. request' = [request EXCEPT ![r] = new] BY <1>6 DEF CheckSession
    <2> HIDE DEF new
    <2>3. SameAcceptances BY <1>r, <2>1, <2>2
    <2> QED BY <1>6, <1>q, <1>m, <1>x, <2>3 DEF CheckSession
<1>7. ASSUME NEW r \in Request, MoveSession(r) PROVE Owners'
    <2>1. SameAcceptances BY <1>7, <1>r, <1>i DEF MoveSession
    <2> QED BY <1>7, <1>q, <1>m, <1>x, <2>1 DEF MoveSession
<1>8. ASSUME NEW r \in Request, NEW s \in Session, OpenSession(r, s) PROVE Owners'
    <2>1. SameAcceptances BY <1>8, <1>r, <1>i DEF OpenSession
    <2> QED BY <1>8, <1>q, <1>m, <1>x, <2>1 DEF OpenSession
<1>9. ASSUME NEW r \in Request, NEW s \in Session, NEW o \in Org, CheckSwitch(r, s, o) PROVE Owners'
    <2> DEFINE new == [Idle EXCEPT !.pc = "moving", !.user = session[s].user, !.org = o,
                                  !.version = session[s].version, !.session = s]
    <2>1. new.pc = "moving" BY DEF Idle
    <2>2. request' = [request EXCEPT ![r] = new] BY <1>9 DEF CheckSwitch
    <2> HIDE DEF new
    <2>3. SameAcceptances BY <1>r, <2>1, <2>2
    <2> QED BY <1>9, <1>q, <1>m, <1>x, <2>3 DEF CheckSwitch
<1>10. ASSUME NEW r \in Request, Abandon(r) PROVE Owners'
    <2>1. SameAcceptances BY <1>10, <1>r, <1>i DEF Abandon
    <2> QED BY <1>10, <1>q, <1>m, <1>x, <2>1 DEF Abandon
<1>11. ASSUME NEW r \in Request, NEW i \in Invite, NEW s \in Session \cup {None},
              PresentInvite(r, i, s)
       PROVE  Owners'
    <2> DEFINE u == invite[i].email
               o == invite[i].org
               new == [Idle EXCEPT !.pc = "accepting", !.user = u, !.org = o,
                                  !.version = account[u].version,
                                  !.password = account[u].password,
                                  !.session = s, !.invite = i]
    <2>1. request' = [request EXCEPT ![r] = new] /\ member' = member
        BY <1>11 DEF PresentInvite
    <2>2. new.user = u /\ new.org = o /\ new.session = s /\ new.version = account[u].version
        BY DEF Idle
    <2>3. Pending(i) /\ Active(o, invite[i].issuer)
        BY <1>11 DEF PresentInvite, InviteAvailable, Grants
    <2>4. o \in Org /\ u \in User /\ invite[i].issuer \in User
        BY <2>3 DEF IInv, Invitations, PendingAreWhole
    <2>5. Founded(o) BY <2>3, <2>4 DEF Active, Belongs, Founded
    <2>6. s # None => account[u].version > 0
        <3> SUFFICES ASSUME s # None PROVE account[u].version > 0 OBVIOUS
        <3>1. s \in Session /\ Resolves(s) /\ session[s].user = u
            BY <1>11 DEF PresentInvite
        <3>2. Proven(session[s]) BY <3>1 DEF Resolves, IInv, Passwords, SessionsAreProven
        <3>3. session[s].version = account[u].version BY <3>1 DEF Resolves
        <3>4. account[u].version \in Nat BY <2>4, BoundAssumption DEF IInv, Shapes, TypeOK
        <3> QED BY <3>2, <3>3, <3>4 DEF Proven
    <2> HIDE DEF new, u, o
    <2>7. FoundedAcceptance(r)'
        BY <1>t, <2>1, <2>2, <2>4, <2>5, <2>6 DEF FoundedAcceptance, Founded, Belongs
    <2>8. SameAcceptances BY <1>t, <2>1, <2>7
    <2> QED BY <1>11, <1>q, <1>m, <1>x, <2>8 DEF PresentInvite
<1>12. ASSUME NEW r \in Request, AcceptInvite(r) PROVE Owners'
    <2> DEFINE q == request[r]
               known == IF q.version = 0 THEN [password |-> 1, version |-> 1] ELSE account[q.user]
               new == [q EXCEPT !.pc = "granted", !.version = known.version,
                                !.password = known.password, !.invite = None]
               joined == Joined(invite[q.invite].role)
    <2>1. q \in RequestType /\ q.pc = "accepting" BY <1>12, <1>t DEF AcceptInvite
    <2>2. q.user \in User /\ q.org \in Org /\ Founded(q.org)
        BY <2>1 DEF IInv, Owners, AcceptancesAreFounded
    <2>3. /\ member' = [member EXCEPT ![q.org][q.user] = joined]
          /\ request' = [request EXCEPT ![r] = IF q.session # None THEN Idle ELSE new]
          /\ ~Belongs(q.org, q.user)
        BY <1>12 DEF AcceptInvite
    <2>4. new.pc # "accepting" BY <2>1 DEF RequestType
    <2>5. joined.status = "ACTIVE" BY DEF Joined
    <2> HIDE DEF new, q, joined
    <2>6. SameAcceptances BY <1>r, <1>i, <2>3, <2>4
    <2>7. Grow BY <1>t, <2>2, <2>3, <2>5 DEF Belongs, ActiveOwner, Active
    <2>8. OwnersFound BY <1>t, <2>2, <2>3 DEF Founded, Belongs
    <2> QED BY <1>12, <1>q, <1>x, <2>6, <2>7, <2>8 DEF AcceptInvite
<1>13. ASSUME NEW s \in Session, Logout(s) PROVE Owners'
    BY <1>13, <1>q, <1>m, <1>x, <1>l DEF Logout
<1>14. ASSUME NEW s \in Session, LogoutEverywhere(s) PROVE Owners'
    BY <1>14, <1>q, <1>m, <1>x, <1>l DEF LogoutEverywhere
<1>15. ASSUME NEW i \in Invite, NEW o \in Org, NEW a \in User, NEW u \in User, NEW role \in Role,
              CreateInvite(i, o, a, u, role)
       PROVE  Owners'
    BY <1>15, <1>q, <1>m, <1>x, <1>l DEF CreateInvite
<1>16. ASSUME NEW i \in Invite, NEW a \in User, RevokeInvite(i, a) PROVE Owners'
    BY <1>16, <1>q, <1>m, <1>x, <1>l DEF RevokeInvite
<1>17. ASSUME NEW i \in Invite, ExpireInvite(i) PROVE Owners'
    BY <1>17, <1>q, <1>m, <1>x, <1>l DEF ExpireInvite
<1>18. ASSUME NEW o \in Org, NEW a \in User, NEW t \in User, NEW role \in Role,
              ChangeRole(o, a, t, role)
       PROVE  Owners'
    <2>1. member' = [member EXCEPT ![o][t].role = role] /\ request' = request /\ txn' = txn
            /\ Belongs(o, t) /\ ~OrganizationLocked(o)
        BY <1>18 DEF ChangeRole, MayMutate
    <2>2. CASE role = "OWNER"
        <3>1. \A p \in Org, v \in User : /\ member'[p][v].status = member[p][v].status
                                         /\ member[p][v].role = "OWNER" => member'[p][v].role = "OWNER"
            BY <1>t, <2>1, <2>2 DEF MemberType
        <3>2. Growing BY <3>1 DEF Belongs, ActiveOwner, Active, Founded
        <3> QED BY <1>q, <1>x, <1>l, <2>1, <3>2
    <2>3. CASE role # "OWNER"
        <3>1. ~LastOwner(o, t) BY <1>18, <2>3 DEF ChangeRole
        <3>2. \E u \in User : u # t /\ ActiveOwner(o, u) BY <2>1, <3>1, AnotherOwner
        <3>3. \A p \in Org, v \in User : p # o \/ v # t => member'[p][v] = member[p][v]
            BY <1>t, <2>1
        <3>4. \A x \in txn' : x.kind # "RESET" => x \in txn /\ x.org # o
            BY <2>1 DEF OrganizationLocked
        <3> QED BY <2>1, <3>2, <3>3, <3>4, OwnerRemains
    <2> QED BY <2>2, <2>3
<1>19. ASSUME NEW o \in Org, NEW a \in User, NEW t \in User, Reactivate(o, a, t) PROVE Owners'
    <2>1. member' = [member EXCEPT ![o][t].status = "ACTIVE"] /\ member[o][t].status = "SUSPENDED"
        BY <1>19 DEF Reactivate
    <2>2. \A p \in Org, v \in User :
            /\ member'[p][v].role = member[p][v].role
            /\ member'[p][v].status = member[p][v].status
                 \/ (member[p][v].status = "SUSPENDED" /\ member'[p][v].status = "ACTIVE")
        BY <1>t, <2>1 DEF MemberType
    <2>3. Growing BY <2>2 DEF Belongs, ActiveOwner, Active, Founded
    <2> QED BY <1>19, <1>q, <1>x, <1>l, <2>3 DEF Reactivate
<1>20. ASSUME NEW kind \in {"SUSPEND", "REMOVE"}, NEW o \in Org, NEW a \in User, NEW t \in User,
              BeginEnd(kind, o, a, t)
       PROVE  Owners'
    <2> DEFINE rows == {s \in Session : session[s].org = o /\ session[s].user = t /\ Open(s)}
               new == [kind |-> kind, org |-> o, user |-> t, token |-> None, seen |-> Snapshot(rows)]
    <2>1. txn' = txn \cup {new} /\ member' = member /\ request' = request
            /\ Belongs(o, t) /\ ~OrganizationLocked(o) /\ ~LastOwner(o, t)
        BY <1>20 DEF BeginEnd, MayMutate
    <2>2. new.org = o /\ new.user = t OBVIOUS
    <2>3. \E u \in User : u # t /\ ActiveOwner(o, u) BY <2>1, AnotherOwner
    <2> HIDE DEF new
    <2>4. \A x \in Ends' : x = new \/ (x \in Ends /\ x.org # o)
        BY <2>1 DEF Ends, OrganizationLocked
    <2>5. AlwaysAnOwner' /\ AcceptancesAreFounded'
        BY <2>1 DEF IInv, Owners, AlwaysAnOwner, AcceptancesAreFounded, Founded, Belongs,
                    ActiveOwner, Active
    <2>6. OneEndAtATime' BY <2>2, <2>4 DEF IInv, Owners, OneEndAtATime
    <2>7. EndsLeaveAnOwner'
        BY <2>1, <2>2, <2>3, <2>4
        DEF IInv, Owners, EndsLeaveAnOwner, Belongs, ActiveOwner, Active
    <2> QED BY <2>5, <2>6, <2>7 DEF Owners
<1>21. ASSUME NEW t \in ResetToken, NEW u \in User, IssueReset(t, u) PROVE Owners'
    BY <1>21, <1>q, <1>m, <1>x, <1>l DEF IssueReset
<1>22. ASSUME NEW t \in ResetToken, ExpireReset(t) PROVE Owners'
    BY <1>22, <1>q, <1>m, <1>x, <1>l DEF ExpireReset
<1>23. ASSUME NEW t \in ResetToken, BeginReset(t) PROVE Owners'
    <2>1. NoNewEnds BY <1>23 DEF BeginReset
    <2> QED BY <1>23, <1>q, <1>m, <1>l, <2>1 DEF BeginReset
<1>24. ASSUME NEW x \in txn, CommitSuspend(x) PROVE Owners'
    <2>1. x \in Ends BY <1>24 DEF CommitSuspend, Ends
    <2>2. x.org \in Org /\ x.user \in User BY <1>t, <2>1 DEF Ends
    <2>3. \E u \in User : u # x.user /\ ActiveOwner(x.org, u)
        BY <2>1 DEF IInv, Owners, EndsLeaveAnOwner
    <2>4. \A p \in Org, v \in User : p # x.org \/ v # x.user => member'[p][v] = member[p][v]
        BY <1>24, <1>t, <2>2 DEF CommitSuspend
    <2>5. \A y \in txn' : y.kind # "RESET" => y \in txn /\ y.org # x.org
        BY <1>24, <2>1 DEF CommitSuspend, IInv, Owners, OneEndAtATime, Ends
    <2> QED BY <1>24, <2>2, <2>3, <2>4, <2>5, OwnerRemains DEF CommitSuspend
<1>25. ASSUME NEW x \in txn, CommitRemove(x) PROVE Owners'
    <2>1. x \in Ends BY <1>25 DEF CommitRemove, Ends
    <2>2. x.org \in Org /\ x.user \in User BY <1>t, <2>1 DEF Ends
    <2>3. \E u \in User : u # x.user /\ ActiveOwner(x.org, u)
        BY <2>1 DEF IInv, Owners, EndsLeaveAnOwner
    <2>4. \A p \in Org, v \in User : p # x.org \/ v # x.user => member'[p][v] = member[p][v]
        BY <1>25, <1>t, <2>2 DEF CommitRemove
    <2>5. \A y \in txn' : y.kind # "RESET" => y \in txn /\ y.org # x.org
        BY <1>25, <2>1 DEF CommitRemove, IInv, Owners, OneEndAtATime, Ends
    <2> QED BY <1>25, <2>2, <2>3, <2>4, <2>5, OwnerRemains DEF CommitRemove
<1>26. ASSUME NEW x \in txn, CommitReset(x) PROVE Owners'
    <2>1. NoNewEnds BY <1>26 DEF CommitReset
    <2> QED BY <1>26, <1>q, <1>m, <1>l, <2>1 DEF CommitReset
<1>27. ASSUME NEW x \in txn, Abort(x) PROVE Owners'
    <2>1. NoNewEnds BY <1>27 DEF Abort
    <2> QED BY <1>27, <1>q, <1>m, <1>l, <2>1 DEF Abort
<1> QED
    BY <1>1, <1>2, <1>3, <1>4, <1>5, <1>6, <1>7, <1>8, <1>9, <1>10, <1>11, <1>12, <1>13,
       <1>14, <1>15, <1>16, <1>17, <1>18, <1>19, <1>20, <1>21, <1>22, <1>23, <1>24, <1>25,
       <1>26, <1>27
    DEF Next

-----------------------------------------------------------------------------
(* Invitations.                                                              *)

MatchingAcceptance(r) ==
    /\ request[r].invite \in Invite
    /\ invite[request[r].invite].state \in {"PENDING", "SPENT"}
    /\ Pending(request[r].invite) =>
          /\ invite[request[r].invite].org = request[r].org
          /\ invite[request[r].invite].email = request[r].user

Stands(i) ==
    /\ Grants(invite[i].org, invite[i].issuer, invite[i].role)
    /\ ~Belongs(invite[i].org, invite[i].email)

\* A step that issues no invitation, and leaves those still pending standing.
LEMMA InvitesKept ==
    ASSUME IInv,
           \A i \in Invite : invite'[i] = invite[i] \/ invite'[i].state = "SPENT",
           \A i \in Invite : Pending(i)' => Stands(i)',
           \A r \in Request : request'[r].pc = "accepting" =>
                request'[r] = request[r] \/ MatchingAcceptance(r)'
    PROVE  Invitations'
<1>i. PendingInvitesStand /\ PendingAreWhole /\ AcceptancesMatch BY DEF IInv, Invitations
<1>p. \A i \in Invite : Pending(i)' => Pending(i) /\ invite'[i] = invite[i] BY DEF Pending
<1>1. PendingInvitesStand'
    <2> SUFFICES ASSUME NEW i \in Invite, Pending(i)'
                 PROVE  /\ Stands(i)'
                        /\ \A j \in Invite :
                              Pending(j)' /\ invite'[j].org = invite'[i].org
                                /\ invite'[j].email = invite'[i].email => j = i
        BY DEF PendingInvitesStand, Stands
    <2> QED BY <1>i, <1>p DEF PendingInvitesStand
<1>2. PendingAreWhole' BY <1>i, <1>p DEF PendingAreWhole
<1>3. AcceptancesMatch'
    <2> SUFFICES ASSUME NEW r \in Request, request'[r].pc = "accepting" PROVE MatchingAcceptance(r)'
        BY DEF AcceptancesMatch, MatchingAcceptance
    <2>1. CASE request'[r] = request[r]
        <3>1. MatchingAcceptance(r) BY <1>i, <2>1 DEF AcceptancesMatch, MatchingAcceptance
        <3>2. request[r].invite \in Invite BY <3>1 DEF MatchingAcceptance
        <3>3. invite'[request[r].invite] = invite[request[r].invite]
                \/ invite'[request[r].invite].state = "SPENT"
            BY <3>2
        <3> QED BY <2>1, <3>1, <3>3 DEF MatchingAcceptance, Pending
    <2> QED BY <2>1
<1> QED BY <1>1, <1>2, <1>3 DEF Invitations

LEMMA RevokedInvitesAreSpent ==
    ASSUME NEW rows, invite' = RevokedInvites(rows)
    PROVE  /\ \A i \in Invite : invite'[i] = invite[i] \/ invite'[i].state = "SPENT"
           /\ \A i \in Invite : Pending(i)' => i \notin rows /\ Pending(i) /\ invite'[i] = invite[i]
BY DEF RevokedInvites, Pending, SpentInvite, NoInvite

LEMMA NextKeepsInvitations == ASSUME IInv, Next PROVE Invitations'
<1> DEFINE OnlySpent == \A i \in Invite : invite'[i] = invite[i] \/ invite'[i].state = "SPENT"
           StillStanding == \A i \in Invite : Pending(i)' => Stands(i)'
           SameAcceptances == \A r \in Request : request'[r].pc = "accepting" =>
                request'[r] = request[r] \/ MatchingAcceptance(r)'
<1>q. OnlySpent /\ StillStanding /\ SameAcceptances => Invitations' BY InvitesKept
<1>t. /\ member \in [Org -> [User -> MemberType]] /\ session \in [Session -> SessionType]
      /\ invite \in [Invite -> InviteType] /\ request \in [Request -> RequestType]
      /\ \A x \in txn : x.kind \in {"SUSPEND", "REMOVE", "RESET"} /\ x.user \in User
                        /\ (x.kind # "RESET" => x.org \in Org)
    BY DEF IInv, Shapes, TypeOK, MemberType, SessionType, RequestType, InviteType,
           EndsAreOfMembers, Ends
<1>w. \A i \in Invite : Pending(i) =>
        /\ invite[i].org \in Org /\ invite[i].email \in User
        /\ invite[i].issuer \in User /\ invite[i].role \in Role /\ Stands(i)
    BY DEF IInv, Invitations, PendingAreWhole, PendingInvitesStand, Stands
<1>i. Idle.pc # "accepting" BY DEF Idle
<1>l. request' = request => SameAcceptances OBVIOUS
<1>r. ASSUME NEW r \in Request, NEW new, request' = [request EXCEPT ![r] = new],
             new.pc # "accepting"
      PROVE  SameAcceptances
    BY <1>r, <1>t
<1>s. invite' = invite => OnlySpent OBVIOUS
<1>m. invite' = invite /\ member' = member => StillStanding
    BY <1>w DEF Pending, Stands, Grants, Belongs, Active
<1>v. ASSUME NEW rows, invite' = RevokedInvites(rows)
      PROVE  /\ OnlySpent /\ member' = member => StillStanding
             /\ OnlySpent
             /\ \A i \in Invite : Pending(i)' => i \notin rows /\ Pending(i) /\ invite'[i] = invite[i]
    BY <1>v, <1>w, RevokedInvitesAreSpent DEF Stands, Grants, Belongs, Active
\* One membership changes, and no invitation still pending concerns it.
<1>h. ASSUME NEW o \in Org, NEW t \in User,
             \A p \in Org, v \in User : p # o \/ v # t => member'[p][v] = member[p][v],
             \A i \in Invite : Pending(i)' =>
                /\ Pending(i) /\ invite'[i] = invite[i]
                /\ invite[i].org = o =>
                      /\ invite[i].email = t => ~Belongs(o, t)'
                      /\ invite[i].issuer = t => Grants(o, t, invite[i].role)'
      PROVE  StillStanding
    <2> SUFFICES ASSUME NEW i \in Invite, Pending(i)' PROVE Stands(i)' OBVIOUS
    <2>1. /\ Pending(i) /\ invite'[i] = invite[i]
          /\ invite[i].org = o =>
                /\ invite[i].email = t => ~Belongs(o, t)'
                /\ invite[i].issuer = t => Grants(o, t, invite[i].role)'
        BY <1>h
    <2>2. /\ invite[i].org \in Org /\ invite[i].email \in User
          /\ invite[i].issuer \in User /\ Stands(i)
        BY <1>w, <2>1
    <2>3. Grants(invite[i].org, invite[i].issuer, invite[i].role)'
        <3>1. CASE invite[i].org = o /\ invite[i].issuer = t
            BY <2>1, <3>1 DEF Grants, Active
        <3>2. CASE ~(invite[i].org = o /\ invite[i].issuer = t)
            <4>1. member'[invite[i].org][invite[i].issuer] = member[invite[i].org][invite[i].issuer]
                BY <1>h, <2>2, <3>2
            <4> QED BY <2>1, <2>2, <4>1 DEF Stands, Grants, Active
        <3> QED BY <3>1, <3>2
    <2>4. ~Belongs(invite[i].org, invite[i].email)'
        <3>1. CASE invite[i].org = o /\ invite[i].email = t
            BY <2>1, <3>1 DEF Belongs
        <3>2. CASE ~(invite[i].org = o /\ invite[i].email = t)
            <4>1. member'[invite[i].org][invite[i].email] = member[invite[i].org][invite[i].email]
                BY <1>h, <2>2, <3>2
            <4> QED BY <2>1, <2>2, <4>1 DEF Stands, Belongs
        <3> QED BY <3>1, <3>2
    <2> QED BY <2>3, <2>4 DEF Stands
<1>f. \A o \in Org : ~Founded(o) => \A i \in Invite : Pending(i) => invite[i].org # o
    BY <1>w DEF Stands, Grants, Active, Founded, Belongs
<1>1. ASSUME NEW r \in Request, NEW u \in User, NEW o \in Org, Bootstrap(r, u, o) PROVE Invitations'
    <2> DEFINE new == [Idle EXCEPT !.pc = "granted", !.user = u, !.org = o,
                                  !.version = 1, !.password = 1]
    <2>1. new.pc = "granted" BY DEF Idle
    <2>2. request' = [request EXCEPT ![r] = new] /\ invite' = invite /\ ~Founded(o)
            /\ member' = [member EXCEPT ![o][u] = Joined("OWNER")]
        BY <1>1 DEF Bootstrap
    <2> HIDE DEF new
    <2>3. SameAcceptances BY <1>r, <2>1, <2>2
    <2>4. \A p \in Org, v \in User : p # o \/ v # u => member'[p][v] = member[p][v]
        BY <1>t, <2>2
    <2>5. \A i \in Invite : Pending(i)' => Pending(i) /\ invite'[i] = invite[i] /\ invite[i].org # o
        BY <1>f, <2>2 DEF Pending
    <2>6. StillStanding BY <1>h, <2>4, <2>5
    <2> QED BY <1>q, <1>s, <2>2, <2>3, <2>6
<1>2. ASSUME NEW u \in User, NEW o \in Org, RecoverOwner(u, o) PROVE Invitations'
    <2> DEFINE rows == {i \in Invite : Pending(i) /\ invite[i].org = o /\ invite[i].email = u}
    <2>1. invite' = RevokedInvites(rows) /\ request' = request
            /\ member' = [member EXCEPT ![o][u] = Joined("OWNER")]
        BY <1>2 DEF RecoverOwner
    <2>2. OnlySpent
            /\ \A i \in Invite : Pending(i)' => i \notin rows /\ Pending(i) /\ invite'[i] = invite[i]
        BY <1>v, <2>1
    <2>3. \A p \in Org, v \in User : p # o \/ v # u => member'[p][v] = member[p][v]
        BY <1>t, <2>1
    <2>4. member'[o][u].status = "ACTIVE" /\ member'[o][u].role = "OWNER"
        BY <1>t, <2>1 DEF Joined
    <2>5. \A i \in Invite : Pending(i)' /\ invite[i].org = o =>
            invite[i].email # u /\ Grants(o, u, invite[i].role)'
        BY <2>2, <2>4 DEF Grants, Active, CanGrant
    <2>6. StillStanding BY <1>h, <2>2, <2>3, <2>5
    <2> QED BY <1>q, <1>l, <2>1, <2>2, <2>6
<1>3. ASSUME NEW s \in Session, NEW o \in Org, CreateOrganization(s, o) PROVE Invitations'
    <2>1. Open(s) BY <1>3 DEF CreateOrganization, Resolves
    <2> DEFINE u == session[s].user
    <2>2. u \in User BY <2>1 DEF IInv, Passwords, SessionsAreProven, Proven
    <2>3. member' = [member EXCEPT ![o][u] = Joined("OWNER")] /\ invite' = invite
            /\ request' = request /\ ~Founded(o)
        BY <1>3 DEF CreateOrganization
    <2> HIDE DEF u
    <2>4. \A p \in Org, v \in User : p # o \/ v # u => member'[p][v] = member[p][v]
        BY <1>t, <2>3
    <2>5. \A i \in Invite : Pending(i)' => Pending(i) /\ invite'[i] = invite[i] /\ invite[i].org # o
        BY <1>f, <2>3 DEF Pending
    <2>6. StillStanding BY <1>h, <2>2, <2>4, <2>5
    <2> QED BY <1>q, <1>l, <1>s, <2>3, <2>6
<1>4. ASSUME NEW r \in Request, NEW u \in User, VerifyPassword(r, u) PROVE Invitations'
    <2> DEFINE new == [Idle EXCEPT !.pc = "verified", !.user = u,
                                  !.version = account[u].version,
                                  !.password = account[u].password]
    <2>1. new.pc = "verified" BY DEF Idle
    <2>2. request' = [request EXCEPT ![r] = new] BY <1>4 DEF VerifyPassword
    <2> HIDE DEF new
    <2>3. SameAcceptances BY <1>r, <2>1, <2>2
    <2> QED BY <1>4, <1>q, <1>m, <1>s, <2>3 DEF VerifyPassword
<1>5. ASSUME NEW r \in Request, NEW o \in Org, SelectMembership(r, o) PROVE Invitations'
    <2> DEFINE new == [request[r] EXCEPT !.pc = "granted", !.org = o]
    <2>1. new.pc = "granted" BY <1>t DEF RequestType
    <2>2. request' = [request EXCEPT ![r] = new] BY <1>5 DEF SelectMembership
    <2> HIDE DEF new
    <2>3. SameAcceptances BY <1>r, <2>1, <2>2
    <2> QED BY <1>5, <1>q, <1>m, <1>s, <2>3 DEF SelectMembership
<1>6. ASSUME NEW r \in Request, CheckSession(r) PROVE Invitations'
    <2> DEFINE new == [request[r] EXCEPT !.pc = "opening"]
    <2>1. new.pc = "opening" BY <1>t DEF RequestType
    <2>2. request' = [request EXCEPT ![r] = new] BY <1>6 DEF CheckSession
    <2> HIDE DEF new
    <2>3. SameAcceptances BY <1>r, <2>1, <2>2
    <2> QED BY <1>6, <1>q, <1>m, <1>s, <2>3 DEF CheckSession
<1>7. ASSUME NEW r \in Request, MoveSession(r) PROVE Invitations'
    <2>1. SameAcceptances BY <1>7, <1>r, <1>i DEF MoveSession
    <2> QED BY <1>7, <1>q, <1>m, <1>s, <2>1 DEF MoveSession
<1>8. ASSUME NEW r \in Request, NEW s \in Session, OpenSession(r, s) PROVE Invitations'
    <2>1. SameAcceptances BY <1>8, <1>r, <1>i DEF OpenSession
    <2> QED BY <1>8, <1>q, <1>m, <1>s, <2>1 DEF OpenSession
<1>9. ASSUME NEW r \in Request, NEW s \in Session, NEW o \in Org, CheckSwitch(r, s, o)
      PROVE  Invitations'
    <2> DEFINE new == [Idle EXCEPT !.pc = "moving", !.user = session[s].user, !.org = o,
                                  !.version = session[s].version, !.session = s]
    <2>1. new.pc = "moving" BY DEF Idle
    <2>2. request' = [request EXCEPT ![r] = new] BY <1>9 DEF CheckSwitch
    <2> HIDE DEF new
    <2>3. SameAcceptances BY <1>r, <2>1, <2>2
    <2> QED BY <1>9, <1>q, <1>m, <1>s, <2>3 DEF CheckSwitch
<1>10. ASSUME NEW r \in Request, Abandon(r) PROVE Invitations'
    <2>1. SameAcceptances BY <1>10, <1>r, <1>i DEF Abandon
    <2> QED BY <1>10, <1>q, <1>m, <1>s, <2>1 DEF Abandon
<1>11. ASSUME NEW r \in Request, NEW i \in Invite, NEW s \in Session \cup {None},
              PresentInvite(r, i, s)
       PROVE  Invitations'
    <2> DEFINE u == invite[i].email
               o == invite[i].org
               new == [Idle EXCEPT !.pc = "accepting", !.user = u, !.org = o,
                                  !.version = account[u].version,
                                  !.password = account[u].password,
                                  !.session = s, !.invite = i]
    <2>1. request' = [request EXCEPT ![r] = new] /\ member' = member /\ invite' = invite
        BY <1>11 DEF PresentInvite
    <2>2. new.user = u /\ new.org = o /\ new.invite = i BY DEF Idle
    <2>3. Pending(i) BY <1>11 DEF PresentInvite, InviteAvailable
    <2> HIDE DEF new
    <2>4. MatchingAcceptance(r)'
        BY <1>t, <2>1, <2>2, <2>3 DEF MatchingAcceptance, Pending
    <2>5. SameAcceptances BY <1>t, <2>1, <2>4
    <2> QED BY <1>q, <1>m, <1>s, <2>1, <2>5
<1>12. ASSUME NEW r \in Request, AcceptInvite(r) PROVE Invitations'
    <2> DEFINE q == request[r]
               known == IF q.version = 0 THEN [password |-> 1, version |-> 1] ELSE account[q.user]
               new == [q EXCEPT !.pc = "granted", !.version = known.version,
                                !.password = known.password, !.invite = None]
    <2>1. q \in RequestType /\ q.pc = "accepting" BY <1>12, <1>t DEF AcceptInvite
    <2>2. q.user \in User /\ q.org \in Org
        BY <2>1 DEF IInv, Owners, AcceptancesAreFounded
    <2>3. /\ member' = [member EXCEPT ![q.org][q.user] = Joined(invite[q.invite].role)]
          /\ request' = [request EXCEPT ![r] = IF q.session # None THEN Idle ELSE new]
          /\ invite' = RevokedInvites({q.invite})
          /\ Pending(q.invite) /\ ~Belongs(q.org, q.user)
        BY <1>12 DEF AcceptInvite, InviteAvailable
    <2>4. q.invite \in Invite /\ invite[q.invite].org = q.org /\ invite[q.invite].email = q.user
        BY <2>1, <2>3 DEF IInv, Invitations, AcceptancesMatch
    <2>5. new.pc # "accepting" BY <2>1 DEF RequestType
    <2> HIDE DEF new, q
    <2>6. SameAcceptances BY <1>r, <1>i, <2>3, <2>5
    <2>7. OnlySpent
            /\ \A i \in Invite : Pending(i)' => i # q.invite /\ Pending(i) /\ invite'[i] = invite[i]
        BY <1>v, <2>3
    <2>8. \A p \in Org, v \in User : p # q.org \/ v # q.user => member'[p][v] = member[p][v]
        BY <1>t, <2>3
    <2>9. \A i \in Invite : Pending(i)' /\ invite[i].org = q.org => invite[i].email # q.user
        BY <2>3, <2>4, <2>7 DEF IInv, Invitations, PendingInvitesStand
    <2>10. \A i \in Invite : Pending(i)' /\ invite[i].org = q.org => invite[i].issuer # q.user
        BY <1>w, <2>3, <2>7 DEF Stands, Grants, Active, Belongs
    <2>11. StillStanding BY <1>h, <2>2, <2>7, <2>8, <2>9, <2>10
    <2> QED BY <1>q, <2>6, <2>7, <2>11
<1>13. ASSUME NEW s \in Session, Logout(s) PROVE Invitations'
    BY <1>13, <1>q, <1>m, <1>s, <1>l DEF Logout
<1>14. ASSUME NEW s \in Session, LogoutEverywhere(s) PROVE Invitations'
    BY <1>14, <1>q, <1>m, <1>s, <1>l DEF LogoutEverywhere
<1>15. ASSUME NEW i \in Invite, NEW o \in Org, NEW a \in User, NEW u \in User, NEW role \in Role,
              CreateInvite(i, o, a, u, role)
       PROVE  Invitations'
    <2> DEFINE new == [org |-> o, email |-> u, role |-> role, issuer |-> a, state |-> "PENDING"]
    <2>1. /\ invite' = [invite EXCEPT ![i] = new] /\ invite[i] = NoInvite
          /\ Grants(o, a, role) /\ ~Belongs(o, u) /\ request' = request /\ member' = member
          /\ ~\E j \in Invite : Pending(j) /\ invite[j].org = o /\ invite[j].email = u
        BY <1>15 DEF CreateInvite
    <2>2. new.org = o /\ new.email = u /\ new.role = role /\ new.issuer = a /\ new.state = "PENDING"
        OBVIOUS
    <2> HIDE DEF new
    <2>3. invite'[i] = new /\ \A j \in Invite : j # i => invite'[j] = invite[j] BY <1>t, <2>1
    <2>4. \A j \in Invite : Pending(j)' => j = i \/ (Pending(j) /\ invite'[j] = invite[j])
        BY <2>3 DEF Pending
    <2>5. Stands(i)' BY <2>1, <2>2, <2>3 DEF Stands, Grants, Active, Belongs
    <2>6. StillStanding
        BY <1>w, <2>1, <2>4, <2>5 DEF Stands, Grants, Active, Belongs
    <2>7. \A j \in Invite : Pending(j) => ~(invite[j].org = o /\ invite[j].email = u) BY <2>1
    <2>8. PendingInvitesStand'
        <3> SUFFICES ASSUME NEW j \in Invite, Pending(j)'
                     PROVE  /\ Stands(j)'
                            /\ \A k \in Invite :
                                  Pending(k)' /\ invite'[k].org = invite'[j].org
                                    /\ invite'[k].email = invite'[j].email => k = j
            BY DEF PendingInvitesStand, Stands
        <3>1. \A k, l \in Invite : Pending(k) /\ Pending(l) /\ invite[k].org = invite[l].org
                /\ invite[k].email = invite[l].email => k = l
            BY DEF IInv, Invitations, PendingInvitesStand
        <3> QED BY <2>2, <2>3, <2>4, <2>6, <2>7, <3>1
    <2>9. PendingAreWhole' BY <1>w, <2>2, <2>3, <2>4 DEF PendingAreWhole
    <2>10. AcceptancesMatch'
        <3> SUFFICES ASSUME NEW r \in Request, request[r].pc = "accepting"
                     PROVE  MatchingAcceptance(r)'
            BY <2>1 DEF AcceptancesMatch, MatchingAcceptance
        <3>1. MatchingAcceptance(r) BY DEF IInv, Invitations, AcceptancesMatch, MatchingAcceptance
        <3>2. request[r].invite # i
            BY <2>1, <3>1 DEF MatchingAcceptance, NoInvite
        <3> QED BY <2>1, <2>3, <3>1, <3>2 DEF MatchingAcceptance, Pending
    <2> QED BY <2>8, <2>9, <2>10 DEF Invitations
<1>16. ASSUME NEW i \in Invite, NEW a \in User, RevokeInvite(i, a) PROVE Invitations'
    BY <1>16, <1>q, <1>v, <1>l DEF RevokeInvite
<1>17. ASSUME NEW i \in Invite, ExpireInvite(i) PROVE Invitations'
    BY <1>17, <1>q, <1>v, <1>l DEF ExpireInvite
\* A member who changes loses the invitations issued, and had none to accept.
<1>e. ASSUME NEW o \in Org, NEW t \in User, invite' = WithoutInvitesOf(o, t), request' = request,
             \A p \in Org, v \in User : p # o \/ v # t => member'[p][v] = member[p][v],
             Belongs(o, t)
      PROVE  Invitations'
    <2> DEFINE rows == {i \in Invite : Pending(i) /\ invite[i].org = o /\ invite[i].issuer = t}
    <2>1. invite' = RevokedInvites(rows) BY <1>e DEF WithoutInvitesOf
    <2>2. OnlySpent
            /\ \A i \in Invite : Pending(i)' => i \notin rows /\ Pending(i) /\ invite'[i] = invite[i]
        BY <1>v, <2>1
    <2>3. \A i \in Invite : Pending(i)' /\ invite[i].org = o =>
            invite[i].email # t /\ invite[i].issuer # t
        BY <1>e, <1>w, <2>2 DEF Stands
    <2>4. StillStanding BY <1>e, <1>h, <2>2, <2>3
    <2> QED BY <1>e, <1>q, <1>l, <2>2, <2>4
<1>18. ASSUME NEW o \in Org, NEW a \in User, NEW t \in User, NEW role \in Role,
              ChangeRole(o, a, t, role)
       PROVE  Invitations'
    <2>1. \A p \in Org, v \in User : p # o \/ v # t => member'[p][v] = member[p][v]
        BY <1>18, <1>t DEF ChangeRole
    <2> QED BY <1>18, <1>e, <2>1 DEF ChangeRole, MayMutate
<1>19. ASSUME NEW o \in Org, NEW a \in User, NEW t \in User, Reactivate(o, a, t) PROVE Invitations'
    <2>1. member' = [member EXCEPT ![o][t].status = "ACTIVE"] /\ member[o][t].status = "SUSPENDED"
            /\ invite' = invite /\ request' = request
        BY <1>19 DEF Reactivate
    <2>2. \A p \in Org, v \in User : p # o \/ v # t => member'[p][v] = member[p][v]
        BY <1>t, <2>1
    <2>3. \A i \in Invite : Pending(i) /\ invite[i].org = o =>
            invite[i].email # t /\ invite[i].issuer # t
        BY <1>w, <2>1 DEF Stands, Grants, Active, Belongs
    <2>4. \A i \in Invite : Pending(i)' => Pending(i) /\ invite'[i] = invite[i]
        BY <2>1 DEF Pending
    <2>5. StillStanding BY <1>h, <2>2, <2>3, <2>4
    <2> QED BY <1>q, <1>s, <1>l, <2>1, <2>5
<1>20. ASSUME NEW kind \in {"SUSPEND", "REMOVE"}, NEW o \in Org, NEW a \in User, NEW t \in User,
              BeginEnd(kind, o, a, t)
       PROVE  Invitations'
    BY <1>20, <1>q, <1>m, <1>s, <1>l DEF BeginEnd
<1>21. ASSUME NEW t \in ResetToken, NEW u \in User, IssueReset(t, u) PROVE Invitations'
    BY <1>21, <1>q, <1>m, <1>s, <1>l DEF IssueReset
<1>22. ASSUME NEW t \in ResetToken, ExpireReset(t) PROVE Invitations'
    BY <1>22, <1>q, <1>m, <1>s, <1>l DEF ExpireReset
<1>23. ASSUME NEW t \in ResetToken, BeginReset(t) PROVE Invitations'
    BY <1>23, <1>q, <1>m, <1>s, <1>l DEF BeginReset
<1>24. ASSUME NEW x \in txn, CommitSuspend(x) PROVE Invitations'
    <2>1. x \in Ends BY <1>24 DEF CommitSuspend, Ends
    <2>2. x.org \in Org /\ x.user \in User BY <1>t, <2>1 DEF Ends
    <2>3. Belongs(x.org, x.user) BY <2>1 DEF IInv, Owners, EndsLeaveAnOwner
    <2>4. \A p \in Org, v \in User : p # x.org \/ v # x.user => member'[p][v] = member[p][v]
        BY <1>24, <1>t, <2>2 DEF CommitSuspend
    <2> QED BY <1>24, <1>e, <2>2, <2>3, <2>4 DEF CommitSuspend
<1>25. ASSUME NEW x \in txn, CommitRemove(x) PROVE Invitations'
    <2>1. x \in Ends BY <1>25 DEF CommitRemove, Ends
    <2>2. x.org \in Org /\ x.user \in User BY <1>t, <2>1 DEF Ends
    <2>3. Belongs(x.org, x.user) BY <2>1 DEF IInv, Owners, EndsLeaveAnOwner
    <2>4. \A p \in Org, v \in User : p # x.org \/ v # x.user => member'[p][v] = member[p][v]
        BY <1>25, <1>t, <2>2 DEF CommitRemove
    <2> QED BY <1>25, <1>e, <2>2, <2>3, <2>4 DEF CommitRemove
<1>26. ASSUME NEW x \in txn, CommitReset(x) PROVE Invitations'
    BY <1>26, <1>q, <1>m, <1>s, <1>l DEF CommitReset
<1>27. ASSUME NEW x \in txn, Abort(x) PROVE Invitations'
    BY <1>27, <1>q, <1>m, <1>s, <1>l DEF Abort
<1> QED
    BY <1>1, <1>2, <1>3, <1>4, <1>5, <1>6, <1>7, <1>8, <1>9, <1>10, <1>11, <1>12, <1>13,
       <1>14, <1>15, <1>16, <1>17, <1>18, <1>19, <1>20, <1>21, <1>22, <1>23, <1>24, <1>25,
       <1>26, <1>27
    DEF Next

-----------------------------------------------------------------------------
(* The invariant, and the properties that follow.                            *)

LEMMA InitIInv == Init => IInv
<1> SUFFICES ASSUME Init PROVE IInv OBVIOUS
<1>1. Shapes BY InitShapes
<1>2. Passwords
    BY DEF Init, Passwords, SessionsAreProven, LoginsAreProven, Open, NoSession, Idle
<1>3. Owners
    BY DEF Init, Owners, AlwaysAnOwner, Founded, Belongs, NoMember, EndsLeaveAnOwner, Ends,
           OneEndAtATime, AcceptancesAreFounded, Idle
<1>4. Invitations
    BY DEF Init, Invitations, PendingInvitesStand, PendingAreWhole, Pending, NoInvite,
           AcceptancesMatch, Idle
<1> QED BY <1>1, <1>2, <1>3, <1>4 DEF IInv

LEMMA NextIInv == IInv /\ [Next]_vars => IInv'
<1> SUFFICES ASSUME IInv, [Next]_vars PROVE IInv' OBVIOUS
<1>1. CASE Next
    BY <1>1, NextKeepsShapes, NextKeepsPasswords, NextKeepsOwners, NextKeepsInvitations DEF IInv
<1>2. CASE UNCHANGED vars
    <2>1. Shapes'
        BY <1>2 DEF IInv, vars, Shapes, TypeOK, EndsAreOfMembers, Ends, AccountsAreWhole, LinksNameUsers
    <2>2. Passwords'
        BY <1>2 DEF IInv, vars, Passwords, SessionsAreProven, LoginsAreProven, Open, Proven
    <2>3. Owners'
        BY <1>2 DEF IInv, vars, Owners, AlwaysAnOwner, Founded, Belongs, ActiveOwner, Active,
                    EndsLeaveAnOwner, Ends, OneEndAtATime, AcceptancesAreFounded
    <2>4. Invitations'
        BY <1>2 DEF IInv, vars, Invitations, PendingInvitesStand, PendingAreWhole, Pending,
                    AcceptancesMatch, Grants, Active, Belongs
    <2> QED BY <2>1, <2>2, <2>3, <2>4 DEF IInv
<1> QED BY <1>1, <1>2

LEMMA SpecIInv == Spec => []IInv
<1>1. Init => IInv BY InitIInv
<1>2. IInv /\ [Next]_vars => IInv' BY NextIInv
<1> QED BY <1>1, <1>2, PTL DEF Spec

(* However role changes, suspensions and removals overlap, an organization   *)
(* that has members has an active owner (team-service.ts                     *)
(* countActiveOwners under lockOrganization).                                *)
THEOREM OrganizationsKeepAnOwner == Spec => []AlwaysAnOwner
<1>1. IInv => AlwaysAnOwner BY DEF IInv, Owners
<1> QED BY <1>1, SpecIInv, PTL

(* An invitation that can still be accepted was issued by somebody who may   *)
(* still grant its role, to somebody who is not a member, and is the only one*)
(* for that address (team-service.ts revokePendingInvitesIssuedBy,           *)
(* createInvite).                                                            *)
THEOREM InvitationsStand == Spec => []PendingInvitesStand
<1>1. IInv => PendingInvitesStand BY DEF IInv, Invitations
<1> QED BY <1>1, SpecIInv, PTL

(* No login, however it overlaps password resets and global logouts, leaves  *)
(* a session that can be used with an earlier password (local-session.ts     *)
(* createSession, password-reset-service.ts completeReset).                  *)
THEOREM SessionsHoldThePresentPassword == Spec => []UsableSessionsAreCurrent
<1>1. IInv => UsableSessionsAreCurrent
    BY DEF IInv, Passwords, SessionsAreProven, Proven, UsableSessionsAreCurrent, Resolves
<1> QED BY <1>1, SpecIInv, PTL

(* Every row, request and running transaction is one of the code's.          *)
THEOREM TypeCorrect == Spec => []TypeOK
<1>1. IInv => TypeOK BY DEF IInv, Shapes
<1> QED BY <1>1, SpecIInv, PTL
=============================================================================
