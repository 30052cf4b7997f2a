----------------------------- MODULE MCIdentity -----------------------------
(* Instances of the identity services for TLC.                              *)
EXTENDS Identity, TLC

CONSTANTS u1, u2, u3, o1, o2, s1, i1, i2, t1, r1

TwoUsers == {u1, u2}
ThreeUsers == {u1, u2, u3}
OneOrg == {o1}
TwoOrgs == {o1, o2}
OneSession == {s1}
OneInvite == {i1}
TwoInvites == {i1, i2}
OneToken == {t1}
OneRequest == {r1}

\* Nothing tells users, organizations or invitations apart.
Interchangeable ==
    Permutations(User) \cup Permutations(Org) \cup Permutations(Invite)
=============================================================================
