--------------------------- MODULE Organizations ---------------------------
(***************************************************************************)
(* The members and the invitations of one organization                     *)
(* (backend/apps/organizations and the member views of backend/apps/users).*)
(*                                                                         *)
(* A request checks the rights of its actor, then update_membership locks  *)
(* the one row it changes, counts the active owners and saves.  An         *)
(* invitation is locked when it is accepted, and read without a lock when  *)
(* it is created and when it is revoked.                                   *)
(***************************************************************************)
EXTENDS Naturals, FiniteSets

CONSTANTS
    Users,              \* bound: accounts
    Creator,            \* the account that creates the organization
    Invitations,        \* bound: invitations that can be created
    Requests,           \* bound: requests in flight
    MaxMembers          \* max_members of the plan

VARIABLES orMember, orInvite, orReq

orVars == <<orMember, orInvite, orReq>>

-----------------------------------------------------------------------------
\* manager and viewer differ from agent in nothing that is modelled
Roles == {"agent", "admin", "owner"}
Authority == [agent |-> 1, admin |-> 4, owner |-> 5]
Invitable == {"agent", "admin"}
MemberRow == [role: Roles, status: {"none", "active", "suspended"}]
InviteRow == [status: {"none", "pending", "accepted", "revoked", "expired"}, email: Users, role: Invitable,
              accepts: 0 .. 2]
Idle == [at |-> "idle"]
Same == "same"
Changes == [at: {"asked", "counted"}, who: Users, role: Roles \cup {Same},
            status: {"active", "suspended", Same}]

MembersTypeOK ==
    /\ orMember \in [Users -> MemberRow]
    /\ orInvite \in [Invitations -> InviteRow]
    /\ \A r \in Requests : \/ orReq[r] = Idle
                           \/ orReq[r] \in Changes
                           \/ orReq[r] \in [at: {"invite"}, email: Users, role: Invitable]
                           \/ orReq[r] \in [at: {"revoke"}, invitation: Invitations]

(* create_organization: its creator is the first owner.                    *)
MembersInit ==
    /\ orMember = [u \in Users |-> IF u = Creator THEN [role |-> "owner", status |-> "active"]
                                   ELSE [role |-> "agent", status |-> "none"]]
    /\ orInvite = [i \in Invitations |-> [status |-> "none", email |-> Creator, role |-> "agent", accepts |-> 0]]
    /\ orReq = [r \in Requests |-> Idle]

Active(u) == orMember[u].status = "active"
Owners == {u \in Users : Active(u) /\ orMember[u].role = "owner"}
\* manage_team
Manages(actor) == Active(actor) /\ orMember[actor].role \in {"admin", "owner"}
MayGrant(actor, role) == Authority[role] <= Authority[orMember[actor].role]

Ask(r, what) == orReq[r] = Idle /\ orReq' = [orReq EXCEPT ![r] = what]
Answer(r) == orReq' = [orReq EXCEPT ![r] = Idle]

-----------------------------------------------------------------------------
(* Changing a member.                                                      *)

MayChange(actor, who, role) ==
    /\ Manages(actor)
    /\ orMember[who].role = "owner" => orMember[actor].role = "owner"
    /\ role # Same => MayGrant(actor, role)

(* MembershipDetailView.patch, UserDetailView.patch.                       *)
AskChange(r, actor, who, role, status) ==
    /\ orMember[who].status # "none"
    /\ MayChange(actor, who, role)
    /\ Ask(r, [at |-> "asked", who |-> who, role |-> role, status |-> status])
    /\ UNCHANGED <<orMember, orInvite>>

(* UserDetailView.delete suspends, and asks only who is not oneself.       *)
AskSuspend(r, actor, who) ==
    /\ orMember[who].status # "none"
    /\ Manages(actor) /\ actor # who
    /\ Ask(r, [at |-> "asked", who |-> who, role |-> Same, status |-> "suspended"])
    /\ UNCHANGED <<orMember, orInvite>>

Locked(u) == \E r \in Requests : orReq[r].at = "counted" /\ orReq[r].who = u

RemovesOwner(job) ==
    /\ orMember[job.who].role = "owner"
    /\ job.role \notin {Same, "owner"} \/ job.status = "suspended"

(* update_membership locks the member's row and counts the owners.         *)
CountOwners(r) ==
    LET job == orReq[r] IN
    /\ job.at = "asked"
    /\ ~Locked(job.who)
    /\ orReq' = [orReq EXCEPT ![r] = IF RemovesOwner(job) /\ Cardinality(Owners) <= 1
                                     THEN Idle ELSE [job EXCEPT !.at = "counted"]]
    /\ UNCHANGED <<orMember, orInvite>>

\* Mutant: a field the request leaves out is saved as well.
Overwritten(old, new) == new

Changed(old, new) == IF new = Same THEN old ELSE new

SaveMember(r) ==
    LET job == orReq[r] IN
    /\ job.at = "counted"
    /\ orMember' = [orMember EXCEPT ![job.who] = [role   |-> Changed(@.role, job.role),
                                                  status |-> Changed(@.status, job.status)]]
    /\ Answer(r)
    /\ UNCHANGED orInvite

(* UserListCreateView.post: a new account, at once a member.               *)
CreateMember(actor, who, role) ==
    /\ Manages(actor) /\ MayGrant(actor, role)
    /\ orMember[who].status = "none"
    /\ orMember' = [orMember EXCEPT ![who] = [role |-> role, status |-> "active"]]
    /\ UNCHANGED <<orInvite, orReq>>

-----------------------------------------------------------------------------
(* Invitations.                                                            *)

Pending == {i \in Invitations : orInvite[i].status = "pending"}
Seats == Cardinality({u \in Users : Active(u)}) + Cardinality(Pending)

(* InvitationListCreateView.post.                                          *)
InviteBegin(r, actor, email, role) ==
    /\ Manages(actor) /\ MayGrant(actor, role)
    /\ \A i \in Pending : orInvite[i].email # email
    /\ Seats < MaxMembers
    /\ Ask(r, [at |-> "invite", email |-> email, role |-> role])
    /\ UNCHANGED <<orMember, orInvite>>

InviteSave(r, i) ==
    /\ orReq[r].at = "invite"
    /\ orInvite[i].status = "none"
    /\ orInvite' = [orInvite EXCEPT ![i].status = "pending", ![i].email = orReq[r].email, ![i].role = orReq[r].role]
    /\ Answer(r)
    /\ UNCHANGED orMember

(* InvitationDetailView.patch reads the invitation and saves its status.   *)
RevokeBegin(r, actor, i) ==
    /\ Manages(actor)
    /\ orInvite[i].status = "pending"
    /\ Ask(r, [at |-> "revoke", invitation |-> i])
    /\ UNCHANGED <<orMember, orInvite>>

RevokeSave(r) ==
    /\ orReq[r].at = "revoke"
    /\ orInvite' = [orInvite EXCEPT ![orReq[r].invitation].status = "revoked"]
    /\ Answer(r)
    /\ UNCHANGED orMember

\* Mutant: an invitation that was used is accepted again.
AcceptableAgain(i) == orInvite[i].status \in {"pending", "accepted"}

Acceptable(i) == orInvite[i].status = "pending"

(* InvitationAcceptView, accept_invitation: whoever holds the address      *)
(* becomes a member with the invitation's role, a member of another role   *)
(* included.                                                               *)
Accept(i) ==
    LET invitation == orInvite[i] IN
    /\ Acceptable(i)
    /\ ~Locked(invitation.email)
    /\ orMember' = [orMember EXCEPT ![invitation.email] = [role |-> invitation.role, status |-> "active"]]
    /\ orInvite' = [orInvite EXCEPT ![i].status = "accepted", ![i].accepts = IF @ < 2 THEN @ + 1 ELSE @]
    /\ UNCHANGED orReq

(* Its seven days are over when somebody tries to accept it.               *)
Expire(i) ==
    /\ Acceptable(i)
    /\ orInvite' = [orInvite EXCEPT ![i].status = "expired"]
    /\ UNCHANGED <<orMember, orReq>>

\* bound: a request changes the role or the status, not both
MembersNext ==
    \/ \E r \in Requests, actor, who \in Users, role \in Roles : AskChange(r, actor, who, role, Same)
    \/ \E r \in Requests, actor, who \in Users, status \in {"active", "suspended"} :
           AskChange(r, actor, who, Same, status)
    \/ \E r \in Requests, actor, who \in Users : AskSuspend(r, actor, who)
    \/ \E r \in Requests : CountOwners(r) \/ SaveMember(r)
    \/ \E actor, who \in Users, role \in Roles : CreateMember(actor, who, role)
    \/ \E r \in Requests, actor, email \in Users, role \in Invitable : InviteBegin(r, actor, email, role)
    \/ \E r \in Requests, i \in Invitations : InviteSave(r, i)
    \/ \E r \in Requests, actor \in Users, i \in Invitations : RevokeBegin(r, actor, i)
    \/ \E r \in Requests : RevokeSave(r)
    \/ \E i \in Invitations : Accept(i) \/ Expire(i)

MembersSpec == MembersInit /\ [][MembersNext]_orVars

-----------------------------------------------------------------------------
(* However many times its link is opened, and whatever is done to it and   *)
(* to the member in between, an invitation makes one membership            *)
(* (organizations/services.py:74-101).                                     *)
InvitedOnce == \A i \in Invitations : orInvite[i].accepts <= 1

(* docs/architecture/client-onboarding.md:39: the last active owner cannot *)
(* be demoted or deactivated.  Two owners who demote each other lock two   *)
(* rows and each count both (organizations/services.py:104-120).           *)
OwnerRemains == Owners # {}
=============================================================================
