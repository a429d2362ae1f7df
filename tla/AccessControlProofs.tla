------------------------ MODULE AccessControlProofs ------------------------
(***************************************************************************)
(* Proofs about AccessControl, for any users, organizations, groups, links *)
(* and grants. What two queries decide alike they decide alike in every    *)
(* state of the right type, so the type invariant is the only one needed.  *)
(***************************************************************************)
EXTENDS AccessControl, TLAPS

USE AccessAssumption

-----------------------------------------------------------------------------
(* The type invariant, with the membership of owners.                      *)

(* What becomes of a row that is switched off, or expires. *)
LEMMA MemberOff ==
  ASSUME NEW row \in Membership
  PROVE  [row EXCEPT !.active = FALSE] \in Membership
  BY DEF Membership

LEMMA GrantExpired ==
  ASSUME NEW grant \in Grants
  PROVE  [grant EXCEPT !.expired = TRUE] \in Grants
  BY DEF Grants

LEMMA OrganizationSwitched ==
  ASSUME NEW row \in [owner : Users \union {NoUser}, active : BOOLEAN],
         NEW b \in BOOLEAN
  PROVE  [row EXCEPT !.active = b] = [owner |-> row.owner, active |-> b]
  OBVIOUS

LEMMA InitTypeOK == Init => TypeOK
  BY DEF Init, TypeOK, Membership, Visibility, Grants

(* Organizations and members are all that the invariant says more about    *)
(* than a type.                                                            *)
LEMMA CreateOrganizationTypeOK ==
  ASSUME TypeOK, NEW o \in Organizations, NEW u \in Users,
         CreateOrganization(o, u)
  PROVE  TypeOK'
  BY DEF TypeOK, CreateOrganization, Membership, Roles

LEMMA SetMemberRoleTypeOK ==
  ASSUME TypeOK, NEW o \in Organizations, NEW u \in Users,
         SetMemberRole(o, u)
  PROVE  TypeOK'
  BY DEF TypeOK, SetMemberRole, Membership

LEMMA DeactivateMemberTypeOK ==
  ASSUME TypeOK, NEW o \in Organizations, NEW u \in Users,
         DeactivateMember(o, u)
  PROVE  TypeOK'
<1>. DEFINE row == [member[o] EXCEPT ![u].active = FALSE]
<1>1. row \in [Users -> Membership]
  <2>1. [member[o][u] EXCEPT !.active = FALSE] \in Membership
    BY MemberOff DEF TypeOK
  <2>. QED
    BY <2>1, Zenon DEF TypeOK
<1>2. \A v \in Users : v # u => row[v] = member[o][v]
  BY DEF TypeOK
<1>3. member' = [member EXCEPT ![o] = row]
  BY DEF DeactivateMember
<1>. HIDE DEF row
<1>4. member' \in [Organizations -> [Users -> Membership]]
  BY <1>1, <1>3 DEF TypeOK
<1>5. ASSUME NEW p \in Organizations, organization[p].owner # NoUser
      PROVE  member'[p][organization[p].owner].active
  <2>1. organization[p].owner \in Users
    BY <1>5 DEF TypeOK
  <2>2. p = o => organization[p].owner # u
    BY DEF DeactivateMember
  <2>. QED
    BY <1>2, <1>3, <1>5, <2>1, <2>2 DEF TypeOK
<1>. QED
  BY <1>4, <1>5 DEF TypeOK, DeactivateMember

(* An organization is switched on or off. *)
LEMMA SwitchTypeOK ==
  ASSUME TypeOK, NEW o \in Organizations, SwitchOn(o) \/ SwitchOff(o)
  PROVE  TypeOK'
<1>1. PICK b \in BOOLEAN :
        organization' = [organization EXCEPT ![o] =
                           [owner |-> organization[o].owner, active |-> b]]
  <2>1. organization[o] \in [owner : Users \union {NoUser}, active : BOOLEAN]
    BY DEF TypeOK
  <2>2. /\ [organization[o] EXCEPT !.active = TRUE]
             = [owner |-> organization[o].owner, active |-> TRUE]
        /\ [organization[o] EXCEPT !.active = FALSE]
             = [owner |-> organization[o].owner, active |-> FALSE]
    BY <2>1, OrganizationSwitched
  <2>. QED
    BY <2>2, Zenon DEF SwitchOn, SwitchOff
<1>2. /\ organization' \in [Organizations ->
                             [owner : Users \union {NoUser}, active : BOOLEAN]]
      /\ \A p \in Organizations :
           organization'[p].owner = organization[p].owner
      /\ \A p \in Organizations \ {o} : organization'[p] = organization[p]
  BY <1>1 DEF TypeOK
<1>3. organization[o].owner # NoUser
  BY DEF SwitchOn, SwitchOff, TypeOK
<1>4. UNCHANGED <<member, inGroup, resource, grants>>
  BY DEF SwitchOn, SwitchOff
<1>. QED
  BY <1>2, <1>3, <1>4 DEF TypeOK

(* Grants come and go. *)
LEMMA GrantsTypeOK ==
  ASSUME TypeOK, Grant \/ Expire \/ Revoke
  PROVE  TypeOK'
<1>1. CASE Grant
  <2>1. PICK subject \in Subjects, action \in GivenActions :
          grants' = grants \union {[subject |-> subject, action |-> action,
                                    expired |-> FALSE]}
    BY <1>1 DEF Grant
  <2>2. action \in PermissionAction
    OBVIOUS
  <2>3. grants' \subseteq Grants
    <3>1. [subject |-> subject, action |-> action, expired |-> FALSE] \in Grants
      BY <2>2 DEF Grants
    <3>2. grants \subseteq Grants
      BY DEF TypeOK
    <3>. QED
      BY <2>1, <3>1, <3>2, Zenon
  <2>. QED
    BY <1>1, <2>3 DEF TypeOK, Grant
<1>2. CASE Expire
  <2>1. PICK grant \in grants :
          grants' = (grants \ {grant}) \union {[grant EXCEPT !.expired = TRUE]}
    BY <1>2, Zenon DEF Expire
  <2>2. grants' \subseteq Grants
    <3>1. grants \subseteq Grants
      BY DEF TypeOK
    <3>2. [grant EXCEPT !.expired = TRUE] \in Grants
      BY <3>1, GrantExpired
    <3>. QED
      BY <2>1, <3>1, <3>2, Zenon
  <2>3. UNCHANGED <<organization, member, inGroup, resource>>
    BY <1>2, Zenon DEF Expire
  <2>. QED
    BY <2>2, <2>3 DEF TypeOK
<1>3. CASE Revoke
  BY <1>3 DEF TypeOK, Revoke
<1>. QED
  BY <1>1, <1>2, <1>3

LEMMA NextTypeOK == TypeOK /\ [Next]_vars => TypeOK'
<1>. SUFFICES ASSUME TypeOK, [Next]_vars PROVE TypeOK'
  OBVIOUS
<1>1. CASE Grant \/ Expire \/ Revoke
  BY <1>1, GrantsTypeOK
<1>3. CASE \E o \in Organizations : SwitchOn(o) \/ SwitchOff(o)
  BY <1>3, SwitchTypeOK
<1>4. CASE \E o \in Organizations, user \in Users : DeactivateMember(o, user)
  BY <1>4, DeactivateMemberTypeOK
<1>5. CASE \E g \in Groups, user \in Users : LeaveGroup(g, user)
  BY <1>5 DEF TypeOK, LeaveGroup
<1>8. CASE \E o \in Organizations, user \in Users :
             CreateOrganization(o, user) \/ SetMemberRole(o, user)
  BY <1>8, CreateOrganizationTypeOK, SetMemberRoleTypeOK
<1>9. CASE \E g \in Groups, user \in Users : JoinGroup(g, user)
  BY <1>9 DEF TypeOK, JoinGroup
<1>10. CASE \E user \in Users : CreateResource(user)
  BY <1>10 DEF TypeOK, CreateResource
<1>11. CASE UNCHANGED vars
  BY <1>11 DEF TypeOK, vars
<1>. QED
  BY <1>1, <1>3, <1>4, <1>5, <1>8, <1>9, <1>10, <1>11
     DEF Next, Withdraw

(* Every variable has its type in every reachable state; an organization   *)
(* is active only once it exists, and its owner stays an active member.    *)
THEOREM TypeCorrect == Spec => []TypeOK
<1>. QED
  BY InitTypeOK, NextTypeOK, PTL DEF Spec

-----------------------------------------------------------------------------
(* The check and the query.                                                *)

LEMMA OrganizationsAgree ==
  ASSUME TypeOK, NEW u \in Users
  PROVE  OrganizationIdsFor(u) = MemberOrganizations(u)
  BY DEF OrganizationIdsFor, MemberOrganizations

LEMMA GroupsAgree ==
  ASSUME TypeOK, NEW u
  PROVE  GroupIdsFor(u) = MemberGroups(u)
  BY DEF GroupIdsFor, MemberGroups, TypeOK

(* The filter of the check and the subjects of the query are the same.     *)
LEMMA SubjectsAgree ==
  ASSUME TypeOK, NEW u \in Requesters, NEW link \in Links \union {NoLink},
         NEW subject \in Subjects
  PROVE  IsSubject(u, link, subject) <=> subject \in SubjectsOf(u, link)
<1>1. CASE u \in Users
  <2>1. /\ OrganizationIdsFor(u) = MemberOrganizations(u)
        /\ GroupIdsFor(u) = MemberGroups(u)
    BY <1>1, OrganizationsAgree, GroupsAgree
  <2>. QED
    BY <1>1, <2>1 DEF IsSubject, SubjectsOf, Subjects
<1>2. CASE u \notin Users
  BY <1>2 DEF IsSubject, SubjectsOf, Subjects
<1>. QED
  BY <1>1, <1>2

LEMMA GrantsAgree ==
  ASSUME TypeOK, NEW u \in Requesters, NEW link \in Links \union {NoLink},
         NEW required \in PermissionAction
  PROVE  (\E grant \in grants :
             /\ grant.action \in ActionsGranting(required)
             /\ ~grant.expired
             /\ IsSubject(u, link, grant.subject))
           <=> ActiveGrants(u, required, link) # {}
<1>1. \A grant \in grants : grant.subject \in Subjects
  BY DEF TypeOK, Grants
<1>2. \A grant \in grants :
        IsSubject(u, link, grant.subject)
          <=> grant.subject \in SubjectsOf(u, link)
  BY <1>1, SubjectsAgree
<1>. QED
  BY <1>2 DEF ActiveGrants

LEMMA TypeOKCheckIsQuery == TypeOK => CheckIsQuery
<1>. SUFFICES ASSUME TypeOK, NEW u \in Requesters,
                     NEW required \in PermissionAction,
                     NEW link \in Links \union {NoLink}
              PROVE  HasResourcePermission(u, required, link)
                       <=> AccessibleTo(u, required, link)
  BY DEF CheckIsQuery
<1>1. u \in Users => OrganizationIdsFor(u) = MemberOrganizations(u)
  BY OrganizationsAgree
<1>2. NoOrganization \notin MemberOrganizations(u)
  BY DEF MemberOrganizations
<1>3. (\E grant \in grants :
             /\ grant.action \in ActionsGranting(required)
             /\ ~grant.expired
             /\ IsSubject(u, link, grant.subject))
           <=> ActiveGrants(u, required, link) # {}
  BY GrantsAgree
<1>. HIDE DEF TypeOK
<1>. QED
  BY <1>1, <1>2, <1>3, Zenon
     DEF HasResourcePermission, AccessibleTo

(* For all users, organizations, groups, links and grants the check of one *)
(* permission (permissions/services.py) and the query for what may be seen *)
(* (resources/selectors.py) decide alike in every reachable state.         *)
THEOREM CheckIsQueryAlways == Spec => []CheckIsQuery
<1>. QED
  BY TypeCorrect, TypeOKCheckIsQuery, PTL

-----------------------------------------------------------------------------
(* The order of the actions.                                               *)

LEMMA LowerIsGranted ==
  ASSUME NEW high \in PermissionAction, NEW low \in PermissionAction,
         Rank[low] <= Rank[high]
  PROVE  /\ ActionsGranting(high) \subseteq ActionsGranting(low)
         /\ high = "VIEW" => low = "VIEW"
  BY DEF ActionsGranting, PermissionAction, Rank

(* Whoever may do something with a resource may do all that ranks below it.*)
THEOREM ActionsAreOrderedAlways == Spec => []ActionsAreOrdered
<1>1. ActionsAreOrdered
  <2>. SUFFICES ASSUME NEW u \in Requesters,
                       NEW link \in Links \union {NoLink},
                       NEW high \in PermissionAction,
                       NEW low \in PermissionAction,
                       Rank[low] <= Rank[high],
                       HasResourcePermission(u, high, link)
                PROVE  HasResourcePermission(u, low, link)
    BY DEF ActionsAreOrdered
  <2>1. /\ ActionsGranting(high) \subseteq ActionsGranting(low)
        /\ high = "VIEW" => low = "VIEW"
    BY LowerIsGranted
  <2>. QED
    BY <2>1, Zenon DEF HasResourcePermission
<1>. QED
  BY <1>1, PTL

-----------------------------------------------------------------------------
(* Outsiders.                                                              *)

LEMMA TypeOKOutsiders == TypeOK => OutsidersGainNothing
<1>. SUFFICES ASSUME TypeOK, NEW u \in Users \ Superusers,
                     NEW required \in PermissionAction,
                     \A o \in Organizations : ~Belongs(u, o),
                     HasResourcePermission(u, required, NoLink)
              PROVE  \/ resource.owner = u
                     \/ required = "VIEW"
                          /\ resource.visibility \in {"AUTHENTICATED", "PUBLIC"}
                     \/ \E grant \in grants :
                          /\ ~grant.expired
                          /\ grant.subject = [type |-> "USER", id |-> u]
                               \/ grant.subject.type = "AUTHENTICATED"
  BY DEF OutsidersGainNothing
<1>1. OrganizationIdsFor(u) = {} /\ GroupIdsFor(u) = {}
  BY DEF Belongs, OrganizationIdsFor, GroupIdsFor, TypeOK
<1>2. ASSUME NEW grant \in grants, IsSubject(u, NoLink, grant.subject)
      PROVE  grant.subject = [type |-> "USER", id |-> u]
               \/ grant.subject.type = "AUTHENTICATED"
  BY <1>1, <1>2 DEF IsSubject, TypeOK, Grants, Subjects
<1>. QED
  BY <1>1, <1>2 DEF HasResourcePermission

(* What a user has without belonging to any active organization has been   *)
(* given to him, to every account or to the public.                        *)
THEOREM OutsidersGainNothingAlways == Spec => []OutsidersGainNothing
<1>. QED
  BY TypeCorrect, TypeOKOutsiders, PTL

-----------------------------------------------------------------------------
(* Withdrawing.                                                            *)

(* What a step that takes away leaves of what decisions look at.           *)
Shrinks ==
  /\ resource' = resource
  /\ \A o \in Organizations :
       /\ organization'[o].owner = organization[o].owner
       /\ organization'[o].active => organization[o].active
       /\ \A u \in Users : member'[o][u].active => member[o][u].active
  /\ inGroup' \subseteq inGroup
  /\ \A grant \in grants' : \/ grant \in grants
                            \/ grant.expired

LEMMA WithdrawShrinks ==
  ASSUME TypeOK, Withdraw
  PROVE  Shrinks
<1>1. CASE Expire
  BY <1>1 DEF Expire, Shrinks, TypeOK, Grants
<1>2. CASE Revoke
  BY <1>2 DEF Revoke, Shrinks
<1>3. CASE \E o \in Organizations : SwitchOff(o)
  BY <1>3 DEF SwitchOff, Shrinks, TypeOK
<1>4. CASE \E o \in Organizations, user \in Users : DeactivateMember(o, user)
  BY <1>4 DEF DeactivateMember, Shrinks, TypeOK, Membership
<1>5. CASE \E g \in Groups, user \in Users : LeaveGroup(g, user)
  BY <1>5 DEF LeaveGroup, Shrinks
<1>. QED
  BY <1>1, <1>2, <1>3, <1>4, <1>5 DEF Withdraw

LEMMA ShrinksDecides ==
  ASSUME TypeOK, Shrinks, NEW u \in Requesters,
         NEW required \in PermissionAction, NEW link \in Links \union {NoLink},
         HasResourcePermission(u, required, link)'
  PROVE  HasResourcePermission(u, required, link)
<1>1. u \in Users => /\ OrganizationIdsFor(u)' \subseteq OrganizationIdsFor(u)
                     /\ GroupIdsFor(u)' \subseteq GroupIdsFor(u)
  BY DEF Shrinks, OrganizationIdsFor, GroupIdsFor
<1>2. \A subject : IsSubject(u, link, subject)' => IsSubject(u, link, subject)
  BY <1>1 DEF IsSubject
<1>. QED
  BY <1>1, <1>2 DEF HasResourcePermission, Shrinks

(* Expiry and revocation of grants, the end of a membership and the        *)
(* switching off of an organization never give anybody a permission.       *)
THEOREM WithdrawalGivesNothingAlways == Spec => WithdrawalGivesNothing
<1>1. ASSUME TypeOK, [Next]_vars
      PROVE  [Withdraw =>
               \A user \in Requesters, required \in PermissionAction,
                  link \in Links \union {NoLink} :
                 HasResourcePermission(user, required, link)'
                   => HasResourcePermission(user, required, link)]_vars
  BY <1>1, WithdrawShrinks, ShrinksDecides
<1>. QED
  BY <1>1, TypeCorrect, PTL DEF Spec, WithdrawalGivesNothing
=============================================================================
