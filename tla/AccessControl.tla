--------------------------- MODULE AccessControl ---------------------------
(***************************************************************************)
(* Who may do what with a resource: organizations and their members        *)
(* (modules/organizations), the grants on the resource, and the two places *)
(* that decide, the check of one permission (modules/permissions/          *)
(* services.py) and the query for the resources a user may see             *)
(* (modules/resources/selectors.py, permissions/selectors.py), which most  *)
(* endpoints use in turn on one request. Grants, groups and the switching  *)
(* off of organizations are written by administrators.                     *)
(***************************************************************************)
EXTENDS Naturals, FiniteSets

CONSTANTS
  Users,         \* accounts
  Superusers,    \* accounts with is_superuser
  Anonymous,     \* whoever is not logged in
  NoUser,        \* the owner of what does not exist yet
  Organizations,
  NoOrganization,
  Groups,        \* organization groups
  GroupOf,       \* the organization of a group
  Links,         \* share links
  NoLink,        \* the request comes without a share link
  GivenRoles,    \* the roles that members are given
  GivenActions,  \* the actions that are granted
  MaxGrants      \* grants stop at this number of rows

Roles == {"OWNER", "ADMIN", "DATA_MANAGER", "PUBLISHER", "EDITOR", "MEMBER"}
PermissionAction == {"VIEW", "DOWNLOAD", "EDIT", "PUBLISH", "MANAGE", "OWNER"}
Visibility == {"PRIVATE", "ORGANIZATION", "AUTHENTICATED", "PUBLIC"}

ASSUME AccessAssumption ==
  /\ Superusers \subseteq Users /\ Anonymous \notin Users /\ NoUser \notin Users
  /\ NoOrganization \notin Organizations /\ NoLink \notin Links
  /\ GroupOf \in [Groups -> Organizations]
  /\ GivenRoles \subseteq Roles /\ GivenActions \subseteq PermissionAction
  /\ MaxGrants \in Nat

VARIABLES
  organization, \* Organization: owner (NoUser if absent) and is_active
  member,       \* OrganizationMember: role ("NONE" without a row), is_active
  inGroup,      \* the active OrganizationGroupMember rows
  resource,     \* Resource: owner (NoUser if absent), visibility, organization
  grants        \* the ResourcePermission rows of the resource

vars == <<organization, member, inGroup, resource, grants>>

-----------------------------------------------------------------------------
(* Subjects are what resource_permission_subject_shape lets them be. *)
Subjects ==
  [type : {"USER"}, id : Users]
    \union [type : {"GROUP"}, id : Groups]
    \union [type : {"ORGANIZATION"}, id : Organizations]
    \union [type : {"SHARE_LINK"}, id : Links]
    \union [type : {"AUTHENTICATED", "ANONYMOUS"}, id : {NoUser}]

Grants == [subject : Subjects, action : PermissionAction, expired : BOOLEAN]

Membership == [role : Roles \union {"NONE"}, active : BOOLEAN]

Init ==
  /\ organization =
       [o \in Organizations |-> [owner |-> NoUser, active |-> FALSE]]
  /\ member = [o \in Organizations |->
                [u \in Users |-> [role |-> "NONE", active |-> FALSE]]]
  /\ inGroup = {}
  /\ resource = [owner |-> NoUser, visibility |-> "PRIVATE",
                 organization |-> NoOrganization]
  /\ grants = {}

-----------------------------------------------------------------------------
(* Deciding.                                                               *)

(* actions_granting *)
ActionsGranting(required) ==
  CASE required = "VIEW"     -> PermissionAction
    [] required = "DOWNLOAD" -> PermissionAction \ {"VIEW"}
    [] required = "EDIT"     -> {"EDIT", "PUBLISH", "MANAGE", "OWNER"}
    [] required = "PUBLISH"  -> {"PUBLISH", "MANAGE", "OWNER"}
    [] required = "MANAGE"   -> {"MANAGE", "OWNER"}
    [] required = "OWNER"    -> {"OWNER"}

(* _organization_ids_for *)
OrganizationIdsFor(user) ==
  {o \in Organizations : organization[o].active
                           /\ (organization[o].owner = user
                                 \/ member[o][user].active)}

(* Mutant: a group outlives the membership in its organization. *)
GroupIdsOutliving(user) ==
  {g \in Groups : <<g, user>> \in inGroup /\ organization[GroupOf[g]].active}

(* _group_ids_for *)
GroupIdsFor(user) ==
  {g \in Groups : /\ <<g, user>> \in inGroup
                  /\ organization[GroupOf[g]].active
                  /\ member[GroupOf[g]][user].active}

(* _subject_filter_for *)
IsSubject(user, link, subject) ==
  \/ /\ user \in Users
     /\ \/ subject.type = "USER" /\ subject.id = user
        \/ subject.type = "AUTHENTICATED"
        \/ subject.type = "ORGANIZATION"
             /\ subject.id \in OrganizationIdsFor(user)
        \/ subject.type = "GROUP" /\ subject.id \in GroupIdsFor(user)
  \/ user \notin Users /\ subject.type = "ANONYMOUS"
  \/ link # NoLink /\ subject.type = "SHARE_LINK" /\ subject.id = link

(* has_resource_permission: the one check. *)
HasResourcePermission(user, required, link) ==
  \/ user \in Superusers
  \/ user \in Users /\ resource.owner = user
  \/ /\ user \in Users /\ required = "VIEW"
     /\ \/ resource.visibility \in {"AUTHENTICATED", "PUBLIC"}
        \/ /\ resource.visibility = "ORGANIZATION"
           /\ resource.organization # NoOrganization
           /\ resource.organization \in OrganizationIdsFor(user)
  \/ user \notin Users /\ required = "VIEW" /\ resource.visibility = "PUBLIC"
  \/ \E grant \in grants : /\ grant.action \in ActionsGranting(required)
                           /\ ~grant.expired
                           /\ IsSubject(user, link, grant.subject)

(* organization_ids_for and group_ids_for of permissions/selectors.py      *)
MemberOrganizations(user) ==
  {o \in Organizations :
     organization[o].active
       /\ \E u \in {organization[o].owner}
                     \union {u \in Users : member[o][u].active} : u = user}

(* Mutant: the query for the groups forgets the organization. *)
MemberGroupsOutliving(user) == {g \in Groups : <<g, user>> \in inGroup}

MemberGroups(user) ==
  {g \in Groups :
     <<g, user>> \in inGroup
       /\ GroupOf[g] \in {o \in Organizations :
                            organization[o].active /\ member[o][user].active}}

(* permission_subject_filter_for, as the subjects a request stands for     *)
SubjectsOf(user, link) ==
  (IF user \in Users
     THEN [type : {"USER"}, id : {user}]
            \union [type : {"AUTHENTICATED"}, id : {NoUser}]
            \union [type : {"ORGANIZATION"}, id : MemberOrganizations(user)]
            \union [type : {"GROUP"}, id : MemberGroups(user)]
     ELSE [type : {"ANONYMOUS"}, id : {NoUser}])
  \union (IF link = NoLink THEN {} ELSE [type : {"SHARE_LINK"}, id : {link}])

ActiveGrants(user, required, link) ==
  {grant \in grants : /\ grant.action \in ActionsGranting(required)
                      /\ ~grant.expired
                      /\ grant.subject \in SubjectsOf(user, link)}

(* resources_accessible_to: the resource is in what the query returns.     *)
AccessibleTo(user, required, link) ==
  IF user \in Superusers THEN TRUE
  ELSE \/ ActiveGrants(user, required, link) # {}
       \/ /\ user \in Users
          /\ \/ resource.owner = user
             \/ /\ required = "VIEW"
                /\ \/ resource.visibility \in {"PUBLIC", "AUTHENTICATED"}
                   \/ resource.visibility = "ORGANIZATION"
                        /\ resource.organization \in MemberOrganizations(user)
       \/ user \notin Users /\ required = "VIEW"
            /\ resource.visibility = "PUBLIC"

WriteRoles == Roles \ {"MEMBER"}

(* can_create_organization_resource *)
CanCreateIn(user, o) ==
  \/ user \in Superusers \/ organization[o].owner = user
  \/ member[o][user].active /\ member[o][user].role \in WriteRoles

-----------------------------------------------------------------------------
(* The services.                                                           *)

(* create_organization, with the membership of its owner *)
CreateOrganization(o, user) ==
  /\ organization[o].owner = NoUser
  /\ organization' = [organization EXCEPT ![o] =
                        [owner |-> user, active |-> TRUE]]
  /\ member' = [member EXCEPT ![o][user] = [role |-> "OWNER", active |-> TRUE]]
  /\ UNCHANGED <<inGroup, resource, grants>>

(* set_member_role creates a membership or brings it back. *)
SetMemberRole(o, user) ==
  /\ organization[o].owner # NoUser
  /\ \E role \in GivenRoles :
       member' = [member EXCEPT ![o][user] = [role |-> role, active |-> TRUE]]
  /\ UNCHANGED <<organization, inGroup, resource, grants>>

(* Mutant: a member is deactivated by being made a mere member. *)
DemoteMember(o, user) ==
  /\ organization[o].owner # user
  /\ member' = [member EXCEPT ![o][user] = [role |-> "MEMBER", active |-> TRUE]]
  /\ UNCHANGED <<organization, inGroup, resource, grants>>

(* deactivate_member *)
DeactivateMember(o, user) ==
  /\ organization[o].owner # user /\ member[o][user].active
  /\ member' = [member EXCEPT ![o][user].active = FALSE]
  /\ UNCHANGED <<organization, inGroup, resource, grants>>

(* create_resource: create_resource_endpoint finds the organization among  *)
(* those of the user first.                                                *)
CreateResource(user) ==
  /\ resource.owner = NoUser
  /\ \E visibility \in Visibility, o \in Organizations \union {NoOrganization} :
       /\ visibility = "ORGANIZATION" => o # NoOrganization
       /\ o # NoOrganization =>
            o \in OrganizationIdsFor(user) /\ CanCreateIn(user, o)
       /\ resource' = [owner |-> user, visibility |-> visibility,
                       organization |-> o]
  /\ UNCHANGED <<organization, member, inGroup, grants>>

(* What administrators and the clock do. *)
Grant ==
  /\ resource.owner # NoUser /\ Cardinality(grants) < MaxGrants
  /\ \E subject \in Subjects, action \in GivenActions :
       /\ \A grant \in grants : grant.subject # subject \/ grant.action # action
       /\ grants' = grants \union {[subject |-> subject, action |-> action,
                                    expired |-> FALSE]}
  /\ UNCHANGED <<organization, member, inGroup, resource>>

Expire ==
  /\ \E grant \in grants :
       ~grant.expired /\ grants' = (grants \ {grant})
                                     \union {[grant EXCEPT !.expired = TRUE]}
  /\ UNCHANGED <<organization, member, inGroup, resource>>

Revoke ==
  /\ \E grant \in grants : grants' = grants \ {grant}
  /\ UNCHANGED <<organization, member, inGroup, resource>>

JoinGroup(g, user) ==
  /\ organization[GroupOf[g]].owner # NoUser
  /\ inGroup' = inGroup \union {<<g, user>>}
  /\ UNCHANGED <<organization, member, resource, grants>>

LeaveGroup(g, user) ==
  /\ inGroup' = inGroup \ {<<g, user>>}
  /\ UNCHANGED <<organization, member, resource, grants>>

SwitchOff(o) ==
  /\ organization[o].active
  /\ organization' = [organization EXCEPT ![o].active = FALSE]
  /\ UNCHANGED <<member, inGroup, resource, grants>>

SwitchOn(o) ==
  /\ organization[o].owner # NoUser /\ ~organization[o].active
  /\ organization' = [organization EXCEPT ![o].active = TRUE]
  /\ UNCHANGED <<member, inGroup, resource, grants>>

(* The steps that take something away. *)
Withdraw ==
  \/ Expire \/ Revoke
  \/ \E o \in Organizations : SwitchOff(o)
  \/ \E o \in Organizations, user \in Users : DeactivateMember(o, user)
  \/ \E g \in Groups, user \in Users : LeaveGroup(g, user)

Next ==
  \/ Withdraw \/ Grant
  \/ \E o \in Organizations : SwitchOn(o)
  \/ \E o \in Organizations, user \in Users :
       CreateOrganization(o, user) \/ SetMemberRole(o, user)
  \/ \E g \in Groups, user \in Users : JoinGroup(g, user)
  \/ \E user \in Users : CreateResource(user)

Spec == Init /\ [][Next]_vars

-----------------------------------------------------------------------------
(* Properties.                                                             *)

(* Every variable has its type; an organization is active only once it     *)
(* exists, and its owner is always one of its active members.              *)
TypeOK ==
  /\ organization \in [Organizations ->
                         [owner : Users \union {NoUser}, active : BOOLEAN]]
  /\ member \in [Organizations -> [Users -> Membership]]
  /\ inGroup \subseteq Groups \X Users
  /\ resource \in [owner : Users \union {NoUser}, visibility : Visibility,
                   organization : Organizations \union {NoOrganization}]
  /\ grants \subseteq Grants
  /\ \A o \in Organizations :
       /\ organization[o].active => organization[o].owner # NoUser
       /\ organization[o].owner # NoUser =>
            member[o][organization[o].owner].active

Requesters == Users \union {Anonymous}

(* The check and the query decide alike: what is listed can be opened,     *)
(* what can be opened is listed, for every user, action and share link.    *)
CheckIsQuery ==
  \A user \in Requesters, required \in PermissionAction,
     link \in Links \union {NoLink} :
    HasResourcePermission(user, required, link)
      <=> AccessibleTo(user, required, link)

Rank == [VIEW |-> 1, DOWNLOAD |-> 2, EDIT |-> 3, PUBLISH |-> 4, MANAGE |-> 5,
         OWNER |-> 6]

(* Who may do something may do everything below it. *)
ActionsAreOrdered ==
  \A user \in Requesters, link \in Links \union {NoLink},
     high, low \in PermissionAction :
    Rank[low] <= Rank[high] /\ HasResourcePermission(user, high, link)
      => HasResourcePermission(user, low, link)

Belongs(user, o) == organization[o].active
                      /\ (organization[o].owner = user \/ member[o][user].active)

(* What a user has without belonging to any active organization, has been  *)
(* given to him, to all or to his link: grants to organizations and groups *)
(* he has left, or that are switched off, give nothing, nor does their     *)
(* visibility.                                                             *)
OutsidersGainNothing ==
  \A user \in Users \ Superusers, required \in PermissionAction :
    /\ \A o \in Organizations : ~Belongs(user, o)
    /\ HasResourcePermission(user, required, NoLink)
    => \/ resource.owner = user
       \/ required = "VIEW"
            /\ resource.visibility \in {"AUTHENTICATED", "PUBLIC"}
       \/ \E grant \in grants :
            /\ ~grant.expired
            /\ grant.subject = [type |-> "USER", id |-> user]
                 \/ grant.subject.type = "AUTHENTICATED"

(* A step that takes something away gives nobody anything.                 *)
WithdrawalGivesNothing ==
  [][Withdraw =>
       \A user \in Requesters, required \in PermissionAction,
          link \in Links \union {NoLink} :
         HasResourcePermission(user, required, link)'
           => HasResourcePermission(user, required, link)]_vars
=============================================================================
