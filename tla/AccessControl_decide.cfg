SPECIFICATION Spec
CONSTANTS
  Users = {u1, u2}
  Superusers = {}
  Anonymous = anonymous
  NoUser = nobody
  Organizations = {o}
  NoOrganization = none
  Groups = {g}
  GroupOf <- GroupsOf
  Links = {l}
  NoLink = nolink
  GivenRoles = {"EDITOR", "MEMBER"}
  GivenActions = {"DOWNLOAD", "PUBLISH"}
  MaxGrants = 1
SYMMETRY UserSymmetry
INVARIANTS
  CheckIsQuery
  OutsidersGainNothing
PROPERTIES
  WithdrawalGivesNothing
