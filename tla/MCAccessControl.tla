-------------------------- MODULE MCAccessControl --------------------------
(* Checking AccessControl with TLC: one organization with one group, and   *)
(* interchangeable users, none of whom is a superuser.                     *)
EXTENDS AccessControl, TLC

GroupsOf == [g \in Groups |-> CHOOSE o \in Organizations : TRUE]

UserSymmetry == Permutations(Users)
=============================================================================
