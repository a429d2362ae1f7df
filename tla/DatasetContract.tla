-------------------------- MODULE DatasetContract --------------------------
(***************************************************************************)
(* What a dataset promises to those who read it (tiles, features, maps,    *)
(* exports): a version becomes current when it is ready, once there is a   *)
(* current version there always is, and the current version does not cease *)
(* to be ready. The one way out is that its own import revokes it after    *)
(* having made it current.                                                 *)
(***************************************************************************)
CONSTANTS Versions, NoVersion

VARIABLES
  ready,    \* versions that are ready
  revoked,  \* the current version's import withdraws it, or did
  current   \* Dataset.current_version

vars == <<ready, revoked, current>>

Init == ready = {} /\ revoked = FALSE /\ current = NoVersion

Publish(v) ==
  /\ ready' = ready \union {v}
  /\ revoked' = (revoked /\ v # current)
  /\ UNCHANGED current

Revoke ==
  current # NoVersion /\ revoked' = TRUE /\ UNCHANGED <<ready, current>>

Withdraw(v) ==
  /\ v = current => revoked
  /\ ready' = ready \ {v}
  /\ UNCHANGED <<revoked, current>>

Serve(v) ==
  v \in ready /\ current' = v /\ revoked' = FALSE /\ UNCHANGED ready

(* A revoked version whose next import was lost. *)
GiveUp ==
  /\ revoked /\ current \notin ready
  /\ current' = NoVersion /\ revoked' = FALSE
  /\ UNCHANGED ready

Next ==
  \/ \E v \in Versions : Publish(v) \/ Withdraw(v) \/ Serve(v)
  \/ Revoke \/ GiveUp

Spec == Init /\ [][Next]_vars
=============================================================================
