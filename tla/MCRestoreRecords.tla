-------------------------- MODULE MCRestoreRecords --------------------------
(* Instance of RestoreRecords for TLC: pushes and roots are interchangeable. *)
EXTENDS RestoreRecords, TLC

Symmetry == Permutations(Pushes) \cup Permutations(Roots)

Begun == {p \in Pushes : push[p].pc # "idle"}
Elsewhere == \E d \in Devices \ {First} : found[d] # NoPush \/ acct[d].exists

(* Bound: when the Recovery Password is changed, the page reloaded, or the *)
(* vault locked or rotated, that is on one device and with two pushes.     *)
OneStory ==
  (budget.ops > 0 \/ budget.events > day) => ~Elsewhere /\ Cardinality(Begun) <= 2

(* Bound: the first of the changes is the one that sets a password.        *)
EnablesFirst == (budget.ops = 0 /\ budget'.ops > 0) => acct[First].root = NoRoot
=============================================================================
