--------------------------- MODULE MCUnlockPages ---------------------------
EXTENDS UnlockPages, TLC

(* The tabs are interchangeable.                                           *)
TabSymmetry == Permutations(Tabs)

(* Bound: a third passkey is made only by a restore that finds, when it    *)
(* has answered, that a vault has been made on the device meanwhile.       *)
ThirdPasskey ==
  spent'.binds > 2 =>
    account.vault # 0 /\ \E t \in Tabs : call[t].kind = "finish" /\ call[t].pc = "prompt"

(* Bound: with a second vault no call fails by itself any more, and once   *)
(* that vault is wiped too only a restore under way is followed.           *)
SecondVault ==
  spent.vaults > 1 =>
    /\ spent.faults = 0
    /\ \/ account.vault = spent.vaults
       \/ \E t \in Tabs : call[t].kind \in {"search", "finish"}
=============================================================================
