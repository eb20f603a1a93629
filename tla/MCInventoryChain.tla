-------------------------- MODULE MCInventoryChain --------------------------
(* Instance of InventoryChain for TLC: pushes and tabs are interchangeable. *)
EXTENDS InventoryChain, TLC

Symmetry == Permutations(Pushes) \cup Permutations(Tabs)

(* At most one tab is in use.                                              *)
SoleTab == \E t \in Tabs : \A u \in Tabs \ {t} : tab[u] = LockedTab

(* Bound: the factors are changed only while one tab is in use, at most    *)
(* one save has been made and no pull has gone past its first probe;       *)
(* everything else happens with both tabs.                                 *)
RotationsAlone ==
  rotations > 0 => /\ SoleTab
                   /\ saves <= 1
                   /\ \A t \in Tabs : pull[t].step = 1

(* Bound: an account that lacks something lacks everything until its       *)
(* factors have changed, and one tab uses it, without a pull.              *)
OldAccounts ==
  /\ rotations = 0 => lacks \in {{}, Outdated}
  /\ lacks # {} => SoleTab /\ \A t \in Tabs : pull[t].pc = "idle"

(* Bound: no pull runs while a save is in flight, or once two tabs have    *)
(* been open or a session has started behind the indexes drawn.            *)
PullsAlone ==
  (\E t \in Tabs : pull[t].pc # "idle")
     => /\ \A n \in 1 .. MaxSaves : save[n].tab = NoTab
        /\ exposure \subseteq {"pull rewind"}
=============================================================================
