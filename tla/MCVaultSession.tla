--------------------------- MODULE MCVaultSession ---------------------------
(* Instance of VaultSession for TLC: calls and tabs are interchangeable.   *)
EXTENDS VaultSession, TLC

Symmetry == Permutations(Calls) \cup Permutations(Tabs)

(* Bound: nothing is explored beyond an overlap of a change, after which   *)
(* every invariant of the run is silent; and an account found at the      *)
(* start, whose factors are set, is used by one tab.                       *)
Bounded ==
  /\ "change overlap" \notin exposure
  /\ changes > 0 =>
       \E t \in Tabs : /\ \A u \in Tabs \ {t} : tab[u] = LockedTab
                       /\ \A c \in Calls : call[c].tab \in {t, NoTab}

(* Bound: the factors of an account made during the run stay as they are.  *)
ChangesOfOldAccounts == changes' > changes => changes > 0
=============================================================================
