------------------------------ MODULE MCFormats ------------------------------
EXTENDS Formats, OfflineSnapshot

(* The trips, the directory and the snapshot share no state: each moves    *)
(* while the others are where they started.                                *)
Start == Init /\ SnapshotInit
Step ==
  \/ SnapshotInit /\ Next /\ UNCHANGED snapshotVars
  \/ job = Idle /\ DirectoryInit /\ SnapshotNext /\ UNCHANGED <<job, directoryVars>>

(* Keys that start and end with every kind of bits. *)
MCKeys == {[i \in 1..32 |-> (i * 37) % 256], [i \in 1..32 |-> 255 - ((i * 11) % 200)],
           [i \in 1..32 |-> IF i % 2 = 0 THEN 0 ELSE 1]}

(* Around the edges of the buckets, and past the largest. *)
MCLengths == {0, 1, 251, 252, 253, 508, 509, 1020, 1021, 2044, 2045,
              65531, 65532, 65533, 131068, 131069, 1048572, 1048573}
MCCredentialLengths == {0, 1, 16, 32, 64, 255, 870, 871, 872, 1023, 1024}
MCStringLengths == {0, 1, 36, 255, 256, 257}

(* The first digits of every network and of the edges of its ranges. *)
MCCardPrefixes == {<<4>>, <<5, 1>>, <<5, 5>>, <<5, 6>>, <<2, 2, 2, 0>>, <<2, 2, 2, 1>>,
                   <<2, 7, 2, 0>>, <<2, 7, 2, 1>>, <<3, 4>>, <<3, 7>>, <<6, 0, 1, 1>>,
                   <<6, 5>>, <<6, 4, 3>>, <<6, 4, 4>>, <<6, 4, 9>>, <<3, 0, 0>>,
                   <<3, 0, 5>>, <<3, 0, 6>>, <<3, 6>>, <<3, 8>>, <<3, 5, 2, 7>>,
                   <<3, 5, 2, 8>>, <<3, 5, 8, 9>>, <<3, 5, 9, 0>>, <<6, 2>>, <<1>>}

MCCities == {[city |-> "Springfield", state |-> state] : state \in {"IL", "MA", "MO"}}

Symmetry == Permutations(Publishers) \cup Permutations(Handles) \cup Permutations(Tabs)

(* A torn snapshot is not followed: every property excuses it.  One tab at *)
(* a time verifies or is offered an update; a second tab is open only      *)
(* while nothing was evicted or repaired; the third release only replaces  *)
(* the second under a toast; a tab that does not listen yet verifies       *)
(* nothing, and was reloaded by a failed import only if it is alone.       *)
OpenTabs == {t \in Tabs : Open(t)}
Busy(t) == tab[t].check # "fresh" \/ tab[t].updateReady \/ tab[t].asking # None
SnapshotBound ==
  /\ exposure \cap Torn = {}
  /\ Cardinality({t \in OpenTabs : Busy(t)}) <= 1
  /\ evictions > 0 \/ repair.at # "idle" \/ origin > 2 => Cardinality(OpenTabs) <= 1
  /\ \A t \in OpenTabs :
       ~Listening(t) =>
         tab[t].check = "fresh" /\ (tab[t].retried => OpenTabs = {t})
  /\ origin > 2 =>
       /\ evictions = 0 /\ repair.at = "idle"
       /\ exposure \subseteq {"replaced under the toast"}
       /\ \A t \in OpenTabs : tab[t].check = "fresh" /\ ~tab[t].retried
=============================================================================
