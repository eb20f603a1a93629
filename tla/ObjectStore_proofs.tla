-------------------------- MODULE ObjectStore_proofs --------------------------
(* Theorems about stored files, in two parts that share no state: the      *)
(* objects the server keeps, for any objects, requests, windows, days and  *)
(* faults; and the snapshot the browser keeps, for any tabs, releases and  *)
(* evictions.                                                              *)
EXTENDS ObjectStore, OfflineSnapshot, FiniteSetTheorems, WellFoundedInduction, TLAPS

-----------------------------------------------------------------------------
(* The inductive invariant, in parts. *)

(* A push of the owner in flight, and the sweep in progress.               *)
MineInv ==
  /\ owner.pc # "idle" => owner.id + 1 \in Ids
  /\ \A s \in Slots : jobs[s].mine =>
       /\ jobs[s].op = "put" /\ owner.pc # "idle"
       /\ jobs[s].key = [table |-> owner.pc, id |-> owner.id + 1]
       /\ \A t \in Slots : jobs[t].mine => s = t
SweepInv ==
  /\ sweep.pc \in {"none", "select"} => sweep.victims = {}
  /\ sweep.pc \in {"object", "row"} => sweep.victims # {}
  /\ sweep.pc # "none" => sweep.cutoff <= day - MaxAge
UsedInv == \A k \in Keys : used[k] <= day
IdsInv ==
  /\ 2 * (owner.id - 1) <= owner.at /\ owner.at <= owner.visit /\ owner.visit <= day
  /\ owner.pc # "idle" => owner.at + 2 <= owner.visit /\ owner.visit = day
TypeInv == TypeOK /\ MineInv /\ SweepInv /\ UsedInv /\ IdsInv

(* The admitted requests and those about to be are counted, unless the     *)
(* window is over for all of them.                                         *)
Checking(b) == {s \in Slots : At(s, "check") /\ <<Bucket(jobs[s]), jobs[s].window>> = b}
Undecided(w) == \E s \in Slots : jobs[s].window = w /\ (At(s, "count") \/ At(s, "check"))
CountInv ==
  \A b \in Buckets \X Windows : b[2] \notin crossed =>
    /\ admitted[b] <= Limit
    /\ \/ admitted[b] + Cardinality(Checking(b)) <= counts[b]
       \/ b[2] < window /\ ~Undecided(b[2])

(* What relates the object of a key, its row, its requests and the sweep,  *)
(* as long as nothing overlapped and no statement failed.                  *)
AtReference(s, k) == At(s, "reference") /\ jobs[s].key = k
Touching(k) == \E s \in Slots : AtReference(s, k) /\ jobs[s].op # "delete"
Deleting(k) == \E s \in Slots : AtReference(s, k) /\ jobs[s].op = "delete"
Old(k) == used[k] = NoRow \/ day - used[k] > MaxAge
KeyInv(k) ==
  k \notin exposed =>
    /\ Touching(k) => k \in stored /\ k \notin sweep.victims /\ ~Deleting(k)
    /\ Deleting(k) => k \notin stored /\ used[k] = NoRow
    /\ k \in sweep.victims => Old(k)
    /\ ~Old(k) => k \in stored /\ seen[k] >= used[k]
    /\ sweep.pc = "row" /\ k = Victim => k \notin stored
    /\ k \in stored /\ seen[k] = NoRow => Touching(k) \/ k \in sweep.victims
KeysInv == \A k \in Keys : KeyInv(k)

(* The owner's vault was used when it was pushed, and is pushed again      *)
(* before the sweep may take it.                                           *)
PushInv ==
  /\ \A s \in Slots : jobs[s].op = "delete" => jobs[s].key.table = "restore"
  /\ \A s \in Slots : jobs[s].mine /\ jobs[s].pc = "done" /\ jobs[s].ok =>
       used[jobs[s].key] = day
  /\ owner.pc = "inv" => used[[table |-> "blob", id |-> owner.id + 1]] = day
  /\ day <= owner.visit + 1
  /\ ~owner.failed =>
       /\ owner.pc = "idle" => owner.visit <= owner.at + 1
       /\ owner.pc # "idle" => owner.visit <= owner.at + 2
       /\ \A k \in [table : {"blob", "inv"}, id : {owner.id}] : used[k] >= owner.at

-----------------------------------------------------------------------------
(* Sorts, and the shapes of a step. *)

LEMMA Bounds ==
  /\ Tables \subseteq {"blob", "inv", "restore"} /\ {"blob", "inv"} \subseteq Tables
  /\ Batch \in Nat /\ Limit \in Nat /\ MaxDay \in Nat /\ MaxWindow \in Nat
  /\ MaxOps \in Nat /\ MaxFaults \in Nat
  /\ Ids \subseteq Nat /\ \A n \in 0 .. MaxDay : 2 * n <= MaxDay => n + 1 \in Ids
  /\ IsFiniteSet(Slots) /\ Slots # {}
  BY StoreAssumption DEF StoreAssumption

LEMMA FirstIs ==
  ASSUME NEW v \in SUBSET Keys, v # {}
  PROVE  First(v) \in v
  <1> DEFINE ids == {k.id : k \in v}
  <1>1. ids \subseteq Nat /\ ids # {}
    BY Bounds DEF Keys
  <1>2. \E x \in ids : \A y \in ids : ~(<<y, x>> \in OpToRel(<, Nat))
    BY <1>1, NatLessThanWellFounded, WFMin
  <1> HIDE DEF ids
  <1>3. PICK x \in ids : \A y \in ids : <<y, x>> \notin OpToRel(<, Nat)
    BY <1>2
  <1>x. \A y \in ids : x <= y
    <2> TAKE y \in ids
    <2>1. x \in Nat /\ y \in Nat
      BY <1>1
    <2>2. y < x => <<y, x>> \in OpToRel(<, Nat)
      BY <2>1 DEF OpToRel
    <2>3. ~(y < x)
      BY <2>2, <1>3
    <2> QED BY <2>1, <2>3
  <1>4. \E k \in v : \A o \in v : k.id <= o.id
    BY <1>x DEF ids
  <1> QED BY <1>4 DEF First

LEMMA Sorts ==
  ASSUME TypeOK
  PROVE  /\ day \in Nat /\ day <= MaxDay /\ window \in Nat
         /\ jobs \in [Slots -> Job]
         /\ sweep \in Sweep /\ sweep.victims \in SUBSET Keys /\ sweep.cutoff \in Int
         /\ sweep.table \in Tables /\ sweep.since \in Days
         /\ owner \in Owner /\ owner.id \in Ids /\ owner.id \in Nat
         /\ owner.at \in Nat /\ owner.visit \in Nat
         /\ \A k \in Keys : used[k] \in Int /\ seen[k] \in Int
  <1>1. day \in Nat /\ day <= MaxDay /\ window \in Nat
    BY Bounds DEF TypeOK, Days, Windows
  <1>2. jobs \in [Slots -> Job] /\ sweep \in Sweep /\ owner \in Owner
    BY DEF TypeOK
  <1>3. /\ sweep.victims \in SUBSET Keys /\ sweep.cutoff \in Int
        /\ sweep.table \in Tables /\ sweep.since \in Days
    BY <1>2 DEF Sweep
  <1>4. owner.id \in Ids /\ owner.id \in Nat /\ owner.at \in Nat /\ owner.visit \in Nat
    <2>1. owner.id \in Ids /\ owner.at \in Days /\ owner.visit \in Days
      BY <1>2 DEF Owner
    <2>2. Days \subseteq Nat /\ Ids \subseteq Nat
      BY Bounds DEF Days
    <2> QED BY <2>1, <2>2
  <1>5. \A k \in Keys : used[k] \in Int /\ seen[k] \in Int
    BY Bounds DEF TypeOK, Days, NoRow
  <1> QED BY <1>1, <1>2, <1>3, <1>4, <1>5

LEMMA JobIs ==
  ASSUME TypeOK, NEW s \in Slots
  PROVE  /\ jobs[s] \in Job /\ jobs[s].key \in Keys
         /\ jobs[s].op \in {"none", "put", "get", "delete"}
         /\ jobs[s].pc \in {"count", "check", "object", "reference", "done"}
         /\ jobs[s].window \in Windows /\ jobs[s].since \in Days
         /\ jobs[s].mine \in BOOLEAN /\ jobs[s].ok \in BOOLEAN
  <1>1. jobs[s] \in Job
    BY DEF TypeOK
  <1> QED BY <1>1 DEF Job

(* Only job s moves, and which request it is stays. *)
Moves(s) ==
  /\ jobs' \in [Slots -> Job]
  /\ \A t \in Slots : t # s => jobs'[t] = jobs[t]
Same(s) ==
  /\ jobs'[s].op = jobs[s].op /\ jobs'[s].key = jobs[s].key
  /\ jobs'[s].window = jobs[s].window /\ jobs'[s].since = jobs[s].since
  /\ jobs'[s].mine = jobs[s].mine

LEMMA Replacing ==
  ASSUME TypeOK, NEW s \in Slots, NEW j \in Job, jobs' = [jobs EXCEPT ![s] = j]
  PROVE  Moves(s) /\ jobs'[s] = j
  BY DEF Moves, TypeOK

LEMMA Going ==
  ASSUME TypeOK, NEW s \in Slots,
         NEW pc \in {"count", "check", "object", "reference", "done"}, Goto(s, pc)
  PROVE  Moves(s) /\ Same(s) /\ jobs'[s].pc = pc /\ jobs'[s].ok = jobs[s].ok
  <1> DEFINE j == [jobs[s] EXCEPT !.pc = pc]
  <1>1. jobs[s] \in Job
    BY JobIs
  <1>2. /\ j \in Job /\ j.pc = pc /\ j.op = jobs[s].op /\ j.key = jobs[s].key
        /\ j.window = jobs[s].window /\ j.since = jobs[s].since
        /\ j.mine = jobs[s].mine /\ j.ok = jobs[s].ok
    BY <1>1 DEF Job
  <1>3. jobs' = [jobs EXCEPT ![s] = j]
    BY DEF Goto, TypeOK
  <1> HIDE DEF j
  <1>4. Moves(s) /\ jobs'[s] = j
    BY <1>2, <1>3, Replacing
  <1> QED BY <1>2, <1>4 DEF Same

LEMMA Answering ==
  ASSUME TypeOK, NEW s \in Slots, NEW ok \in BOOLEAN, Answer(s, ok)
  PROVE  Moves(s) /\ Same(s) /\ jobs'[s].pc = "done" /\ jobs'[s].ok = ok
  <1> DEFINE j == [jobs[s] EXCEPT !.pc = "done", !.ok = ok]
  <1>1. jobs[s] \in Job /\ jobs \in [Slots -> Job]
    BY JobIs DEF TypeOK
  <1>2. /\ j \in Job /\ j.pc = "done" /\ j.op = jobs[s].op /\ j.key = jobs[s].key
        /\ j.window = jobs[s].window /\ j.since = jobs[s].since
        /\ j.mine = jobs[s].mine /\ j.ok = ok
    BY <1>1 DEF Job
  <1>3. jobs' = [jobs EXCEPT ![s] = j]
    BY <1>1 DEF Answer, Job
  <1> HIDE DEF j
  <1>4. Moves(s) /\ jobs'[s] = j
    BY <1>2, <1>3, Replacing
  <1> QED BY <1>2, <1>4 DEF Same

LEMMA Starting ==
  ASSUME TypeOK, NEW s \in Slots, NEW op \in {"put", "get", "delete"}, NEW key \in Keys,
         NEW mine \in BOOLEAN, Start(s, op, key, mine)
  PROVE  /\ Moves(s)
         /\ jobs'[s] = [op |-> op, key |-> key, pc |-> "count", window |-> window,
                        since |-> day, mine |-> mine, ok |-> FALSE]
         /\ jobs'[s].op = op /\ jobs'[s].key = key /\ jobs'[s].pc = "count"
         /\ jobs'[s].window = window /\ jobs'[s].mine = mine
  <1> DEFINE j == [op |-> op, key |-> key, pc |-> "count", window |-> window,
                   since |-> day, mine |-> mine, ok |-> FALSE]
  <1>1. j \in Job
    BY DEF Job, TypeOK
  <1>2. jobs' = [jobs EXCEPT ![s] = j]
    BY DEF Start
  <1> HIDE DEF j
  <1>3. Moves(s) /\ jobs'[s] = j
    BY <1>1, <1>2, Replacing
  <1> QED BY <1>3 DEF j

LEMMA Clearing ==
  ASSUME TypeOK, NEW s \in Slots, jobs' = [jobs EXCEPT ![s] = NoJob]
  PROVE  /\ Moves(s) /\ jobs'[s] = NoJob
         /\ NoJob.op = "none" /\ NoJob.pc = "done" /\ NoJob.mine = FALSE
  <1>1. [table |-> "blob", id |-> 1] \in Keys /\ 0 \in Windows /\ 0 \in Days
    <2>1. 1 \in Ids
      BY Bounds
    <2> QED BY <2>1, Bounds DEF Keys, Windows, Days
  <1>2. NoJob \in Job
    BY <1>1 DEF NoJob, Job
  <1>3. NoJob.op = "none" /\ NoJob.pc = "done" /\ NoJob.mine = FALSE
    BY DEF NoJob
  <1> QED BY <1>2, <1>3, Replacing

-----------------------------------------------------------------------------
(* Type correctness *)

LEMMA OverlappingIs ==
  ASSUME jobs' \in [Slots -> Job], NEW k \in Overlapping'
  PROVE  /\ k \in Keys
         /\ \E s \in Slots : jobs'[s].key = k /\ jobs'[s].op \in {"put", "get"}
                             /\ jobs'[s].pc \in {"object", "reference"}
  <1>1. \E s \in Slots : jobs'[s].key = k /\ jobs'[s].op \in {"put", "get"}
                         /\ jobs'[s].pc \in {"object", "reference"}
    BY DEF Overlapping
  <1>2. \A s \in Slots : jobs'[s].key \in Keys
    BY DEF Job
  <1> QED BY <1>1, <1>2

(* A move of a request leaves the owner's push where it is.                *)
LEMMA Moving ==
  ASSUME MineInv, NEW s \in Slots, Moves(s), Same(s), UNCHANGED owner
  PROVE  MineInv'
  <1>1. \A t \in Slots : /\ jobs'[t].op = jobs[t].op /\ jobs'[t].key = jobs[t].key
                         /\ jobs'[t].mine = jobs[t].mine
    BY DEF Moves, Same
  <1> QED BY <1>1 DEF MineInv

(* So does a request that is not the owner's, started or forgotten.        *)
LEMMA Others ==
  ASSUME MineInv, NEW s \in Slots, Moves(s), ~jobs'[s].mine, UNCHANGED owner
  PROVE  MineInv'
  <1>1. \A t \in Slots : jobs'[t].mine => t # s /\ jobs'[t] = jobs[t]
    BY DEF Moves
  <1> QED BY <1>1 DEF MineInv

LEMMA BucketIs ==
  ASSUME TypeOK, NEW s \in Slots
  PROVE  <<Bucket(jobs[s]), jobs[s].window>> \in Buckets \X Windows
  <1>1. Bucket(jobs[s]) \in Buckets
    BY DEF Bucket, Buckets
  <1> QED BY <1>1, JobIs

LEMMA FaultIs ==
  ASSUME TypeOK, Fault \/ NoFault
  PROVE  faults' \in 0 .. MaxFaults
  <1>1. CASE Fault
    BY <1>1, Bounds DEF Fault, TypeOK
  <1>2. CASE NoFault
    BY <1>2 DEF NoFault, TypeOK
  <1> QED BY <1>1, <1>2

LEMMA LimiterType ==
  ASSUME TypeInv, NEW s \in Slots, Limiter(s)
  PROVE  TypeInv'
  <1> USE DEF TypeInv
  <1> DEFINE b == <<Bucket(jobs[s]), jobs[s].window>>
  <1>b. b \in Buckets \X Windows
    BY BucketIs
  <1>u. UNCHANGED <<day, window, stored, seen, sweep, owner, ops, used, exposed, crossed>>
    BY DEF Limiter
  <1>1. CASE Count(s)
    <2> USE <1>1 DEF Count
    <2> HIDE DEF b
    <2>1. \/ counts' = [counts EXCEPT ![b] = counts[b] + 1] /\ Goto(s, "check") /\ NoFault
          \/ Fault /\ Answer(s, FALSE) /\ UNCHANGED counts
      BY DEF b
    <2>2. UNCHANGED admitted
      OBVIOUS
    <2>3. counts' \in [Buckets \X Windows -> Nat]
      <3>1. counts \in [Buckets \X Windows -> Nat]
        BY DEF TypeOK
      <3>2. counts[b] + 1 \in Nat
        BY <3>1, <1>b
      <3> QED BY <2>1, <3>1, <3>2
    <2>4. Moves(s) /\ Same(s)
      BY <2>1, Going, Answering
    <2>5. faults' \in 0 .. MaxFaults
      BY <2>1, FaultIs
    <2>6. TypeOK'
      BY <1>u, <2>2, <2>3, <2>4, <2>5 DEF TypeOK, Moves
    <2>7. MineInv'
      BY <2>4, <1>u, Moving
    <2> QED BY <1>u, <2>6, <2>7 DEF SweepInv, UsedInv, IdsInv
  <1>2. CASE Check(s)
    <2> USE <1>2 DEF Check
    <2> HIDE DEF b
    <2>1. \/ Goto(s, "object") /\ admitted' = [admitted EXCEPT ![b] = admitted[b] + 1] /\ NoFault
          \/ Answer(s, FALSE) /\ NoFault /\ UNCHANGED admitted
          \/ Fault /\ Answer(s, FALSE) /\ UNCHANGED admitted
      BY DEF b
    <2>2. UNCHANGED counts
      OBVIOUS
    <2>3. admitted' \in [Buckets \X Windows -> Nat]
      <3>1. admitted \in [Buckets \X Windows -> Nat]
        BY DEF TypeOK
      <3>2. admitted[b] + 1 \in Nat
        BY <3>1, <1>b
      <3> QED BY <2>1, <3>1, <3>2
    <2>4. Moves(s) /\ Same(s)
      BY <2>1, Going, Answering
    <2>5. faults' \in 0 .. MaxFaults
      BY <2>1, FaultIs
    <2>6. TypeOK'
      BY <1>u, <2>2, <2>3, <2>4, <2>5 DEF TypeOK, Moves
    <2>7. MineInv'
      BY <2>4, <1>u, Moving
    <2> QED BY <1>u, <2>6, <2>7 DEF SweepInv, UsedInv, IdsInv
  <1> QED BY <1>1, <1>2 DEF Limiter

(* What a step at the object does, whichever route.                        *)
LEMMA ObjectIs ==
  ASSUME TypeOK, NEW s \in Slots, Object(s)
  PROVE  /\ Moves(s) /\ Same(s) /\ jobs[s].pc = "object"
         /\ jobs'[s].pc = "reference" \/ (jobs'[s].pc = "done" /\ jobs'[s].ok = FALSE)
         /\ jobs[s].op \in {"put", "get", "delete"}
         /\ \/ stored' = stored
            \/ jobs[s].op = "put" /\ stored' = stored \cup {jobs[s].key}
            \/ jobs[s].op = "delete" /\ stored' = stored \ {jobs[s].key}
         /\ \/ jobs'[s].pc = "done" /\ stored' = stored
            \/ /\ jobs'[s].pc = "reference" /\ jobs[s].op \in {"put", "get"}
               /\ jobs[s].key \in stored'
            \/ /\ jobs'[s].pc = "reference" /\ jobs[s].op = "delete"
               /\ jobs[s].key \notin stored'
         /\ Fault \/ NoFault
         /\ UNCHANGED seen
  <1>1. CASE PutObject(s)
    <2> USE <1>1 DEF PutObject, At
    <2>1. CASE stored' = stored \cup {jobs[s].key} /\ Goto(s, "reference") /\ NoFault
      <3>1. Moves(s) /\ Same(s) /\ jobs'[s].pc = "reference"
        BY <2>1, Going
      <3> QED BY <2>1, <3>1 DEF Same
    <2>2. CASE Fault /\ Answer(s, FALSE) /\ UNCHANGED stored
      BY <2>2, Answering DEF Same
    <2> QED BY <2>1, <2>2
  <1>2. CASE GetObject(s)
    <2> USE <1>2 DEF GetObject, At
    <2>1. CASE jobs[s].key \in stored /\ Goto(s, "reference") /\ NoFault
      <3>1. Moves(s) /\ Same(s) /\ jobs'[s].pc = "reference"
        BY <2>1, Going
      <3> QED BY <2>1, <3>1 DEF Same
    <2>2. CASE Answer(s, FALSE) /\ (Fault \/ NoFault)
      BY <2>2, Answering DEF Same
    <2> QED BY <2>1, <2>2
  <1>3. CASE DeleteObject(s)
    <2> USE <1>3 DEF DeleteObject, At
    <2>1. CASE stored' = stored \ {jobs[s].key} /\ Goto(s, "reference") /\ NoFault
      <3>1. Moves(s) /\ Same(s) /\ jobs'[s].pc = "reference"
        BY <2>1, Going
      <3> QED BY <2>1, <3>1 DEF Same
    <2>2. CASE Fault /\ Answer(s, FALSE) /\ UNCHANGED stored
      BY <2>2, Answering DEF Same
    <2> QED BY <2>1, <2>2
  <1> QED BY <1>1, <1>2, <1>3 DEF Object

LEMMA ObjectType ==
  ASSUME TypeInv, NEW s \in Slots, Object(s)
  PROVE  TypeInv'
  <1> USE DEF TypeInv
  <1>1. /\ Moves(s) /\ Same(s) /\ jobs[s].key \in Keys
        /\ stored' \subseteq stored \cup {jobs[s].key} /\ faults' \in 0 .. MaxFaults /\ UNCHANGED seen
    BY ObjectIs, JobIs, FaultIs
  <1>2. /\ UNCHANGED <<day, window, counts, limits, sweep, owner, ops>>
        /\ used' = [used EXCEPT ![jobs[s].key] = NoRow] \/ used' = used
        /\ exposed' = exposed \cup Overlapping'
    BY DEF Object
  <1>3. used' \in [Keys -> Days \cup {NoRow}]
    BY <1>1, <1>2 DEF TypeOK
  <1>4. exposed' \subseteq Keys
    BY <1>1, <1>2, OverlappingIs DEF TypeOK, Moves
  <1>5. TypeOK'
    BY <1>1, <1>2, <1>3, <1>4 DEF TypeOK, Moves, limits
  <1>6. MineInv'
    BY <1>1, <1>2, Moving
  <1>7. UsedInv'
    BY <1>1, <1>2, Sorts DEF UsedInv, NoRow, TypeOK
  <1> QED BY <1>2, <1>5, <1>6, <1>7 DEF SweepInv, IdsInv

LEMMA ReferenceType ==
  ASSUME TypeInv, NEW s \in Slots, Reference(s)
  PROVE  TypeInv'
  <1> USE DEF TypeInv
  <1> DEFINE k == jobs[s].key
  <1>k. k \in Keys /\ day \in Days
    BY JobIs DEF TypeOK
  <1>1. /\ Moves(s) /\ Same(s)
        /\ faults' \in 0 .. MaxFaults
    BY Answering, FaultIs DEF Reference
  <1> HIDE DEF k
  <1>2. /\ UNCHANGED <<day, window, counts, limits, stored, sweep, owner, ops>>
        /\ used' = [used EXCEPT ![k] = day] \/ used' = used
        /\ seen' = [seen EXCEPT ![k] = day] \/ seen' = [seen EXCEPT ![k] = NoRow] \/ seen' = seen
        /\ exposed' \subseteq exposed \cup Overlapping' \cup {k}
    BY DEF Reference, RecordReference, DropReference, k
  <1>3. used' \in [Keys -> Days \cup {NoRow}]
    BY <1>k, <1>2 DEF TypeOK
  <1>s. seen' \in [Keys -> Days \cup {NoRow}]
    BY <1>k, <1>2 DEF TypeOK
  <1>4. exposed' \subseteq Keys
    BY <1>k, <1>1, <1>2, OverlappingIs DEF TypeOK, Moves
  <1>5. TypeOK'
    BY <1>1, <1>2, <1>3, <1>4, <1>s DEF TypeOK, Moves, limits
  <1>6. MineInv'
    BY <1>1, <1>2, Moving
  <1>7. UsedInv'
    BY <1>k, <1>2, Sorts DEF UsedInv, TypeOK
  <1> QED BY <1>2, <1>5, <1>6, <1>7 DEF SweepInv, IdsInv

LEMMA Proceeding ==
  ASSUME NEW w \in Sweep
  PROVE  /\ Proceed(w) \in Sweep /\ Proceed(w).victims = w.victims
         /\ w.victims # {} => Proceed(w).pc = "object"
         /\ w.victims = {} => Proceed(w).pc \in {"none", "select"}
         /\ Proceed(w).pc # "none" => Proceed(w).cutoff = w.cutoff
  <1>1. CASE w.victims # {}
    <2>1. Proceed(w) = [w EXCEPT !.pc = "object"]
      BY <1>1 DEF Proceed
    <2> QED BY <1>1, <2>1 DEF Sweep
  <1>2. CASE w.victims = {} /\ (w.table = "restore" \/ TableAfter(w.table) \notin Tables)
    <2>1. Proceed(w) = NoSweep
      BY <1>2 DEF Proceed
    <2>2. 0 \in Days /\ "blob" \in Tables
      BY Bounds DEF Days
    <2>3. NoSweep \in Sweep /\ NoSweep.victims = {} /\ NoSweep.pc = "none"
      BY <2>2 DEF NoSweep, Sweep
    <2> QED BY <1>2, <2>1, <2>3
  <1>3. CASE w.victims = {} /\ ~(w.table = "restore" \/ TableAfter(w.table) \notin Tables)
    <2>1. Proceed(w) = [w EXCEPT !.table = TableAfter(w.table), !.pc = "select"]
      BY <1>3 DEF Proceed
    <2> QED BY <1>3, <2>1 DEF Sweep
  <1> QED BY <1>1, <1>2, <1>3

LEMMA VictimIs ==
  ASSUME TypeOK, SweepInv, sweep.pc \in {"object", "row"}
  PROVE  Victim \in sweep.victims /\ Victim \in Keys
  <1>1. sweep.victims \in SUBSET Keys /\ sweep.victims # {}
    BY Sorts DEF SweepInv
  <1> QED BY <1>1, FirstIs DEF Victim

(* The four steps of the sweep.                                            *)
LEMMA BeginIs ==
  ASSUME TypeOK, BeginSweep
  PROVE  /\ sweep.pc = "none" /\ sweep' \in Sweep /\ sweep'.pc = "select"
         /\ sweep'.victims = {} /\ sweep'.cutoff = day - MaxAge
  <1>1. 0 \in Days /\ "blob" \in Tables /\ day \in Days /\ day - MaxAge \in Int
    BY Bounds, Sorts DEF Days, MaxAge, TypeOK
  <1>2. NoSweep \in Sweep /\ NoSweep.victims = {}
    BY <1>1 DEF NoSweep, Sweep
  <1>3. sweep.pc = "none"
        /\ sweep' = [NoSweep EXCEPT !.pc = "select", !.cutoff = day - MaxAge, !.since = day]
    BY DEF BeginSweep
  <1> QED BY <1>1, <1>2, <1>3 DEF Sweep

LEMMA SelectIs ==
  ASSUME TypeOK, Select
  PROVE  /\ sweep.pc = "select" /\ sweep' \in Sweep
         /\ sweep'.victims \in SUBSET Aged(sweep.table, sweep.cutoff)
         /\ sweep'.victims # {} => sweep'.pc = "object"
         /\ sweep'.victims = {} => sweep'.pc \in {"none", "select"}
         /\ sweep'.pc # "none" => sweep'.cutoff = sweep.cutoff
         /\ Fault \/ NoFault
  <1>1. PICK v \in SUBSET Aged(sweep.table, sweep.cutoff) :
             sweep' = Proceed([sweep EXCEPT !.victims = v])
    BY DEF Select, Oldest
  <1> DEFINE w == [sweep EXCEPT !.victims = v]
  <1>2. v \in SUBSET Keys
    BY <1>1 DEF Aged
  <1>3. w \in Sweep /\ w.victims = v /\ w.cutoff = sweep.cutoff
    BY <1>2, Sorts DEF Sweep
  <1>4. sweep' = Proceed(w)
    BY <1>1
  <1> HIDE DEF w
  <1>5. sweep.pc = "select" /\ (Fault \/ NoFault)
    BY DEF Select
  <1> QED BY <1>1, <1>3, <1>4, <1>5, Proceeding

LEMMA SweepObjectIs ==
  ASSUME TypeOK, SweepObject
  PROVE  /\ sweep.pc = "object" /\ sweep' \in Sweep /\ sweep'.pc = "row"
         /\ sweep'.victims = sweep.victims /\ sweep'.cutoff = sweep.cutoff
         /\ (stored' = stored \ {Victim} /\ NoFault) \/ (stored' = stored /\ Fault)
  <1>1. sweep \in Sweep
    BY Sorts
  <1>2. sweep' = [sweep EXCEPT !.pc = "row"] /\ sweep.pc = "object"
    BY DEF SweepObject
  <1>3. (stored' = stored \ {Victim} /\ NoFault) \/ (stored' = stored /\ Fault)
    BY DEF SweepObject
  <1> QED BY <1>1, <1>2, <1>3 DEF Sweep

LEMMA SweepRowIs ==
  ASSUME TypeOK, SweepRow
  PROVE  /\ sweep.pc = "row" /\ sweep' \in Sweep
         /\ sweep'.victims = sweep.victims \ {Victim}
         /\ sweep'.victims # {} => sweep'.pc = "object"
         /\ sweep'.victims = {} => sweep'.pc \in {"none", "select"}
         /\ sweep'.pc # "none" => sweep'.cutoff = sweep.cutoff
         /\ seen' = [seen EXCEPT ![Victim] = NoRow] \/ seen' = seen
         /\ Fault \/ NoFault
  <1> DEFINE w == [sweep EXCEPT !.victims = sweep.victims \ {Victim}]
  <1>1. w \in Sweep /\ w.victims = sweep.victims \ {Victim} /\ w.cutoff = sweep.cutoff
    BY Sorts DEF Sweep
  <1>2. sweep' = Proceed(w)
    BY Sorts DEF SweepRow, Sweep
  <1> HIDE DEF w
  <1>3. /\ sweep.pc = "row" /\ (Fault \/ NoFault)
        /\ seen' = [seen EXCEPT ![Victim] = NoRow] \/ seen' = seen
    BY DEF SweepRow
  <1> QED BY <1>1, <1>2, <1>3, Proceeding

LEMMA SweepType ==
  ASSUME TypeInv, SweepStep
  PROVE  TypeInv'
  <1> USE DEF TypeInv
  <1>u. UNCHANGED <<day, window, counts, limits, jobs, owner, ops, used>>
    BY DEF SweepStep
  <1>1. /\ sweep' \in Sweep /\ SweepInv' /\ stored' \subseteq stored
        /\ seen' \in [Keys -> Days \cup {NoRow}] /\ faults' \in 0 .. MaxFaults
    <2>d. day \in Int /\ MaxAge \in Int /\ seen \in [Keys -> Days \cup {NoRow}]
      BY Sorts DEF MaxAge, TypeOK
    <2>1. CASE BeginSweep
      <3>1. stored' = stored /\ seen' = seen /\ faults' = faults
        BY <2>1 DEF BeginSweep
      <3>2. SweepInv'
        BY <1>u, <2>d, <2>1, BeginIs DEF SweepInv
      <3> QED BY <2>1, <3>1, <3>2, BeginIs DEF TypeOK
    <2>2. CASE Select
      <3>1. stored' = stored /\ seen' = seen /\ faults' \in 0 .. MaxFaults
        BY <2>2, SelectIs, FaultIs DEF Select
      <3>2. SweepInv'
        BY <1>u, <2>d, <2>2, SelectIs DEF SweepInv
      <3> QED BY <2>2, <2>d, <3>1, <3>2, SelectIs
    <2>3. CASE SweepObject
      <3>1. stored' \subseteq stored /\ seen' = seen /\ faults' \in 0 .. MaxFaults
        BY <2>3, SweepObjectIs, FaultIs DEF SweepObject
      <3>2. SweepInv'
        BY <1>u, <2>d, <2>3, SweepObjectIs DEF SweepInv
      <3> QED BY <2>3, <2>d, <3>1, <3>2, SweepObjectIs
    <2>4. CASE SweepRow
      <3>1. stored' = stored /\ faults' \in 0 .. MaxFaults
        BY <2>4, SweepRowIs, FaultIs DEF SweepRow
      <3>2. SweepInv'
        BY <1>u, <2>d, <2>4, SweepRowIs DEF SweepInv
      <3>3. seen' \in [Keys -> Days \cup {NoRow}]
        BY <2>4, <2>d, SweepRowIs
      <3> QED BY <2>4, <3>1, <3>2, <3>3, SweepRowIs
    <2> QED BY <2>1, <2>2, <2>3, <2>4 DEF SweepStep
  <1>2. exposed' \subseteq Keys
    <2>1. exposed' = exposed \cup Overlapping'
                 \cup (IF sweep.pc = "object" /\ faults' # faults THEN {Victim} ELSE {})
      BY DEF SweepStep
    <2>2. Overlapping' \subseteq Keys
      BY <1>u, OverlappingIs DEF TypeOK
    <2>3. sweep.pc = "object" => Victim \in Keys
      BY VictimIs
    <2> QED BY <2>1, <2>2, <2>3 DEF TypeOK
  <1>3. TypeOK'
    BY <1>u, <1>1, <1>2 DEF TypeOK, limits
  <1> QED BY <1>u, <1>1, <1>3 DEF MineInv, UsedInv, IdsInv

(* A visit: nothing to push, or a push begins; the names last.             *)
LEMMA VisitIs ==
  ASSUME TypeInv, Visit
  PROVE  /\ owner.pc = "idle" /\ owner' \in Owner /\ owner'.visit = day
         /\ owner'.id = owner.id /\ owner'.at = owner.at /\ owner'.failed = owner.failed
         /\ \/ owner'.pc = "idle" /\ jobs' = jobs /\ day - owner.at <= 1
            \/ /\ owner'.pc = "blob" /\ day - owner.at > 1 /\ owner.id + 1 \in Ids
               /\ \E s \in Slots :
                    Free(s) /\ Start(s, "put", [table |-> "blob", id |-> owner.id + 1], TRUE)
  <1> USE DEF TypeInv
  <1>1. /\ owner \in Owner /\ day \in Nat /\ day \in Days /\ day <= MaxDay
        /\ owner.id \in Nat /\ owner.at \in Nat /\ owner.visit \in Nat
    BY Sorts DEF TypeOK
  <1>2. owner.pc = "idle"
    BY DEF Visit
  <1>3. CASE IsStale(owner.at) /\ owner.id + 1 \in Ids
    <2>1. owner' = [owner EXCEPT !.visit = day, !.pc = "blob"]
      BY <1>3 DEF Visit
    <2>2. Free(FreeSlot) /\ Start(FreeSlot, "put", [table |-> "blob", id |-> owner.id + 1], TRUE)
      BY <1>3 DEF Visit
    <2>3. FreeSlot \in Slots
      <3>1. \E s \in Slots : (\E x \in Slots : Free(x)) => Free(s)
        BY Bounds
      <3> QED BY <3>1 DEF FreeSlot
    <2>4. day - owner.at > 1
      BY <1>3 DEF IsStale, StalePush
    <2> QED BY <1>1, <1>2, <1>3, <2>1, <2>2, <2>3, <2>4 DEF Owner
  <1>4. CASE ~(IsStale(owner.at) /\ owner.id + 1 \in Ids)
    <2>1. owner' = [owner EXCEPT !.visit = day] /\ jobs' = jobs
      BY <1>4 DEF Visit
    <2>2. day - owner.at <= 1
      <3>1. SUFFICES ASSUME day - owner.at > 1 PROVE FALSE
        BY <1>1
      <3>2. owner.id \in 0 .. MaxDay /\ 2 * owner.id <= MaxDay
        BY <1>1, <3>1, Bounds DEF IdsInv
      <3>3. owner.id + 1 \in Ids
        BY <3>2, Bounds
      <3> QED BY <1>4, <3>1, <3>3 DEF IsStale, StalePush
    <2> QED BY <1>1, <1>2, <2>1, <2>2 DEF Owner
  <1> QED BY <1>3, <1>4

LEMMA VisitType ==
  ASSUME TypeInv, Visit
  PROVE  TypeInv'
  <1> USE DEF TypeInv
  <1>u. UNCHANGED <<day, window, counts, stored, seen, sweep, ops, faults, used, exposed, limits>>
    BY DEF Visit
  <1>1. owner' \in Owner /\ UsedInv' /\ SweepInv'
    BY <1>u, VisitIs DEF UsedInv, SweepInv
  <1>2. IdsInv'
    <2>1. /\ owner.id \in Nat /\ owner.at \in Nat /\ owner.visit \in Nat /\ day \in Nat
      BY Sorts
    <2>2. /\ owner'.id = owner.id /\ owner'.at = owner.at /\ owner'.visit = day /\ day' = day
          /\ owner'.pc # "idle" => day - owner.at > 1
      BY <1>u, VisitIs
    <2> QED BY <2>1, <2>2 DEF IdsInv
  <1>3. ~\E s \in Slots : jobs[s].mine
    BY VisitIs DEF MineInv
  <1>4. CASE owner'.pc = "idle" /\ jobs' = jobs
    BY <1>u, <1>1, <1>2, <1>3, <1>4 DEF TypeOK, MineInv, limits
  <1>5. CASE owner'.pc = "blob" /\ owner.id + 1 \in Ids /\ \E s \in Slots :
               Free(s) /\ Start(s, "put", [table |-> "blob", id |-> owner.id + 1], TRUE)
    <2> DEFINE k == [table |-> "blob", id |-> owner.id + 1]
    <2>1. PICK s \in Slots : Start(s, "put", k, TRUE)
      BY <1>5
    <2>2. k \in Keys
      BY <1>5, Bounds DEF Keys
    <2>3. owner'.id = owner.id
      BY VisitIs
    <2>4. k = [table |-> owner'.pc, id |-> owner'.id + 1]
      BY <1>5, <2>3
    <2> HIDE DEF k
    <2>5. Moves(s) /\ jobs'[s].op = "put" /\ jobs'[s].key = k
      BY <2>1, <2>2, Starting
    <2>6. \A t \in Slots : jobs'[t].mine => t = s
      BY <2>5, <1>3 DEF Moves
    <2>7. MineInv'
      BY <1>5, <2>3, <2>4, <2>5, <2>6 DEF MineInv
    <2> QED BY <1>u, <1>1, <1>2, <2>5, <2>7 DEF TypeOK, Moves, limits
  <1> QED BY <1>4, <1>5, VisitIs

(* The push fails, goes on to the inventory, or has landed.                *)
LEMMA GoesOnIs ==
  ASSUME TypeInv, NEW s \in Slots, OwnerGoesOn(s)
  PROVE  /\ jobs[s].mine /\ jobs[s].pc = "done" /\ owner' \in Owner
         /\ owner.pc # "idle" /\ owner'.visit = owner.visit
         /\ \/ /\ ~jobs[s].ok /\ owner'.pc = "idle" /\ owner'.failed = TRUE
               /\ owner'.id = owner.id /\ owner'.at = owner.at
               /\ jobs' = [jobs EXCEPT ![s] = NoJob]
            \/ /\ jobs[s].ok /\ owner.pc = "blob" /\ owner'.pc = "inv"
               /\ owner'.failed = owner.failed
               /\ owner'.id = owner.id /\ owner'.at = owner.at
               /\ Start(s, "put", [table |-> "inv", id |-> owner.id + 1], TRUE)
            \/ /\ jobs[s].ok /\ owner.pc = "inv" /\ owner'.pc = "idle"
               /\ owner'.failed = owner.failed
               /\ owner'.id = owner.id + 1 /\ owner'.at = day
               /\ jobs' = [jobs EXCEPT ![s] = NoJob]
  <1> USE DEF TypeInv
  <1>1. /\ owner \in Owner /\ day \in Days /\ owner.id \in Nat /\ jobs[s].mine
        /\ jobs[s].pc = "done"
    BY Sorts DEF TypeOK, OwnerGoesOn
  <1>2. owner.pc \in {"blob", "inv"} /\ owner.id + 1 \in Ids
    BY <1>1 DEF MineInv, Owner
  <1>3. CASE ~jobs[s].ok
    <2>1. /\ owner' = [owner EXCEPT !.pc = "idle", !.failed = TRUE]
          /\ jobs' = [jobs EXCEPT ![s] = NoJob]
      BY <1>3 DEF OwnerGoesOn
    <2> QED BY <1>1, <1>2, <1>3, <2>1 DEF Owner
  <1>4. CASE jobs[s].ok /\ owner.pc = "blob"
    <2>1. /\ owner' = [owner EXCEPT !.pc = "inv"]
          /\ Start(s, "put", [table |-> "inv", id |-> owner.id + 1], TRUE)
      BY <1>4 DEF OwnerGoesOn
    <2> QED BY <1>1, <1>2, <1>4, <2>1 DEF Owner
  <1>5. CASE jobs[s].ok /\ owner.pc = "inv"
    <2>1. /\ owner' = [owner EXCEPT !.pc = "idle", !.id = owner.id + 1, !.at = day]
          /\ jobs' = [jobs EXCEPT ![s] = NoJob]
      BY <1>5 DEF OwnerGoesOn
    <2> QED BY <1>1, <1>2, <1>5, <2>1 DEF Owner
  <1> QED BY <1>2, <1>3, <1>4, <1>5

LEMMA GoesOnType ==
  ASSUME TypeInv, NEW s \in Slots, OwnerGoesOn(s)
  PROVE  TypeInv'
  <1> USE DEF TypeInv
  <1>u. UNCHANGED <<day, window, counts, stored, seen, sweep, ops, faults, used, exposed, limits>>
    BY DEF OwnerGoesOn
  <1>s. /\ owner.id \in Nat /\ owner.at \in Nat /\ owner.visit \in Nat /\ day \in Nat
        /\ owner.id + 1 \in Ids
    BY Sorts, GoesOnIs DEF MineInv
  <1>1. owner' \in Owner /\ UsedInv' /\ SweepInv'
    BY <1>u, GoesOnIs DEF UsedInv, SweepInv
  <1>2. \A t \in Slots : jobs[t].mine => t = s
    BY GoesOnIs DEF MineInv
  <1>3. CASE owner'.pc = "idle" /\ jobs' = [jobs EXCEPT ![s] = NoJob]
    <2>1. Moves(s) /\ jobs'[s].mine = FALSE
      BY <1>3, Clearing
    <2>2. \A t \in Slots : ~jobs'[t].mine
      BY <1>2, <2>1 DEF Moves
    <2>3. MineInv'
      BY <1>3, <2>2 DEF MineInv
    <2>4. IdsInv'
      <3>1. (owner'.id = owner.id /\ owner'.at = owner.at) \/ (owner'.id = owner.id + 1 /\ owner'.at = day)
        BY GoesOnIs
      <3>2. owner'.visit = owner.visit /\ owner.pc # "idle" /\ day' = day
        BY GoesOnIs, <1>u
      <3>3. CASE owner'.id = owner.id /\ owner'.at = owner.at
        BY <1>3, <3>2, <3>3 DEF IdsInv
      <3>4. CASE owner'.id = owner.id + 1 /\ owner'.at = day
        <4>1. owner.visit = day
          BY <3>2 DEF IdsInv
        <4> QED BY <1>3, <1>s, <3>2, <3>4, <4>1 DEF IdsInv
      <3> QED BY <3>1, <3>3, <3>4
    <2> QED BY <1>u, <1>1, <2>1, <2>3, <2>4 DEF TypeOK, Moves, limits
  <1>4. CASE /\ owner'.pc = "inv" /\ owner'.id = owner.id /\ owner'.at = owner.at
             /\ Start(s, "put", [table |-> "inv", id |-> owner.id + 1], TRUE)
    <2> DEFINE k == [table |-> "inv", id |-> owner.id + 1]
    <2>1. k \in Keys
      BY <1>s, Bounds DEF Keys
    <2>2. k = [table |-> owner'.pc, id |-> owner'.id + 1]
      BY <1>4
    <2>3. Start(s, "put", k, TRUE)
      BY <1>4
    <2> HIDE DEF k
    <2>4. Moves(s) /\ jobs'[s].op = "put" /\ jobs'[s].key = k
      BY <2>1, <2>3, Starting
    <2>5. \A t \in Slots : jobs'[t].mine => t = s
      BY <2>4, <1>2 DEF Moves
    <2>6. MineInv'
      BY <1>s, <1>4, <2>2, <2>4, <2>5 DEF MineInv
    <2>7. IdsInv'
      BY <1>u, <1>4, GoesOnIs DEF IdsInv
    <2> QED BY <1>u, <1>1, <2>4, <2>6, <2>7 DEF TypeOK, Moves, limits
  <1> QED BY <1>3, <1>4, GoesOnIs

LEMMA RequestIs ==
  ASSUME TypeOK, NEW s \in Slots, Request(s)
  PROVE  /\ Free(s) /\ Moves(s) /\ jobs'[s].pc = "count" /\ jobs'[s].mine = FALSE
         /\ jobs'[s].window = window
         /\ jobs'[s].op = "delete" => jobs'[s].key.table = "restore"
  <1>1. PICK k \in Keys, op \in {"put", "get", "delete"} :
             /\ Start(s, op, k, FALSE)
             /\ op = "delete" => k.table = "restore"
    BY DEF Request, Methods
  <1>2. /\ Moves(s)
        /\ jobs'[s].pc = "count" /\ jobs'[s].mine = FALSE /\ jobs'[s].op = op
        /\ jobs'[s].key = k /\ jobs'[s].window = window
    BY <1>1, Starting
  <1> QED BY <1>1, <1>2 DEF Request

LEMMA RequestType ==
  ASSUME TypeInv, NEW s \in Slots, Request(s)
  PROVE  TypeInv'
  <1> USE DEF TypeInv
  <1>u. UNCHANGED <<day, window, counts, stored, seen, sweep, owner, faults, used, exposed, limits>>
    BY DEF Request
  <1>1. Moves(s) /\ jobs'[s].mine = FALSE
    BY RequestIs
  <1>2. ops' \in 0 .. MaxOps
    BY Bounds DEF Request, TypeOK
  <1>3. TypeOK'
    BY <1>u, <1>1, <1>2 DEF TypeOK, Moves, limits
  <1>4. MineInv'
    BY <1>u, <1>1, Others
  <1> QED BY <1>u, <1>3, <1>4 DEF SweepInv, UsedInv, IdsInv

LEMMA FinishType ==
  ASSUME TypeInv, NEW s \in Slots, Finish(s)
  PROVE  TypeInv'
  <1> USE DEF TypeInv
  <1>u. UNCHANGED <<day, window, counts, stored, seen, sweep, owner, ops, faults, used,
                    exposed, limits>>
    BY DEF Finish
  <1>1. Moves(s) /\ jobs'[s].mine = FALSE
    BY Clearing DEF Finish
  <1>2. TypeOK'
    BY <1>u, <1>1 DEF TypeOK, Moves, limits
  <1>3. MineInv'
    BY <1>u, <1>1, Others
  <1> QED BY <1>u, <1>2, <1>3 DEF SweepInv, UsedInv, IdsInv

LEMMA NextDayType ==
  ASSUME TypeInv, NextDay
  PROVE  TypeInv'
  <1> USE DEF TypeInv
  <1>u. /\ UNCHANGED <<stored, seen, jobs, sweep, owner, ops, faults, used, exposed>>
        /\ day' = day + 1 /\ day < MaxDay /\ owner.pc = "idle"
    BY DEF NextDay
  <1>s. /\ day \in Nat /\ owner.id \in Nat /\ owner.at \in Nat /\ owner.visit \in Nat
        /\ sweep.cutoff \in Int /\ MaxAge \in Int /\ \A k \in Keys : used[k] \in Int
    BY Sorts DEF MaxAge
  <1>1. /\ window' \in Windows /\ counts' \in [Buckets \X Windows -> Nat]
        /\ admitted' \in [Buckets \X Windows -> Nat] /\ crossed' \subseteq Windows
    <2>1. CASE NewWindows
      <3>1. 0 \in Windows /\ NoCounts \in [Buckets \X Windows -> Nat]
        BY Bounds DEF Windows, NoCounts
      <3> QED BY <2>1, <3>1 DEF NewWindows
    <2>2. CASE UNCHANGED <<window, counts, limits>>
      BY <2>2 DEF TypeOK, limits
    <2> QED BY <2>1, <2>2 DEF NextDay
  <1>2. day' \in Days
    BY <1>u, <1>s, Bounds DEF Days
  <1>3. TypeOK'
    BY <1>u, <1>1, <1>2 DEF TypeOK
  <1>4. MineInv' /\ IdsInv'
    BY <1>u, <1>s DEF MineInv, IdsInv
  <1>5. SweepInv' /\ UsedInv'
    BY <1>u, <1>s DEF SweepInv, UsedInv
  <1> QED BY <1>3, <1>4, <1>5

LEMMA NextType ==
  ASSUME TypeInv, [Next]_vars
  PROVE  TypeInv'
  <1>1. CASE Handlers
    <2>1. PICK s \in Slots :
            Limiter(s) \/ Object(s) \/ Reference(s) \/ OwnerGoesOn(s) \/ Finish(s)
      BY <1>1 DEF Handlers
    <2> QED BY <2>1, LimiterType, ObjectType, ReferenceType, GoesOnType, FinishType
  <1>2. CASE \E s \in Slots : Request(s)
    BY <1>2, RequestType
  <1>3. CASE NextWindow
    <2>1. /\ UNCHANGED <<day, counts, stored, seen, jobs, sweep, owner, ops, faults, used,
                         exposed, limits>>
          /\ window' = window + 1 /\ window < MaxWindow
      BY <1>3 DEF NextWindow
    <2>2. window' \in Windows
      BY <2>1, Sorts, Bounds DEF Windows, TypeInv
    <2> QED BY <2>1, <2>2 DEF TypeInv, TypeOK, MineInv, SweepInv, UsedInv, IdsInv, limits
  <1>4. CASE Cleanup
    <2>1. /\ UNCHANGED <<day, window, stored, seen, jobs, sweep, owner, ops, faults, used,
                         exposed, admitted>>
          /\ crossed' \subseteq crossed \cup Windows
          /\ counts' = [b \in DOMAIN counts |-> IF b[2] < window THEN 0 ELSE counts[b]]
      BY <1>4 DEF Cleanup, SweepCounters
    <2>2. counts' \in [Buckets \X Windows -> Nat]
      BY <2>1 DEF TypeInv, TypeOK
    <2> QED BY <2>1, <2>2 DEF TypeInv, TypeOK, MineInv, SweepInv, UsedInv, IdsInv
  <1>5. CASE UNCHANGED vars
    BY <1>5 DEF vars, TypeInv, TypeOK, MineInv, SweepInv, UsedInv, IdsInv, limits
  <1> QED BY <1>1, <1>2, <1>3, <1>4, <1>5, SweepType, VisitType, NextDayType DEF Next

LEMMA InitType ==
  ASSUME Init
  PROVE  TypeInv
  <1> DEFINE first == [table : Tables, id : {1}]
  <1>1. 0 \in Days /\ 0 \in Windows /\ 1 \in Ids /\ "blob" \in Tables
    BY Bounds DEF Days, Windows
  <1>2. first \subseteq Keys
    BY <1>1 DEF Keys
  <1>3. /\ day = 0 /\ window = 0 /\ counts = NoCounts /\ stored = first
        /\ seen = [k \in Keys |-> IF k \in first THEN 0 ELSE NoRow]
        /\ jobs = [s \in Slots |-> NoJob] /\ sweep = NoSweep
        /\ owner = [id |-> 1, at |-> 0, visit |-> 0, failed |-> FALSE, pc |-> "idle"]
        /\ ops = 0 /\ faults = 0 /\ used = seen /\ exposed = {} /\ admitted = NoCounts
        /\ crossed = {}
    BY DEF Init
  <1> HIDE DEF first
  <1>4. seen \in [Keys -> Days \cup {NoRow}]
    BY <1>1, <1>3
  <1>5. [table |-> "blob", id |-> 1] \in Keys
    BY <1>1 DEF Keys
  <1>6. NoJob \in Job /\ NoJob.mine = FALSE
    BY <1>1, <1>5 DEF NoJob, Job
  <1>7. NoSweep \in Sweep /\ NoSweep.pc = "none" /\ NoSweep.victims = {}
    BY <1>1 DEF NoSweep, Sweep
  <1>8. /\ owner \in Owner /\ owner.id = 1 /\ owner.at = 0 /\ owner.visit = 0
        /\ owner.pc = "idle"
    BY <1>1, <1>3 DEF Owner
  <1>9. NoCounts \in [Buckets \X Windows -> Nat] /\ 0 \in 0 .. MaxOps /\ 0 \in 0 .. MaxFaults
    BY Bounds DEF NoCounts
  <1>10. TypeOK
    BY <1>1, <1>2, <1>3, <1>4, <1>6, <1>7, <1>8, <1>9 DEF TypeOK
  <1>11. MineInv /\ SweepInv /\ IdsInv
    BY <1>3, <1>6, <1>7, <1>8 DEF MineInv, SweepInv, IdsInv
  <1>12. UsedInv
    BY <1>3 DEF UsedInv, NoRow
  <1> QED BY <1>10, <1>11, <1>12 DEF TypeInv

-----------------------------------------------------------------------------
(* The rate limiter *)

LEMMA CheckingIs ==
  ASSUME TypeOK, NEW b \in Buckets \X Windows
  PROVE  /\ Checking(b) \subseteq Slots /\ IsFiniteSet(Checking(b))
         /\ Cardinality(Checking(b)) \in Nat
         /\ admitted[b] \in Nat /\ counts[b] \in Nat /\ b[2] \in Nat /\ window \in Nat
  <1>1. Checking(b) \subseteq Slots /\ IsFiniteSet(Slots)
    BY Bounds DEF Checking
  <1>2. IsFiniteSet(Checking(b)) /\ Cardinality(Checking(b)) \in Nat
    BY <1>1, FS_Subset, FS_CardinalityType
  <1>3. admitted[b] \in Nat /\ counts[b] \in Nat
    BY DEF TypeOK
  <1>4. b[2] \in Windows /\ Windows \subseteq Nat
    BY Bounds DEF Windows
  <1> QED BY <1>1, <1>2, <1>3, <1>4, Sorts

(* A request that neither arrives at its check nor is admitted.            *)
LEMMA Uncounted ==
  ASSUME TypeInv, CountInv, NEW s \in Slots, Moves(s),
         ~(jobs'[s].op # "none" /\ jobs'[s].pc = "check"),
         \/ jobs'[s].op = "none" \/ jobs'[s].pc # "count" \/ jobs'[s].window = window,
         UNCHANGED <<window, counts, admitted, crossed>>
  PROVE  CountInv'
  <1> SUFFICES ASSUME NEW b \in Buckets \X Windows, b[2] \notin crossed
               PROVE  /\ admitted[b] <= Limit
                      /\ \/ admitted[b] + Cardinality(Checking(b)') <= counts[b]
                         \/ b[2] < window /\ ~Undecided(b[2])'
    BY DEF CountInv
  <1>1. Checking(b)' \subseteq Checking(b)
    BY DEF Checking, At, Moves
  <1>2. /\ IsFiniteSet(Checking(b)) /\ Cardinality(Checking(b)) \in Nat
        /\ admitted[b] \in Nat /\ counts[b] \in Nat /\ b[2] \in Nat /\ window \in Nat
    BY CheckingIs DEF TypeInv
  <1>3. /\ Cardinality(Checking(b)') \in Nat
        /\ Cardinality(Checking(b)') <= Cardinality(Checking(b))
    BY <1>1, <1>2, FS_Subset, FS_CardinalityType
  <1>4. b[2] < window /\ Undecided(b[2])' => Undecided(b[2])
    BY <1>2 DEF Undecided, At, Moves
  <1>5. /\ admitted[b] <= Limit
        /\ \/ admitted[b] + Cardinality(Checking(b)) <= counts[b]
           \/ b[2] < window /\ ~Undecided(b[2])
    BY DEF CountInv
  <1>6. CASE admitted[b] + Cardinality(Checking(b)) <= counts[b]
    BY <1>2, <1>3, <1>5, <1>6
  <1>7. CASE b[2] < window /\ ~Undecided(b[2])
    BY <1>4, <1>5, <1>7
  <1> QED BY <1>5, <1>6, <1>7

(* A request counts itself and is about to check.                          *)
LEMMA Counting ==
  ASSUME TypeInv, CountInv, NEW s \in Slots, NEW d, d = <<Bucket(jobs[s]), jobs[s].window>>,
         At(s, "count"), counts' = [counts EXCEPT ![d] = counts[d] + 1], Goto(s, "check"),
         UNCHANGED <<window, admitted, crossed>>
  PROVE  CountInv'
  <1> SUFFICES ASSUME NEW b \in Buckets \X Windows, b[2] \notin crossed
               PROVE  /\ admitted[b] <= Limit
                      /\ \/ admitted[b] + Cardinality(Checking(b)') <= counts'[b]
                         \/ b[2] < window /\ ~Undecided(b[2])'
    BY DEF CountInv
  <1>d. d \in Buckets \X Windows /\ counts \in [Buckets \X Windows -> Nat]
    BY BucketIs DEF TypeInv, TypeOK
  <1>m. /\ Moves(s) /\ jobs'[s].pc = "check" /\ jobs'[s].window = jobs[s].window
        /\ jobs'[s].op = jobs[s].op /\ jobs'[s].key = jobs[s].key
    BY Going DEF TypeInv, Same
  <1>e. Bucket(jobs'[s]) = Bucket(jobs[s])
    BY <1>m DEF Bucket
  <1>1. Undecided(b[2])' => Undecided(b[2])
    <2>1. SUFFICES ASSUME NEW x \in Slots, jobs'[x].window = b[2], jobs'[x].op # "none",
                          jobs'[x].pc \in {"count", "check"}
                   PROVE  Undecided(b[2])
      BY DEF Undecided, At
    <2>2. CASE x = s
      BY <2>1, <2>2, <1>m DEF Undecided, At
    <2>3. CASE x # s
      BY <2>1, <2>3, <1>m DEF Undecided, At, Moves
    <2> QED BY <2>2, <2>3
  <1>2. /\ IsFiniteSet(Checking(b)) /\ Cardinality(Checking(b)) \in Nat
        /\ admitted[b] \in Nat /\ counts[b] \in Nat /\ b[2] \in Nat /\ window \in Nat
    BY CheckingIs DEF TypeInv
  <1>3. /\ admitted[b] <= Limit
        /\ \/ admitted[b] + Cardinality(Checking(b)) <= counts[b]
           \/ b[2] < window /\ ~Undecided(b[2])
    BY DEF CountInv
  <1>4. CASE b # d
    <2>1. Checking(b)' = Checking(b)
      <3>1. \A x \in Slots : x # s => jobs'[x] = jobs[x]
        BY <1>m DEF Moves
      <3>2. <<Bucket(jobs'[s]), jobs'[s].window>> # b
        BY <1>4, <1>m, <1>e
      <3>3. <<Bucket(jobs[s]), jobs[s].window>> # b
        BY <1>4
      <3> QED BY <3>1, <3>2, <3>3 DEF Checking, At
    <2>2. counts'[b] = counts[b]
      BY <1>4, <1>d
    <2> QED BY <1>1, <1>2, <1>3, <2>1, <2>2
  <1>5. CASE b = d
    <2>1. Checking(b)' = Checking(b) \cup {s}
      <3>1. \A x \in Slots : x # s => jobs'[x] = jobs[x]
        BY <1>m DEF Moves
      <3>2. <<Bucket(jobs'[s]), jobs'[s].window>> = b /\ jobs'[s].op # "none"
        BY <1>5, <1>m, <1>e DEF At
      <3> QED BY <3>1, <3>2, <1>m DEF Checking, At
    <2>2. s \notin Checking(b)
      BY DEF Checking, At
    <2>3. Cardinality(Checking(b)') = Cardinality(Checking(b)) + 1
      BY <1>2, <2>1, <2>2, FS_AddElement
    <2>4. counts'[b] = counts[b] + 1
      BY <1>5, <1>d
    <2>5. Undecided(b[2])
      BY <1>5 DEF Undecided
    <2> QED BY <1>2, <1>3, <2>3, <2>4, <2>5
  <1> QED BY <1>4, <1>5

(* A request is admitted.                                                  *)
LEMMA Admitting ==
  ASSUME TypeInv, CountInv, NEW s \in Slots, NEW d, d = <<Bucket(jobs[s]), jobs[s].window>>,
         At(s, "check"), counts[d] <= Limit, Goto(s, "object"),
         admitted' = [admitted EXCEPT ![d] = admitted[d] + 1],
         UNCHANGED <<window, counts, crossed>>
  PROVE  CountInv'
  <1> SUFFICES ASSUME NEW b \in Buckets \X Windows, b[2] \notin crossed
               PROVE  /\ admitted'[b] <= Limit
                      /\ \/ admitted'[b] + Cardinality(Checking(b)') <= counts[b]
                         \/ b[2] < window /\ ~Undecided(b[2])'
    BY DEF CountInv
  <1>d. d \in Buckets \X Windows /\ admitted \in [Buckets \X Windows -> Nat] /\ Limit \in Nat
    BY BucketIs, Bounds DEF TypeInv, TypeOK
  <1>m. Moves(s) /\ jobs'[s].pc = "object"
    BY Going DEF TypeInv
  <1>1. Undecided(b[2])' => Undecided(b[2])
    BY <1>m DEF Undecided, At, Moves
  <1>2. /\ IsFiniteSet(Checking(b)) /\ Cardinality(Checking(b)) \in Nat
        /\ admitted[b] \in Nat /\ counts[b] \in Nat /\ b[2] \in Nat /\ window \in Nat
    BY CheckingIs DEF TypeInv
  <1>3. /\ admitted[b] <= Limit
        /\ \/ admitted[b] + Cardinality(Checking(b)) <= counts[b]
           \/ b[2] < window /\ ~Undecided(b[2])
    BY DEF CountInv
  <1>4. Checking(b)' = Checking(b) \ {s}
    BY <1>m DEF Checking, At, Moves
  <1>5. CASE b # d
    <2>1. s \notin Checking(b)
      BY <1>5 DEF Checking
    <2>2. Checking(b)' = Checking(b)
      BY <1>4, <2>1
    <2>3. admitted'[b] = admitted[b]
      BY <1>5, <1>d
    <2> QED BY <1>1, <1>2, <1>3, <2>2, <2>3
  <1>6. CASE b = d
    <2>1. s \in Checking(b)
      BY <1>6 DEF Checking
    <2>2. Cardinality(Checking(b)') = Cardinality(Checking(b)) - 1 /\ Cardinality(Checking(b)') \in Nat
      BY <1>2, <1>4, <2>1, FS_RemoveElement, FS_CardinalityType
    <2>3. admitted'[b] = admitted[b] + 1
      BY <1>6, <1>d
    <2>4. Undecided(b[2])
      BY <1>6 DEF Undecided
    <2>5. admitted[b] + Cardinality(Checking(b)) <= counts[b] /\ counts[b] <= Limit
      BY <1>3, <1>6, <2>4
    <2> QED BY <1>2, <1>d, <2>2, <2>3, <2>5
  <1> QED BY <1>5, <1>6

LEMMA LimiterCount ==
  ASSUME TypeInv, CountInv, NEW s \in Slots, Limiter(s)
  PROVE  CountInv'
  <1> DEFINE d == <<Bucket(jobs[s]), jobs[s].window>>
  <1>u. UNCHANGED <<window, crossed>> /\ TypeOK
    BY DEF Limiter, TypeInv
  <1>1. CASE Answer(s, FALSE) /\ UNCHANGED <<counts, admitted>>
    <2>1. Moves(s) /\ jobs'[s].pc = "done"
      BY <1>1, <1>u, Answering
    <2> QED BY <1>1, <1>u, <2>1, Uncounted
  <1>2. CASE Count(s) /\ ~(Answer(s, FALSE) /\ UNCHANGED <<counts, admitted>>)
    <2>1. /\ At(s, "count") /\ counts' = [counts EXCEPT ![d] = counts[d] + 1]
          /\ Goto(s, "check") /\ UNCHANGED admitted
      BY <1>2 DEF Count
    <2> HIDE DEF d
    <2> QED BY <1>u, <2>1, Counting DEF d
  <1>3. CASE Check(s) /\ ~(Answer(s, FALSE) /\ UNCHANGED <<counts, admitted>>)
    <2>1. /\ At(s, "check") /\ counts[d] <= Limit /\ Goto(s, "object")
          /\ admitted' = [admitted EXCEPT ![d] = admitted[d] + 1] /\ UNCHANGED counts
      BY <1>3 DEF Check
    <2> HIDE DEF d
    <2> QED BY <1>u, <2>1, Admitting DEF d
  <1> QED BY <1>1, <1>2, <1>3 DEF Limiter

LEMMA NextDayCount ==
  ASSUME TypeInv, CountInv, NextDay
  PROVE  CountInv'
  <1>u. UNCHANGED jobs
    BY DEF NextDay
  <1>1. CASE UNCHANGED <<window, counts, limits>>
    BY <1>1, <1>u DEF CountInv, Checking, Undecided, At, limits
  <1>2. CASE NewWindows /\ \A s \in Slots : Free(s)
    <2>1. \A b \in Buckets \X Windows : Checking(b)' = {}
      BY <1>u, <1>2 DEF Checking, At, Free
    <2>2. \A b \in Buckets \X Windows : admitted'[b] = 0 /\ counts'[b] = 0
      BY <1>2 DEF NewWindows, NoCounts
    <2>3. Cardinality({}) = 0 /\ 0 <= Limit
      BY FS_EmptySet, Bounds
    <2> QED BY <2>1, <2>2, <2>3 DEF CountInv
  <1> QED BY <1>1, <1>2 DEF NextDay

(* The sweep of the counters: a window that is over is crossed, or has     *)
(* nobody left to decide.                                                  *)
LEMMA CleanupCount ==
  ASSUME TypeInv, CountInv, Cleanup
  PROVE  CountInv'
  <1>u. /\ UNCHANGED <<window, jobs, admitted>>
        /\ counts' = [b \in DOMAIN counts |-> IF b[2] < window THEN 0 ELSE counts[b]]
        /\ crossed' = crossed \cup {w \in Windows :
               w < window /\ \E s \in Slots : jobs[s].window = w /\ (At(s, "count") \/ At(s, "check"))}
    BY DEF Cleanup, SweepCounters
  <1> SUFFICES ASSUME NEW b \in Buckets \X Windows, b[2] \notin crossed'
               PROVE  /\ admitted[b] <= Limit
                      /\ \/ admitted[b] + Cardinality(Checking(b)) <= counts'[b]
                         \/ b[2] < window /\ ~Undecided(b[2])
    BY <1>u DEF CountInv, Checking, Undecided, At
  <1>1. b[2] \in Windows /\ b[2] \notin crossed
    BY <1>u
  <1>2. b[2] < window => ~Undecided(b[2])
    BY <1>u, <1>1 DEF Undecided
  <1>3. DOMAIN counts = Buckets \X Windows
    BY DEF TypeInv, TypeOK
  <1>4. ~(b[2] < window) => counts'[b] = counts[b]
    BY <1>u, <1>3
  <1> QED BY <1>1, <1>2, <1>4 DEF CountInv

LEMMA NextCount ==
  ASSUME TypeInv, CountInv, [Next]_vars
  PROVE  CountInv'
  <1>t. TypeOK
    BY DEF TypeInv
  <1>1. CASE Handlers
    <2>1. PICK s \in Slots :
            Limiter(s) \/ Object(s) \/ Reference(s) \/ OwnerGoesOn(s) \/ Finish(s)
      BY <1>1 DEF Handlers
    <2>2. CASE Object(s)
      <3>1. Moves(s) /\ jobs'[s].pc # "check" /\ jobs'[s].pc # "count"
        BY <1>t, <2>2, ObjectIs
      <3> QED BY <2>2, <3>1, Uncounted DEF Object, limits
    <2>3. CASE Reference(s)
      <3>1. Moves(s) /\ jobs'[s].pc = "done"
        BY <1>t, <2>3, Answering DEF Reference
      <3> QED BY <2>3, <3>1, Uncounted DEF Reference, limits
    <2>4. CASE OwnerGoesOn(s)
      <3>1. CASE jobs' = [jobs EXCEPT ![s] = NoJob]
        <4>1. Moves(s) /\ jobs'[s].op = "none"
          BY <1>t, <3>1, Clearing
        <4> QED BY <2>4, <4>1, Uncounted DEF OwnerGoesOn, limits
      <3>2. CASE Start(s, "put", [table |-> "inv", id |-> owner.id + 1], TRUE)
        <4>1. [table |-> "inv", id |-> owner.id + 1] \in Keys
          BY <2>4, GoesOnIs, Bounds DEF TypeInv, MineInv, Keys
        <4>2. Moves(s) /\ jobs'[s].pc = "count" /\ jobs'[s].window = window
          BY <1>t, <3>2, <4>1, Starting
        <4> QED BY <2>4, <4>2, Uncounted DEF OwnerGoesOn, limits
      <3> QED BY <2>4, <3>1, <3>2, GoesOnIs
    <2>5. CASE Finish(s)
      <3>1. Moves(s) /\ jobs'[s].op = "none"
        BY <1>t, <2>5, Clearing DEF Finish
      <3> QED BY <2>5, <3>1, Uncounted DEF Finish, limits
    <2> QED BY <2>1, <2>2, <2>3, <2>4, <2>5, LimiterCount
  <1>2. CASE \E s \in Slots : Request(s)
    <2>1. PICK s \in Slots : Request(s)
      BY <1>2
    <2>2. Moves(s) /\ jobs'[s].pc = "count" /\ jobs'[s].window = window
      BY <1>t, <2>1, RequestIs
    <2> QED BY <2>1, <2>2, Uncounted DEF Request, limits
  <1>3. CASE Visit
    <2>1. CASE jobs' = jobs
      BY <1>3, <2>1 DEF Visit, CountInv, Checking, Undecided, At, limits
    <2>2. CASE owner.id + 1 \in Ids /\ \E s \in Slots :
                 Start(s, "put", [table |-> "blob", id |-> owner.id + 1], TRUE)
      <3>1. PICK s \in Slots : Start(s, "put", [table |-> "blob", id |-> owner.id + 1], TRUE)
        BY <2>2
      <3>2. [table |-> "blob", id |-> owner.id + 1] \in Keys
        BY <2>2, Bounds DEF Keys
      <3>3. Moves(s) /\ jobs'[s].pc = "count" /\ jobs'[s].window = window
        BY <1>t, <3>1, <3>2, Starting
      <3> QED BY <1>3, <3>3, Uncounted DEF Visit, limits
    <2> QED BY <1>3, <2>1, <2>2, VisitIs
  <1>4. CASE SweepStep
    BY <1>4 DEF SweepStep, CountInv, Checking, Undecided, At, limits
  <1>5. CASE NextWindow
    <2>1. UNCHANGED <<jobs, counts, admitted, crossed>> /\ window' = window + 1 /\ window \in Nat
      BY <1>5, <1>t, Sorts DEF NextWindow, limits
    <2>2. \A b \in Buckets \X Windows : Checking(b)' = Checking(b) /\ Undecided(b[2])' = Undecided(b[2])
      BY <2>1 DEF Checking, Undecided, At
    <2>3. \A b \in Buckets \X Windows : b[2] \in Nat
      BY <1>t, CheckingIs
    <2> QED BY <2>1, <2>2, <2>3 DEF CountInv
  <1>6. CASE UNCHANGED vars
    BY <1>6 DEF vars, CountInv, Checking, Undecided, At, limits
  <1> QED BY <1>1, <1>2, <1>3, <1>4, <1>5, <1>6, NextDayCount, CleanupCount DEF Next

LEMMA InitCount ==
  ASSUME Init
  PROVE  CountInv
  <1>1. /\ admitted = NoCounts /\ counts = NoCounts /\ jobs = [s \in Slots |-> NoJob]
    BY DEF Init
  <1>2. \A b \in Buckets \X Windows : Checking(b) = {} /\ admitted[b] = 0 /\ counts[b] = 0
    BY <1>1 DEF Checking, At, NoJob, NoCounts
  <1>3. Cardinality({}) = 0 /\ 0 <= Limit
    BY FS_EmptySet, Bounds
  <1> QED BY <1>2, <1>3 DEF CountInv

-----------------------------------------------------------------------------
(* Objects and their rows *)

(* What touches a key while the sweep or a delete is at it is exposed.     *)
LEMMA Overlaps ==
  ASSUME jobs' \in [Slots -> Job], NEW k, k \notin Overlapping', Touching(k)'
  PROVE  k \notin sweep'.victims /\ ~Deleting(k)'
  <1>1. PICK t \in Slots : /\ jobs'[t].op \notin {"none", "delete"} /\ jobs'[t].pc = "reference"
                           /\ jobs'[t].key = k
    BY DEF Touching, AtReference, At
  <1>2. jobs'[t].op \in {"put", "get"}
    BY <1>1 DEF Job
  <1>3. k \in {jobs'[s].key : s \in {x \in Slots :
                 jobs'[x].op \in {"put", "get"} /\ jobs'[x].pc \in {"object", "reference"}}}
    BY <1>1, <1>2
  <1>4. k \notin sweep'.victims
    BY <1>3 DEF Overlapping
  <1>5. ASSUME Deleting(k)' PROVE FALSE
    <2>1. k \in {jobs'[s].key : s \in {x \in Slots :
                   jobs'[x].op \in {"delete"} /\ jobs'[x].pc \in {"reference"}}}
      BY <1>5 DEF Deleting, AtReference, At
    <2> QED BY <1>3, <2>1 DEF Overlapping
  <1> QED BY <1>4, <1>5

(* Only a request that comes to its reference, or leaves it, touches.      *)
LEMMA Elsewhere ==
  ASSUME TypeOK, NEW k, NEW s \in Slots, Moves(s),
         ~AtReference(s, k), ~AtReference(s, k)'
  PROVE  (Touching(k)' <=> Touching(k)) /\ (Deleting(k)' <=> Deleting(k))
  <1>1. \A t \in Slots : t # s => jobs'[t] = jobs[t]
    BY DEF Moves
  <1>2. \A t \in Slots : AtReference(t, k)' <=> AtReference(t, k)
    BY <1>1 DEF AtReference, At
  <1>3. \A t \in Slots : AtReference(t, k) => jobs'[t].op = jobs[t].op
    BY <1>1
  <1> QED BY <1>2, <1>3 DEF Touching, Deleting

(* A key that no part of the step is about.                                *)
LEMMA Keeping ==
  ASSUME NEW k, KeyInv(k), exposed \subseteq exposed',
         Touching(k)' <=> Touching(k), Deleting(k)' <=> Deleting(k),
         k \in stored' <=> k \in stored, seen'[k] = seen[k], used'[k] = used[k],
         UNCHANGED <<day, sweep>>
  PROVE  KeyInv(k)'
  <1>1. (Victim' = Victim) /\ (Old(k)' <=> Old(k))
    BY DEF Victim, Old
  <1> QED BY <1>1 DEF KeyInv

LEMMA ObjectKeys ==
  ASSUME TypeInv, NEW s \in Slots, Object(s), NEW k \in Keys, KeyInv(k)
  PROVE  KeyInv(k)'
  <1> DEFINE x == jobs[s].key
  <1>t. TypeOK /\ TypeOK' /\ x \in Keys
    BY ObjectType, JobIs DEF TypeInv
  <1>1. /\ UNCHANGED <<day, seen, sweep>> /\ exposed' = exposed \cup Overlapping'
        /\ used' = IF jobs[s].op = "delete" THEN [used EXCEPT ![x] = NoRow] ELSE used
    BY <1>t, ObjectIs DEF Object
  <1>2. /\ Moves(s) /\ jobs[s].pc = "object" /\ jobs'[s].key = x /\ jobs'[s].op = jobs[s].op
        /\ jobs[s].op \in {"put", "get", "delete"}
        /\ jobs'[s].pc = "reference" \/ jobs'[s].pc = "done"
    BY <1>t, ObjectIs DEF Same
  <1>3. \/ stored' = stored
        \/ jobs[s].op = "put" /\ stored' = stored \cup {x}
        \/ jobs[s].op = "delete" /\ stored' = stored \ {x}
    BY <1>t, ObjectIs
  <1>4. \/ jobs'[s].pc = "done" /\ stored' = stored
        \/ jobs'[s].pc = "reference" /\ jobs[s].op \in {"put", "get"} /\ x \in stored'
        \/ jobs'[s].pc = "reference" /\ jobs[s].op = "delete" /\ x \notin stored'
    BY <1>t, ObjectIs
  <1>5. used \in [Keys -> Days \cup {NoRow}]
    BY <1>t DEF TypeOK
  <1>6. CASE k # x
    <2>1. ~AtReference(s, k) /\ ~AtReference(s, k)'
      BY <1>2, <1>6 DEF AtReference
    <2>2. (Touching(k)' <=> Touching(k)) /\ (Deleting(k)' <=> Deleting(k))
      BY <1>t, <1>2, <2>1, Elsewhere
    <2>3. (k \in stored' <=> k \in stored) /\ used'[k] = used[k]
      BY <1>1, <1>3, <1>5, <1>6
    <2> QED BY <1>1, <2>2, <2>3, Keeping
  <1>7. CASE k = x /\ jobs[s].op \in {"put", "get"} /\ jobs'[s].pc = "reference"
    <2>1. SUFFICES ASSUME k \notin exposed' PROVE KeyInv(k)'
      BY DEF KeyInv
    <2>2. Touching(k)'
      BY <1>2, <1>7 DEF Touching, AtReference, At
    <2>3. k \notin sweep.victims /\ ~Deleting(k)'
      BY <1>1, <1>2, <2>1, <2>2, Overlaps DEF Moves
    <2>4. k \in stored' /\ used' = used
      BY <1>1, <1>4, <1>7
    <2>5. Old(k)' <=> Old(k)
      BY <1>1, <2>4 DEF Old
    <2>6. sweep.pc = "row" => Victim' \in sweep.victims
      BY <1>1, VictimIs DEF TypeInv, Victim
    <2> QED BY <1>1, <2>1, <2>2, <2>3, <2>4, <2>5, <2>6 DEF KeyInv
  <1>8. CASE k = x /\ jobs[s].op = "delete" /\ jobs'[s].pc = "reference"
    <2>1. SUFFICES ASSUME k \notin exposed' PROVE KeyInv(k)'
      BY DEF KeyInv
    <2>2. Deleting(k)'
      BY <1>2, <1>8 DEF Deleting, AtReference, At
    <2>3. ~Touching(k)'
      BY <1>1, <1>2, <2>1, <2>2, Overlaps DEF Moves
    <2>4. k \notin stored' /\ used'[k] = NoRow
      BY <1>1, <1>4, <1>5, <1>8
    <2>5. Old(k)'
      BY <2>4 DEF Old
    <2> QED BY <2>3, <2>4, <2>5 DEF KeyInv
  <1>9. CASE k = x /\ jobs'[s].pc = "done"
    <2>1. ~AtReference(s, k) /\ ~AtReference(s, k)'
      BY <1>2, <1>9 DEF AtReference, At
    <2>2. (Touching(k)' <=> Touching(k)) /\ (Deleting(k)' <=> Deleting(k))
      BY <1>t, <1>2, <2>1, Elsewhere
    <2>3. stored' = stored
      BY <1>4, <1>9
    <2>4. CASE jobs[s].op # "delete"
      <3>1. used' = used
        BY <1>1, <2>4
      <3> QED BY <1>1, <2>2, <2>3, <3>1, Keeping
    <2>5. CASE jobs[s].op = "delete"
      <3>1. used'[k] = NoRow
        BY <1>1, <1>5, <1>9, <2>5
      <3>2. Old(k)' /\ (Victim' = Victim)
        BY <1>1, <3>1 DEF Old, Victim
      <3> QED BY <1>1, <2>2, <2>3, <3>1, <3>2 DEF KeyInv
    <2> QED BY <2>4, <2>5
  <1> QED BY <1>2, <1>6, <1>7, <1>8, <1>9

LEMMA ReferenceIs ==
  ASSUME TypeOK, NEW s \in Slots, Reference(s)
  PROVE  LET k == jobs[s].key IN
         /\ AtReference(s, k) /\ Moves(s) /\ Same(s) /\ jobs'[s].pc = "done"
         /\ UNCHANGED <<day, stored, sweep, owner>>
         /\ used' = IF jobs[s].op = "delete" THEN used ELSE [used EXCEPT ![k] = day]
         /\ exposed \cup Overlapping' \subseteq exposed'
         /\ \/ k \in exposed' /\ seen' = seen
            \/ jobs[s].op = "delete" /\ seen' = [seen EXCEPT ![k] = NoRow]
            \/ jobs[s].op # "delete" /\ seen' = [seen EXCEPT ![k] = day]
  <1> DEFINE k == jobs[s].key
  <1>1. Moves(s) /\ Same(s) /\ jobs'[s].pc = "done" /\ AtReference(s, k)
    BY Answering DEF Reference, AtReference
  <1>2. /\ UNCHANGED <<day, stored, sweep, owner>>
        /\ used' = IF jobs[s].op = "delete" THEN used ELSE [used EXCEPT ![k] = day]
        /\ exposed' = exposed \cup Overlapping' \cup (IF faults' # faults THEN {k} ELSE {})
    BY DEF Reference
  <1>3. \/ Fault /\ seen' = seen
        \/ jobs[s].op = "delete" /\ seen' = [seen EXCEPT ![k] = NoRow]
        \/ jobs[s].op # "delete" /\ seen' = [seen EXCEPT ![k] = day]
    BY DEF Reference, RecordReference, DropReference
  <1>4. Fault => faults' # faults
    BY Bounds DEF Fault, TypeOK
  <1> QED BY <1>1, <1>2, <1>3, <1>4

LEMMA ReferenceKeys ==
  ASSUME TypeInv, NEW s \in Slots, Reference(s), NEW k \in Keys, KeyInv(k)
  PROVE  KeyInv(k)'
  <1> DEFINE x == jobs[s].key
  <1>t. TypeOK /\ TypeOK' /\ x \in Keys
    BY ReferenceType, JobIs DEF TypeInv
  <1>1. /\ AtReference(s, x) /\ Moves(s) /\ jobs'[s].pc = "done"
        /\ UNCHANGED <<day, stored, sweep>>
        /\ used' = IF jobs[s].op = "delete" THEN used ELSE [used EXCEPT ![x] = day]
        /\ exposed \subseteq exposed'
        /\ \/ x \in exposed'
           \/ jobs[s].op = "delete" /\ seen' = [seen EXCEPT ![x] = NoRow]
           \/ jobs[s].op # "delete" /\ seen' = [seen EXCEPT ![x] = day]
        /\ seen' = seen \/ seen' = [seen EXCEPT ![x] = NoRow] \/ seen' = [seen EXCEPT ![x] = day]
    BY <1>t, ReferenceIs
  <1>2. /\ used \in [Keys -> Days \cup {NoRow}] /\ seen \in [Keys -> Days \cup {NoRow}]
        /\ day \in Nat /\ day # NoRow
    BY <1>t, Sorts DEF TypeOK, NoRow
  <1> HIDE DEF x
  <1>3. CASE k # x
    <2>1. ~AtReference(s, k) /\ ~AtReference(s, k)'
      BY <1>1, <1>3 DEF AtReference, At
    <2>2. (Touching(k)' <=> Touching(k)) /\ (Deleting(k)' <=> Deleting(k))
      BY <1>t, <1>1, <2>1, Elsewhere
    <2>3. seen'[k] = seen[k] /\ used'[k] = used[k]
      BY <1>1, <1>2, <1>3
    <2> QED BY <1>1, <2>2, <2>3, Keeping
  <1>4. ASSUME k = x, k \notin exposed' PROVE KeyInv(k)'
    <2>1. k \notin exposed
      BY <1>1, <1>4
    <2>2. \A t \in Slots : AtReference(t, k)' => AtReference(t, k) /\ jobs'[t].op = jobs[t].op
      BY <1>1 DEF AtReference, At, Moves
    <2>3. (Touching(k)' => Touching(k)) /\ (Deleting(k)' => Deleting(k))
      BY <2>2 DEF Touching, Deleting
    <2>4. sweep.pc = "row" => Victim' \in sweep.victims
      BY <1>1, VictimIs DEF TypeInv, Victim
    <2>5. CASE jobs[s].op # "delete"
      <3>1. Touching(k)
        BY <1>1, <1>4, <2>5 DEF Touching
      <3>2. k \in stored /\ k \notin sweep.victims /\ ~Deleting(k)
        BY <2>1, <3>1 DEF KeyInv
      <3>3. seen'[k] = day /\ used'[k] = day
        BY <1>1, <1>2, <1>4, <2>5
      <3> QED BY <1>1, <1>2, <2>3, <2>4, <3>2, <3>3 DEF KeyInv
    <2>6. CASE jobs[s].op = "delete"
      <3>1. Deleting(k)
        BY <1>1, <1>4, <2>6 DEF Deleting
      <3>2. k \notin stored /\ used[k] = NoRow /\ ~Touching(k)
        BY <2>1, <3>1 DEF KeyInv
      <3>3. used'[k] = NoRow
        BY <1>1, <2>6, <3>2
      <3>4. Old(k)'
        BY <3>3 DEF Old
      <3> QED BY <1>1, <2>3, <3>2, <3>3, <3>4 DEF KeyInv
    <2> QED BY <2>5, <2>6
  <1> QED BY <1>3, <1>4 DEF KeyInv

LEMMA SweepKeys ==
  ASSUME TypeInv, SweepStep, NEW k \in Keys, KeyInv(k)
  PROVE  KeyInv(k)'
  <1>t. TypeOK /\ TypeOK' /\ SweepInv
    BY SweepType DEF TypeInv
  <1>u. /\ UNCHANGED <<day, jobs, used>>
        /\ exposed \cup Overlapping' \subseteq exposed'
        /\ sweep.pc = "object" /\ faults' # faults => Victim \in exposed'
    BY DEF SweepStep
  <1>s. /\ day \in Nat /\ sweep.cutoff \in Int /\ used[k] \in Int /\ seen[k] \in Int
        /\ jobs' \in [Slots -> Job]
    BY <1>t, <1>u, Sorts
  <1> SUFFICES ASSUME k \notin exposed' PROVE KeyInv(k)'
    BY DEF KeyInv
  <1>1. k \notin exposed /\ k \notin Overlapping'
    BY <1>u
  <1>2. /\ (Touching(k)' <=> Touching(k)) /\ (Deleting(k)' <=> Deleting(k))
        /\ (Old(k)' <=> Old(k))
    BY <1>u DEF Touching, Deleting, AtReference, At, Old
  <1>3. Touching(k) => k \notin sweep'.victims /\ ~Deleting(k)
    BY <1>s, <1>1, <1>2, Overlaps
  <1>4. CASE BeginSweep
    <2>1. UNCHANGED <<stored, seen>> /\ sweep.victims = {} /\ sweep'.victims = {} /\ sweep'.pc = "select"
      BY <1>t, <1>4, BeginIs DEF BeginSweep, SweepInv
    <2> QED BY <1>u, <1>1, <1>2, <1>3, <2>1 DEF KeyInv
  <1>5. CASE Select
    <2>1. UNCHANGED <<stored, seen>> /\ sweep.victims = {} /\ sweep'.pc # "row"
          /\ sweep'.victims \subseteq Aged(sweep.table, sweep.cutoff)
      BY <1>t, <1>5, SelectIs DEF Select, SweepInv
    <2>2. ASSUME k \in sweep'.victims PROVE Old(k)
      <3>1. seen[k] # NoRow /\ seen[k] < sweep.cutoff
        BY <2>1, <2>2 DEF Aged
      <3>2. sweep.cutoff <= day - MaxAge
        BY <1>t, <1>5 DEF SweepInv, Select
      <3>3. ~Old(k) => seen[k] >= used[k]
        BY <1>1 DEF KeyInv
      <3> QED BY <1>s, <3>1, <3>2, <3>3 DEF Old, MaxAge
    <2> QED BY <1>u, <1>1, <1>2, <1>3, <2>1, <2>2 DEF KeyInv
  <1>6. CASE SweepObject
    <2>1. /\ sweep.pc = "object" /\ sweep'.pc = "row" /\ sweep'.victims = sweep.victims
          /\ (stored' = stored \ {Victim} /\ NoFault) \/ (stored' = stored /\ Fault)
          /\ seen' = seen
      BY <1>t, <1>6, SweepObjectIs DEF SweepObject
    <2>2. Victim' = Victim
      BY <2>1 DEF Victim
    <2>3. Victim \in sweep.victims
      BY <1>t, <2>1, VictimIs
    <2>4. CASE k # Victim
      BY <1>u, <1>1, <1>2, <1>3, <2>1, <2>2, <2>4 DEF KeyInv
    <2>5. CASE k = Victim
      <3>1. Fault => faults' # faults
        BY <1>t, Bounds DEF Fault, TypeOK
      <3>2. stored' = stored \ {k}
        BY <1>u, <2>1, <2>5, <3>1
      <3>3. ~Touching(k) /\ Old(k)
        BY <1>1, <2>3, <2>5 DEF KeyInv
      <3> QED BY <1>u, <1>1, <1>2, <2>1, <3>2, <3>3 DEF KeyInv
    <2> QED BY <2>4, <2>5
  <1>7. CASE SweepRow
    <2>1. /\ sweep.pc = "row" /\ sweep'.pc # "row" /\ sweep'.victims = sweep.victims \ {Victim}
          /\ seen' = [seen EXCEPT ![Victim] = NoRow] \/ seen' = seen
          /\ stored' = stored
      BY <1>t, <1>7, SweepRowIs DEF SweepRow
    <2>2. Victim \in sweep.victims /\ Victim \in Keys
      BY <1>t, <2>1, VictimIs
    <2>3. CASE k # Victim
      <3>1. seen'[k] = seen[k]
        BY <1>t, <2>1, <2>3 DEF TypeOK
      <3> QED BY <1>u, <1>1, <1>2, <1>3, <2>1, <2>3, <3>1 DEF KeyInv
    <2>4. CASE k = Victim
      <3>1. k \notin stored /\ Old(k)
        BY <1>1, <2>1, <2>2, <2>4 DEF KeyInv
      <3> QED BY <1>u, <1>1, <1>2, <2>1, <2>4, <3>1 DEF KeyInv
    <2> QED BY <2>3, <2>4
  <1> QED BY <1>4, <1>5, <1>6, <1>7 DEF SweepStep

LEMMA LimiterIs ==
  ASSUME TypeOK, NEW s \in Slots, Limiter(s)
  PROVE  /\ Moves(s) /\ Same(s) /\ jobs[s].pc # "reference" /\ jobs'[s].pc # "reference"
         /\ jobs[s].pc # "done" /\ (jobs'[s].pc = "done" => jobs'[s].ok = FALSE)
  <1>1. CASE Answer(s, FALSE) /\ jobs[s].pc \in {"count", "check"}
    BY <1>1, Answering
  <1>2. CASE Goto(s, "check") /\ jobs[s].pc = "count"
    <2>1. Moves(s) /\ Same(s) /\ jobs'[s].pc = "check"
      BY <1>2, Going
    <2> QED BY <1>2, <2>1
  <1>3. CASE Goto(s, "object") /\ jobs[s].pc = "check"
    <2>1. Moves(s) /\ Same(s) /\ jobs'[s].pc = "object"
      BY <1>3, Going
    <2> QED BY <1>3, <2>1
  <1> QED BY <1>1, <1>2, <1>3 DEF Limiter, Count, Check, At

(* A new push, whichever half.                                             *)
LEMMA PushKey ==
  ASSUME TypeInv, NEW t \in {"blob", "inv"}, owner.id + 1 \in Ids
  PROVE  [table |-> t, id |-> owner.id + 1] \in Keys
  BY Bounds DEF Keys

LEMMA NextKeys ==
  ASSUME TypeInv, [Next]_vars, NEW k \in Keys, KeyInv(k)
  PROVE  KeyInv(k)'
  <1>t. TypeOK /\ MineInv /\ TypeInv'
    BY NextType DEF TypeInv
  <1>a. ASSUME NEW s \in Slots, Moves(s), ~AtReference(s, k), ~AtReference(s, k)',
               UNCHANGED <<day, stored, seen, sweep, used, exposed>>
        PROVE  KeyInv(k)'
    <2>1. (Touching(k)' <=> Touching(k)) /\ (Deleting(k)' <=> Deleting(k))
      BY <1>t, <1>a, Elsewhere
    <2> QED BY <1>a, <2>1, Keeping
  <1>b. ASSUME UNCHANGED <<day, stored, seen, jobs, sweep, used, exposed>>
        PROVE  KeyInv(k)'
    <2>1. (Touching(k)' <=> Touching(k)) /\ (Deleting(k)' <=> Deleting(k))
      BY <1>b DEF Touching, Deleting, AtReference, At
    <2> QED BY <1>b, <2>1, Keeping
  <1>1. CASE Handlers
    <2>1. PICK s \in Slots :
            Limiter(s) \/ Object(s) \/ Reference(s) \/ OwnerGoesOn(s) \/ Finish(s)
      BY <1>1 DEF Handlers
    <2>2. CASE Limiter(s)
      <3>1. Moves(s) /\ ~AtReference(s, k) /\ ~AtReference(s, k)'
        BY <1>t, <2>2, LimiterIs DEF AtReference, At
      <3> QED BY <1>a, <2>2, <3>1 DEF Limiter
    <2>3. CASE OwnerGoesOn(s)
      <3>1. Moves(s) /\ ~AtReference(s, k)'
        <4>1. CASE jobs' = [jobs EXCEPT ![s] = NoJob]
          BY <1>t, <4>1, Clearing DEF AtReference, At
        <4>2. CASE Start(s, "put", [table |-> "inv", id |-> owner.id + 1], TRUE)
          <5>1. [table |-> "inv", id |-> owner.id + 1] \in Keys
            BY <1>t, <2>3, GoesOnIs, PushKey DEF MineInv
          <5>2. Moves(s) /\ jobs'[s].pc = "count"
            BY <1>t, <4>2, <5>1, Starting
          <5> QED BY <5>2 DEF AtReference, At
        <4> QED BY <2>3, <4>1, <4>2, GoesOnIs
      <3>2. ~AtReference(s, k)
        BY <2>3 DEF OwnerGoesOn, AtReference, At
      <3> QED BY <1>a, <2>3, <3>1, <3>2 DEF OwnerGoesOn
    <2>4. CASE Finish(s)
      <3>1. Moves(s) /\ ~AtReference(s, k) /\ ~AtReference(s, k)'
        BY <1>t, <2>4, Clearing DEF Finish, AtReference, At
      <3> QED BY <1>a, <2>4, <3>1 DEF Finish
    <2> QED BY <2>1, <2>2, <2>3, <2>4, ObjectKeys, ReferenceKeys
  <1>2. CASE \E s \in Slots : Request(s)
    <2>1. PICK s \in Slots : Request(s)
      BY <1>2
    <2>2. Moves(s) /\ ~AtReference(s, k) /\ ~AtReference(s, k)'
      BY <1>t, <2>1, RequestIs DEF Free, AtReference, At
    <2> QED BY <1>a, <2>1, <2>2 DEF Request
  <1>3. CASE Visit
    <2>1. CASE jobs' = jobs
      BY <1>b, <1>3, <2>1 DEF Visit
    <2>2. CASE /\ owner.id + 1 \in Ids
               /\ \E s \in Slots :
                    Free(s) /\ Start(s, "put", [table |-> "blob", id |-> owner.id + 1], TRUE)
      <3>1. PICK s \in Slots :
              Free(s) /\ Start(s, "put", [table |-> "blob", id |-> owner.id + 1], TRUE)
        BY <2>2
      <3>2. [table |-> "blob", id |-> owner.id + 1] \in Keys
        BY <2>2, PushKey
      <3>3. Moves(s) /\ jobs'[s].pc = "count"
        BY <1>t, <3>1, <3>2, Starting
      <3>4. ~AtReference(s, k) /\ ~AtReference(s, k)'
        BY <3>1, <3>3 DEF Free, AtReference, At
      <3> QED BY <1>a, <1>3, <3>3, <3>4 DEF Visit
    <2> QED BY <1>3, <2>1, <2>2, VisitIs
  <1>4. CASE NextDay
    <2>1. UNCHANGED <<stored, seen, jobs, sweep, used, exposed>> /\ day' = day + 1
      BY <1>4 DEF NextDay
    <2>2. day \in Nat /\ used[k] \in Int
      BY <1>t, Sorts
    <2>3. Old(k) => Old(k)'
      BY <2>1, <2>2 DEF Old, MaxAge
    <2>4. (Touching(k)' <=> Touching(k)) /\ (Deleting(k)' <=> Deleting(k)) /\ (Victim' = Victim)
      BY <2>1 DEF Touching, Deleting, AtReference, At, Victim
    <2> QED BY <2>1, <2>3, <2>4 DEF KeyInv
  <1>5. CASE NextWindow
    BY <1>b, <1>5 DEF NextWindow
  <1>6. CASE Cleanup
    BY <1>b, <1>6 DEF Cleanup
  <1>7. CASE UNCHANGED vars
    BY <1>b, <1>7 DEF vars
  <1> QED BY <1>1, <1>2, <1>3, <1>4, <1>5, <1>6, <1>7, SweepKeys DEF Next

LEMMA InitKeys ==
  ASSUME Init, NEW k \in Keys
  PROVE  KeyInv(k)
  <1> DEFINE first == [table : Tables, id : {1}]
  <1>1. /\ stored = first /\ used = seen /\ day = 0
        /\ seen = [x \in Keys |-> IF x \in first THEN 0 ELSE NoRow]
        /\ jobs = [s \in Slots |-> NoJob] /\ sweep = NoSweep
    BY DEF Init
  <1> HIDE DEF first
  <1>2. ~Touching(k) /\ ~Deleting(k)
    BY <1>1 DEF Touching, Deleting, AtReference, At, NoJob
  <1>3. sweep.victims = {} /\ sweep.pc = "none"
    BY <1>1 DEF NoSweep
  <1>4. /\ k \in first => used[k] = 0 /\ seen[k] = 0
        /\ k \notin first => used[k] = NoRow
    BY <1>1
  <1> QED BY <1>1, <1>2, <1>3, <1>4 DEF KeyInv, Old, MaxAge, NoRow

-----------------------------------------------------------------------------
(* The owner's vault *)

(* Nothing but a delete, and only of a restore record, forgets a use.      *)
LEMMA UsesLast ==
  ASSUME TypeInv, PushInv, [Next]_vars, NEW k \in Keys, k.table # "restore"
  PROVE  used'[k] = used[k] \/ used'[k] = day
  <1>t. TypeOK /\ used \in [Keys -> Days \cup {NoRow}]
    BY DEF TypeInv, TypeOK
  <1>1. ASSUME NEW s \in Slots, Object(s) PROVE used'[k] = used[k]
    <2>1. used' = IF jobs[s].op = "delete" THEN [used EXCEPT ![jobs[s].key] = NoRow] ELSE used
      BY <1>1 DEF Object
    <2>2. jobs[s].op = "delete" => jobs[s].key # k
      BY DEF PushInv
    <2> QED BY <1>t, <2>1, <2>2
  <1>2. ASSUME NEW s \in Slots, Reference(s) PROVE used'[k] = used[k] \/ used'[k] = day
    <2>1. used' = IF jobs[s].op = "delete" THEN used ELSE [used EXCEPT ![jobs[s].key] = day]
      BY <1>2 DEF Reference
    <2> QED BY <1>t, <2>1
  <1>3. CASE UNCHANGED used
    BY <1>3
  <1> QED BY <1>1, <1>2, <1>3
    DEF Next, Handlers, Limiter, OwnerGoesOn, Finish, Request, SweepStep, Visit, NextDay,
        NextWindow, Cleanup, vars

(* A step of a request, while the owner waits.                             *)
LEMMA Waiting ==
  ASSUME TypeInv, PushInv, [Next]_vars, NEW s \in Slots, Moves(s), UNCHANGED <<day, owner>>,
         jobs'[s].op = "delete" => jobs'[s].key.table = "restore",
         jobs'[s].mine /\ jobs'[s].pc = "done" /\ jobs'[s].ok => used'[jobs'[s].key] = day
  PROVE  PushInv'
  <1>t. TypeOK /\ MineInv /\ TypeInv' /\ TypeOK' /\ MineInv'
    BY NextType DEF TypeInv
  <1>k. \A k \in Keys : k.table # "restore" => used'[k] = used[k] \/ used'[k] = day
    BY UsesLast
  <1>o. /\ owner.at <= day /\ owner.id \in Ids /\ owner.at \in Nat /\ day \in Nat
        /\ owner.pc # "idle" => owner.id + 1 \in Ids
    BY <1>t, Sorts DEF TypeInv, IdsInv, MineInv
  <1>1. \A t \in Slots : t # s => jobs'[t] = jobs[t]
    BY DEF Moves
  <1>2. \A t \in Slots : jobs'[t].op = "delete" => jobs'[t].key.table = "restore"
    BY <1>1 DEF PushInv
  <1>3. ASSUME NEW t \in Slots, jobs'[t].mine, jobs'[t].pc = "done", jobs'[t].ok
        PROVE  used'[jobs'[t].key] = day
    <2>1. CASE t = s
      BY <1>3, <2>1
    <2>2. CASE t # s
      <3>1. used[jobs[t].key] = day /\ jobs[t].mine /\ jobs'[t].key = jobs[t].key
        BY <1>1, <1>3, <2>2 DEF PushInv
      <3>2. /\ jobs[t].key = [table |-> owner.pc, id |-> owner.id + 1] /\ owner.pc # "idle"
            /\ owner.pc \in {"idle", "blob", "inv"} /\ jobs[t].key \in Keys
        BY <1>t, <3>1, Sorts, JobIs DEF MineInv, Owner
      <3>3. jobs[t].key.table # "restore"
        BY <3>2
      <3> QED BY <1>k, <3>1, <3>2, <3>3
    <2> QED BY <2>1, <2>2
  <1>4. ASSUME owner.pc = "inv" PROVE used'[[table |-> "blob", id |-> owner.id + 1]] = day
    <2> DEFINE b == [table |-> "blob", id |-> owner.id + 1]
    <2>1. b \in Keys /\ b.table = "blob"
      BY <1>o, <1>4, PushKey
    <2>2. used[b] = day
      BY <1>4 DEF PushInv
    <2> HIDE DEF b
    <2>3. used'[b] = day
      BY <1>k, <2>1, <2>2
    <2> QED BY <2>3 DEF b
  <1>5. ASSUME ~owner.failed, NEW k \in [table : {"blob", "inv"}, id : {owner.id}]
        PROVE  used'[k] >= owner.at
    <2>1. used[k] >= owner.at
      BY <1>5 DEF PushInv
    <2>2. k \in Keys /\ k.table # "restore"
      BY <1>o, Bounds DEF Keys
    <2>3. used'[k] = used[k] \/ used'[k] = day
      BY <1>k, <2>2
    <2> QED BY <1>o, <2>1, <2>3
  <1>6. /\ day <= owner.visit + 1
        /\ ~owner.failed => /\ owner.pc = "idle" => owner.visit <= owner.at + 1
                            /\ owner.pc # "idle" => owner.visit <= owner.at + 2
    BY DEF PushInv
  <1> QED BY <1>2, <1>3, <1>4, <1>5, <1>6 DEF PushInv

LEMMA VisitPush ==
  ASSUME TypeInv, PushInv, Visit
  PROVE  PushInv'
  <1>t. TypeOK /\ MineInv
    BY DEF TypeInv
  <1>s. day \in Nat /\ owner.at \in Nat /\ owner.visit \in Nat
    BY <1>t, Sorts
  <1>u. UNCHANGED <<day, used>>
    BY DEF Visit
  <1>1. /\ owner.pc = "idle" /\ owner'.visit = day /\ owner'.id = owner.id
        /\ owner'.at = owner.at /\ owner'.failed = owner.failed
    BY VisitIs
  <1>2. \A t \in Slots : ~jobs[t].mine
    BY <1>t, <1>1 DEF MineInv
  <1>3. /\ \A t \in Slots : jobs[t].op = "delete" => jobs[t].key.table = "restore"
        /\ day <= owner.visit + 1
        /\ ~owner.failed => owner.visit <= owner.at + 1
        /\ ~owner.failed =>
             \A k \in [table : {"blob", "inv"}, id : {owner.id}] : used[k] >= owner.at
    BY <1>1 DEF PushInv
  <1>4. CASE owner'.pc = "idle" /\ jobs' = jobs /\ day - owner.at <= 1
    <2>1. \A t \in Slots : jobs'[t] = jobs[t]
      BY <1>4
    <2> QED BY <1>s, <1>u, <1>1, <1>2, <1>3, <1>4, <2>1 DEF PushInv
  <1>5. CASE owner'.pc = "blob" /\ day - owner.at > 1 /\ owner.id + 1 \in Ids
             /\ \E s \in Slots :
                  Start(s, "put", [table |-> "blob", id |-> owner.id + 1], TRUE)
    <2>1. PICK s \in Slots : Start(s, "put", [table |-> "blob", id |-> owner.id + 1], TRUE)
      BY <1>5
    <2>2. [table |-> "blob", id |-> owner.id + 1] \in Keys
      BY <1>5, PushKey
    <2>3. Moves(s) /\ jobs'[s].pc = "count" /\ jobs'[s].op = "put"
      BY <1>t, <2>1, <2>2, Starting
    <2>4. \A t \in Slots : t # s => jobs'[t] = jobs[t]
      BY <2>3 DEF Moves
    <2>5. /\ \A t \in Slots : jobs'[t].op = "delete" => jobs'[t].key.table = "restore"
          /\ \A t \in Slots : ~(jobs'[t].mine /\ jobs'[t].pc = "done")
      BY <1>2, <1>3, <2>3, <2>4
    <2> QED BY <1>s, <1>u, <1>1, <1>3, <1>5, <2>5 DEF PushInv
  <1> QED BY <1>4, <1>5, VisitIs

LEMMA GoesOnPush ==
  ASSUME TypeInv, PushInv, NEW s \in Slots, OwnerGoesOn(s)
  PROVE  PushInv'
  <1>t. TypeOK /\ MineInv /\ IdsInv
    BY DEF TypeInv
  <1>s. day \in Nat /\ owner.at \in Nat /\ owner.visit \in Nat /\ owner.id \in Nat
    BY <1>t, Sorts
  <1>u. UNCHANGED <<day, used>>
    BY DEF OwnerGoesOn
  <1>1. /\ jobs[s].mine /\ jobs[s].pc = "done" /\ owner.pc # "idle"
        /\ owner'.visit = owner.visit /\ owner.visit = day /\ owner.id + 1 \in Ids
    BY <1>t, GoesOnIs DEF IdsInv, MineInv
  <1>2. \A t \in Slots : t # s => ~jobs[t].mine
    BY <1>t, <1>1 DEF MineInv
  <1>3. \A t \in Slots : jobs[t].op = "delete" => jobs[t].key.table = "restore"
    BY DEF PushInv
  <1>4. jobs[s].ok => used[[table |-> owner.pc, id |-> owner.id + 1]] = day
    BY <1>t, <1>1 DEF PushInv, MineInv
  <1>5. CASE jobs' = [jobs EXCEPT ![s] = NoJob]
    <2>1. Moves(s) /\ jobs'[s].op = "none" /\ jobs'[s].mine = FALSE
      BY <1>t, <1>5, Clearing
    <2>2. \A t \in Slots : t # s => jobs'[t] = jobs[t]
      BY <2>1 DEF Moves
    <2>3. /\ \A t \in Slots : jobs'[t].op = "delete" => jobs'[t].key.table = "restore"
          /\ \A t \in Slots : ~jobs'[t].mine
      BY <1>2, <1>3, <2>1, <2>2
    <2>4. owner'.pc = "idle" /\ day' <= owner'.visit + 1
      <3>1. owner'.pc # "inv"
        <4>1. CASE Start(s, "put", [table |-> "inv", id |-> owner.id + 1], TRUE)
          BY <1>1, <1>t, <2>1, <4>1, Starting, PushKey DEF TypeInv
        <4> QED BY <4>1, GoesOnIs
      <3>2. owner'.pc = "idle"
        BY <3>1, GoesOnIs
      <3>3. day <= day + 1
        BY <1>s
      <3> QED BY <1>u, <1>1, <3>2, <3>3
    <2>5. CASE owner'.failed = TRUE
      BY <2>3, <2>4, <2>5 DEF PushInv
    <2>6. CASE /\ jobs[s].ok /\ owner.pc = "inv"
               /\ owner'.id = owner.id + 1 /\ owner'.at = day
      <3>1. used[[table |-> "inv", id |-> owner.id + 1]] = day
        BY <1>4, <2>6
      <3>2. used[[table |-> "blob", id |-> owner.id + 1]] = day
        BY <2>6 DEF PushInv
      <3>3. \A k \in [table : {"blob", "inv"}, id : {owner.id + 1}] :
              \/ k = [table |-> "blob", id |-> owner.id + 1]
              \/ k = [table |-> "inv", id |-> owner.id + 1]
        OBVIOUS
      <3>4. \A k \in [table : {"blob", "inv"}, id : {owner.id + 1}] : used[k] >= day
        BY <1>s, <3>1, <3>2, <3>3
      <3> QED BY <1>s, <1>u, <1>1, <2>3, <2>4, <2>6, <3>4 DEF PushInv
    <2> QED BY <2>4, <2>5, <2>6, GoesOnIs
  <1>6. CASE /\ jobs[s].ok /\ owner.pc = "blob" /\ owner'.pc = "inv"
             /\ owner'.id = owner.id /\ owner'.at = owner.at /\ owner'.failed = owner.failed
             /\ Start(s, "put", [table |-> "inv", id |-> owner.id + 1], TRUE)
    <2>1. [table |-> "inv", id |-> owner.id + 1] \in Keys
      BY <1>1, PushKey
    <2>2. Moves(s) /\ jobs'[s].op = "put" /\ jobs'[s].pc = "count"
      BY <1>t, <1>6, <2>1, Starting
    <2>3. \A t \in Slots : t # s => jobs'[t] = jobs[t]
      BY <2>2 DEF Moves
    <2>4. /\ \A t \in Slots : jobs'[t].op = "delete" => jobs'[t].key.table = "restore"
          /\ \A t \in Slots : ~(jobs'[t].mine /\ jobs'[t].pc = "done")
      BY <1>2, <1>3, <2>2, <2>3
    <2>5. used[[table |-> "blob", id |-> owner.id + 1]] = day
      BY <1>4, <1>6
    <2>6. /\ day <= owner.visit + 1
          /\ ~owner.failed =>
               /\ owner.visit <= owner.at + 2
               /\ \A k \in [table : {"blob", "inv"}, id : {owner.id}] : used[k] >= owner.at
      BY <1>1 DEF PushInv
    <2> QED BY <1>u, <1>1, <1>6, <2>4, <2>5, <2>6 DEF PushInv
  <1> QED BY <1>5, <1>6, GoesOnIs

LEMMA NextPush ==
  ASSUME TypeInv, PushInv, [Next]_vars
  PROVE  PushInv'
  <1>t. TypeOK /\ MineInv /\ IdsInv
    BY DEF TypeInv
  <1>d. \A t \in Slots : jobs[t].op = "delete" => jobs[t].key.table = "restore"
    BY DEF PushInv
  <1>1. CASE Handlers
    <2>1. PICK s \in Slots :
            Limiter(s) \/ Object(s) \/ Reference(s) \/ OwnerGoesOn(s) \/ Finish(s)
      BY <1>1 DEF Handlers
    <2>2. CASE Limiter(s)
      <3>1. Moves(s) /\ Same(s) /\ (jobs'[s].pc = "done" => jobs'[s].ok = FALSE)
        BY <1>t, <2>2, LimiterIs
      <3>2. jobs'[s].op = "delete" => jobs'[s].key.table = "restore"
        BY <1>d, <3>1 DEF Same
      <3> QED BY <2>2, <3>1, <3>2, Waiting DEF Limiter
    <2>3. CASE Object(s)
      <3>1. Moves(s) /\ Same(s) /\ (jobs'[s].pc = "done" => jobs'[s].ok = FALSE)
        BY <1>t, <2>3, ObjectIs
      <3>2. jobs'[s].op = "delete" => jobs'[s].key.table = "restore"
        BY <1>d, <3>1 DEF Same
      <3> QED BY <2>3, <3>1, <3>2, Waiting DEF Object
    <2>4. CASE Reference(s)
      <3>1. /\ Moves(s) /\ Same(s) /\ UNCHANGED <<day, owner>>
            /\ used' = IF jobs[s].op = "delete" THEN used ELSE [used EXCEPT ![jobs[s].key] = day]
        BY <1>t, <2>4, ReferenceIs
      <3>2. jobs'[s].op = "delete" => jobs'[s].key.table = "restore"
        BY <1>d, <3>1 DEF Same
      <3>3. jobs'[s].mine => used'[jobs'[s].key] = day
        <4>1. SUFFICES ASSUME jobs'[s].mine PROVE used'[jobs'[s].key] = day
          OBVIOUS
        <4>2. jobs[s].op = "put" /\ jobs'[s].key = jobs[s].key /\ jobs[s].key \in Keys
          BY <1>t, <3>1, <4>1, JobIs DEF Same, MineInv
        <4>3. used \in [Keys -> Days \cup {NoRow}]
          BY <1>t DEF TypeOK
        <4> QED BY <3>1, <4>2, <4>3
      <3> QED BY <3>1, <3>2, <3>3, Waiting
    <2>5. CASE Finish(s)
      <3>1. Moves(s) /\ jobs'[s].op = "none" /\ jobs'[s].mine = FALSE
        BY <1>t, <2>5, Clearing DEF Finish
      <3> QED BY <2>5, <3>1, Waiting DEF Finish
    <2> QED BY <2>1, <2>2, <2>3, <2>4, <2>5, GoesOnPush
  <1>2. CASE \E s \in Slots : Request(s)
    <2>1. PICK s \in Slots : Request(s)
      BY <1>2
    <2>2. /\ Moves(s) /\ jobs'[s].mine = FALSE
          /\ jobs'[s].op = "delete" => jobs'[s].key.table = "restore"
      BY <1>t, <2>1, RequestIs
    <2> QED BY <2>1, <2>2, Waiting DEF Request
  <1>3. CASE UNCHANGED <<day, used, jobs, owner>>
    BY <1>3 DEF PushInv
  <1>4. CASE NextDay
    <2>1. /\ UNCHANGED <<used, jobs, owner>> /\ owner.pc = "idle" /\ day' - owner.visit <= StalePush
          /\ day' \in Int /\ owner.visit \in Int
      BY <1>4, <1>t, Sorts DEF NextDay
    <2>2. \A t \in Slots : ~jobs[t].mine
      BY <1>t, <2>1 DEF MineInv
    <2>3. day' <= owner.visit + 1
      BY <2>1 DEF StalePush
    <2> QED BY <2>1, <2>2, <2>3 DEF PushInv
  <1>5. CASE SweepStep \/ NextWindow \/ Cleanup
    BY <1>3, <1>5 DEF SweepStep, NextWindow, Cleanup
  <1>6. CASE UNCHANGED vars
    BY <1>3, <1>6 DEF vars
  <1> QED BY <1>1, <1>2, <1>4, <1>5, <1>6, VisitPush DEF Next

LEMMA InitPush ==
  ASSUME Init
  PROVE  PushInv
  <1> DEFINE first == [table : Tables, id : {1}]
  <1>1. /\ used = [x \in Keys |-> IF x \in first THEN 0 ELSE NoRow] /\ day = 0
        /\ jobs = [s \in Slots |-> NoJob]
        /\ owner = [id |-> 1, at |-> 0, visit |-> 0, failed |-> FALSE, pc |-> "idle"]
    BY DEF Init
  <1>2. \A k \in [table : {"blob", "inv"}, id : {1}] : k \in first /\ k \in Keys
    <2>1. 1 \in Ids /\ {"blob", "inv"} \subseteq Tables
      BY Bounds
    <2> QED BY <2>1 DEF Keys
  <1> HIDE DEF first
  <1>3. \A k \in [table : {"blob", "inv"}, id : {1}] : used[k] = 0
    BY <1>1, <1>2
  <1>4. \A s \in Slots : jobs[s].op = "none" /\ jobs[s].mine = FALSE
    BY <1>1 DEF NoJob
  <1> QED BY <1>1, <1>3, <1>4 DEF PushInv

-----------------------------------------------------------------------------
(* The theorems *)

IInv == TypeInv /\ CountInv /\ KeysInv /\ PushInv

LEMMA Invariance == Spec => []IInv
  <1>1. Init => IInv
    BY InitType, InitCount, InitKeys, InitPush DEF IInv, KeysInv
  <1>2. IInv /\ [Next]_vars => IInv'
    <2> SUFFICES ASSUME IInv, [Next]_vars PROVE IInv'
      OBVIOUS
    <2>1. TypeInv' /\ CountInv' /\ PushInv'
      BY NextType, NextCount, NextPush DEF IInv
    <2>2. \A k \in Keys : KeyInv(k)'
      BY NextKeys DEF IInv, KeysInv
    <2>3. KeysInv'
      BY <2>2 DEF KeysInv
    <2> QED BY <2>1, <2>3 DEF IInv
  <1> QED BY <1>1, <1>2, PTL DEF Spec

(* Every variable keeps its sort.                                          *)
THEOREM TypeCorrect == Spec => []TypeOK
  <1>1. IInv => TypeOK
    BY DEF IInv, TypeInv
  <1> QED BY <1>1, Invariance, PTL

(* A bucket lets more than its limit through in a window only when the     *)
(* cleanup of the counters crossed a request of that window between its    *)
(* two statements (rate-limit-d1.ts, cleanup.ts).                          *)
THEOREM LimitHolds == Spec => []OverrunNeedsSweep
  <1>1. IInv => OverrunNeedsSweep
    <2> SUFFICES ASSUME IInv, NEW b \in DOMAIN admitted, admitted[b] > Limit
                 PROVE  b[2] \in crossed
      BY DEF OverrunNeedsSweep
    <2>1. b \in Buckets \X Windows /\ admitted[b] \in Nat /\ Limit \in Nat
      BY Bounds DEF IInv, TypeInv, TypeOK
    <2>2. b[2] \notin crossed => admitted[b] <= Limit
      BY <2>1 DEF IInv, CountInv
    <2> QED BY <2>1, <2>2
  <1> QED BY <1>1, Invariance, PTL

(* What was written or read within the age of the sweep is stored, unless  *)
(* a sweep or a delete overlapped the request (r2-gc.ts).                  *)
THEOREM UsedIsKept == Spec => []KeptWhileUsed
  <1>1. IInv => KeptWhileUsed
    <2> SUFFICES ASSUME IInv, NEW k \in Keys, used[k] # NoRow, day - used[k] < MaxAge,
                        k \notin exposed
                 PROVE  k \in stored
      BY DEF KeptWhileUsed
    <2>1. KeyInv(k) /\ day \in Int /\ used[k] \in Int
      BY Sorts DEF IInv, KeysInv, TypeInv
    <2>2. ~Old(k)
      BY <2>1 DEF Old, MaxAge
    <2> QED BY <2>1, <2>2 DEF KeyInv
  <1> QED BY <1>1, Invariance, PTL

(* Every stored object keeps a reference row, and so can be collected,     *)
(* unless a statement failed or two requests crossed over it.              *)
THEOREM OrphansExplained == Spec => []OrphanHasCause
  <1>1. IInv => OrphanHasCause
    <2> SUFFICES ASSUME IInv, NEW k \in stored \ exposed, seen[k] = NoRow
                 PROVE  \/ \E s \in Slots : jobs[s].key = k /\ At(s, "reference")
                        \/ k \in sweep.victims
      BY DEF OrphanHasCause
    <2>1. k \in Keys
      BY DEF IInv, TypeInv, TypeOK
    <2>2. Touching(k) \/ k \in sweep.victims
      BY <2>1 DEF IInv, KeysInv, KeyInv
    <2> QED BY <2>2 DEF Touching, AtReference
  <1> QED BY <1>1, Invariance, PTL

(* The vault of an owner who unlocks in time, and whose pushes are all     *)
(* answered, stays on the server (openVault and the sweep).                *)
THEOREM VaultKept == Spec => []LiveVaultKept
  <1>1. IInv => LiveVaultKept
    <2> SUFFICES ASSUME IInv, ~owner.failed,
                        NEW k \in [table : {"blob", "inv"}, id : {owner.id}], k \notin exposed
                 PROVE  k \in stored
      BY DEF LiveVaultKept
    <2>t. TypeOK /\ IdsInv /\ PushInv
      BY DEF IInv, TypeInv
    <2>1. k \in Keys
      BY <2>t, Sorts, Bounds DEF Keys
    <2>2. /\ day \in Nat /\ owner.at \in Nat /\ owner.visit \in Nat /\ used[k] \in Int
      BY <2>t, <2>1, Sorts
    <2>3. used[k] >= owner.at
      BY <2>t DEF PushInv
    <2>4. day <= owner.at + 2
      <3>1. CASE owner.pc = "idle"
        BY <2>t, <2>2, <3>1 DEF PushInv
      <3>2. CASE owner.pc # "idle"
        BY <2>t, <2>2, <3>2 DEF PushInv, IdsInv
      <3> QED BY <3>1, <3>2
    <2>5. ~Old(k)
      BY <2>2, <2>3, <2>4 DEF Old, NoRow, MaxAge
    <2> QED BY <2>1, <2>5 DEF IInv, KeysInv, KeyInv
  <1> QED BY <1>1, Invariance, PTL
-----------------------------------------------------------------------------
(* The second part.  Loads, imports, repairs and verifications all put     *)
(* files of whatever the origin is into the snapshot of the active worker; *)
(* the one URL whose release matters is the shell's, and a tab's page is   *)
(* that of the shell it loaded.                                            *)

Workers == 0 .. MaxRelease
Registration == [installing : Workers, manifest : Workers, purged : BOOLEAN,
                 waiting : Workers, active : Workers]
Repairs == {Idling, [at |-> "asked"]}
             \cup [at : {"refill"}, worker : Workers, manifest : Releases, hashed : BOOLEAN]
OpenRecord == [at : {"open"}, page : Releases, retried : BOOLEAN, controlled : BOOLEAN,
            listening : {"awaiting", "yes", "never"}, wasControlled : BOOLEAN,
            changed : Nat, missed : BOOLEAN, asking : Workers, updateReady : BOOLEAN,
            nextVersion : Workers, fresh : Workers, manifest : Workers,
            check : {"fresh", "manifest", "files", "failed", "verified", "moved", "mismatch"}]

(* A snapshot cache holds files of releases; pinned, its own release's shell. *)
Files(entries) == \A url \in DOMAIN entries : entries[url] \in Releases
OwnShell(entries, r) == Shell \in DOMAIN entries => entries[Shell] = r

CachesOfReleases == DOMAIN cache = Workers /\ \A r \in Workers : Files(cache[r])

SnapshotTypeInv ==
  /\ origin \in Releases
  /\ registration \in Registration
  /\ CachesOfReleases
  /\ repair \in Repairs
  /\ tab \in [Tabs -> {Closed} \cup OpenRecord]
  /\ consented \subseteq Releases /\ agreed \subseteq Releases
  /\ evictions \in 0 .. MaxEvictions

(* A tab is controlled by the active worker; one that is not knows of no   *)
(* change of controllers, and one that became so while it listened does.   *)
ControlInv ==
  \A t \in Tabs : Open(t) =>
    IF tab[t].controlled
    THEN /\ registration.active # None
         /\ Listening(t) => tab[t].wasControlled \/ tab[t].changed # 0
    ELSE ~tab[t].wasControlled /\ tab[t].changed = 0

ShellInv ==
  exposure \cap Torn = {} => \A r \in Workers : OwnShell(cache[r], r)

(* The page of a tab whose reload is not due and that missed no change: a  *)
(* tab that listens to its first claim is not to be reloaded for it, any   *)
(* other is for each change.                                               *)
NotOwed(t) == IF Listening(t) /\ ~tab[t].wasControlled THEN 1 ELSE 0
FollowInv ==
  exposure \cap (Torn \cup {"claimed"}) = {} =>
    \A t \in Tabs :
      Controlled(t) /\ ~tab[t].missed /\ tab[t].changed = NotOwed(t)
      => tab[t].page = registration.active

ConsentInv ==
  exposure \cap {"replaced under the toast"} = {} => consented \subseteq agreed

AgreedInv ==
  exposure \cap (Torn \cup {"claimed", "replaced under the toast"}) = {} =>
    \A t \in Tabs :
      Controlled(t) => tab[t].page = registration.active \/ registration.active \in agreed

SnapshotInv == SnapshotTypeInv /\ ControlInv /\ ShellInv /\ FollowInv /\ ConsentInv /\ AgreedInv

-----------------------------------------------------------------------------
(* Files. *)

LEMMA UrlsDiffer ==
  /\ Manifest # Shell /\ Worker # Shell
  /\ \A r : Chunk(r) # Shell
BY DEF Manifest, Worker, Shell, Chunk

LEMMA PutAllKeeps ==
  ASSUME NEW entries, NEW got, Files(entries), Files(got)
  PROVE  /\ Files(PutAll(entries, got))
         /\ \A w : OwnShell(entries, w) /\ OwnShell(got, w) => OwnShell(PutAll(entries, got), w)
BY DEF Files, OwnShell, PutAll

LEMMA PutKeeps ==
  ASSUME NEW entries, NEW url, NEW r \in Releases, Files(entries)
  PROVE  /\ Files(Put(entries, url, r))
         /\ url # Shell => \A w : OwnShell(entries, w) => OwnShell(Put(entries, url, r), w)
<1> DEFINE one == [u \in {url} |-> r]
<1>1. Files(one) /\ (url # Shell => \A w : OwnShell(one, w))
  BY DEF Files, OwnShell
<1>2. Put(entries, url, r) = PutAll(entries, one)
  BY DEF Put
<1>. HIDE DEF one
<1>. QED  BY <1>1, <1>2, PutAllKeeps

LEMMA KeptKeeps ==
  ASSUME NEW entries, NEW url, NEW controlled, NEW r \in Workers, Files(entries),
         ReleaseAssumption
  PROVE  /\ Files(Kept(entries, url, controlled, r))
         /\ url # Shell =>
              \A w : OwnShell(entries, w) => OwnShell(Kept(entries, url, controlled, r), w)
<1>1. CASE controlled /\ r # None
  <2>1. r \in Releases
    BY <1>1, ReleaseAssumption DEF Workers, Releases, None
  <2>2. Kept(entries, url, controlled, r) = Put(entries, url, r)
    BY <1>1 DEF Kept
  <2>. QED  BY <2>1, <2>2, PutKeeps
<1>2. CASE ~(controlled /\ r # None)
  BY <1>2 DEF Kept
<1>. QED  BY <1>1, <1>2

LEMMA RestrictKeeps ==
  ASSUME NEW entries, NEW S, Files(entries), S \subseteq DOMAIN entries
  PROVE  /\ Files(Restrict(entries, S))
         /\ \A w : OwnShell(entries, w) => OwnShell(Restrict(entries, S), w)
BY DEF Files, Restrict, OwnShell

(* What is served is of the origin. *)
LEMMA ServedIsRelease ==
  ASSUME SnapshotTypeInv, NEW url
  PROVE  Served(url) \subseteq Releases
BY DEF Served, SnapshotTypeInv

LEMMA FetchedIsRelease ==
  ASSUME SnapshotTypeInv, ReleaseAssumption, NEW url, NEW controlled
  PROVE  Fetch(Pinned, url, controlled) \subseteq Workers
<1>1. registration.active \in Workers
  BY DEF SnapshotTypeInv, Registration
<1>2. Files(Pinned)
  BY <1>1 DEF SnapshotTypeInv, CachesOfReleases, Pinned
<1>3. Releases \subseteq Workers /\ None \in Workers
  BY ReleaseAssumption DEF Releases, Workers, None
<1>. QED  BY <1>2, <1>3, ServedIsRelease DEF Fetch, Files

-----------------------------------------------------------------------------
(* A step of a tab: closed, loaded, or still on its page and as controlled. *)

Loaded(t) ==
  /\ tab'[t].at = "open"
  /\ tab'[t].listening = "awaiting" /\ ~tab'[t].wasControlled
  /\ tab'[t].changed = 0
  /\ tab'[t].controlled <=> registration.active # None
  /\ tab'[t].controlled /\ exposure' \cap Torn = {} => tab'[t].page = registration.active
SamePage(new, old) ==
  /\ new.page = old.page
  /\ new.controlled = old.controlled
  /\ new.listening = old.listening
  /\ new.wasControlled = old.wasControlled
  /\ new.changed = old.changed
  /\ new.missed = old.missed
Stays(t) == tab[t].at = "open" /\ tab'[t].at = "open" /\ SamePage(tab'[t], tab[t])
Steady ==
  /\ registration'.active = registration.active
  /\ \A t \in Tabs : tab'[t] = Closed \/ Loaded(t) \/ Stays(t)
Grows == exposure \subseteq exposure' /\ agreed \subseteq agreed'

LEMMA SteadyKeeps ==
  ASSUME SnapshotInv, Steady, Grows
  PROVE  ControlInv' /\ FollowInv' /\ AgreedInv'
<1>1. \A t \in Tabs : \/ tab'[t].at # "open"
                      \/ Loaded(t) \/ Stays(t)
  BY DEF Steady, Closed
<1>2. ControlInv'
  BY <1>1 DEF SnapshotInv, Steady, ControlInv, Open, Listening, Loaded, Stays, SamePage
<1>3. FollowInv'
  <2>. SUFFICES ASSUME exposure' \cap (Torn \cup {"claimed"}) = {}, NEW t \in Tabs,
                       tab'[t].at = "open", tab'[t].controlled, ~tab'[t].missed,
                       tab'[t].changed = NotOwed(t)'
                PROVE  tab'[t].page = registration'.active
    BY DEF FollowInv, Controlled, Open
  <2>1. exposure' \cap Torn = {} /\ exposure \cap (Torn \cup {"claimed"}) = {}
    BY DEF Grows
  <2>. QED
    BY <1>1, <2>1
    DEF SnapshotInv, FollowInv, Steady, Loaded, Stays, SamePage, Controlled, Open, Listening,
        NotOwed
<1>4. AgreedInv'
  <2>. SUFFICES ASSUME exposure' \cap (Torn \cup {"claimed", "replaced under the toast"}) = {},
                       NEW t \in Tabs, tab'[t].at = "open", tab'[t].controlled
                PROVE  tab'[t].page = registration'.active \/ registration'.active \in agreed'
    BY DEF AgreedInv, Controlled, Open
  <2>1. /\ exposure' \cap Torn = {}
        /\ exposure \cap (Torn \cup {"claimed", "replaced under the toast"}) = {}
    BY DEF Grows
  <2>. QED
    BY <1>1, <2>1
    DEF SnapshotInv, AgreedInv, Steady, Grows, Loaded, Stays, SamePage, Controlled, Open
<1>. QED  BY <1>2, <1>3, <1>4

(* Everything else is where it was.                                        *)
LEMMA CacheUpdated ==
  ASSUME SnapshotTypeInv, ShellInv, exposure \subseteq exposure',
         NEW r \in Workers, NEW entries, Files(entries),
         cache' = [cache EXCEPT ![r] = entries],
         exposure' \cap Torn = {} /\ OwnShell(cache[r], r) => OwnShell(entries, r)
  PROVE  CachesOfReleases' /\ ShellInv'
<1>1. DOMAIN cache = Workers /\ \A w \in Workers : Files(cache[w])
  BY DEF SnapshotTypeInv, CachesOfReleases
<1>2. /\ DOMAIN cache' = Workers /\ cache'[r] = entries
      /\ \A w \in Workers : w # r => cache'[w] = cache[w]
  BY <1>1
<1>3. CachesOfReleases'
  BY <1>1, <1>2 DEF CachesOfReleases
<1>4. ShellInv'
  <2>. SUFFICES ASSUME exposure' \cap Torn = {}, NEW w \in Workers
                PROVE  OwnShell(cache'[w], w)
    BY DEF ShellInv
  <2>1. OwnShell(cache[w], w)
    BY DEF ShellInv
  <2>. QED  BY <1>2, <2>1
<1>. QED  BY <1>3, <1>4

LEMMA CacheSame ==
  ASSUME SnapshotTypeInv, ShellInv, exposure \subseteq exposure', cache' = cache
  PROVE  CachesOfReleases' /\ ShellInv'
BY DEF SnapshotTypeInv, CachesOfReleases, ShellInv

LEMMA Exposed ==
  ASSUME NEW what, NEW when, Expose(what, when)
  PROVE  exposure \subseteq exposure' /\ (when => what \in exposure')
BY DEF Expose

LEMMA LoadKeeps ==
  ASSUME SnapshotTypeInv, ShellInv, ReleaseAssumption,
         NEW t \in Tabs, NEW retried \in BOOLEAN, Load(t, retried)
  PROVE  /\ exposure \subseteq exposure'
         /\ CachesOfReleases' /\ ShellInv'
         /\ tab' \in [Tabs -> {Closed} \cup OpenRecord]
         /\ Loaded(t) /\ \A u \in Tabs \ {t} : tab'[u] = tab[u]
         /\ UNCHANGED <<origin, registration, repair, consented, agreed, evictions>>
<1> DEFINE controlled == registration.active # None
<1>1. PICK page \in ShellOf(controlled) :
         /\ page \in Fetch(Pinned, Chunk(page), controlled)
         /\ cache' = [cache EXCEPT ![registration.active] = Kept(@, Chunk(page), controlled, page)]
         /\ tab' = [tab EXCEPT ![t] =
              [at |-> "open", page |-> page, retried |-> retried,
               controlled |-> controlled, listening |-> "awaiting",
               wasControlled |-> FALSE, changed |-> 0, missed |-> FALSE,
               asking |-> None, updateReady |-> FALSE, nextVersion |-> None,
               check |-> "fresh", fresh |-> None, manifest |-> None]]
         /\ Expose("shell not pinned", controlled /\ Shell \notin DOMAIN Pinned)
         /\ UNCHANGED <<origin, registration, repair, consented, agreed, evictions>>
  BY DEF Load
<1>2. /\ registration.active \in Workers /\ registration.waiting \in Workers
      /\ origin \in Releases /\ None \in Workers /\ Releases \subseteq Workers
      /\ tab \in [Tabs -> {Closed} \cup OpenRecord]
      /\ Files(Pinned)
  BY ReleaseAssumption
  DEF SnapshotTypeInv, CachesOfReleases, Registration, Releases, Workers, None, Pinned
<1>3. page \in Releases
  BY <1>2 DEF ShellOf, Files
<1>4. exposure \subseteq exposure'
  BY <1>1, Exposed
<1>5. CachesOfReleases' /\ ShellInv'
  <2> DEFINE entries == Kept(Pinned, Chunk(page), controlled, page)
  <2>1. /\ Files(entries)
        /\ OwnShell(Pinned, registration.active) => OwnShell(entries, registration.active)
    BY <1>2, <1>3, KeptKeeps, UrlsDiffer, ReleaseAssumption
  <2>2. cache' = [cache EXCEPT ![registration.active] = entries]
    BY <1>1 DEF Pinned
  <2>. HIDE DEF entries
  <2>. QED  BY <1>2, <1>4, <2>1, <2>2, CacheUpdated DEF Pinned
<1>6. controlled /\ exposure' \cap Torn = {} => page = registration.active
  <2>. SUFFICES ASSUME controlled, exposure' \cap Torn = {} PROVE page = registration.active
    OBVIOUS
  <2>1. Shell \in DOMAIN Pinned
    BY <1>1, Exposed DEF Torn
  <2>2. OwnShell(Pinned, registration.active)
    BY <1>2, <1>4 DEF ShellInv, Pinned
  <2>. QED  BY <2>1, <2>2 DEF ShellOf, OwnShell
<1> DEFINE new == [at |-> "open", page |-> page, retried |-> retried,
               controlled |-> controlled, listening |-> "awaiting",
               wasControlled |-> FALSE, changed |-> 0, missed |-> FALSE,
               asking |-> None, updateReady |-> FALSE, nextVersion |-> None,
               check |-> "fresh", fresh |-> None, manifest |-> None]
<1>7. /\ new \in OpenRecord
      /\ new.at = "open" /\ new.page = page /\ new.changed = 0
      /\ new.controlled = controlled /\ new.listening = "awaiting" /\ ~new.wasControlled
  <2>1. controlled \in BOOLEAN
    OBVIOUS
  <2>. HIDE DEF controlled
  <2>. QED  BY <1>2, <1>3, <2>1 DEF OpenRecord
<1>8. tab' = [tab EXCEPT ![t] = new]
  BY <1>1
<1>. HIDE DEF new
<1>9. /\ tab' \in [Tabs -> {Closed} \cup OpenRecord]
      /\ tab'[t] = new
      /\ \A u \in Tabs \ {t} : tab'[u] = tab[u]
  BY <1>2, <1>7, <1>8
<1>10. Loaded(t)
  BY <1>6, <1>7, <1>9 DEF Loaded
<1>. QED  BY <1>1, <1>4, <1>5, <1>9, <1>10

-----------------------------------------------------------------------------
(* What every step but an activation and a first claim does.               *)

KeepsSteady == SnapshotTypeInv' /\ ShellInv' /\ ConsentInv' /\ Grows /\ Steady

LEMMA TabsSame ==
  ASSUME SnapshotTypeInv, tab' = tab
  PROVE  /\ tab' \in [Tabs -> {Closed} \cup OpenRecord]
         /\ \A t \in Tabs : tab'[t] = Closed \/ Stays(t)
BY DEF SnapshotTypeInv, OpenRecord, Stays, SamePage

LEMMA TabStays ==
  ASSUME SnapshotTypeInv, NEW t \in Tabs, NEW new \in OpenRecord, tab[t] \in OpenRecord,
         tab' = [tab EXCEPT ![t] = new],
         SamePage(new, tab[t])
  PROVE  /\ tab' \in [Tabs -> {Closed} \cup OpenRecord]
         /\ \A u \in Tabs : tab'[u] = Closed \/ Stays(u)
<1>1. tab \in [Tabs -> {Closed} \cup OpenRecord]
  BY DEF SnapshotTypeInv
<1>2. tab' \in [Tabs -> {Closed} \cup OpenRecord] /\ tab'[t] = new
  BY <1>1
<1>3. Stays(t)
  BY <1>2 DEF Stays, SamePage, OpenRecord
<1>4. ASSUME NEW u \in Tabs, u # t  PROVE  tab'[u] = Closed \/ Stays(u)
  BY <1>1, <1>4 DEF Stays, SamePage, OpenRecord
<1>. QED  BY <1>2, <1>3, <1>4

LEMMA OpenIsTab ==
  ASSUME SnapshotTypeInv, NEW t \in Tabs, Open(t)
  PROVE  tab[t] \in OpenRecord
BY DEF SnapshotTypeInv, Open, Closed

LEMMA AnnouncingStays ==
  ASSUME SnapshotTypeInv, NEW S, \A t \in S : t \in Tabs /\ Open(t), NEW worker \in Workers,
         tab' = Announcing(S, worker)
  PROVE  /\ tab' \in [Tabs -> {Closed} \cup OpenRecord]
         /\ \A t \in Tabs : tab'[t] = Closed \/ Stays(t)
<1>. SUFFICES ASSUME NEW t \in Tabs
              PROVE  tab'[t] \in {Closed} \cup OpenRecord /\ (tab'[t] = Closed \/ Stays(t))
  BY DEF Announcing
<1>1. CASE t \in S
  <2>1. tab[t] \in OpenRecord /\ tab'[t] = [tab[t] EXCEPT !.asking = worker]
    BY <1>1, OpenIsTab DEF Announcing
  <2>. QED  BY <2>1 DEF OpenRecord, Stays, SamePage
<1>2. CASE t \notin S
  <2>1. tab[t] \in {Closed} \cup OpenRecord /\ tab'[t] = tab[t]
    BY <1>2 DEF Announcing, SnapshotTypeInv
  <2>. QED  BY <2>1 DEF OpenRecord, Stays, SamePage
<1>. QED  BY <1>1, <1>2

LEMMA NumbersOfReleases ==
  ASSUME ReleaseAssumption
  PROVE  /\ None \in Workers /\ Releases \subseteq Workers
         /\ \A r \in Workers : r # None => r \in Releases
BY DEF ReleaseAssumption, None, Workers, Releases

(* A step that keeps the caches, the tabs and what was agreed.             *)
LEMMA Untouched ==
  ASSUME SnapshotInv, registration'.active = registration.active,
         UNCHANGED <<cache, tab, consented, agreed, exposure>>
  PROVE  CachesOfReleases' /\ ShellInv' /\ ConsentInv' /\ Grows /\ Steady
<1>1. CachesOfReleases' /\ ShellInv'
  BY CacheSame DEF SnapshotInv
<1>2. ConsentInv' /\ Grows
  BY DEF SnapshotInv, ConsentInv, Grows
<1>3. Steady
  BY TabsSame DEF Steady, SnapshotInv
<1>. QED  BY <1>1, <1>2, <1>3

LEMMA DeployKeeps == ASSUME SnapshotInv, ReleaseAssumption, Deploy  PROVE KeepsSteady
<1>1. origin' \in Releases
  BY DEF Deploy, SnapshotInv, SnapshotTypeInv, Releases, ReleaseAssumption
<1>. QED  BY <1>1, Untouched DEF Deploy, KeepsSteady, SnapshotInv, SnapshotTypeInv

LEMMA EvictKeeps ==
  ASSUME SnapshotInv, ReleaseAssumption, NEW url, Evict(url)
  PROVE  KeepsSteady
<1> DEFINE left == Restrict(Pinned, DOMAIN Pinned \ {url})
<1>1. registration.active \in Workers /\ Files(Pinned)
  BY DEF SnapshotInv, SnapshotTypeInv, CachesOfReleases, Registration, Pinned
<1>2. /\ Files(left)
      /\ OwnShell(Pinned, registration.active) => OwnShell(left, registration.active)
  BY <1>1, RestrictKeeps
<1>3. cache' = [cache EXCEPT ![registration.active] = left] /\ exposure \subseteq exposure'
  BY DEF Evict, Pinned
<1>. HIDE DEF left
<1>4. CachesOfReleases' /\ ShellInv'
  BY <1>1, <1>2, <1>3, CacheUpdated DEF SnapshotInv, Pinned
<1>5. Steady
  BY TabsSame DEF Steady, SnapshotInv, Evict
<1>6. evictions' \in 0 .. MaxEvictions
  BY ReleaseAssumption DEF Evict, SnapshotInv, SnapshotTypeInv
<1>. QED
  BY <1>4, <1>5, <1>6
  DEF Evict, KeepsSteady, Grows, SnapshotInv, SnapshotTypeInv, ConsentInv

LEMMA CloseKeeps ==
  ASSUME SnapshotInv, ReleaseAssumption, NEW t \in Tabs, CloseTab(t)
  PROVE  KeepsSteady
<1>1. tab \in [Tabs -> {Closed} \cup OpenRecord]
  BY DEF SnapshotInv, SnapshotTypeInv
<1>2. /\ tab' \in [Tabs -> {Closed} \cup OpenRecord]
      /\ \A u \in Tabs : tab'[u] = Closed \/ Stays(u)
  BY <1>1 DEF CloseTab, Stays, SamePage, OpenRecord
<1>3. CachesOfReleases' /\ ShellInv'
  BY CacheSame DEF SnapshotInv, CloseTab
<1>. QED
  BY <1>2, <1>3
  DEF CloseTab, KeepsSteady, Grows, Steady, SnapshotInv, SnapshotTypeInv, ConsentInv

LEMMA RegistrationKeeps ==
  ASSUME SnapshotInv, ReleaseAssumption, UpdateFound \/ InstallFailed
  PROVE  KeepsSteady
<1>1. registration' \in Registration /\ registration'.active = registration.active
  BY NumbersOfReleases
  DEF UpdateFound, InstallFailed, SnapshotInv, SnapshotTypeInv, Registration
<1>. QED
  BY <1>1, Untouched
  DEF UpdateFound, InstallFailed, KeepsSteady, SnapshotInv, SnapshotTypeInv

(* Keeping the manifest of whatever the origin is. *)
LEMMA ManifestPut ==
  ASSUME SnapshotInv, NEW r \in Workers, exposure \subseteq exposure',
         cache' = [cache EXCEPT ![r] = Put(@, Manifest, origin)]
  PROVE  CachesOfReleases' /\ ShellInv'
<1> DEFINE entries == Put(cache[r], Manifest, origin)
<1>1. Files(cache[r]) /\ origin \in Releases
  BY DEF SnapshotInv, SnapshotTypeInv, CachesOfReleases
<1>2. Files(entries) /\ (OwnShell(cache[r], r) => OwnShell(entries, r))
  BY <1>1, PutKeeps, UrlsDiffer
<1>3. cache' = [cache EXCEPT ![r] = entries]
  OBVIOUS
<1>. HIDE DEF entries
<1>. QED  BY <1>2, <1>3, CacheUpdated DEF SnapshotInv

LEMMA InstallManifestKeeps ==
  ASSUME SnapshotInv, ReleaseAssumption, InstallManifest  PROVE KeepsSteady
<1>1. /\ registration.installing \in Workers
      /\ registration' \in Registration /\ registration'.active = registration.active
  BY NumbersOfReleases DEF InstallManifest, SnapshotInv, SnapshotTypeInv, Registration
<1>2. CachesOfReleases' /\ ShellInv'
  BY <1>1, CacheSame, ManifestPut DEF InstallManifest, SnapshotInv
<1>3. Steady
  BY <1>1, TabsSame DEF Steady, SnapshotInv, InstallManifest
<1>. QED
  BY <1>1, <1>2, <1>3
  DEF InstallManifest, KeepsSteady, Grows, SnapshotInv, SnapshotTypeInv, ConsentInv

LEMMA InstalledKeeps == ASSUME SnapshotInv, ReleaseAssumption, Installed  PROVE KeepsSteady
<1> DEFINE worker == registration.installing
           urls == PRECACHE(worker) \cup ManifestKeys(registration.manifest)
<1>1. /\ worker \in Workers /\ worker # None
      /\ registration.manifest \in Releases /\ origin \in Releases
      /\ registration' \in Registration /\ registration'.active = registration.active
  BY NumbersOfReleases DEF Installed, SnapshotInv, SnapshotTypeInv, Registration
<1>2. PICK got \in [urls -> registration.manifest .. origin] :
        /\ cache' = IF registration.purged THEN cache
                    ELSE [cache EXCEPT ![worker] = PutAll(@, got)]
        /\ Expose("deploy during install", \E url \in urls : got[url] # worker)
  BY DEF Installed
<1>3. exposure \subseteq exposure'
  BY <1>2, Exposed
<1>4. Files(got)
  <2>1. DOMAIN got = urls /\ \A url \in urls : got[url] \in registration.manifest .. origin
    BY <1>2
  <2>2. registration.manifest .. origin \subseteq Releases
    BY <1>1, ReleaseAssumption DEF Releases
  <2>. HIDE DEF urls
  <2>. QED  BY <2>1, <2>2 DEF Files
<1>5. exposure' \cap Torn = {} => OwnShell(got, worker)
  <2>1. (\E url \in urls : got[url] # worker) => "deploy during install" \in exposure'
    BY <1>2, Exposed
  <2>2. Shell \in urls
    BY DEF PRECACHE
  <2>. QED  BY <2>1, <2>2 DEF Torn, OwnShell
<1>6. CachesOfReleases' /\ ShellInv'
  <2>1. CASE registration.purged
    BY <2>1, <1>2, <1>3, CacheSame DEF SnapshotInv
  <2>2. CASE ~registration.purged
    <3> DEFINE entries == PutAll(cache[worker], got)
    <3>1. Files(cache[worker])
      BY <1>1 DEF SnapshotInv, SnapshotTypeInv, CachesOfReleases
    <3>2. /\ Files(entries)
          /\ OwnShell(cache[worker], worker) /\ OwnShell(got, worker) => OwnShell(entries, worker)
      BY <3>1, <1>4, PutAllKeeps
    <3>3. cache' = [cache EXCEPT ![worker] = entries]
      BY <2>2, <1>2
    <3>. HIDE DEF entries, worker
    <3>. QED  BY <1>1, <1>3, <1>5, <3>2, <3>3, CacheUpdated DEF SnapshotInv
  <2>. QED  BY <2>1, <2>2
<1>7. /\ tab' \in [Tabs -> {Closed} \cup OpenRecord]
      /\ \A t \in Tabs : tab'[t] = Closed \/ Stays(t)
  <2>1. PICK heard \in SUBSET {t \in Tabs : Controlled(t) /\ Listening(t)} :
          tab' = Announcing(heard, worker)
    BY DEF Installed
  <2>2. \A t \in heard : t \in Tabs /\ Open(t)
    BY DEF Controlled
  <2>. QED  BY <1>1, <2>1, <2>2, AnnouncingStays DEF SnapshotInv
<1>. QED
  BY <1>1, <1>3, <1>6, <1>7
  DEF Installed, KeepsSteady, Grows, Steady, SnapshotInv, SnapshotTypeInv, ConsentInv

LEMMA NavigateKeeps ==
  ASSUME SnapshotInv, ReleaseAssumption, NEW t \in Tabs, afterNavigate(t)
  PROVE  KeepsSteady
<1>1. tab[t] \in OpenRecord
  BY OpenIsTab DEF afterNavigate, SnapshotInv
<1>2. PICK new \in OpenRecord :
         /\ tab' = [tab EXCEPT ![t] = new]
         /\ SamePage(new, tab[t])
  <2> DEFINE n == [tab[t] EXCEPT !.retried = FALSE]
  <2>1. n \in OpenRecord /\ SamePage(n, tab[t])
    BY <1>1 DEF OpenRecord, SamePage
  <2>2. tab' = [tab EXCEPT ![t] = n]
    BY DEF afterNavigate
  <2>. QED  BY <2>1, <2>2
<1>3. /\ tab' \in [Tabs -> {Closed} \cup OpenRecord]
      /\ \A u \in Tabs : tab'[u] = Closed \/ Stays(u)
  BY <1>1, <1>2, TabStays DEF SnapshotInv
<1>4. CachesOfReleases' /\ ShellInv'
  BY CacheSame DEF SnapshotInv, afterNavigate
<1>. QED
  BY <1>3, <1>4
  DEF afterNavigate, KeepsSteady, Grows, Steady, SnapshotInv, SnapshotTypeInv, ConsentInv

LEMMA DismissKeeps ==
  ASSUME SnapshotInv, ReleaseAssumption, NEW t \in Tabs, dismissUpdate(t)
  PROVE  KeepsSteady
<1>1. tab[t] \in OpenRecord
  BY OpenIsTab DEF dismissUpdate, SnapshotInv
<1>2. PICK new \in OpenRecord :
         /\ tab' = [tab EXCEPT ![t] = new]
         /\ SamePage(new, tab[t])
  <2> DEFINE n == [tab[t] EXCEPT !.updateReady = FALSE]
  <2>1. n \in OpenRecord /\ SamePage(n, tab[t])
    BY <1>1 DEF OpenRecord, SamePage
  <2>2. tab' = [tab EXCEPT ![t] = n]
    BY DEF dismissUpdate
  <2>. QED  BY <2>1, <2>2
<1>3. /\ tab' \in [Tabs -> {Closed} \cup OpenRecord]
      /\ \A u \in Tabs : tab'[u] = Closed \/ Stays(u)
  BY <1>1, <1>2, TabStays DEF SnapshotInv
<1>4. CachesOfReleases' /\ ShellInv'
  BY CacheSame DEF SnapshotInv, dismissUpdate
<1>. QED
  BY <1>3, <1>4
  DEF dismissUpdate, KeepsSteady, Grows, Steady, SnapshotInv, SnapshotTypeInv, ConsentInv

LEMMA AnnounceKeeps ==
  ASSUME SnapshotInv, ReleaseAssumption, NEW t \in Tabs, Announce(t)
  PROVE  KeepsSteady
<1>1. tab[t] \in OpenRecord
  BY OpenIsTab DEF Announce, SnapshotInv
<1>2. PICK new \in OpenRecord :
         /\ tab' = [tab EXCEPT ![t] = new]
         /\ SamePage(new, tab[t])
  <2>1. PICK version \in {tab[t].asking, None} :
          tab' = [tab EXCEPT ![t] = [tab[t] EXCEPT !.asking = None, !.updateReady = TRUE, !.nextVersion = version]]
    BY DEF Announce
  <2> DEFINE n == [tab[t] EXCEPT !.asking = None, !.updateReady = TRUE, !.nextVersion = version]
  <2>2. version \in Workers
    BY <2>1, <1>1, NumbersOfReleases DEF OpenRecord
  <2>3. n \in OpenRecord /\ SamePage(n, tab[t])
    BY <1>1, <2>2, NumbersOfReleases DEF OpenRecord, SamePage
  <2>. QED  BY <2>1, <2>3
<1>3. /\ tab' \in [Tabs -> {Closed} \cup OpenRecord]
      /\ \A u \in Tabs : tab'[u] = Closed \/ Stays(u)
  BY <1>1, <1>2, TabStays DEF SnapshotInv
<1>4. CachesOfReleases' /\ ShellInv'
  BY CacheSame DEF SnapshotInv, Announce
<1>. QED
  BY <1>3, <1>4
  DEF Announce, KeepsSteady, Grows, Steady, SnapshotInv, SnapshotTypeInv, ConsentInv

LEMMA FreshHashKeeps ==
  ASSUME SnapshotInv, ReleaseAssumption, NEW t \in Tabs, ensureFreshBundleHash(t)
  PROVE  KeepsSteady
<1>1. tab[t] \in OpenRecord
  BY OpenIsTab DEF ensureFreshBundleHash, SnapshotInv
<1>2. PICK new \in OpenRecord :
         /\ tab' = [tab EXCEPT ![t] = new]
         /\ SamePage(new, tab[t])
  <2>1. PICK fresh \in 1 .. origin :
          tab' = [tab EXCEPT ![t] = [tab[t] EXCEPT !.check = "manifest", !.fresh = fresh]]
    BY DEF ensureFreshBundleHash
  <2> DEFINE n == [tab[t] EXCEPT !.check = "manifest", !.fresh = fresh]
  <2>2. fresh \in Workers
    BY <2>1, <1>1, NumbersOfReleases DEF SnapshotInv, SnapshotTypeInv, Releases, Workers
  <2>3. n \in OpenRecord /\ SamePage(n, tab[t])
    BY <1>1, <2>2, NumbersOfReleases DEF OpenRecord, SamePage
  <2>. QED  BY <2>1, <2>3
<1>3. /\ tab' \in [Tabs -> {Closed} \cup OpenRecord]
      /\ \A u \in Tabs : tab'[u] = Closed \/ Stays(u)
  BY <1>1, <1>2, TabStays DEF SnapshotInv
<1>4. CachesOfReleases' /\ ShellInv'
  BY CacheSame DEF SnapshotInv, ensureFreshBundleHash
<1>. QED
  BY <1>3, <1>4
  DEF ensureFreshBundleHash, KeepsSteady, Grows, Steady, SnapshotInv, SnapshotTypeInv, ConsentInv

LEMMA RecheckKeeps ==
  ASSUME SnapshotInv, ReleaseAssumption, NEW t \in Tabs, recheck(t)
  PROVE  KeepsSteady
<1>1. repair' \in Repairs
  BY DEF recheck, Repairs
<1>2. /\ tab' \in [Tabs -> {Closed} \cup OpenRecord]
      /\ \A u \in Tabs : tab'[u] = Closed \/ Stays(u)
  <2>1. CASE tab' = tab
    BY <2>1, TabsSame DEF SnapshotInv
  <2>2. CASE tab' = Announcing({t}, registration.waiting)
    <3>1. registration.waiting \in Workers /\ Open(t)
      BY DEF recheck, Listening, SnapshotInv, SnapshotTypeInv, Registration
    <3>. QED  BY <2>2, <3>1, AnnouncingStays DEF SnapshotInv
  <2>. QED  BY <2>1, <2>2 DEF recheck
<1>3. CachesOfReleases' /\ ShellInv'
  BY CacheSame DEF SnapshotInv, recheck
<1>. QED
  BY <1>1, <1>2, <1>3
  DEF recheck, KeepsSteady, Grows, Steady, SnapshotInv, SnapshotTypeInv, ConsentInv

(* Consent is to the release the toast named, or to the worker waiting.    *)
LEMMA ApplyKeeps ==
  ASSUME SnapshotInv, ReleaseAssumption, NEW t \in Tabs, applyUpdate(t)
  PROVE  KeepsSteady
<1>1. /\ registration.waiting \in Releases
      /\ tab[t].nextVersion # None => tab[t].nextVersion \in Releases
  BY NumbersOfReleases, OpenIsTab
  DEF applyUpdate, SnapshotInv, SnapshotTypeInv, Registration, OpenRecord
<1>2. /\ exposure \subseteq exposure'
      /\ tab[t].nextVersion \notin {None, registration.waiting}
           => "replaced under the toast" \in exposure'
  BY Exposed DEF applyUpdate
<1>3. ConsentInv'
  BY <1>2 DEF applyUpdate, SnapshotInv, ConsentInv
<1>4. consented' \subseteq Releases /\ agreed' \subseteq Releases
  BY <1>1 DEF applyUpdate, SnapshotInv, SnapshotTypeInv
<1>5. CachesOfReleases' /\ ShellInv'
  BY <1>2, CacheSame DEF SnapshotInv, applyUpdate
<1>6. Steady
  BY TabsSame DEF Steady, SnapshotInv, applyUpdate
<1>. QED
  BY <1>2, <1>3, <1>4, <1>5, <1>6
  DEF applyUpdate, KeepsSteady, Grows, SnapshotInv, SnapshotTypeInv

LEMMA RepairManifestKeeps ==
  ASSUME SnapshotInv, ReleaseAssumption, RepairManifest
  PROVE  KeepsSteady
<1>1. registration.active \in Workers /\ origin \in Releases /\ Files(Pinned)
  BY DEF SnapshotInv, SnapshotTypeInv, CachesOfReleases, Registration, Pinned
<1>2. exposure \subseteq exposure'
  BY Exposed DEF RepairManifest
<1>3. repair' \in Repairs
  <2> DEFINE Refilling(r, hashed) ==
               [at |-> "refill", worker |-> registration.active, manifest |-> r, hashed |-> hashed]
  <2>1. \A r \in Releases, hashed \in BOOLEAN : Refilling(r, hashed) \in Repairs
    BY <1>1 DEF Repairs
  <2>2. \/ repair' = Idling
        \/ \E r \in Releases, hashed \in BOOLEAN : repair' = Refilling(r, hashed)
    <3>1. Manifest \in DOMAIN Pinned => Pinned[Manifest] \in Releases
      BY <1>1 DEF Files
    <3>. QED  BY <1>1, <3>1 DEF RepairManifest
  <2>. HIDE DEF Refilling
  <2>. QED  BY <2>1, <2>2 DEF Repairs
<1>4. CachesOfReleases' /\ ShellInv'
  <2>1. CASE cache' = cache
    BY <2>1, <1>2, CacheSame DEF SnapshotInv
  <2>2. CASE cache' = [cache EXCEPT ![registration.active] = Put(@, Manifest, origin)]
    BY <2>2, <1>1, <1>2, ManifestPut
  <2>. QED  BY <2>1, <2>2 DEF RepairManifest
<1>5. Steady
  BY TabsSame DEF Steady, SnapshotInv, RepairManifest
<1>. QED
  BY <1>2, <1>3, <1>4, <1>5
  DEF RepairManifest, KeepsSteady, Grows, SnapshotInv, SnapshotTypeInv, ConsentInv

LEMMA RefillKeeps == ASSUME SnapshotInv, ReleaseAssumption, Refill  PROVE KeepsSteady
<1> DEFINE mine == cache[repair.worker]
           missing == (PRECACHE(repair.worker) \cup ManifestKeys(repair.manifest)) \ DOMAIN mine
           live == repair.worker = registration.active
<1>1. repair.worker \in Workers /\ origin \in Releases /\ Files(mine)
  <2>1. repair \in Repairs /\ repair.at = "refill"
    BY DEF Refill, SnapshotInv, SnapshotTypeInv
  <2>2. repair.worker \in Workers
    BY <2>1 DEF Repairs, Idling
  <2>. QED  BY <2>2 DEF SnapshotInv, SnapshotTypeInv, CachesOfReleases
<1>2. PICK got \in [missing -> 0 .. origin] :
         LET good == {url \in missing : got[url] # None /\ Verified(url, got[url])} IN
         /\ cache' = IF live
                     THEN [cache EXCEPT ![repair.worker] = PutAll(@, Restrict(got, good))]
                     ELSE cache
         /\ Expose("shell not pinned", live /\ Shell \in good /\ got[Shell] # repair.worker)
  BY DEF Refill
<1> DEFINE good == {url \in missing : got[url] # None /\ Verified(url, got[url])}
           fetched == Restrict(got, good)
<1>3. exposure \subseteq exposure'
  BY <1>2, Exposed
<1>4. Files(fetched)
  <2>1. \A url \in good : got[url] \in 0 .. origin /\ got[url] # 0
    BY <1>2 DEF None
  <2>. QED  BY <1>1, <2>1, ReleaseAssumption DEF Files, Restrict, Releases
<1>5. live /\ exposure' \cap Torn = {} => OwnShell(fetched, repair.worker)
  <2>1. live /\ Shell \in good /\ got[Shell] # repair.worker => "shell not pinned" \in exposure'
    BY <1>2, Exposed
  <2>. QED  BY <2>1 DEF Torn, OwnShell, Restrict
<1>6. CachesOfReleases' /\ ShellInv'
  <2>1. CASE ~live
    BY <2>1, <1>2, <1>3, CacheSame DEF SnapshotInv
  <2>2. CASE live
    <3> DEFINE entries == PutAll(mine, fetched)
    <3>. HIDE DEF good, missing
    <3>1. /\ Files(entries)
          /\ OwnShell(mine, repair.worker) /\ OwnShell(fetched, repair.worker)
               => OwnShell(entries, repair.worker)
      BY <1>1, <1>4, PutAllKeeps
    <3>2. cache' = [cache EXCEPT ![repair.worker] = entries]
      BY <2>2, <1>2 DEF good
    <3>3. exposure' \cap Torn = {} => OwnShell(fetched, repair.worker)
      BY <2>2, <1>5
    <3>. HIDE DEF entries, fetched
    <3>. QED  BY <1>1, <1>3, <3>1, <3>2, <3>3, CacheUpdated DEF SnapshotInv
  <2>. QED  BY <2>1, <2>2
<1>7. repair' \in Repairs
  BY DEF Refill, Repairs
<1>8. Steady
  BY TabsSame DEF Steady, SnapshotInv, Refill
<1>. QED
  BY <1>3, <1>6, <1>7, <1>8
  DEF Refill, KeepsSteady, Grows, SnapshotInv, SnapshotTypeInv, ConsentInv

-----------------------------------------------------------------------------
(* Pages: what they keep is in the snapshot of the active worker.          *)

LEMMA LoadSteady ==
  ASSUME SnapshotInv, ReleaseAssumption, NEW t \in Tabs, NEW retried \in BOOLEAN,
         Load(t, retried)
  PROVE  KeepsSteady
<1>1. /\ exposure \subseteq exposure'
      /\ CachesOfReleases' /\ ShellInv'
      /\ tab' \in [Tabs -> {Closed} \cup OpenRecord]
      /\ Loaded(t) /\ \A u \in Tabs \ {t} : tab'[u] = tab[u]
      /\ UNCHANGED <<origin, registration, repair, consented, agreed, evictions>>
  BY LoadKeeps DEF SnapshotInv
<1>2. Steady
  BY <1>1 DEF Steady, SnapshotInv, SnapshotTypeInv, OpenRecord, Stays, SamePage
<1>. QED
  BY <1>1, <1>2 DEF KeepsSteady, Grows, SnapshotInv, SnapshotTypeInv, ConsentInv

LEMMA OpenKeeps ==
  ASSUME SnapshotInv, ReleaseAssumption, NEW t \in Tabs, OpenTab(t) \/ Reload(t)
  PROVE  KeepsSteady
<1>1. Reload(t) => tab[t].retried \in BOOLEAN
  BY OpenIsTab DEF SnapshotInv, Reload, OpenRecord
<1>. QED  BY <1>1, LoadSteady DEF OpenTab, Reload

LEMMA KeptInCache ==
  ASSUME SnapshotInv, ReleaseAssumption, NEW url, url # Shell, NEW controlled,
         NEW r \in Workers, exposure \subseteq exposure',
         cache' = [cache EXCEPT ![registration.active] = Kept(@, url, controlled, r)]
  PROVE  CachesOfReleases' /\ ShellInv'
<1> DEFINE entries == Kept(Pinned, url, controlled, r)
<1>1. registration.active \in Workers /\ Files(Pinned)
  BY DEF SnapshotInv, SnapshotTypeInv, CachesOfReleases, Registration, Pinned
<1>2. /\ Files(entries)
      /\ OwnShell(Pinned, registration.active) => OwnShell(entries, registration.active)
  BY <1>1, KeptKeeps
<1>3. cache' = [cache EXCEPT ![registration.active] = entries]
  BY DEF Pinned
<1>. HIDE DEF entries
<1>. QED  BY <1>1, <1>2, <1>3, CacheUpdated DEF SnapshotInv, Pinned

LEMMA ImportKeeps ==
  ASSUME SnapshotInv, ReleaseAssumption, NEW t \in Tabs, LazyImport(t)
  PROVE  KeepsSteady
<1>1. PICK r \in Fetch(Pinned, Chunk(tab[t].page), tab[t].controlled) :
         IF r = None
         THEN ~tab[t].retried /\ Load(t, TRUE)
         ELSE /\ cache' = [cache EXCEPT ![registration.active] =
                             Kept(@, Chunk(tab[t].page), tab[t].controlled, r)]
              /\ UNCHANGED <<origin, registration, repair, tab, consented, agreed,
                             evictions, exposure>>
  BY DEF LazyImport
<1>2. r \in Workers
  BY <1>1, FetchedIsRelease DEF SnapshotInv
<1>3. CASE r = None
  BY <1>1, <1>3, LoadSteady
<1>4. CASE r # None
  <2>1. CachesOfReleases' /\ ShellInv'
    BY <1>1, <1>2, <1>4, KeptInCache, UrlsDiffer
  <2>2. Steady
    BY <1>1, <1>4, TabsSame DEF Steady, SnapshotInv
  <2>. QED
    BY <1>1, <1>4, <2>1, <2>2
    DEF KeepsSteady, Grows, SnapshotInv, SnapshotTypeInv, ConsentInv
<1>. QED  BY <1>3, <1>4

LEMMA ReadManifestKeeps ==
  ASSUME SnapshotInv, ReleaseAssumption, NEW t \in Tabs, ReadManifest(t)
  PROVE  KeepsSteady
<1>1. tab[t] \in OpenRecord
  BY OpenIsTab DEF ReadManifest, SnapshotInv
<1>2. PICK r \in Fetch(Pinned, Manifest, tab[t].controlled) :
       /\ cache' = [cache EXCEPT ![registration.active] =
                      Kept(@, Manifest, tab[t].controlled, r)]
       /\ Expose("manifest refilled", tab[t].controlled /\ Manifest \notin DOMAIN Pinned
                                        /\ r \notin {None, registration.active})
       /\ tab' = [tab EXCEPT ![t].check = IF r = None THEN "failed" ELSE "files",
                             ![t].manifest = r]
  BY DEF ReadManifest
<1>3. r \in Workers /\ exposure \subseteq exposure'
  BY <1>2, FetchedIsRelease, Exposed DEF SnapshotInv
<1>4. CachesOfReleases' /\ ShellInv'
  BY <1>2, <1>3, KeptInCache, UrlsDiffer
<1>5. /\ tab' \in [Tabs -> {Closed} \cup OpenRecord]
      /\ \A u \in Tabs : tab'[u] = Closed \/ Stays(u)
  <2> DEFINE n == [tab[t] EXCEPT !.check = IF r = None THEN "failed" ELSE "files",
                                 !.manifest = r]
  <2>1. n \in OpenRecord /\ SamePage(n, tab[t])
    BY <1>1, <1>3 DEF OpenRecord, SamePage
  <2>2. tab' = [tab EXCEPT ![t] = n]
    BY <1>2
  <2>. HIDE DEF n
  <2>. QED  BY <1>1, <2>1, <2>2, TabStays DEF SnapshotInv
<1>. QED
  BY <1>3, <1>4, <1>5
  DEF ReadManifest, KeepsSteady, Grows, Steady, SnapshotInv, SnapshotTypeInv, ConsentInv

LEMMA VerifyKeeps ==
  ASSUME SnapshotInv, ReleaseAssumption, NEW t \in Tabs, verifyBundleIntegrity(t)
  PROVE  KeepsSteady
<1> DEFINE keys == ManifestKeys(tab[t].manifest)
           controlled == tab[t].controlled
           chunk == Chunk(tab[t].manifest)
           Pins(url) == controlled /\ url \in DOMAIN Pinned
           Outcomes == {"failed", "verified", "moved", "mismatch"}
<1>1. tab[t] \in OpenRecord
  BY OpenIsTab DEF verifyBundleIntegrity, SnapshotInv
<1>2. PICK got \in [keys -> 0 .. origin] :
       /\ cache' = [cache EXCEPT ![registration.active] =
               Kept(Kept(@, Worker, controlled, got[Worker]), chunk, controlled, got[chunk])]
       /\ Expose("file refilled", \E url \in keys : controlled /\ ~Pins(url)
                                       /\ got[url] \notin {None, tab[t].manifest})
       /\ tab' = [tab EXCEPT
               ![t].check = CASE None \in Range(got) -> "failed"
                              [] /\ Range(got) = {tab[t].manifest}
                                 /\ tab[t].manifest = tab[t].fresh -> "verified"
                              [] ~Pins(Worker) /\ got[Worker] # tab[t].manifest -> "moved"
                              [] OTHER -> "mismatch"]
  BY DEF verifyBundleIntegrity
<1>3. exposure \subseteq exposure'
  BY <1>2, Exposed
<1>4. got[Worker] \in Workers /\ got[chunk] \in Workers
  <2>1. Worker \in keys /\ chunk \in keys
    BY DEF ManifestKeys
  <2>2. 0 .. origin \subseteq Workers
    BY ReleaseAssumption DEF SnapshotInv, SnapshotTypeInv, Releases, Workers
  <2>. HIDE DEF keys, chunk
  <2>. QED  BY <1>2, <2>1, <2>2
<1>5. CachesOfReleases' /\ ShellInv'
  <2> DEFINE first == Kept(Pinned, Worker, controlled, got[Worker])
             entries == Kept(first, chunk, controlled, got[chunk])
  <2>1. registration.active \in Workers /\ Files(Pinned)
    BY DEF SnapshotInv, SnapshotTypeInv, CachesOfReleases, Registration, Pinned
  <2>2. /\ Files(first)
        /\ OwnShell(Pinned, registration.active) => OwnShell(first, registration.active)
    BY <1>4, <2>1, KeptKeeps, UrlsDiffer
  <2>3. cache' = [cache EXCEPT ![registration.active] = entries]
    BY <1>2 DEF Pinned
  <2>4. chunk # Shell
    BY UrlsDiffer
  <2>. HIDE DEF first, chunk
  <2>5. /\ Files(entries)
        /\ OwnShell(first, registration.active) => OwnShell(entries, registration.active)
    BY <1>4, <2>2, <2>4, KeptKeeps
  <2>. HIDE DEF entries
  <2>. QED  BY <1>3, <2>1, <2>2, <2>3, <2>5, CacheUpdated DEF SnapshotInv, Pinned
<1>6. /\ tab' \in [Tabs -> {Closed} \cup OpenRecord]
      /\ \A u \in Tabs : tab'[u] = Closed \/ Stays(u)
  <2> DEFINE failed == None \in Range(got)
             verified == Range(got) = {tab[t].manifest} /\ tab[t].manifest = tab[t].fresh
             moved == ~Pins(Worker) /\ got[Worker] # tab[t].manifest
             outcome == CASE failed -> "failed" [] verified -> "verified"
                          [] moved -> "moved" [] OTHER -> "mismatch"
  <2>1. tab' = [tab EXCEPT ![t].check = outcome] /\ outcome \in Outcomes
    <3>1. tab' = [tab EXCEPT ![t].check = outcome]
      BY <1>2
    <3>2. outcome \in Outcomes
      <4>. HIDE DEF failed, verified, moved
      <4>. QED  OBVIOUS
    <3>. QED  BY <3>1, <3>2
  <2>. HIDE DEF outcome
  <2> DEFINE n == [tab[t] EXCEPT !.check = outcome]
  <2>2. n \in OpenRecord /\ SamePage(n, tab[t])
    BY <1>1, <2>1 DEF OpenRecord, SamePage
  <2>3. tab' = [tab EXCEPT ![t] = n]
    BY <2>1
  <2>. HIDE DEF n
  <2>. QED  BY <1>1, <2>2, <2>3, TabStays DEF SnapshotInv
<1>. QED
  BY <1>3, <1>5, <1>6
  DEF verifyBundleIntegrity, KeepsSteady, Grows, Steady, SnapshotInv, SnapshotTypeInv, ConsentInv

-----------------------------------------------------------------------------
(* A tab begins to listen, or gives up; a change of controllers reaches it *)
(* and does not reload it.                                                 *)

HearsClaim(t) == controllerchange(t) /\ ~tab[t].wasControlled
Watches(t) == Registered(t) \/ RegisterFailed(t) \/ UnheardChange(t) \/ HearsClaim(t)

(* The tab after that, and why it then owes what it owed. *)
LEMMA WatchingTab ==
  ASSUME SnapshotInv, ReleaseAssumption, NEW t \in Tabs, Watches(t)
  PROVE  \E n \in OpenRecord :
           /\ Open(t) /\ tab' = [tab EXCEPT ![t] = n]
           /\ n.page = tab[t].page /\ n.controlled = tab[t].controlled
           /\ n.listening = "yes" => n.wasControlled = n.controlled
           /\ ~n.controlled => n.changed = 0 /\ ~n.wasControlled
           /\ ~n.missed /\ n.controlled /\ n.changed = 0
                => ~tab[t].missed /\ tab[t].changed = NotOwed(t)
           /\ UNCHANGED <<origin, registration, cache, repair, consented, agreed,
                          evictions, exposure>>
<1>1. Open(t) /\ tab[t] \in OpenRecord
  BY OpenIsTab
  DEF Watches, Registered, RegisterFailed, UnheardChange, HearsClaim, controllerchange, Listening,
      SnapshotInv
<1>2. tab[t].changed \in Nat /\ (~tab[t].controlled => ~tab[t].wasControlled /\ tab[t].changed = 0)
  BY <1>1 DEF OpenRecord, SnapshotInv, ControlInv
<1>3. CASE Registered(t)
  <2> DEFINE asking == IF tab[t].controlled THEN registration.waiting ELSE None
             n == [tab[t] EXCEPT !.listening = "yes", !.wasControlled = tab[t].controlled,
                                 !.asking = asking]
  <2>1. asking \in Workers
    BY NumbersOfReleases DEF SnapshotInv, SnapshotTypeInv, Registration
  <2>. HIDE DEF asking
  <2>2. /\ n \in OpenRecord
        /\ n.page = tab[t].page /\ n.controlled = tab[t].controlled
        /\ n.wasControlled = tab[t].controlled /\ n.changed = tab[t].changed
        /\ n.missed = tab[t].missed
    BY <1>1, <2>1 DEF OpenRecord
  <2>3. tab' = [tab EXCEPT ![t] = n]
    BY <1>3 DEF Registered, asking
  <2>4. ~Listening(t)
    BY <1>3 DEF Registered, Listening
  <2>. HIDE DEF n
  <2>. QED  BY <1>1, <1>2, <1>3, <2>2, <2>3, <2>4 DEF Registered, NotOwed
<1>4. CASE RegisterFailed(t)
  <2> DEFINE n == [tab[t] EXCEPT !.listening = "never"]
  <2>1. /\ n \in OpenRecord /\ n.listening = "never"
        /\ n.page = tab[t].page /\ n.controlled = tab[t].controlled
        /\ n.wasControlled = tab[t].wasControlled /\ n.changed = tab[t].changed
        /\ n.missed = tab[t].missed
    BY <1>1 DEF OpenRecord
  <2>2. tab' = [tab EXCEPT ![t] = n]
    BY <1>4 DEF RegisterFailed
  <2>3. ~Listening(t)
    BY <1>4 DEF RegisterFailed, Listening
  <2>. HIDE DEF n
  <2>. QED  BY <1>1, <1>2, <1>4, <2>1, <2>2, <2>3 DEF RegisterFailed, NotOwed
<1>5. CASE UnheardChange(t)
  <2> DEFINE n == [tab[t] EXCEPT !.changed = @ - 1, !.missed = TRUE]
  <2>1. tab[t].changed - 1 \in Nat /\ tab[t].controlled
    BY <1>2, <1>5 DEF UnheardChange
  <2>2. /\ n \in OpenRecord /\ n.listening = tab[t].listening
        /\ n.page = tab[t].page /\ n.controlled = tab[t].controlled
        /\ n.missed = TRUE
    BY <1>1, <2>1 DEF OpenRecord
  <2>3. tab' = [tab EXCEPT ![t] = n]
    BY <1>5 DEF UnheardChange
  <2>4. tab[t].listening # "yes"
    BY <1>5 DEF UnheardChange, Listening
  <2>. HIDE DEF n
  <2>. QED  BY <1>1, <1>5, <2>1, <2>2, <2>3, <2>4 DEF UnheardChange
<1>6. CASE HearsClaim(t)
  <2> DEFINE n == [tab[t] EXCEPT !.changed = @ - 1, !.wasControlled = TRUE]
  <2>1. tab[t].changed - 1 \in Nat /\ tab[t].controlled /\ Listening(t) /\ ~tab[t].wasControlled
    BY <1>2, <1>6 DEF HearsClaim, controllerchange
  <2>2. /\ n \in OpenRecord
        /\ n.page = tab[t].page /\ n.controlled = tab[t].controlled
        /\ n.wasControlled = TRUE /\ n.changed = tab[t].changed - 1
        /\ n.missed = tab[t].missed
    BY <1>1, <2>1 DEF OpenRecord
  <2>3. tab' = [tab EXCEPT ![t] = n]
    BY <1>6 DEF HearsClaim, controllerchange
  <2>4. tab[t].controlled = TRUE
    BY <1>1, <2>1 DEF OpenRecord
  <2>5. n.changed = 0 => tab[t].changed = 1
    BY <1>2, <2>2
  <2>. HIDE DEF n
  <2>. QED
    BY <1>1, <1>6, <2>1, <2>2, <2>3, <2>4, <2>5 DEF HearsClaim, controllerchange, NotOwed
<1>. QED  BY <1>3, <1>4, <1>5, <1>6 DEF Watches

LEMMA WatchKeeps ==
  ASSUME SnapshotInv, ReleaseAssumption, NEW t \in Tabs, Watches(t)
  PROVE  /\ SnapshotInv' /\ Grows
         /\ \A u \in Tabs : Open(u) => tab'[u].page = tab[u].page
<1>1. PICK n \in OpenRecord :
           /\ Open(t) /\ tab' = [tab EXCEPT ![t] = n]
           /\ n.page = tab[t].page /\ n.controlled = tab[t].controlled
           /\ n.listening = "yes" => n.wasControlled = n.controlled
           /\ ~n.controlled => n.changed = 0 /\ ~n.wasControlled
           /\ ~n.missed /\ n.controlled /\ n.changed = 0
                => ~tab[t].missed /\ tab[t].changed = NotOwed(t)
           /\ UNCHANGED <<origin, registration, cache, repair, consented, agreed,
                          evictions, exposure>>
  BY WatchingTab
<1>2. tab \in [Tabs -> {Closed} \cup OpenRecord] /\ n.at = "open"
  BY DEF SnapshotInv, SnapshotTypeInv, OpenRecord
<1>3. /\ tab' \in [Tabs -> {Closed} \cup OpenRecord] /\ tab'[t] = n
      /\ \A u \in Tabs : u # t => tab'[u] = tab[u]
  BY <1>1, <1>2
<1>4. SnapshotTypeInv'
  BY <1>1, <1>3 DEF SnapshotInv, SnapshotTypeInv, CachesOfReleases
<1>5. ControlInv'
  <2>. SUFFICES ASSUME NEW u \in Tabs, tab'[u].at = "open"
                PROVE  IF tab'[u].controlled
                       THEN /\ registration'.active # None
                            /\ Listening(u)' => tab'[u].wasControlled \/ tab'[u].changed # 0
                       ELSE ~tab'[u].wasControlled /\ tab'[u].changed = 0
    BY DEF ControlInv, Open
  <2>. QED  BY <1>1, <1>2, <1>3 DEF SnapshotInv, ControlInv, Open, Listening
<1>6. ShellInv' /\ ConsentInv' /\ Grows
  BY <1>1 DEF SnapshotInv, ShellInv, ConsentInv, Grows
<1>7. FollowInv'
  <2>. SUFFICES ASSUME exposure \cap (Torn \cup {"claimed"}) = {}, NEW u \in Tabs,
                       tab'[u].at = "open", tab'[u].controlled, ~tab'[u].missed,
                       tab'[u].changed = NotOwed(u)'
                PROVE  tab'[u].page = registration.active
    BY <1>1 DEF FollowInv, Controlled, Open
  <2>1. CASE u = t
    <3>1. ~(n.listening = "yes" /\ ~n.wasControlled)
      BY <1>1, <1>3, <2>1
    <3>2. n.changed = 0
      BY <1>3, <2>1, <3>1 DEF NotOwed, Listening
    <3>. QED  BY <1>1, <1>3, <2>1, <3>2 DEF SnapshotInv, FollowInv, Controlled
  <2>2. CASE u # t
    BY <1>3, <2>2 DEF SnapshotInv, FollowInv, Controlled, Open, NotOwed, Listening
  <2>. QED  BY <2>1, <2>2
<1>8. AgreedInv'
  BY <1>1, <1>2, <1>3 DEF SnapshotInv, AgreedInv, Controlled, Open
<1>9. \A u \in Tabs : Open(u) => tab'[u].page = tab[u].page
  BY <1>1, <1>3
<1>. QED  BY <1>4, <1>5, <1>6, <1>7, <1>8, <1>9 DEF SnapshotInv

LEMMA ChangeKeeps ==
  ASSUME SnapshotInv, ReleaseAssumption, NEW t \in Tabs, controllerchange(t)
  PROVE  HearsClaim(t) \/ KeepsSteady
<1>1. tab[t].retried \in BOOLEAN
  BY OpenIsTab DEF SnapshotInv, controllerchange, Listening, OpenRecord
<1>. QED  BY <1>1, LoadSteady DEF controllerchange, HearsClaim

LEMMA EmptyCache == Files(<<>>) /\ \A r : OwnShell(<<>>, r)
<1>1. DOMAIN <<>> = {}
  OBVIOUS
<1>. QED  BY <1>1 DEF Files, OwnShell

LEMMA ActivateKeeps ==
  ASSUME SnapshotInv, ReleaseAssumption, Activate
  PROVE  SnapshotInv' /\ Grows
<1> DEFINE claimed(t) == [tab[t] EXCEPT !.controlled = TRUE, !.changed = @ + 1]
           new == registration.waiting
<1>1. /\ new \in Releases /\ new # None
      /\ registration' \in Registration /\ registration'.active = new
  BY NumbersOfReleases
  DEF Activate, MayActivate, SnapshotInv, SnapshotTypeInv, Registration
<1>2. Grows
  BY DEF Activate, Grows
<1>3. CachesOfReleases' /\ ShellInv'
  <2>1. /\ DOMAIN cache' = Workers
        /\ \A r \in Workers : cache'[r] = cache[r] \/ cache'[r] = <<>>
    BY DEF Activate, SnapshotInv, SnapshotTypeInv, CachesOfReleases
  <2>2. CachesOfReleases'
    BY <2>1, EmptyCache DEF SnapshotInv, SnapshotTypeInv, CachesOfReleases
  <2>3. ShellInv'
    <3>. SUFFICES ASSUME exposure' \cap Torn = {}, NEW r \in Workers
                  PROVE  OwnShell(cache'[r], r)
      BY DEF ShellInv
    <3>1. OwnShell(cache[r], r)
      BY <1>2 DEF SnapshotInv, ShellInv, Grows
    <3>. QED  BY <2>1, <3>1, EmptyCache
  <2>. QED  BY <2>2, <2>3
<1>4. ASSUME NEW t \in Tabs
      PROVE  \/ tab'[t] = Closed /\ tab'[t].at # "open" /\ ~Open(t)
             \/ /\ tab[t] \in OpenRecord /\ Open(t) /\ tab'[t] \in OpenRecord
                /\ tab'[t].page = tab[t].page /\ tab'[t].controlled = TRUE
                /\ tab'[t].wasControlled = tab[t].wasControlled
                /\ tab'[t].listening = tab[t].listening
                /\ tab'[t].changed = tab[t].changed + 1 /\ tab[t].changed \in Nat
  <2>1. tab[t] \in {Closed} \cup OpenRecord
    BY DEF SnapshotInv, SnapshotTypeInv
  <2>2. tab'[t] = IF Open(t) THEN claimed(t) ELSE tab[t]
    BY DEF Activate
  <2>3. CASE Open(t)
    <3>1. tab[t] \in OpenRecord
      BY <2>3, OpenIsTab DEF SnapshotInv
    <3>2. tab[t].changed \in Nat /\ tab[t].changed + 1 \in Nat
      BY <3>1 DEF OpenRecord
    <3>3. tab'[t] = claimed(t)
      BY <2>2, <2>3
    <3>. QED  BY <2>3, <3>1, <3>2, <3>3 DEF OpenRecord
  <2>4. CASE ~Open(t)
    BY <2>1, <2>2, <2>4 DEF OpenRecord, Open, Closed
  <2>. QED  BY <2>3, <2>4
<1>5. tab' \in [Tabs -> {Closed} \cup OpenRecord]
  <2>1. tab' = [t \in Tabs |-> IF Open(t) THEN claimed(t) ELSE tab[t]]
    BY DEF Activate
  <2>. HIDE DEF claimed
  <2>. QED  BY <1>4, <2>1
<1>6. SnapshotTypeInv'
  BY <1>1, <1>3, <1>5 DEF Activate, SnapshotInv, SnapshotTypeInv
<1>7. ControlInv'
  <2>. SUFFICES ASSUME NEW t \in Tabs, tab'[t].at = "open"
                PROVE  /\ tab'[t].controlled
                       /\ registration'.active # None
                       /\ tab'[t].changed # 0
    BY DEF ControlInv, Open
  <2>1. tab'[t].controlled = TRUE /\ tab'[t].changed = tab[t].changed + 1 /\ tab[t].changed \in Nat
    BY <1>4
  <2>2. registration'.active # None
    BY <1>1
  <2>3. tab[t].changed + 1 # 0
    BY <2>1
  <2>. QED  BY <2>1, <2>2, <2>3
<1>8. ConsentInv'
  BY <1>2 DEF Activate, SnapshotInv, ConsentInv, Grows
(* Unclaimed, the page is that of the worker that claims it. *)
<1>9. ASSUME NEW t \in Tabs, Open(t), ~tab[t].controlled, "claimed" \notin exposure'
      PROVE  tab[t].page = new
  BY <1>9 DEF Activate
<1>10. FollowInv'
  <2>. SUFFICES ASSUME exposure' \cap (Torn \cup {"claimed"}) = {}, NEW t \in Tabs,
                       tab'[t].at = "open", tab'[t].controlled, ~tab'[t].missed,
                       tab'[t].changed = NotOwed(t)'
                PROVE  tab'[t].page = registration'.active
    BY DEF FollowInv, Controlled, Open
  <2>1. /\ Open(t) /\ tab'[t].page = tab[t].page
        /\ tab[t].changed \in Nat
        /\ tab[t].changed + 1 = (IF tab[t].listening = "yes" /\ ~tab[t].wasControlled
                                 THEN 1 ELSE 0)
    BY <1>4 DEF NotOwed, Listening, Open
  <2>2. ~tab[t].controlled
    <3>1. tab[t].listening = "yes" /\ ~tab[t].wasControlled /\ tab[t].changed = 0
      BY <2>1
    <3>. QED  BY <2>1, <3>1 DEF SnapshotInv, ControlInv, Listening
  <2>. QED  BY <1>1, <1>9, <2>1, <2>2
<1>11. AgreedInv'
  <2>. SUFFICES ASSUME exposure' \cap (Torn \cup {"claimed", "replaced under the toast"}) = {},
                       NEW t \in Tabs, tab'[t].at = "open"
                PROVE  tab'[t].page = new \/ new \in agreed'
    BY <1>1 DEF AgreedInv, Controlled, Open
  <2>1. Open(t) /\ tab'[t].page = tab[t].page
    BY <1>4
  <2>2. CASE ~tab[t].controlled
    BY <2>1, <2>2, <1>9
  <2>3. CASE tab[t].controlled
    <3>1. new \in consented
      BY <2>1, <2>3 DEF Activate, MayActivate, Controlled
    <3>. QED  BY <1>2, <3>1 DEF SnapshotInv, ConsentInv, Grows
  <2>. QED  BY <2>2, <2>3
<1>. QED  BY <1>2, <1>3, <1>6, <1>7, <1>8, <1>10, <1>11 DEF SnapshotInv

-----------------------------------------------------------------------------
LEMMA SnapshotStep ==
  ASSUME SnapshotInv, ReleaseAssumption, SnapshotNext
  PROVE  KeepsSteady \/ Activate \/ \E t \in Tabs : Watches(t)
<1>1. CASE Deploy
  BY <1>1, DeployKeeps
<1>2. CASE \E url \in {Manifest, Worker, Shell} \cup {Chunk(r) : r \in Releases} : Evict(url)
  BY <1>2, EvictKeeps
<1>3. CASE UpdateFound \/ InstallFailed
  BY <1>3, RegistrationKeeps
<1>4. CASE InstallManifest
  BY <1>4, InstallManifestKeeps
<1>5. CASE Installed
  BY <1>5, InstalledKeeps
<1>6. CASE RepairManifest
  BY <1>6, RepairManifestKeeps
<1>7. CASE Refill
  BY <1>7, RefillKeeps
<1>8. ASSUME NEW t \in Tabs,
             \/ CloseTab(t) \/ OpenTab(t) \/ Reload(t) \/ LazyImport(t)
             \/ afterNavigate(t) \/ controllerchange(t)
      PROVE  KeepsSteady \/ Watches(t)
  BY <1>8, CloseKeeps, OpenKeeps, ImportKeeps, NavigateKeeps, ChangeKeeps DEF Watches
<1>9. ASSUME NEW t \in Tabs,
             \/ Announce(t) \/ applyUpdate(t) \/ dismissUpdate(t) \/ recheck(t)
             \/ ensureFreshBundleHash(t) \/ ReadManifest(t) \/ verifyBundleIntegrity(t)
      PROVE  KeepsSteady
  BY <1>9, AnnounceKeeps, ApplyKeeps, DismissKeeps, RecheckKeeps, FreshHashKeeps,
     ReadManifestKeeps, VerifyKeeps
<1>. QED
  BY <1>1, <1>2, <1>3, <1>4, <1>5, <1>6, <1>7, <1>8, <1>9 DEF SnapshotNext, Watches

LEMMA SnapshotInductive ==
  ASSUME ReleaseAssumption
  PROVE  /\ SnapshotInit => SnapshotInv
         /\ SnapshotInv /\ [SnapshotNext]_snapshotVars => SnapshotInv'
<1>1. ASSUME SnapshotInit  PROVE SnapshotInv
  <2>1. \A r \in Workers : cache[r] = <<>>
    BY <1>1 DEF SnapshotInit, Workers
  <2>2. origin \in Releases /\ evictions \in 0 .. MaxEvictions
    BY <1>1, ReleaseAssumption DEF SnapshotInit, Releases
  <2>3. registration \in Registration
    BY <1>1, NumbersOfReleases DEF SnapshotInit, Registration, NoWorker
  <2>4. SnapshotTypeInv
    BY <1>1, <2>1, <2>2, <2>3, EmptyCache
    DEF SnapshotInit, SnapshotTypeInv, CachesOfReleases, Workers, Repairs
  <2>5. \A t \in Tabs : ~Open(t)
    BY <1>1 DEF SnapshotInit, Open, Closed
  <2>. QED
    BY <1>1, <2>1, <2>4, <2>5, EmptyCache
    DEF SnapshotInit, SnapshotInv, ControlInv, ShellInv, FollowInv, ConsentInv, AgreedInv,
        Controlled
<1>2. ASSUME SnapshotInv, SnapshotNext  PROVE SnapshotInv'
  <2>1. CASE KeepsSteady
    BY <1>2, <2>1, SteadyKeeps DEF KeepsSteady, SnapshotInv
  <2>2. CASE Activate
    BY <1>2, <2>2, ActivateKeeps
  <2>3. CASE \E t \in Tabs : Watches(t)
    BY <1>2, <2>3, WatchKeeps
  <2>. QED  BY <1>2, <2>1, <2>2, <2>3, SnapshotStep
<1>3. ASSUME SnapshotInv, UNCHANGED snapshotVars  PROVE SnapshotInv'
  BY <1>3
  DEF snapshotVars, SnapshotInv, SnapshotTypeInv, CachesOfReleases, ControlInv, ShellInv,
      FollowInv, ConsentInv, AgreedInv, Open, Controlled, Listening, NotOwed
<1>. QED  BY <1>1, <1>2, <1>3

(* Every reachable state of the snapshot is typed, and keeps what a shell, *)
(* a page and a consent are of.                                            *)
THEOREM SnapshotTyped == SnapshotSpec => []SnapshotInv
BY ReleaseAssumption, SnapshotInductive, PTL DEF SnapshotSpec

(* A controlled tab runs the release of the worker that controls it, or is *)
(* about to be reloaded (controllerchange, with the shell each worker      *)
(* pinned), unless a change of controllers reached it while it was still   *)
(* awaiting its registration, or never got one; however many tabs,         *)
(* releases and evictions.                                                 *)
THEOREM TabsFollowTheirWorker == SnapshotSpec => []NoTabLeftBehind
<1>1. SnapshotInv => NoTabLeftBehind
  <2>. SUFFICES ASSUME SnapshotInv, NEW t \in Tabs, Controlled(t), tab[t].changed = 0,
                       ~tab[t].missed, exposure \cap (Torn \cup {"claimed"}) = {}
                PROVE  tab[t].page = registration.active
    BY DEF NoTabLeftBehind
  <2>1. tab[t].changed = NotOwed(t)
    BY DEF SnapshotInv, ControlInv, Controlled, NotOwed
  <2>. QED  BY <2>1 DEF SnapshotInv, FollowInv
<1>. QED  BY <1>1, SnapshotTyped, PTL

LEMMA NoTurnWithoutConsent ==
  ASSUME SnapshotInv, ReleaseAssumption, SnapshotNext, NEW t \in Tabs,
         Controlled(t), tab'[t].at = "open", tab'[t].page # tab[t].page
  PROVE  \/ tab'[t].page \in agreed
         \/ exposure' \cap (Torn \cup {"claimed", "replaced under the toast"}) # {}
<1>1. Grows
  BY SnapshotStep, ActivateKeeps, WatchKeeps DEF KeepsSteady
<1>2. Loaded(t)
  <2>1. CASE KeepsSteady
    BY <2>1 DEF KeepsSteady, Steady, Stays, SamePage, Closed
  <2>2. CASE Activate
    <3>1. tab[t] \in OpenRecord
      BY OpenIsTab DEF SnapshotInv, Controlled
    <3>. QED  BY <2>2, <3>1 DEF Activate, Controlled, OpenRecord
  <2>3. ASSUME NEW u \in Tabs, Watches(u)  PROVE FALSE
    BY <2>3, WatchKeeps DEF Controlled
  <2>. QED  BY <2>1, <2>2, <2>3, SnapshotStep
<1>3. registration.active # None
  BY DEF SnapshotInv, ControlInv, Controlled
<1>. SUFFICES ASSUME exposure' \cap (Torn \cup {"claimed", "replaced under the toast"}) = {}
              PROVE  tab'[t].page \in agreed
  OBVIOUS
<1>4. tab'[t].page = registration.active
  BY <1>2, <1>3 DEF Loaded
<1>5. exposure \cap (Torn \cup {"claimed", "replaced under the toast"}) = {}
  BY <1>1 DEF Grows
<1>. QED  BY <1>4, <1>5 DEF SnapshotInv, AgreedInv

(* A controlled tab changes release only by a load from the snapshot of    *)
(* the worker that controls it, and a worker takes over a tab it did not   *)
(* serve only when told to (applyUpdate) or once it claims it.             *)
THEOREM TabsChangeByConsent == SnapshotSpec => PinnedUntilConsent
<1>1. ASSUME SnapshotInv, SnapshotNext
      PROVE  \A t \in Tabs :
               Controlled(t) /\ tab'[t].at = "open" /\ tab'[t].page # tab[t].page
               => \/ tab'[t].page \in agreed
                  \/ exposure' \cap (Torn \cup {"claimed", "replaced under the toast"}) # {}
  BY <1>1, ReleaseAssumption, NoTurnWithoutConsent
<1>. QED  BY <1>1, SnapshotTyped, PTL DEF SnapshotSpec, PinnedUntilConsent

=============================================================================
