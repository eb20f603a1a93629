---------------------------- MODULE ObjectStore ----------------------------
(***************************************************************************)
(* The object routes (v2/blobs, v2/inv, v2/restore), the reference rows    *)
(* they keep in D1, the sweep that collects what has not been seen         *)
(* (r2-gc.ts), the rate limiter in front of them (rate-limit-d1.ts), and   *)
(* an owner who pushes the vault again before it ages out.  Handlers and   *)
(* the sweep are cut at every R2 and D1 call.                              *)
(*                                                                         *)
(* Abstractions.  One tick of day is the refresh interval of the client;   *)
(* a request or a sweep lasts less than a tick.  An object is a            *)
(* key and is there or not; all requests come from one network origin.     *)
(***************************************************************************)
EXTENDS Integers, FiniteSets

CONSTANTS
  Tables,     \* the routes: subset of {"blob", "inv", "restore"}
  Ids,        \* names of objects: 1 .. n, one for every push there is time for
  Slots,      \* bound: requests in flight at once
  Batch,      \* V2_VICTIM_BATCH
  Limit,      \* the limit of both buckets
  MaxDay,     \* bound: ticks of the calendar
  MaxWindow,  \* bound: ticks of the rate-limit window
  MaxOps,     \* bound: requests of others than the owner
  MaxFaults   \* bound: R2 or D1 calls that fail

ASSUME StoreAssumption ==
  /\ Tables \subseteq {"blob", "inv", "restore"} /\ {"blob", "inv"} \subseteq Tables
  /\ {Batch, Limit, MaxDay, MaxWindow, MaxOps, MaxFaults} \subseteq Nat
  /\ Ids \subseteq Nat /\ \A n \in 0 .. MaxDay : 2 * n <= MaxDay => n + 1 \in Ids
  /\ IsFiniteSet(Slots) /\ Slots # {}

VARIABLES
  day,      \* the calendar
  window,   \* the rate-limit window
  counts,   \* rate_limits: the counter of a bucket in a window
  stored,   \* the objects of VAULT_BLOBS
  seen,     \* last_seen_at of each reference row, or NoRow
  jobs,     \* the handlers in flight
  sweep,    \* the sweep in progress
  owner,    \* the owner's device
  ops, faults,
  used,     \* history: the last day a write or read of a key was answered
  exposed,  \* history: keys a sweep or a delete overlapped, or a fault left behind
  admitted, \* history: how many requests a bucket let through in a window
  crossed   \* history: windows whose counters went under a request of theirs

vars == <<day, window, counts, stored, seen, jobs, sweep, owner, ops, faults,
          used, exposed, admitted, crossed>>
limits == <<admitted, crossed>>

MaxAge == 2      \* V2_REF_MAX_AGE_MS, in ticks
StalePush == 1   \* STALE_PUSH_MS

Keys == [table : Tables, id : Ids]
Days == 0 .. MaxDay
NoRow == -1
Windows == 0 .. MaxWindow
Buckets == {"blob", "restore-read"}

NoJob == [op |-> "none", key |-> [table |-> "blob", id |-> 1], pc |-> "done",
          window |-> 0, since |-> 0, mine |-> FALSE, ok |-> FALSE]
NoSweep == [pc |-> "none", table |-> "blob", cutoff |-> 0, victims |-> {}, since |-> 0]

Job ==
  [op : {"none", "put", "get", "delete"}, key : Keys,
   pc : {"count", "check", "object", "reference", "done"},
   window : Windows, since : Days, mine : BOOLEAN, ok : BOOLEAN]
Sweep ==
  [pc : {"none", "select", "object", "row"}, table : Tables, cutoff : Int,
   victims : SUBSET Keys, since : Days]
Owner ==
  [id : Ids, at : Days, visit : Days, failed : BOOLEAN, pc : {"idle", "blob", "inv"}]

TypeOK ==
  /\ day \in Days /\ window \in Windows
  /\ counts \in [Buckets \X Windows -> Nat]
  /\ stored \subseteq Keys
  /\ seen \in [Keys -> Days \cup {NoRow}]
  /\ jobs \in [Slots -> Job]
  /\ sweep \in Sweep
  /\ owner \in Owner
  /\ ops \in 0 .. MaxOps /\ faults \in 0 .. MaxFaults
  /\ used \in [Keys -> Days \cup {NoRow}]
  /\ exposed \subseteq Keys
  /\ admitted \in [Buckets \X Windows -> Nat]
  /\ crossed \subseteq Windows

NoCounts == [b \in Buckets \X Windows |-> 0]

(* The vault and its restore record have been pushed today. *)
Init ==
  LET first == [table : Tables, id : {1}] IN
  /\ day = 0 /\ window = 0
  /\ counts = NoCounts
  /\ stored = first
  /\ seen = [k \in Keys |-> IF k \in first THEN 0 ELSE NoRow]
  /\ jobs = [s \in Slots |-> NoJob]
  /\ sweep = NoSweep
  /\ owner = [id |-> 1, at |-> 0, visit |-> 0, failed |-> FALSE, pc |-> "idle"]
  /\ ops = 0 /\ faults = 0
  /\ used = seen
  /\ exposed = {}
  /\ admitted = NoCounts
  /\ crossed = {}

-----------------------------------------------------------------------------
(* Helpers *)

At(s, pc) == jobs[s].op # "none" /\ jobs[s].pc = pc
Goto(s, pc) == jobs' = [jobs EXCEPT ![s].pc = pc]
Answer(s, ok) == jobs' = [jobs EXCEPT ![s].pc = "done", ![s].ok = ok]
Fault == faults < MaxFaults /\ faults' = faults + 1
NoFault == UNCHANGED faults

(* Reads of restore records need no token and have a bucket of their own. *)
Bucket(j) == IF j.op = "get" /\ j.key.table = "restore" THEN "restore-read" ELSE "blob"

(* The inventory route has no DELETE. *)
Methods(table) == IF table = "inv" THEN {"put", "get"} ELSE {"put", "get", "delete"}

(* A writer or a reader of a key that a sweep or a delete is at work on. *)
Overlapping ==
  LET busy(pcs, opset) == {jobs[s].key : s \in {x \in Slots :
                             jobs[x].op \in opset /\ jobs[x].pc \in pcs}}
      access == {"put", "get"}
  IN (busy({"object", "reference"}, access)
        \cap (sweep.victims \cup busy({"reference"}, {"delete"})))
     \cup (busy({"reference"}, access) \cap busy({"object"}, {"delete"}))

Start(s, op, key, mine) ==
  jobs' = [jobs EXCEPT ![s] = [op |-> op, key |-> key, pc |-> "count",
             window |-> window, since |-> day, mine |-> mine, ok |-> FALSE]]

-----------------------------------------------------------------------------
(* The rate limiter: count, then read the counter back. *)

(* Mutant: ON CONFLICT the count is set, not raised. *)
CountMutant(s) ==
  LET b == <<Bucket(jobs[s]), jobs[s].window>> IN
  /\ At(s, "count")
  /\ \/ counts' = [counts EXCEPT ![b] = 1] /\ Goto(s, "check") /\ NoFault
     \/ Fault /\ Answer(s, FALSE) /\ UNCHANGED counts
  /\ UNCHANGED admitted

Count(s) ==
  LET b == <<Bucket(jobs[s]), jobs[s].window>> IN
  /\ At(s, "count")
  /\ \/ counts' = [counts EXCEPT ![b] = @ + 1] /\ Goto(s, "check") /\ NoFault
     \/ Fault /\ Answer(s, FALSE) /\ UNCHANGED counts
  /\ UNCHANGED admitted

(* Fail-closed; a token is then spent, or refused. *)
Check(s) ==
  LET b == <<Bucket(jobs[s]), jobs[s].window>> IN
  /\ At(s, "check")
  /\ \/ /\ counts[b] <= Limit
        /\ Goto(s, "object")
        /\ admitted' = [admitted EXCEPT ![b] = @ + 1]
        /\ NoFault
     \/ counts[b] > Limit /\ Answer(s, FALSE) /\ NoFault /\ UNCHANGED admitted
     \/ Fault /\ Answer(s, FALSE) /\ UNCHANGED admitted
  /\ UNCHANGED counts

(* sweepNow of cleanup.ts: what is older than one width of the window. *)
SweepCounters ==
  /\ counts' = [b \in DOMAIN counts |-> IF b[2] < window THEN 0 ELSE counts[b]]
  /\ crossed' = crossed \cup {w \in Windows :
                   w < window /\ \E s \in Slots : jobs[s].window = w /\ (At(s, "count") \/ At(s, "check"))}

Limiter(s) ==
  /\ Count(s) \/ Check(s)
  /\ UNCHANGED <<day, window, stored, seen, sweep, owner, ops, used, exposed, crossed>>

-----------------------------------------------------------------------------
(* The handlers, once they are let in *)

PutObject(s) ==
  /\ At(s, "object") /\ jobs[s].op = "put"
  /\ \/ stored' = stored \cup {jobs[s].key} /\ Goto(s, "reference") /\ NoFault
     \/ Fault /\ Answer(s, FALSE) /\ UNCHANGED stored
  /\ UNCHANGED seen

GetObject(s) ==
  /\ At(s, "object") /\ jobs[s].op = "get"
  /\ \/ jobs[s].key \in stored /\ Goto(s, "reference") /\ NoFault
     \/ jobs[s].key \notin stored /\ Answer(s, FALSE) /\ NoFault
     \/ Fault /\ Answer(s, FALSE)
  /\ UNCHANGED <<stored, seen>>

(* Mutant: a failed delete goes on, as the one of the sweep does. *)
DeleteObjectMutant(s) ==
  /\ At(s, "object") /\ jobs[s].op = "delete"
  /\ Goto(s, "reference")
  /\ \/ stored' = stored \ {jobs[s].key} /\ NoFault
     \/ Fault /\ UNCHANGED stored
  /\ UNCHANGED seen

DeleteObject(s) ==
  /\ At(s, "object") /\ jobs[s].op = "delete"
  /\ \/ stored' = stored \ {jobs[s].key} /\ Goto(s, "reference") /\ NoFault
     \/ Fault /\ Answer(s, FALSE) /\ UNCHANGED stored
  /\ UNCHANGED seen

Object(s) ==
  /\ PutObject(s) \/ GetObject(s) \/ DeleteObject(s)
  /\ used' = IF jobs[s].op = "delete" THEN [used EXCEPT ![jobs[s].key] = NoRow] ELSE used
  /\ UNCHANGED <<day, window, counts, limits, sweep, owner, ops>>
  /\ exposed' = exposed \cup Overlapping'

(* Mutant: a row that is there keeps its time. *)
RecordReferenceMutant(k) == seen' = [seen EXCEPT ![k] = IF @ = NoRow THEN day ELSE @]

RecordReference(k) == seen' = [seen EXCEPT ![k] = day]

DropReference(k) == seen' = [seen EXCEPT ![k] = NoRow]

(* Whatever becomes of the row, the request is answered. *)
Reference(s) ==
  LET k == jobs[s].key IN
  /\ At(s, "reference")
  /\ Answer(s, TRUE)
  /\ \/ jobs[s].op # "delete" /\ RecordReference(k) /\ NoFault
     \/ jobs[s].op = "delete" /\ DropReference(k) /\ NoFault
     \/ Fault /\ UNCHANGED seen
  /\ used' = IF jobs[s].op = "delete" THEN used ELSE [used EXCEPT ![k] = day]
  /\ UNCHANGED <<day, window, counts, limits, stored, sweep, owner, ops>>
  /\ exposed' = exposed \cup Overlapping' \cup (IF faults' # faults THEN {k} ELSE {})

-----------------------------------------------------------------------------
(* The sweep: one table after the other *)

TableAfter(table) == IF table = "blob" THEN "inv" ELSE "restore"

Aged(table, cutoff) == {k \in Keys : k.table = table /\ seen[k] # NoRow /\ seen[k] < cutoff}

(* ORDER BY last_seen_at LIMIT Batch. *)
Oldest(table, cutoff) ==
  {v \in SUBSET Aged(table, cutoff) :
     /\ \A k \in v : \A o \in Aged(table, cutoff) \ v : seen[k] <= seen[o]
     /\ \/ v = Aged(table, cutoff) /\ Cardinality(v) <= Batch
        \/ Cardinality(v) = Batch}

(* A sweep that would find no victim changes nothing, and is left out. *)
BeginSweep ==
  /\ sweep.pc = "none"
  /\ \E t \in Tables : Aged(t, day - MaxAge) # {}
  /\ sweep' = [NoSweep EXCEPT !.pc = "select", !.cutoff = day - MaxAge, !.since = day]
  /\ UNCHANGED <<stored, seen, faults>>

(* A table whose victims are all gone, or could not be listed. *)
Proceed(w) ==
  CASE w.victims # {} -> [w EXCEPT !.pc = "object"]
    [] w.victims = {} /\ (w.table = "restore" \/ TableAfter(w.table) \notin Tables) -> NoSweep
    [] OTHER -> [w EXCEPT !.table = TableAfter(w.table), !.pc = "select"]

Select ==
  /\ sweep.pc = "select"
  /\ \/ \E v \in Oldest(sweep.table, sweep.cutoff) :
          sweep' = Proceed([sweep EXCEPT !.victims = v]) /\ NoFault
     \/ Fault /\ sweep' = Proceed([sweep EXCEPT !.victims = {}])
  /\ UNCHANGED <<stored, seen>>

First(v) == CHOOSE k \in v : \A o \in v : k.id <= o.id
Victim == First(sweep.victims)

SweepObject ==
  /\ sweep.pc = "object"
  /\ \/ stored' = stored \ {Victim} /\ NoFault
     \/ Fault /\ UNCHANGED stored
  /\ sweep' = [sweep EXCEPT !.pc = "row"]
  /\ UNCHANGED seen

SweepRow ==
  /\ sweep.pc = "row"
  /\ \/ seen' = [seen EXCEPT ![Victim] = NoRow] /\ NoFault
     \/ Fault /\ UNCHANGED seen
  /\ sweep' = Proceed([sweep EXCEPT !.victims = @ \ {Victim}])
  /\ UNCHANGED stored

(* gcV2Now. *)
SweepStep ==
  /\ BeginSweep \/ Select \/ SweepObject \/ SweepRow
  /\ UNCHANGED <<day, window, counts, limits, jobs, owner, ops, used>>
  /\ exposed' = exposed \cup Overlapping'
                 \cup (IF sweep.pc = "object" /\ faults' # faults THEN {Victim} ELSE {})

-----------------------------------------------------------------------------
(* The owner: unlocks, and pushes again what is older than StalePush *)

Free(s) == jobs[s].op = "none"
FreeSlot == CHOOSE s \in Slots : (\E x \in Slots : Free(x)) => Free(s)

(* Mutant: the age is compared with the window of the sweep. *)
IsStaleMutant(at) == day - at > MaxAge

IsStale(at) == day - at > StalePush

Visit ==
  /\ owner.pc = "idle" /\ owner.visit < day
  /\ IF IsStale(owner.at) /\ owner.id + 1 \in Ids
     THEN LET s == FreeSlot IN
            /\ Free(s)
            /\ Start(s, "put", [table |-> "blob", id |-> owner.id + 1], TRUE)
            /\ owner' = [owner EXCEPT !.visit = day, !.pc = "blob"]
     ELSE owner' = [owner EXCEPT !.visit = day] /\ UNCHANGED jobs
  /\ UNCHANGED <<day, window, counts, stored, seen, sweep, ops, faults, used, exposed, limits>>

(* The inventory follows the blob; the push counts when both have landed. *)
OwnerGoesOn(s) ==
  /\ jobs[s].op # "none" /\ jobs[s].pc = "done" /\ jobs[s].mine
  /\ LET next == owner.id + 1 IN
     CASE ~jobs[s].ok ->
            /\ owner' = [owner EXCEPT !.pc = "idle", !.failed = TRUE]
            /\ jobs' = [jobs EXCEPT ![s] = NoJob]
       [] jobs[s].ok /\ owner.pc = "blob" ->
            /\ owner' = [owner EXCEPT !.pc = "inv"]
            /\ Start(s, "put", [table |-> "inv", id |-> next], TRUE)
       [] OTHER ->
            /\ owner' = [owner EXCEPT !.pc = "idle", !.id = next, !.at = day]
            /\ jobs' = [jobs EXCEPT ![s] = NoJob]
  /\ UNCHANGED <<day, window, counts, stored, seen, sweep, ops, faults, used, exposed, limits>>

(* Other requests: another device reads, a restore record is written again *)
(* or purged.                                                              *)
Request(s) ==
  /\ s = FreeSlot /\ Free(s) /\ ops < MaxOps /\ ops' = ops + 1
  /\ \E k \in Keys : \E op \in Methods(k.table) :
       /\ k.table # "restore" => op = "get" /\ k.id = owner.id
       /\ k.table = "restore" => k.id = 1
       /\ Start(s, op, k, FALSE)
  /\ UNCHANGED <<day, window, counts, stored, seen, sweep, owner, faults, used, exposed, limits>>

Finish(s) ==
  /\ jobs[s].op # "none" /\ jobs[s].pc = "done" /\ ~jobs[s].mine
  /\ jobs' = [jobs EXCEPT ![s] = NoJob]
  /\ UNCHANGED <<day, window, counts, stored, seen, sweep, owner, ops, faults, used,
                 exposed, limits>>

(* A tick is many windows: with nobody in one, all start afresh. *)
NewWindows ==
  window' = 0 /\ counts' = NoCounts /\ admitted' = NoCounts /\ crossed' = {}

(* The owner unlocks at least once in StalePush and a push ends within the *)
(* tick of its unlock; no other request or sweep lasts a tick.             *)
NextDay ==
  /\ day < MaxDay /\ day' = day + 1
  /\ owner.pc = "idle"
  /\ day' - owner.visit <= StalePush
  /\ sweep.pc # "none" => sweep.since = day
  /\ \A s \in Slots : Free(s) \/ jobs[s].since = day
  /\ IF \A s \in Slots : Free(s) THEN NewWindows ELSE UNCHANGED <<window, counts, limits>>
  /\ UNCHANGED <<stored, seen, jobs, sweep, owner, ops, faults, used, exposed>>

(* The windows turn while requests are under way, and old counters go. *)
NextWindow ==
  /\ window < MaxWindow /\ window' = window + 1
  /\ \E s \in Slots : ~Free(s)
  /\ \A s \in Slots : Free(s) \/ jobs[s].window = window
  /\ UNCHANGED <<day, counts, stored, seen, jobs, sweep, owner, ops, faults, used,
                 exposed, limits>>

Cleanup ==
  /\ SweepCounters
  /\ UNCHANGED <<day, window, stored, seen, jobs, sweep, owner, ops, faults, used,
                 exposed, admitted>>

Handlers ==
  \E s \in Slots :
    Limiter(s) \/ Object(s) \/ Reference(s) \/ OwnerGoesOn(s) \/ Finish(s)

Next ==
  \/ Handlers
  \/ \E s \in Slots : Request(s)
  \/ SweepStep
  \/ Visit
  \/ NextDay
  \/ NextWindow
  \/ Cleanup

Spec == Init /\ [][Next]_vars

-----------------------------------------------------------------------------
(* Properties *)

(* No object is collected within MaxAge of the last answered write or      *)
(* read of it, unless a sweep or a delete of it overlapped that request or *)
(* its reference row could not be written (r2-gc.ts selects and deletes in *)
(* separate statements).                                                   *)
KeptWhileUsed ==
  \A k \in Keys :
    used[k] # NoRow /\ day - used[k] < MaxAge /\ k \notin exposed => k \in stored

(* An object has no reference row, and so is never collected, only when a  *)
(* statement failed or a sweep or delete crossed a request for it.         *)
OrphanHasCause ==
  \A k \in stored \ exposed :
    seen[k] = NoRow =>
      \/ \E s \in Slots : jobs[s].key = k /\ At(s, "reference")
      \/ k \in sweep.victims

(* The vault of an owner who unlocks in time, and whose pushes do not fail *)
(* or get refused, is always on the server (openVault and the sweep).      *)
LiveVaultKept ==
  ~owner.failed =>
    \A k \in [table : {"blob", "inv"}, id : {owner.id}] : k \in stored \/ k \in exposed

(* A bucket lets more than Limit requests through in a window only when    *)
(* the cleanup took the counters of that window from under a request of it *)
(* (applyRateLimitWithDb counts and reads in two statements).              *)
OverrunNeedsSweep ==
  \A b \in DOMAIN admitted : admitted[b] > Limit => b[2] \in crossed

=============================================================================
