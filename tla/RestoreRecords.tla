--------------------------- MODULE RestoreRecords ---------------------------
(***************************************************************************)
(* New-device restore: the sealed records a device publishes next to its   *)
(* pushes (vault-session.ts writeRestoreRecord), the (day, slot) addresses *)
(* it reserves for them on the account row (storage.ts), what installing,  *)
(* changing and disabling the Recovery Password does to root, reservation  *)
(* and records, how a new device finds a record (server-restore.ts) and    *)
(* what it writes once it has adopted the vault.                           *)
(*                                                                         *)
(* Asynchronous functions are cut where another task can come between two  *)
(* of their effects; an await that only reads is taken with the step that  *)
(* asked for it.  A request can reach the server after its client gave up. *)
(*                                                                         *)
(* Abstractions.  A root is the number of the Recovery Password it comes   *)
(* from; the address of (root, day, slot) is that triple; a record is the  *)
(* push that built it.  A push enters here when its inventory has landed   *)
(* (InventoryChain has what comes before), so the walk a restoring device  *)
(* makes from a record of a chain ends at the chain's newest save.  The    *)
(* account has the present format and a seed: the one save that upgrades   *)
(* an older account writes its whole row back, as a rotation does, and is  *)
(* left out (InventoryChain has it).                                       *)
(***************************************************************************)
EXTENDS Integers, FiniteSets, FiniteSetsExt

CONSTANTS
  Devices,      \* devices of the account
  First,        \* the device that provisioned the vault
  StartRoots,   \* the roots it may have installed by then, or NoRoot
  Pushes,       \* push identities
  NoPush, NoDevice,
  Roots,        \* restore roots, one for each Recovery Password
  NoRoot,
  MaxDay,       \* bound: UTC days
  ScanDays,     \* RESTORE_SCAN_DAYS
  ScanSlots,    \* RESTORE_SCAN_SLOTS
  RetainDays,   \* RESTORE_POINTER_RETAIN_DAYS
  Every,        \* RESTORE_POINTER_EVERY
  MaxOps,       \* bound: enable, change and disable calls
  Events,       \* bound: which of rotate, reload, lock and day can happen
  MaxEvents     \* bound: how many of them

ASSUME RestoreAssumption ==
  /\ First \in Devices
  /\ IsFiniteSet(Pushes)
  /\ NoPush \notin Pushes
  /\ NoDevice \notin Devices
  /\ Events \subseteq {"rotate", "reload", "lock", "day"}
  /\ NoRoot \notin Roots
  /\ StartRoots \subseteq Roots \cup {NoRoot}
  /\ {ScanSlots, Every} \subseteq Nat \ {0}
  /\ {MaxDay, ScanDays, RetainDays, MaxOps, MaxEvents} \subseteq Nat

VARIABLES
  day,       \* the UTC day
  session,   \* per device: locked, or unlocked with or without a sync token
  root,      \* per device: restoreRoot in memory
  acct,      \* per device: the restore fields of the account row
  top,       \* per device: newest index of its inventory chain
  push,      \* per push: where its record stands
  op,        \* per device: where installRestoreRoot or its reverse stands
  rotate,    \* per device: the account rotateAuth has read, or none
  found,     \* per device: the record its restore has found
  stored,    \* server: the records stored, as the pushes that built them
  budget,    \* calls of each bounded kind so far
  raced,     \* history: pushes in flight while a root was being changed
  missed,    \* history: addresses a purge named and did not delete
  exposure   \* history: events that excuse a promise

vars == <<day, session, root, acct, top, push, op, rotate, found, stored,
          budget, raced, missed, exposure>>
history == <<raced, missed>>

RootOrNone == Roots \cup {NoRoot}
NoDay == -1
Day == 0 .. MaxDay
Slot == Nat
Coord == [day : Day, slot : Slot]
Index == Nat
Address == Roots \X Day \X Slot

Account ==
  [exists : BOOLEAN,
   enrolled : BOOLEAN,          \* opaqueState = "enrolled"
   root : RootOrNone,           \* the wrapped restore root
   day : Day \cup {NoDay},      \* restorePointerDay
   slot : Slot,                 \* restorePointerSlot
   index : Index,               \* restorePointerIndex, 0 for undefined
   pointers : SUBSET Coord]     \* restorePointers

Push ==
  [pc : {"idle", "reserve", "build", "sent", "stored", "late", "done"},
   device : Devices \cup {NoDevice},
   index : Index,               \* its place in the inventory chain
   day : Day, slot : Slot,      \* the coordinate it takes
   root : RootOrNone,           \* the root it sealed under; before that, the
                                \* account's root when it reserved
   at : Nat]                    \* writtenAt as an ordinal, 0 until it is built

Op ==
  [pc : {"idle", "purge", "clear", "wrap", "assign", "publish", "await",
        "forget"},
   disable : BOOLEAN,
   root : RootOrNone,           \* the root to install
   old : RootOrNone,            \* the root being purged
   coords : SUBSET Coord,       \* addresses still to delete
   live : BOOLEAN,              \* the old root's buffer has not been zeroed
   push : Pushes \cup {NoPush}] \* the forced push it awaits

Exposure == {"stale read", "root changed", "re-enabled", "rewound",
             "overlooked", "old device", "crossed mark", "torn purge",
             "purged elsewhere"}

TypeOK ==
  /\ day \in Day
  /\ session \in [Devices -> {"locked", "online", "offline"}]
  /\ root \in [Devices -> RootOrNone]
  /\ acct \in [Devices -> Account]
  /\ top \in [Devices -> Index]
  /\ push \in [Pushes -> Push]
  /\ op \in [Devices -> Op]
  /\ rotate \in [Devices -> SUBSET Account]
  /\ found \in [Devices -> Pushes \cup {NoPush}]
  /\ stored \in SUBSET Pushes
  /\ budget \in [ops : 0 .. MaxOps, events : 0 .. MaxEvents]
  /\ raced \in SUBSET Pushes
  /\ missed \in SUBSET Address
  /\ exposure \in SUBSET Exposure

NoAccount == [exists |-> FALSE, enrolled |-> FALSE, root |-> NoRoot,
              day |-> NoDay, slot |-> 0, index |-> 0, pointers |-> {}]
FirstAccount == [NoAccount EXCEPT !.exists = TRUE, !.enrolled = TRUE]
IdlePush == [pc |-> "idle", device |-> NoDevice, index |-> 0, day |-> 0,
             slot |-> 0, root |-> NoRoot, at |-> 0]
UnsentPush == [IdlePush EXCEPT !.pc = "done"]
IdleOp == [pc |-> "idle", disable |-> FALSE, root |-> NoRoot, old |-> NoRoot,
           coords |-> {}, live |-> FALSE, push |-> NoPush]

(* A provisioned and enrolled device, locked, that never enabled restore,  *)
(* or that did while no record could be published.                         *)
Init ==
  /\ day = 0
  /\ session = [d \in Devices |-> "locked"]
  /\ root = [d \in Devices |-> NoRoot]
  /\ \E r \in StartRoots :
       acct = [d \in Devices |-> IF d = First
                           THEN [FirstAccount EXCEPT !.root = r]
                           ELSE NoAccount]
  /\ top = [d \in Devices |-> 0]
  /\ push = [p \in Pushes |-> IdlePush]
  /\ op = [d \in Devices |-> IdleOp]
  /\ rotate = [d \in Devices |-> {}]
  /\ found = [d \in Devices |-> NoPush]
  /\ stored = {}
  /\ budget = [ops |-> 0, events |-> 0]
  /\ raced = {}
  /\ missed = {}
  /\ exposure = {}

-----------------------------------------------------------------------------
(* Helpers *)

Open(d) == session[d] # "locked"
Written == {p \in Pushes : push[p].at > 0}
Addr(p) == <<push[p].root, push[p].day, push[p].slot>>
InFlight(d) == {p \in Pushes : /\ push[p].device = d
                               /\ push[p].pc \notin {"idle", "done"}}

(* No installRestoreRoot or disableServerRestore is running: the settings  *)
(* page starts one only when the last one has returned.                    *)
Quiet(d) ==
  \/ op[d].pc = "idle"
  \/ op[d].pc = "await" /\ push[op[d].push].pc \in {"late", "done"}

(* Record e in the history when cond holds. *)
Expose(cond, e) == exposure' = exposure \cup (IF cond THEN {e} ELSE {})

StartOp ==
  /\ budget.ops < MaxOps
  /\ budget' = [budget EXCEPT !.ops = @ + 1]

Event(e) ==
  /\ e \in Events
  /\ budget.events < MaxEvents
  /\ budget' = [budget EXCEPT !.events = @ + 1]

(* Mutant: the slot is not advanced. *)
NextSlotMutant(a, dd) == IF a.day = dd THEN a.slot ELSE 0

(* The slot a record of day dd takes after account row a. *)
NextSlot(a, dd) == IF a.day = dd THEN a.slot + 1 ELSE 0

Before(c, e) == c.day < e.day \/ (c.day = e.day /\ c.slot < e.slot)

-----------------------------------------------------------------------------
(* The record of a push *)

(* Whether a record goes with the save at this index. *)
Due(a, index, force) ==
  force \/ a.day # day \/ a.index = 0 \/ index - a.index >= Every

(* The save's inventory has landed.  Without a root in memory or an        *)
(* enrolled account, or when none is due, there is no record.              *)
LandSave(d, p, force) ==
  LET index == top[d] + 1 IN
  /\ session[d] = "online"
  /\ push[p].pc = "idle"
  /\ top' = [top EXCEPT ![d] = index]
  /\ push' = [push EXCEPT ![p] =
       IF root[d] # NoRoot /\ acct[d].enrolled /\ Due(acct[d], index, force)
       THEN [IdlePush EXCEPT !.pc = "reserve", !.device = d, !.index = index,
                             !.day = day, !.slot = NextSlot(acct[d], day)]
       ELSE UnsentPush]

BeginPush(d, p) ==
  /\ LandSave(d, p, FALSE)
  /\ raced' = raced \cup (IF Quiet(d) THEN {} ELSE InFlight(d)')
  /\ UNCHANGED <<day, session, root, acct, op, rotate, found, stored, budget,
                 missed, exposure>>

(* Mutant: the coordinate is not tracked for a later purge. *)
ReservedMutant(a, c) ==
  [a EXCEPT !.day = c.day, !.slot = c.slot, !.index = 0]

(* reserveRestorePointer's transaction, on the row as it then is. *)
Reserved(a, c) ==
  [a EXCEPT !.day = c.day, !.slot = c.slot, !.index = 0,
            !.pointers = {x \in @ : x.day >= c.day - RetainDays} \cup {c}]

Reserve(p) ==
  LET d == push[p].device
      c == [day |-> push[p].day, slot |-> push[p].slot] IN
  /\ push[p].pc = "reserve"
  /\ acct' = [acct EXCEPT ![d] = Reserved(@, c)]
  /\ push' = [push EXCEPT ![p].pc = "build", ![p].root = acct[d].root]
  /\ exposure' = exposure
       \cup (IF c.slot # NextSlot(acct[d], c.day) \/ acct[d].day > c.day
             THEN {"stale read"} ELSE {})
       \cup (IF \E e \in Devices \ {d} : found[e] # NoPush
             THEN {"old device"} ELSE {})
  /\ UNCHANGED <<day, session, root, top, op, rotate, found, stored, budget,
                 history>>

(* The reservation is on disk: seal under the root now in memory and send. *)
(* After a lock there is neither root nor token, and the slot stays empty. *)
Build(p) ==
  LET d == push[p].device IN
  /\ push[p].pc = "build"
  /\ push' = [push EXCEPT ![p] =
       IF root[d] = NoRoot \/ session[d] # "online" THEN UnsentPush
       ELSE [@ EXCEPT !.pc = "sent", !.root = root[d],
                      !.at = Cardinality(Written) + 1]]
  /\ Expose(root[d] \notin {NoRoot, push[p].root}, "root changed")
  /\ UNCHANGED <<day, session, root, acct, top, op, rotate, found, stored,
                 budget, history>>

(* The PUT handler: whatever the address held is replaced. *)
PutRecord(p) ==
  /\ push[p].pc \in {"sent", "late"}
  /\ stored' = {q \in stored : Addr(q) # Addr(p)} \cup {p}
  /\ push' = [push EXCEPT ![p].pc = IF @ = "sent" THEN "stored" ELSE "done"]
  /\ UNCHANGED <<day, session, root, acct, top, op, rotate, found, budget,
                 history, exposure>>

(* Mutant: the record is marked as written whatever the reply. *)
UploadFailedMutant(p) ==
  /\ push[p].pc \in {"sent", "stored"}
  /\ push' = [push EXCEPT ![p].pc = IF @ = "sent" THEN "late" ELSE "done"]
  /\ acct' = [acct EXCEPT ![push[p].device].index = push[p].index]
  /\ UNCHANGED <<day, session, root, top, op, rotate, found, stored,
                 budget, history, exposure>>

(* The client gives up: the request may still arrive, or its reply is lost. *)
UploadFailed(p) ==
  /\ push[p].pc \in {"sent", "stored"}
  /\ push' = [push EXCEPT ![p].pc = IF @ = "sent" THEN "late" ELSE "done"]
  /\ UNCHANGED <<day, session, root, acct, top, op, rotate, found, stored,
                 budget, history, exposure>>

MarkWritten(p) ==
  LET d == push[p].device
      a == acct[d] IN
  /\ push[p].pc = "stored"
  /\ acct' = [acct EXCEPT ![d].index = push[p].index]
  /\ push' = [push EXCEPT ![p].pc = "done"]
  /\ Expose(\/ Addr(p) # <<a.root, a.day, a.slot>>
            \/ p \notin stored
            \/ \E q \in Written : push[q].root = a.root /\ Before(push[p], push[q]),
            "crossed mark")
  /\ UNCHANGED <<day, session, root, top, op, rotate, found, stored, budget,
                 history>>

-----------------------------------------------------------------------------
(* Installing, changing and disabling the root *)

(* After the addresses are deleted, or at once when nothing can be. *)
StartPurge(d, o) ==
  /\ op' = [op EXCEPT ![d] =
       IF root[d] = NoRoot \/ session[d] # "online"
       THEN [o EXCEPT !.pc = "clear"]
       ELSE [o EXCEPT !.pc = "purge", !.old = root[d],
                      !.coords = acct[d].pointers, !.live = TRUE]]
  /\ missed' = missed \cup
       IF root[d] # NoRoot /\ session[d] # "online"
       THEN {<<root[d], c.day, c.slot>> : c \in acct[d].pointers} ELSE {}

BeginInstall(d, r) ==
  LET o == [IdleOp EXCEPT !.root = r] IN
  /\ Open(d)
  /\ acct[d].exists
  /\ Quiet(d)
  /\ StartOp
  /\ \/ /\ root[d] \in {NoRoot, r}
        /\ op' = [op EXCEPT ![d] = [o EXCEPT !.pc = "wrap"]]
        /\ UNCHANGED missed
     \/ /\ root[d] \notin {NoRoot, r}
        /\ StartPurge(d, o)
  /\ raced' = raced \cup InFlight(d)
  /\ UNCHANGED <<day, session, root, acct, top, push, rotate, found, stored,
                 exposure>>

BeginDisable(d) ==
  /\ Open(d)
  /\ acct[d].exists
  /\ Quiet(d)
  /\ StartOp
  /\ StartPurge(d, [IdleOp EXCEPT !.disable = TRUE])
  /\ raced' = raced \cup InFlight(d)
  /\ UNCHANGED <<day, session, root, acct, top, push, rotate, found, stored,
                 exposure>>

Oldest(c, S) == \A e \in S : ~Before(e, c)

(* One DELETE, which can fail; after a lock has zeroed the root that the   *)
(* addresses derive from, it does.                                         *)
PurgeOne(d) ==
  /\ op[d].pc = "purge"
  /\ \E c \in op[d].coords :
       LET a == <<op[d].old, c.day, c.slot>> IN
       /\ Oldest(c, op[d].coords)
       /\ op' = [op EXCEPT ![d].coords = @ \ {c}]
       /\ \/ /\ op[d].live
             /\ stored' = {q \in stored : Addr(q) # a}
             /\ Expose(\E q \in stored : Addr(q) = a /\ push[q].device # d,
                       "purged elsewhere")
             /\ UNCHANGED missed
          \/ /\ missed' = missed \cup {a}
             /\ UNCHANGED <<stored, exposure>>
  /\ UNCHANGED <<day, session, root, acct, top, push, rotate, found, budget,
                 raced>>

(* setAccountRestoreRoot(null). *)
Forgotten(a) == [a EXCEPT !.root = NoRoot, !.day = NoDay, !.slot = 0,
                          !.index = 0, !.pointers = {}]

ClearRoot(d) ==
  LET o == op[d] IN
  /\ o.pc = "clear" \/ (o.pc = "purge" /\ o.coords = {})
  /\ acct' = [acct EXCEPT ![d] = Forgotten(@)]
  /\ op' = [op EXCEPT ![d] = [IdleOp EXCEPT
       !.pc = IF o.disable THEN "forget" ELSE "wrap", !.root = o.root]]
  /\ UNCHANGED <<day, session, root, top, push, rotate, found, stored, budget,
                 history, exposure>>

(* Whether today's slots from s on include one a record of r took or may   *)
(* take.  Wrapping the root right after an adoption is judged by Adopt.    *)
Retaken(r, s) ==
  \E q \in Pushes :
    /\ push[q].root = r \/ push[q].pc = "build"
    /\ \/ push[q].day = day /\ s <= push[q].slot
       \/ \E p \in Pushes : /\ push[p].pc = "reserve"
                            /\ push[p].day = push[q].day
                            /\ push[p].slot <= push[q].slot

(* setAccountRestoreRoot(wrapped): without a data key wrapping throws. *)
Wrapped(a, r) == [a EXCEPT !.root = r, !.index = 0]

WrapRoot(d) ==
  LET r == op[d].root
      a == acct[d] IN
  /\ op[d].pc = "wrap"
  /\ \/ /\ ~Open(d)
        /\ op' = [op EXCEPT ![d] = IdleOp]
        /\ UNCHANGED <<acct, exposure>>
     \/ /\ Open(d)
        /\ acct' = [acct EXCEPT ![d] = Wrapped(@, r)]
        /\ op' = [op EXCEPT ![d].pc = "assign"]
        /\ Expose(budget.ops > 0 /\ Retaken(r, NextSlot(a, day)),
                  "re-enabled")
  /\ UNCHANGED <<day, session, root, top, push, rotate, found, stored, budget,
                 history>>

(* The continuation installs the root, in whatever state the session is. *)
AssignRoot(d) ==
  /\ op[d].pc = "assign"
  /\ root' = [root EXCEPT ![d] = op[d].root]
  /\ op' = [op EXCEPT ![d] = IF session[d] = "online"
                             THEN [@ EXCEPT !.pc = "publish"] ELSE IdleOp]
  /\ UNCHANGED <<day, session, acct, top, push, rotate, found, stored, budget,
                 history, exposure>>

(* publishRestoreRecord, which installRestoreRoot awaits last. *)
Publish(d, p) ==
  /\ op[d].pc = "publish"
  /\ LandSave(d, p, TRUE)
  /\ op' = [op EXCEPT ![d] = [IdleOp EXCEPT !.pc = "await", !.push = p]]
  /\ UNCHANGED <<day, session, root, acct, rotate, found, stored, budget,
                 history, exposure>>

PublishFailed(d) ==
  /\ op[d].pc = "publish"
  /\ op' = [op EXCEPT ![d] = IdleOp]
  /\ UNCHANGED <<day, session, root, acct, top, push, rotate, found, stored,
                 budget, history, exposure>>

ForgetRoot(d) ==
  /\ op[d].pc = "forget"
  /\ root' = [root EXCEPT ![d] = NoRoot]
  /\ op' = [op EXCEPT ![d] = IdleOp]
  /\ UNCHANGED <<day, session, acct, top, push, rotate, found, stored, budget,
                 history, exposure>>

-----------------------------------------------------------------------------
(* The session around them *)

(* openVault adopts the wrapped root; an enrolled account logs in first.   *)
OpenVault(d) ==
  /\ ~Open(d)
  /\ acct[d].exists
  /\ session' = [session EXCEPT ![d] =
                   IF acct[d].enrolled THEN "online" ELSE "offline"]
  /\ root' = [root EXCEPT ![d] = acct[d].root]
  /\ UNCHANGED <<day, acct, top, push, op, rotate, found, stored, budget,
                 history, exposure>>

Lock(d) ==
  /\ Open(d)
  /\ Event("lock")
  /\ session' = [session EXCEPT ![d] = "locked"]
  /\ root' = [root EXCEPT ![d] = NoRoot]
  /\ op' = [op EXCEPT ![d].live = FALSE]  \* zeroize(restoreRoot)
  /\ UNCHANGED <<day, acct, top, push, rotate, found, stored, history,
                 exposure>>

(* A reload ends every call of the page; a request it sent may still land. *)
Reload(d) ==
  /\ Open(d)
  /\ Event("reload")
  /\ session' = [session EXCEPT ![d] = "locked"]
  /\ root' = [root EXCEPT ![d] = NoRoot]
  /\ op' = [op EXCEPT ![d] = IdleOp]
  /\ rotate' = [rotate EXCEPT ![d] = {}]
  /\ push' = [p \in Pushes |->
       IF p \notin InFlight(d) THEN push[p]
       ELSE [push[p] EXCEPT !.pc = IF @ \in {"sent", "late"} THEN "late"
                                   ELSE "done"]]
  /\ Expose(op[d].pc \in {"purge", "clear"} /\ op[d].old # NoRoot,
            "torn purge")
  /\ UNCHANGED <<day, acct, top, found, stored, history>>

(* rotateAuth reads the account row, stretches keys, and writes it whole.  *)
BeginRotate(d) ==
  /\ Open(d)
  /\ acct[d].exists
  /\ rotate[d] = {}
  /\ Event("rotate")
  /\ rotate' = [rotate EXCEPT ![d] = {acct[d]}]
  /\ UNCHANGED <<day, session, root, acct, top, push, op, found, stored,
                 history, exposure>>

CommitRotate(d) ==
  \E a \in rotate[d] :
    /\ acct' = [acct EXCEPT ![d] = a]
    /\ rotate' = [rotate EXCEPT ![d] = {}]
    /\ Expose(a # acct[d], "rewound")
    /\ UNCHANGED <<day, session, root, top, push, op, found, stored, budget,
                   history>>

(* rebindRecoveredVault, after openWithRecovery has opened the session: a  *)
(* fresh salt starts a new chain, the account leaves OPAQUE, and without a *)
(* token the forced push does nothing.                                     *)
Rebind(d) ==
  /\ ~Open(d)
  /\ acct[d].exists
  /\ acct[d].enrolled
  /\ session' = [session EXCEPT ![d] = "offline"]
  /\ root' = [root EXCEPT ![d] = acct[d].root]
  /\ acct' = [acct EXCEPT ![d].enrolled = FALSE, ![d].index = 0]
  /\ top' = [top EXCEPT ![d] = 0]
  /\ UNCHANGED <<day, push, op, rotate, found, stored, budget, history,
                 exposure>>

NextDay ==
  /\ day < MaxDay
  /\ Event("day")
  /\ day' = day + 1
  /\ UNCHANGED <<session, root, acct, top, push, op, rotate, found, stored,
                 history, exposure>>

-----------------------------------------------------------------------------
(* Restoring on a new device *)

StoredAt(r, e, s) == {q \in stored : Addr(q) = <<r, e, s>>}

(* Mutant: only the first slot of a day is probed. *)
DayPrefixMutant(r, e) ==
  {q \in stored : /\ push[q].root = r /\ push[q].day = e
                  /\ push[q].slot = 0}

(* The records of a day before its first empty slot. *)
DayPrefix(r, e) ==
  {q \in stored : /\ push[q].root = r /\ push[q].day = e
                  /\ push[q].slot < ScanSlots
                  /\ \A s \in 0 .. push[q].slot : StoredAt(r, e, s) # {}}

IsNewest(q, S) == \A x \in S : push[x].at <= push[q].at
Newest(S) == CHOOSE q \in S : IsNewest(q, S)

(* From the day ahead, for a clock that differs, back to the oldest kept.  *)
ScanWindow == {e \in Day : day - ScanDays <= e /\ e <= day + 1}

(* The days with a record to find, and the last of them. *)
HitDays(r) == {e \in ScanWindow : DayPrefix(r, e) # {}}

(* discoverRestoreRecord without a failure on the way. *)
Discovered(r) ==
  IF HitDays(r) = {} THEN NoPush ELSE Newest(DayPrefix(r, Max(HitDays(r))))

(* A request that fails ends its day; the third failure ends the search.   *)
Discover(d, r) ==
  /\ ~acct[d].exists
  /\ found[d] = NoPush
  /\ \E e \in HitDays(r), n \in 1 .. ScanSlots :
       LET seen == {q \in DayPrefix(r, e) : push[q].slot < n}
           cut == {x \in HitDays(r) : x > e}
             \cup (IF seen = DayPrefix(r, e) THEN {} ELSE {e}) IN
       /\ Cardinality(cut) <= 2
       /\ \E q \in seen : /\ IsNewest(q, seen)
                         /\ found' = [found EXCEPT ![d] = q]
  /\ UNCHANGED <<day, session, root, acct, top, push, op, rotate, stored,
                 budget, history, exposure>>

(* Mutant: the reservation is not seeded from where the record was found. *)
AdoptedMutant(p) == FirstAccount

(* adoptRestoredVault: an account seeded with where the record was found,  *)
(* and then the page enables recovery under the same root.                 *)
Adopted(p) == [FirstAccount EXCEPT !.day = push[p].day, !.slot = push[p].slot]

Adopt(d) ==
  LET p == found[d]
      at == [day |-> push[p].day, slot |-> push[p].slot] IN
  /\ ~acct[d].exists
  /\ p # NoPush
  /\ acct' = [acct EXCEPT ![d] = Adopted(p)]
  /\ session' = [session EXCEPT ![d] = "online"]
  /\ op' = [op EXCEPT ![d] = [IdleOp EXCEPT !.pc = "wrap",
                                            !.root = push[p].root]]
  /\ Expose(\E q \in Pushes :
              /\ Before(at, push[q])
              /\ push[q].pc = "build" \/ push[q].root = push[p].root,
            "overlooked")
  /\ UNCHANGED <<day, root, top, push, rotate, found, stored, budget,
                 history>>

-----------------------------------------------------------------------------
Next ==
  \/ \E d \in Devices, p \in Pushes : BeginPush(d, p) \/ Publish(d, p)
  \/ \E p \in Pushes : \/ Reserve(p) \/ Build(p) \/ PutRecord(p)
                       \/ UploadFailed(p) \/ MarkWritten(p)
  \/ \E d \in Devices, r \in Roots : BeginInstall(d, r) \/ Discover(d, r)
  \/ \E d \in Devices : \/ BeginDisable(d) \/ PurgeOne(d) \/ ClearRoot(d)
                        \/ WrapRoot(d) \/ AssignRoot(d) \/ PublishFailed(d)
                        \/ ForgetRoot(d) \/ OpenVault(d) \/ Lock(d)
                        \/ Reload(d) \/ BeginRotate(d) \/ CommitRotate(d)
                        \/ Rebind(d) \/ Adopt(d)
  \/ NextDay

Spec == Init /\ [][Next]_vars

-----------------------------------------------------------------------------
(* Properties *)

SameAddress(p, q) == p # q /\ Addr(p) = Addr(q)

ReuseCause == {"stale read", "root changed", "re-enabled", "rewound"}

(* No record address is written twice (restore-record.ts: "without ever    *)
(* rewriting an address"), unless a device reserved from a stale read, the *)
(* root changed between a reservation and its upload, a root was enabled   *)
(* again on a day it had written, a rotation rewound the account row, or,  *)
(* for two devices, the restore overlooked an address or the old device    *)
(* went on.                                                                *)
AddressReuseHasCause ==
  \A p, q \in Written : SameAddress(p, q) =>
    IF push[p].device = push[q].device
    THEN exposure \cap ReuseCause # {}
    ELSE exposure \cap (ReuseCause \cup {"overlooked", "old device"}) # {}

(* The account says that its latest record landed, and nothing is running  *)
(* that is about to change that.                                           *)
Marked(d) ==
  /\ acct[d].enrolled
  /\ acct[d].index > 0
  /\ acct[d].slot < ScanSlots
  /\ acct[d].day >= day - ScanDays
  /\ Quiet(d)

EmptySlotBelow(d) ==
  \E s \in 0 .. acct[d].slot - 1 :
    StoredAt(acct[d].root, acct[d].day, s) = {}

MarkedRecordFound(d) ==
  LET q == Discovered(acct[d].root) IN
  /\ q # NoPush
  /\ \A p \in Written : push[p].device = d /\ push[p].index = acct[d].index
                          => push[p].at <= push[q].at

(* A device that believes its record landed can be restored from: a search *)
(* without failures ends at that record or a newer one.  The exceptions: a *)
(* slot below it never landed, a reply came after its record was purged or *)
(* superseded, a rotation rewound the row, a reload stopped a purge half   *)
(* way, another device purged the address (one it had reserved and left    *)
(* empty, before this device was restored), or one of the causes that let  *)
(* two records take one address.                                           *)
MarkedIsFound ==
  \A d \in Devices : Marked(d) /\ ~EmptySlotBelow(d) =>
    MarkedRecordFound(d) \/ exposure # {}

(* Once a root is replaced or given up, no record of this device opens     *)
(* under it, except one whose push ran while the root was changing, one    *)
(* whose DELETE did not reach the server, one of a day whose coordinates   *)
(* are no longer kept, and after a rotation rewound the row.               *)
PurgedUnlessRaced ==
  \A q \in stored :
    push[q].root # acct[push[q].device].root =>
      \/ q \in raced
      \/ Addr(q) \in missed
      \/ push[q].day < day - RetainDays
      \/ "rewound" \in exposure

=============================================================================
