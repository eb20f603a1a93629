------------------------ MODULE RestoreRecords_proofs ------------------------
(* Theorems about the records of new-device restore, for any devices,      *)
(* pushes, roots, days and bounds.                                         *)
EXTENDS RestoreRecords, FiniteSetTheorems, TLAPS

-----------------------------------------------------------------------------
(* The inductive invariant, in four layers. *)

Sealed(q) == push[q].pc \in {"sent", "stored", "late"} \/ q \in stored
Flying(q) == push[q].pc \in {"reserve", "build", "sent", "stored", "late"}

(* A device without an account row has nothing running; a push that has a  *)
(* record has a device, and one that is built has a root.                  *)
Absent(d) ==
  /\ acct[d] = NoAccount
  /\ session[d] = "locked"
  /\ root[d] = NoRoot
  /\ op[d] = IdleOp
  /\ rotate[d] = {}
  /\ \A q \in Pushes : push[q].device # d
CallOK(d) ==
  /\ op[d].pc \in {"purge", "clear", "forget"} => budget.ops > 0
  /\ op[d].pc \in {"wrap", "assign", "publish"} => op[d].root # NoRoot
  /\ op[d].pc \in {"purge", "clear"} /\ ~op[d].disable => op[d].root # NoRoot
  /\ op[d].pc = "purge" => op[d].old # NoRoot
DeviceOK(d) ==
  /\ ~acct[d].exists => Absent(d)
  /\ acct[d].exists => d = First \/ found[d] # NoPush
  /\ \A a \in rotate[d] : a.exists
  /\ found[d] # NoPush => push[found[d]].at > 0
  /\ CallOK(d)
PushOK(q) ==
  /\ push[q].pc = "idle" => push[q] = IdlePush
  /\ push[q].pc \in {"reserve", "build"} => push[q].at = 0
  /\ Flying(q) \/ push[q].at > 0 => push[q].device # NoDevice
  /\ push[q].at > 0 => push[q].root # NoRoot
  /\ Sealed(q) => push[q].at > 0
  /\ push[q].day <= day
TypeInv ==
  /\ TypeOK
  /\ \A d \in Devices : DeviceOK(d)
  /\ \A q \in Pushes : PushOK(q)

(* A push that no change of root overlapped flies while none runs.         *)
FlightOK ==
  \A q \in Pushes : Flying(q) /\ q \notin raced =>
    op[push[q].device].pc \in {"idle", "await"}

(* The root in memory, in the row and in the call that changes them.       *)
RootOK(d) ==
  /\ op[d].pc \in {"idle", "await", "publish"} /\ Open(d) =>
       root[d] = acct[d].root
  /\ op[d].pc = "purge" => acct[d].root = op[d].old
  /\ op[d].pc = "forget" => acct[d].root = NoRoot
  /\ op[d].pc = "wrap" => acct[d].root \in {NoRoot, op[d].root}
  /\ op[d].pc \in {"assign", "publish"} => acct[d].root = op[d].root

(* The records the promise is about are those of the account's root, at    *)
(* coordinates it still knows; a purge has them still to delete.           *)
At(q) == [day |-> push[q].day, slot |-> push[q].slot]
Kept(q) == q \notin raced /\ push[q].day >= day - RetainDays
TrackedOK(q) ==
  LET d == push[q].device IN
  /\ push[q].pc = "build" => At(q) \in acct[d].pointers
  /\ Sealed(q) /\ Addr(q) \notin missed =>
       /\ push[q].root = acct[d].root
       /\ At(q) \in acct[d].pointers
       /\ op[d].pc = "purge" => At(q) \in op[d].coords
       /\ op[d].pc # "clear"
PurgeBody ==
  /\ \A d \in Devices : RootOK(d)
  /\ \A q \in Pushes : Kept(q) => TrackedOK(q)
PurgeInv == FlightOK /\ ("rewound" \notin exposure => PurgeBody)

(* The slots a device can still take are above those taken under its root: *)
(* by itself, and by any device as long as it is the only one to write.    *)
Taken(q) == push[q].pc = "build" \/ push[q].at > 0
Alone(d) ==
  /\ exposure \cap {"overlooked", "old device"} = {}
  /\ \A e \in Devices \ {d} : found[e] = NoPush
NextDayOf(d, e) ==
  /\ acct[d].day <= e
  /\ \/ e = day
     \/ \E p \in Pushes : /\ push[p].pc = "reserve"
                          /\ push[p].device = d
                          /\ push[p].day = e
                          /\ push[p].slot = NextSlot(acct[d], e)
FreshOK(d) ==
  acct[d].root # NoRoot =>
    \A q \in Pushes, e \in Day :
      (/\ Taken(q)
       /\ push[q].root = acct[d].root
       /\ push[q].device = d \/ Alone(d)
       /\ NextDayOf(d, e)
       /\ push[q].day = e) => push[q].slot < NextSlot(acct[d], e)
AdoptedOK(d) ==
  op[d].pc = "wrap" /\ budget.ops = 0 =>
    /\ acct[d].root = NoRoot
    /\ root[d] = NoRoot
    /\ found[d] # NoPush
    /\ \A q \in Pushes : push[q].device # d
    /\ exposure \cap {"overlooked", "old device"} = {} =>
         \A q \in Pushes : Taken(q) /\ push[q].root = op[d].root =>
           ~Before([day |-> acct[d].day, slot |-> acct[d].slot], push[q])
ApartOK ==
  \A p, q \in Pushes :
    (/\ Taken(p) /\ Taken(q)
     /\ SameAddress(p, q)
     /\ push[p].root # NoRoot) =>
      /\ push[p].device # push[q].device
      /\ exposure \cap {"overlooked", "old device"} # {}
ReuseInv ==
  exposure \cap ReuseCause = {} =>
    /\ \A d \in Devices : FreshOK(d) /\ AdoptedOK(d)
    /\ ApartOK

IInv == TypeInv /\ PurgeInv /\ ReuseInv

(* The record that a marked row stands for: it is on the server, unless    *)
(* its own device is deleting it, and what was built under its root at a   *)
(* later coordinate was built after it.                                    *)
IsMark(d, m) ==
  /\ push[m].device = d
  /\ push[m].index = acct[d].index
  /\ push[m].at > 0
  /\ Addr(m) = <<acct[d].root, acct[d].day, acct[d].slot>>
  /\ op[d].pc # "purge" => m \in stored
  /\ \A q \in Written :
       push[q].root = acct[d].root /\ Before(acct[d], push[q]) =>
         push[q].at > push[m].at
MarkOK(d) ==
  acct[d].enrolled /\ acct[d].index > 0 => \E m \in Pushes : IsMark(d, m)

(* A device numbers its pushes until a rebind, which ends its enrolment.   *)
IndexOK(d) ==
  acct[d].enrolled =>
    \A p \in Pushes : push[p].device = d =>
      /\ push[p].index <= top[d]
      /\ \A q \in Pushes : push[q].device = d /\ push[q].index = push[p].index => q = p

(* Records are counted as they are built.                                  *)
CountOK == \A q \in Pushes : push[q].at <= Cardinality(Written)

MarkBody == \A d \in Devices : IndexOK(d) /\ MarkOK(d)
MarkInv == CountOK /\ (exposure = {} => MarkBody)

-----------------------------------------------------------------------------
(* Constants, fields and updates *)

LEMMA Zero == ~(0 > 0)
  OBVIOUS

LEMMA NotAbove == \A m, n \in Int : ~(m > n) => m <= n
  OBVIOUS

LEMMA Nones ==
  /\ NoRoot \in RootOrNone /\ NoRoot \notin Roots
  /\ NoAccount \in Account /\ FirstAccount \in Account
  /\ NoAccount.exists = FALSE /\ NoAccount.root = NoRoot
  /\ FirstAccount.exists = TRUE /\ FirstAccount.root = NoRoot
  /\ IdlePush \in Push /\ UnsentPush \in Push
  /\ IdlePush.pc = "idle" /\ IdlePush.device = NoDevice /\ IdlePush.at = 0
  /\ IdlePush.day = 0
  /\ UnsentPush.pc = "done" /\ UnsentPush.device = NoDevice /\ UnsentPush.at = 0
  /\ UnsentPush.day = 0 /\ UnsentPush.root = NoRoot
  /\ IdleOp \in Op /\ IdleOp.pc = "idle" /\ IdleOp.live = FALSE
  /\ 0 \in Day
  <1>1. 0 \in Day /\ NoRoot \in RootOrNone /\ NoRoot \notin Roots
    BY RestoreAssumption DEF Day, RootOrNone
  <1>2. NoAccount \in Account /\ NoAccount.exists = FALSE /\ NoAccount.root = NoRoot
    BY <1>1 DEF NoAccount, Account, NoDay, Slot, Index
  <1>3. FirstAccount \in Account /\ FirstAccount.exists = TRUE
        /\ FirstAccount.root = NoRoot
    BY <1>1 DEF FirstAccount, NoAccount, Account, NoDay, Slot, Index
  <1>4. /\ IdlePush \in Push /\ IdlePush.pc = "idle" /\ IdlePush.device = NoDevice
        /\ IdlePush.at = 0 /\ IdlePush.day = 0
    BY <1>1 DEF IdlePush, Push, Slot, Index
  <1>5. /\ UnsentPush \in Push /\ UnsentPush.pc = "done" /\ UnsentPush.at = 0
        /\ UnsentPush.device = NoDevice /\ UnsentPush.day = 0
        /\ UnsentPush.root = NoRoot
    BY <1>1 DEF UnsentPush, IdlePush, Push, Slot, Index
  <1>6. IdleOp \in Op /\ IdleOp.pc = "idle" /\ IdleOp.live = FALSE
    BY <1>1 DEF IdleOp, Op
  <1> QED BY <1>1, <1>2, <1>3, <1>4, <1>5, <1>6

LEMMA AccountIs ==
  ASSUME TypeOK, NEW d \in Devices
  PROVE  /\ acct[d] \in Account /\ acct[d].exists \in BOOLEAN
         /\ acct[d].enrolled \in BOOLEAN /\ acct[d].root \in RootOrNone
         /\ acct[d].day \in Int /\ acct[d].day >= NoDay /\ acct[d].slot \in Nat
         /\ acct[d].index \in Nat /\ acct[d].pointers \subseteq Coord
         /\ root[d] \in RootOrNone
  <1>1. acct[d] \in Account /\ root[d] \in RootOrNone
    BY DEF TypeOK
  <1> QED BY <1>1, RestoreAssumption DEF Account, Slot, Index, Day, NoDay

LEMMA PushIs ==
  ASSUME TypeOK, NEW q \in Pushes
  PROVE  /\ push[q] \in Push
         /\ push[q].pc \in {"idle", "reserve", "build", "sent", "stored", "late", "done"}
         /\ push[q].device \in Devices \cup {NoDevice} /\ push[q].index \in Nat
         /\ push[q].day \in Day /\ push[q].day \in Nat /\ push[q].slot \in Nat
         /\ push[q].root \in RootOrNone /\ push[q].at \in Nat
  <1>1. push[q] \in Push
    BY DEF TypeOK
  <1> QED BY <1>1, RestoreAssumption DEF Push, Slot, Index, Day

LEMMA OpIs ==
  ASSUME TypeOK, NEW d \in Devices
  PROVE  /\ op[d] \in Op /\ op[d].disable \in BOOLEAN /\ op[d].root \in RootOrNone
         /\ op[d].pc \in {"idle", "purge", "clear", "wrap", "assign", "publish",
                          "await", "forget"}
         /\ op[d].old \in RootOrNone /\ op[d].coords \subseteq Coord
         /\ op[d].live \in BOOLEAN
  <1>1. op[d] \in Op
    BY DEF TypeOK
  <1> QED BY <1>1 DEF Op

LEMMA DayIs ==
  ASSUME TypeOK
  PROVE  day \in Nat /\ day \in Day /\ \A e \in Day : e \in Nat
  BY RestoreAssumption DEF TypeOK, Day

(* Only this push, this row, this call change. *)
LEMMA PutPush ==
  ASSUME TypeOK, NEW p \in Pushes, NEW j \in Push, push' = [push EXCEPT ![p] = j]
  PROVE  /\ push' \in [Pushes -> Push] /\ push'[p] = j
         /\ \A q \in Pushes \ {p} : push'[q] = push[q]
  BY DEF TypeOK

LEMMA PutAccount ==
  ASSUME TypeOK, NEW d \in Devices, NEW a \in Account, acct' = [acct EXCEPT ![d] = a]
  PROVE  /\ acct' \in [Devices -> Account] /\ acct'[d] = a
         /\ \A e \in Devices \ {d} : acct'[e] = acct[e]
  BY DEF TypeOK

LEMMA PutOp ==
  ASSUME TypeOK, NEW d \in Devices, NEW o \in Op, op' = [op EXCEPT ![d] = o]
  PROVE  /\ op' \in [Devices -> Op] /\ op'[d] = o
         /\ \A e \in Devices \ {d} : op'[e] = op[e]
  BY DEF TypeOK

LEMMA PutRoot ==
  ASSUME TypeOK, NEW d \in Devices, NEW r \in RootOrNone, root' = [root EXCEPT ![d] = r]
  PROVE  /\ root' \in [Devices -> RootOrNone] /\ root'[d] = r
         /\ \A e \in Devices \ {d} : root'[e] = root[e]
  BY DEF TypeOK

LEMMA PutSession ==
  ASSUME TypeOK, NEW d \in Devices, NEW s \in {"locked", "online", "offline"},
         session' = [session EXCEPT ![d] = s]
  PROVE  /\ session' \in [Devices -> {"locked", "online", "offline"}] /\ session'[d] = s
         /\ \A e \in Devices \ {d} : session'[e] = session[e]
  BY DEF TypeOK

LEMMA Exposed ==
  ASSUME TypeOK, NEW cond, NEW e \in Exposure, Expose(cond, e)
  PROVE  /\ exposure' \in SUBSET Exposure /\ exposure \subseteq exposure'
         /\ cond => e \in exposure'
         /\ exposure' \subseteq exposure \cup {e}
  BY DEF TypeOK, Expose

LEMMA Budgeted ==
  ASSUME TypeOK
  PROVE  /\ budget.ops \in Nat
         /\ StartOp => /\ budget' \in [ops : 0 .. MaxOps, events : 0 .. MaxEvents]
                       /\ budget'.ops > 0 /\ budget'.ops >= budget.ops
         /\ \A e : Event(e) => /\ budget' \in [ops : 0 .. MaxOps, events : 0 .. MaxEvents]
                               /\ budget'.ops = budget.ops
  BY RestoreAssumption DEF TypeOK, StartOp, Event

LEMMA TimeStands ==
  ASSUME TypeOK, day' = day, budget' = budget
  PROVE  day' >= day /\ budget'.ops >= budget.ops
  BY DayIs, Budgeted

-----------------------------------------------------------------------------
(* What a step does to the row, the push and the call it is about *)

Unmoved(e) ==
  /\ acct'[e] = acct[e] /\ session'[e] = session[e] /\ root'[e] = root[e]
  /\ op'[e] = op[e] /\ rotate'[e] = rotate[e] /\ found'[e] = found[e]
OthersStay(p) == \A q \in Pushes \ {p} : push'[q] = push[q]
SamePlace(p) ==
  /\ push'[p].device = push[p].device /\ push'[p].day = push[p].day
  /\ push'[p].slot = push[p].slot /\ push'[p].index = push[p].index

LEMMA LandIs ==
  ASSUME TypeInv, NEW d \in Devices, NEW p \in Pushes, NEW force, LandSave(d, p, force)
  PROVE  /\ top' \in [Devices -> Index] /\ push' \in [Pushes -> Push] /\ OthersStay(p)
         /\ push[p] = IdlePush /\ session[d] = "online" /\ acct[d].exists
         /\ \/ push'[p] = UnsentPush
            \/ /\ root[d] # NoRoot
               /\ push'[p].pc = "reserve" /\ push'[p].device = d
               /\ push'[p].day = day /\ push'[p].slot = NextSlot(acct[d], day)
               /\ push'[p].at = 0 /\ push'[p].root = NoRoot
  <1>0. TypeOK /\ DeviceOK(d) /\ PushOK(p)
    BY DEF TypeInv
  <1>1. session[d] = "online" /\ push[p] = IdlePush
    BY <1>0 DEF LandSave, PushOK
  <1>2. acct[d].exists
    BY <1>0, <1>1 DEF DeviceOK, Absent
  <1>3. top[d] + 1 \in Index /\ top' \in [Devices -> Index]
    BY <1>0 DEF LandSave, TypeOK, Index
  <1>4. NextSlot(acct[d], day) \in Slot
    BY <1>0, AccountIs DEF NextSlot, Slot
  <1> DEFINE j == [IdlePush EXCEPT !.pc = "reserve", !.device = d, !.index = top[d] + 1,
                                   !.day = day, !.slot = NextSlot(acct[d], day)]
  <1>5. /\ j \in Push /\ j.pc = "reserve" /\ j.device = d /\ j.day = day
        /\ j.slot = NextSlot(acct[d], day) /\ j.at = 0 /\ j.root = NoRoot
    BY <1>0, <1>3, <1>4, Nones DEF Push, IdlePush, TypeOK
  <1>6. \/ push' = [push EXCEPT ![p] = UnsentPush]
        \/ root[d] # NoRoot /\ push' = [push EXCEPT ![p] = j]
    BY DEF LandSave
  <1> HIDE DEF j
  <1> QED BY <1>0, <1>1, <1>2, <1>3, <1>5, <1>6, PutPush, Nones DEF OthersStay

LEMMA ReserveIs ==
  ASSUME TypeInv, NEW p \in Pushes, Reserve(p)
  PROVE  LET d == push[p].device IN
         /\ d \in Devices /\ acct[d].exists /\ push[p].pc = "reserve"
         /\ push' \in [Pushes -> Push] /\ OthersStay(p) /\ SamePlace(p)
         /\ push'[p].pc = "build" /\ push'[p].at = 0 /\ push'[p].root = acct[d].root
         /\ acct' \in [Devices -> Account]
         /\ \A e \in Devices \ {d} : acct'[e] = acct[e]
         /\ acct'[d].exists /\ acct'[d].root = acct[d].root
         /\ acct'[d].day = push[p].day /\ acct'[d].slot = push[p].slot
         /\ acct'[d].pointers =
              {x \in acct[d].pointers : x.day >= push[p].day - RetainDays} \cup {At(p)}
         /\ exposure' \in SUBSET Exposure /\ exposure \subseteq exposure'
         /\ push[p].slot # NextSlot(acct[d], push[p].day) \/ acct[d].day > push[p].day
              => "stale read" \in exposure'
         /\ (\E e \in Devices \ {d} : found[e] # NoPush) => "old device" \in exposure'
  <1> DEFINE d == push[p].device
  <1>0. TypeOK /\ PushOK(p) /\ push[p].pc = "reserve"
    BY DEF TypeInv, Reserve
  <1>1. d \in Devices /\ push[p].at = 0
    BY <1>0, PushIs DEF PushOK, Flying
  <1>2. acct[d].exists
    BY <1>1 DEF TypeInv, DeviceOK, Absent
  <1>3. push[p] \in Push /\ acct[d] \in Account /\ acct[d].root \in RootOrNone
    BY <1>0, <1>1, PushIs, AccountIs
  <1> DEFINE j == [push[p] EXCEPT !.pc = "build", !.root = acct[d].root]
             c == [day |-> push[p].day, slot |-> push[p].slot]
             a == Reserved(acct[d], c)
  <1>4. /\ j \in Push /\ j.pc = "build" /\ j.at = 0 /\ j.root = acct[d].root
        /\ j.device = d /\ j.day = push[p].day /\ j.slot = push[p].slot
        /\ j.index = push[p].index
    BY <1>1, <1>3 DEF Push
  <1>5. c \in Coord
    BY <1>0, PushIs DEF Coord, Slot
  <1>6. /\ a \in Account /\ a.exists = acct[d].exists /\ a.root = acct[d].root
        /\ a.day = push[p].day /\ a.slot = push[p].slot
        /\ a.pointers =
              {x \in acct[d].pointers : x.day >= push[p].day - RetainDays} \cup {At(p)}
    BY <1>0, <1>3, <1>5, PushIs DEF Account, Reserved, At, Slot, Index
  <1>7. push' = [push EXCEPT ![p] = j] /\ acct' = [acct EXCEPT ![d] = a]
    BY <1>0 DEF Reserve, TypeOK
  <1>8. exposure' \in SUBSET Exposure /\ exposure \subseteq exposure'
    BY <1>0 DEF Reserve, TypeOK, Exposure
  <1>9. /\ c.slot # NextSlot(acct[d], c.day) \/ acct[d].day > c.day
             => "stale read" \in exposure'
        /\ (\E e \in Devices \ {d} : found[e] # NoPush) => "old device" \in exposure'
    BY DEF Reserve
  <1> HIDE DEF j, a
  <1>10. /\ push' \in [Pushes -> Push] /\ OthersStay(p) /\ push'[p] = j
    BY <1>0, <1>4, <1>7, PutPush DEF OthersStay
  <1>11. /\ acct' \in [Devices -> Account] /\ acct'[d] = a
         /\ \A e \in Devices \ {d} : acct'[e] = acct[e]
    BY <1>0, <1>1, <1>6, <1>7, PutAccount
  <1> QED BY <1>0, <1>1, <1>2, <1>4, <1>6, <1>8, <1>9, <1>10, <1>11 DEF SamePlace

LEMMA BuildIs ==
  ASSUME TypeInv, NEW p \in Pushes, Build(p)
  PROVE  LET d == push[p].device IN
         /\ d \in Devices /\ acct[d].exists /\ push[p].pc = "build"
         /\ push' \in [Pushes -> Push] /\ OthersStay(p)
         /\ \/ push'[p] = UnsentPush
            \/ /\ SamePlace(p) /\ push'[p].pc = "sent" /\ push'[p].at > 0
               /\ push'[p].root = root[d] /\ root[d] # NoRoot /\ session[d] = "online"
               /\ root[d] # push[p].root => "root changed" \in exposure'
         /\ exposure' \in SUBSET Exposure /\ exposure \subseteq exposure'
  <1> DEFINE d == push[p].device
  <1>0. TypeOK /\ PushOK(p) /\ push[p].pc = "build"
    BY DEF TypeInv, Build
  <1>1. d \in Devices /\ acct[d].exists
    <2>1. d \in Devices
      BY <1>0, PushIs DEF PushOK, Flying
    <2> QED BY <2>1 DEF TypeInv, DeviceOK, Absent
  <1>2. Cardinality(Written) + 1 \in Nat /\ Cardinality(Written) + 1 > 0
    <2>1. IsFiniteSet(Written)
      BY RestoreAssumption, FS_Subset DEF Written
    <2> QED BY <2>1, FS_CardinalityType
  <1>3. root[d] \in RootOrNone /\ push[p] \in Push
    BY <1>0, <1>1, AccountIs, PushIs
  <1> DEFINE j == [push[p] EXCEPT !.pc = "sent", !.root = root[d],
                                  !.at = Cardinality(Written) + 1]
  <1>4. /\ j \in Push /\ j.pc = "sent" /\ j.at > 0 /\ j.root = root[d]
        /\ j.device = d /\ j.day = push[p].day /\ j.slot = push[p].slot
        /\ j.index = push[p].index
    BY <1>2, <1>3 DEF Push
  <1>5. \/ push' = [push EXCEPT ![p] = UnsentPush]
        \/ root[d] # NoRoot /\ session[d] = "online" /\ push' = [push EXCEPT ![p] = j]
    BY <1>0 DEF Build, TypeOK
  <1>6. /\ exposure' \in SUBSET Exposure /\ exposure \subseteq exposure'
        /\ root[d] \notin {NoRoot, push[p].root} => "root changed" \in exposure'
    BY <1>0, Exposed DEF Build, Exposure
  <1> HIDE DEF j
  <1> QED BY <1>0, <1>1, <1>4, <1>5, <1>6, PutPush, Nones DEF OthersStay, SamePlace

(* The reply of an upload, whatever it says. *)
LEMMA MovesOn ==
  ASSUME TypeInv, NEW p \in Pushes, NEW x \in {"stored", "late", "done"},
         push' = [push EXCEPT ![p].pc = x]
  PROVE  /\ push' \in [Pushes -> Push] /\ OthersStay(p) /\ SamePlace(p)
         /\ push'[p].pc = x /\ push'[p].at = push[p].at /\ push'[p].root = push[p].root
  <1>0. TypeOK /\ push[p] \in Push
    BY PushIs DEF TypeInv
  <1> DEFINE j == [push[p] EXCEPT !.pc = x]
  <1>1. /\ j \in Push /\ j.pc = x /\ j.at = push[p].at /\ j.root = push[p].root
        /\ j.device = push[p].device /\ j.day = push[p].day /\ j.slot = push[p].slot
        /\ j.index = push[p].index
    BY <1>0 DEF Push
  <1>2. push' = [push EXCEPT ![p] = j]
    BY <1>0 DEF TypeOK
  <1> HIDE DEF j
  <1> QED BY <1>0, <1>1, <1>2, PutPush DEF OthersStay, SamePlace

LEMMA QuietIs ==
  ASSUME NEW d \in Devices, Quiet(d)
  PROVE  op[d].pc \in {"idle", "await"}
  BY DEF Quiet

(* A change of root begins: at once, or with the addresses to delete. *)
LEMMA BeginIs ==
  ASSUME TypeInv, NEW d \in Devices, NEW o \in Op, o.pc = "idle",
         acct[d].exists, StartPurge(d, o), UNCHANGED push
  PROVE  /\ op' \in [Devices -> Op] /\ \A e \in Devices \ {d} : op'[e] = op[e]
         /\ op'[d].root = o.root /\ op'[d].disable = o.disable
         /\ missed' \in SUBSET Address /\ missed \subseteq missed'
         /\ \/ /\ op'[d].pc = "clear"
               /\ \/ root[d] = NoRoot
                  \/ \A c \in acct[d].pointers : <<root[d], c.day, c.slot>> \in missed'
            \/ /\ op'[d].pc = "purge" /\ root[d] # NoRoot
               /\ op'[d].old = root[d] /\ op'[d].coords = acct[d].pointers
  <1>0. TypeOK
    BY DEF TypeInv
  <1>1. root[d] \in RootOrNone /\ acct[d].pointers \subseteq Coord
    BY <1>0, AccountIs
  <1> DEFINE j == [o EXCEPT !.pc = "clear"]
             k == [o EXCEPT !.pc = "purge", !.old = root[d],
                            !.coords = acct[d].pointers, !.live = TRUE]
  <1>2. j \in Op /\ j.pc = "clear" /\ j.root = o.root /\ j.disable = o.disable
    BY DEF Op
  <1>3. /\ k \in Op /\ k.pc = "purge" /\ k.root = o.root /\ k.disable = o.disable
        /\ k.old = root[d] /\ k.coords = acct[d].pointers
    BY <1>1 DEF Op
  <1>4. \/ /\ root[d] = NoRoot \/ session[d] # "online"
           /\ op' = [op EXCEPT ![d] = j]
        \/ root[d] # NoRoot /\ op' = [op EXCEPT ![d] = k]
    BY DEF StartPurge
  <1>5. /\ missed' \in SUBSET Address /\ missed \subseteq missed'
        /\ root[d] # NoRoot /\ session[d] # "online" =>
             \A c \in acct[d].pointers : <<root[d], c.day, c.slot>> \in missed'
    <2>1. missed \in SUBSET Address
      BY <1>0 DEF TypeOK
    <2>2. \A c \in acct[d].pointers : c.day \in Day /\ c.slot \in Slot
      BY <1>1 DEF Coord
    <2>3. root[d] # NoRoot => \A c \in acct[d].pointers :
                                <<root[d], c.day, c.slot>> \in Address
      BY <1>1, <2>2 DEF Address, RootOrNone
    <2> QED BY <2>1, <2>3 DEF StartPurge
  <1> HIDE DEF j, k
  <1> QED BY <1>0, <1>2, <1>3, <1>4, <1>5, PutOp

LEMMA InstallIs ==
  ASSUME TypeInv, NEW d \in Devices, NEW r \in Roots, BeginInstall(d, r)
  PROVE  /\ acct[d].exists /\ Open(d) /\ op[d].pc \in {"idle", "await"}
         /\ op' \in [Devices -> Op] /\ \A e \in Devices \ {d} : op'[e] = op[e]
         /\ op'[d].root = r /\ op'[d].disable = FALSE
         /\ missed' \in SUBSET Address /\ missed \subseteq missed'
         /\ \/ op'[d].pc = "wrap" /\ root[d] \in {NoRoot, r}
            \/ /\ op'[d].pc = "clear"
               /\ \/ root[d] = NoRoot
                  \/ \A c \in acct[d].pointers : <<root[d], c.day, c.slot>> \in missed'
            \/ /\ op'[d].pc = "purge" /\ root[d] # NoRoot
               /\ op'[d].old = root[d] /\ op'[d].coords = acct[d].pointers
  <1> DEFINE o == [IdleOp EXCEPT !.root = r]
             w == [o EXCEPT !.pc = "wrap"]
  <1>0. TypeOK /\ acct[d].exists /\ Open(d) /\ Quiet(d) /\ UNCHANGED push
    BY DEF TypeInv, BeginInstall
  <1>1. o \in Op /\ o.pc = "idle" /\ o.root = r /\ o.disable = FALSE
    BY Nones DEF Op, IdleOp, RootOrNone
  <1>2. w \in Op /\ w.pc = "wrap" /\ w.root = r /\ w.disable = FALSE
    BY <1>1 DEF Op
  <1>3. \/ root[d] \in {NoRoot, r} /\ op' = [op EXCEPT ![d] = w] /\ UNCHANGED missed
        \/ StartPurge(d, o)
    BY DEF BeginInstall
  <1> HIDE DEF o, w
  <1>4. CASE root[d] \in {NoRoot, r} /\ op' = [op EXCEPT ![d] = w] /\ UNCHANGED missed
    <2>1. missed \in SUBSET Address
      BY <1>0 DEF TypeOK
    <2> QED BY <1>0, <1>2, <1>4, <2>1, PutOp, QuietIs
  <1>5. CASE StartPurge(d, o)
    BY <1>0, <1>1, <1>5, BeginIs, QuietIs
  <1> QED BY <1>3, <1>4, <1>5

LEMMA DisableIs ==
  ASSUME TypeInv, NEW d \in Devices, BeginDisable(d)
  PROVE  /\ acct[d].exists /\ Open(d) /\ op[d].pc \in {"idle", "await"}
         /\ op' \in [Devices -> Op] /\ \A e \in Devices \ {d} : op'[e] = op[e]
         /\ op'[d].disable = TRUE
         /\ missed' \in SUBSET Address /\ missed \subseteq missed'
         /\ \/ /\ op'[d].pc = "clear"
               /\ \/ root[d] = NoRoot
                  \/ \A c \in acct[d].pointers : <<root[d], c.day, c.slot>> \in missed'
            \/ /\ op'[d].pc = "purge" /\ root[d] # NoRoot
               /\ op'[d].old = root[d] /\ op'[d].coords = acct[d].pointers
  <1> DEFINE o == [IdleOp EXCEPT !.disable = TRUE]
  <1>0. acct[d].exists /\ Open(d) /\ Quiet(d) /\ UNCHANGED push /\ StartPurge(d, o)
    BY DEF TypeInv, BeginDisable
  <1>1. o \in Op /\ o.pc = "idle" /\ o.disable = TRUE
    BY Nones DEF Op, IdleOp
  <1> HIDE DEF o
  <1> QED BY <1>0, <1>1, BeginIs, QuietIs

LEMMA PurgeOneIs ==
  ASSUME TypeInv, NEW d \in Devices, PurgeOne(d)
  PROVE  /\ acct[d].exists /\ op[d].pc = "purge"
         /\ op' \in [Devices -> Op] /\ \A e \in Devices \ {d} : op'[e] = op[e]
         /\ op'[d].pc = "purge" /\ op'[d].root = op[d].root /\ op'[d].old = op[d].old
         /\ op'[d].disable = op[d].disable
         /\ \E c \in op[d].coords :
              LET a == <<op[d].old, c.day, c.slot>> IN
              /\ op'[d].coords = op[d].coords \ {c} /\ a \in Address
              /\ \/ stored' = {q \in stored : Addr(q) # a} /\ UNCHANGED missed
                 \/ missed' = missed \cup {a} /\ UNCHANGED stored
              /\ "purged elsewhere" \notin exposure' =>
                   \A q \in stored \ stored' : push[q].device = d
         /\ exposure' \in SUBSET Exposure /\ exposure \subseteq exposure'
  <1>0. TypeOK /\ op[d].pc = "purge" /\ op[d] \in Op
    BY OpIs DEF TypeInv, PurgeOne
  <1>1. acct[d].exists /\ op[d].old # NoRoot
    BY <1>0, Nones DEF TypeInv, DeviceOK, CallOK, Absent
  <1>2. PICK c \in op[d].coords :
          LET a == <<op[d].old, c.day, c.slot>> IN
          /\ op' = [op EXCEPT ![d].coords = @ \ {c}]
          /\ \/ /\ stored' = {q \in stored : Addr(q) # a} /\ UNCHANGED missed
                /\ Expose(\E q \in stored : Addr(q) = a /\ push[q].device # d,
                          "purged elsewhere")
             \/ missed' = missed \cup {a} /\ UNCHANGED <<stored, exposure>>
    BY DEF PurgeOne
  <1> DEFINE j == [op[d] EXCEPT !.coords = @ \ {c}]
  <1>3. /\ j \in Op /\ j.pc = "purge" /\ j.root = op[d].root /\ j.old = op[d].old
        /\ j.disable = op[d].disable /\ j.coords = op[d].coords \ {c}
    BY <1>0 DEF Op
  <1>4. op' = [op EXCEPT ![d] = j]
    BY <1>0, <1>2 DEF TypeOK
  <1>5. <<op[d].old, c.day, c.slot>> \in Address
    <2>1. c \in Coord /\ op[d].old \in Roots
      BY <1>0, <1>1, OpIs DEF RootOrNone
    <2> QED BY <2>1 DEF Coord, Address
  <1> HIDE DEF j
  <1>6. /\ op' \in [Devices -> Op] /\ op'[d] = j
        /\ \A e \in Devices \ {d} : op'[e] = op[e]
    BY <1>0, <1>3, <1>4, PutOp
  <1>7. /\ exposure' \in SUBSET Exposure /\ exposure \subseteq exposure'
        /\ "purged elsewhere" \notin exposure' =>
             \A q \in stored \ stored' : push[q].device = d
    <2>1. "purged elsewhere" \in Exposure
      BY DEF Exposure
    <2>2. CASE UNCHANGED <<stored, exposure>>
      BY <1>0, <2>2 DEF TypeOK
    <2>3. CASE ~UNCHANGED <<stored, exposure>>
      <3> DEFINE a == <<op[d].old, c.day, c.slot>>
                 mine == \E q \in stored : Addr(q) = a /\ push[q].device # d
      <3>1. stored' = {q \in stored : Addr(q) # a} /\ Expose(mine, "purged elsewhere")
        BY <1>2, <2>3
      <3>2. mine \/ \A q \in stored \ stored' : push[q].device = d
        BY <3>1
      <3> HIDE DEF mine
      <3> QED BY <1>0, <2>1, <3>1, <3>2, Exposed
    <2> QED BY <2>2, <2>3
  <1> QED BY <1>0, <1>1, <1>2, <1>3, <1>5, <1>6, <1>7

LEMMA ClearIs ==
  ASSUME TypeInv, NEW d \in Devices, ClearRoot(d)
  PROVE  /\ acct[d].exists /\ op[d].pc \in {"purge", "clear"}
         /\ op[d].pc = "purge" => op[d].coords = {}
         /\ op' \in [Devices -> Op] /\ \A e \in Devices \ {d} : op'[e] = op[e]
         /\ op'[d].root = op[d].root
         /\ \/ op'[d].pc = "forget"
            \/ op'[d].pc = "wrap" /\ op[d].root # NoRoot
         /\ acct' \in [Devices -> Account]
         /\ \A e \in Devices \ {d} : acct'[e] = acct[e]
         /\ acct'[d].exists /\ acct'[d].root = NoRoot
  <1>0. TypeOK /\ op[d] \in Op /\ acct[d] \in Account
    BY OpIs, AccountIs DEF TypeInv
  <1>1. op[d].pc \in {"purge", "clear"} /\ (op[d].pc = "purge" => op[d].coords = {})
    BY DEF ClearRoot
  <1>2. acct[d].exists /\ (op[d].disable \/ op[d].root # NoRoot)
    BY <1>1, Nones DEF TypeInv, DeviceOK, CallOK, Absent
  <1> DEFINE j == [IdleOp EXCEPT !.pc = IF op[d].disable THEN "forget" ELSE "wrap",
                                 !.root = op[d].root]
             a == Forgotten(acct[d])
  <1>3. /\ j \in Op /\ j.root = op[d].root
        /\ j.pc = "forget" \/ (j.pc = "wrap" /\ op[d].root # NoRoot)
    BY <1>0, <1>2, Nones DEF Op, IdleOp
  <1>4. a \in Account /\ a.exists = acct[d].exists /\ a.root = NoRoot
    BY <1>0, Nones DEF Account, Forgotten, NoDay, Slot, Index
  <1>5. op' = [op EXCEPT ![d] = j] /\ acct' = [acct EXCEPT ![d] = a]
    BY <1>0 DEF ClearRoot, TypeOK
  <1> HIDE DEF j, a
  <1> QED BY <1>0, <1>1, <1>2, <1>3, <1>4, <1>5, PutOp, PutAccount

LEMMA WrapIs ==
  ASSUME TypeInv, NEW d \in Devices, WrapRoot(d)
  PROVE  /\ acct[d].exists /\ op[d].pc = "wrap" /\ op[d].root # NoRoot
         /\ op' \in [Devices -> Op] /\ \A e \in Devices \ {d} : op'[e] = op[e]
         /\ exposure' \in SUBSET Exposure /\ exposure \subseteq exposure'
         /\ \/ ~Open(d) /\ op'[d] = IdleOp /\ UNCHANGED acct
            \/ /\ op'[d].pc = "assign" /\ op'[d].root = op[d].root
               /\ acct' \in [Devices -> Account]
               /\ \A e \in Devices \ {d} : acct'[e] = acct[e]
               /\ acct'[d].exists /\ acct'[d].root = op[d].root
               /\ acct'[d].day = acct[d].day /\ acct'[d].slot = acct[d].slot
               /\ acct'[d].pointers = acct[d].pointers
               /\ \/ budget.ops = 0
                  \/ ~Retaken(op[d].root, NextSlot(acct[d], day))
                  \/ "re-enabled" \in exposure'
  <1>0. TypeOK /\ op[d] \in Op /\ acct[d] \in Account /\ op[d].pc = "wrap"
    BY OpIs, AccountIs DEF TypeInv, WrapRoot
  <1>1. acct[d].exists /\ op[d].root # NoRoot
    BY <1>0, Nones DEF TypeInv, DeviceOK, CallOK, Absent
  <1> DEFINE j == [op[d] EXCEPT !.pc = "assign"]
             a == Wrapped(acct[d], op[d].root)
             redone == budget.ops > 0 /\ Retaken(op[d].root, NextSlot(acct[d], day))
  <1>2. j \in Op /\ j.pc = "assign" /\ j.root = op[d].root
    BY <1>0 DEF Op
  <1>3. /\ a \in Account /\ a.exists = acct[d].exists /\ a.root = op[d].root
        /\ a.day = acct[d].day /\ a.slot = acct[d].slot
        /\ a.pointers = acct[d].pointers
    BY <1>0, OpIs DEF Account, Wrapped, Index
  <1>4. \/ ~Open(d) /\ op' = [op EXCEPT ![d] = IdleOp] /\ UNCHANGED <<acct, exposure>>
        \/ /\ op' = [op EXCEPT ![d] = j] /\ acct' = [acct EXCEPT ![d] = a]
           /\ Expose(redone, "re-enabled")
    BY <1>0 DEF WrapRoot, TypeOK
  <1>5. budget.ops = 0 \/ redone \/ ~Retaken(op[d].root, NextSlot(acct[d], day))
    BY <1>0, Budgeted
  <1> HIDE DEF j, a, redone
  <1>6. CASE ~Open(d) /\ op' = [op EXCEPT ![d] = IdleOp] /\ UNCHANGED <<acct, exposure>>
    <2>1. exposure \in SUBSET Exposure
      BY <1>0 DEF TypeOK
    <2> QED BY <1>0, <1>1, <1>6, <2>1, PutOp, Nones
  <1>7. CASE /\ op' = [op EXCEPT ![d] = j] /\ acct' = [acct EXCEPT ![d] = a]
             /\ Expose(redone, "re-enabled")
    <2>1. /\ exposure' \in SUBSET Exposure /\ exposure \subseteq exposure'
          /\ redone => "re-enabled" \in exposure'
      <3>1. "re-enabled" \in Exposure
        BY DEF Exposure
      <3> QED BY <1>0, <1>7, <3>1, Exposed
    <2>2. /\ op' \in [Devices -> Op] /\ op'[d] = j
          /\ \A e \in Devices \ {d} : op'[e] = op[e]
      BY <1>0, <1>2, <1>7, PutOp
    <2>3. /\ acct' \in [Devices -> Account] /\ acct'[d] = a
          /\ \A e \in Devices \ {d} : acct'[e] = acct[e]
      BY <1>0, <1>3, <1>7, PutAccount
    <2> QED BY <1>0, <1>1, <1>2, <1>3, <1>5, <2>1, <2>2, <2>3
  <1> QED BY <1>4, <1>6, <1>7

LEMMA AssignIs ==
  ASSUME TypeInv, NEW d \in Devices, AssignRoot(d)
  PROVE  /\ acct[d].exists /\ op[d].pc = "assign" /\ op[d].root # NoRoot
         /\ op' \in [Devices -> Op] /\ \A e \in Devices \ {d} : op'[e] = op[e]
         /\ op'[d] = IdleOp \/ (op'[d].pc = "publish" /\ op'[d].root = op[d].root)
         /\ root' \in [Devices -> RootOrNone] /\ root'[d] = op[d].root
         /\ \A e \in Devices \ {d} : root'[e] = root[e]
  <1>0. TypeOK /\ op[d] \in Op /\ op[d].pc = "assign"
    BY OpIs DEF TypeInv, AssignRoot
  <1>1. acct[d].exists /\ op[d].root # NoRoot
    BY <1>0, Nones DEF TypeInv, DeviceOK, CallOK, Absent
  <1> DEFINE j == [op[d] EXCEPT !.pc = "publish"]
  <1>2. j \in Op /\ j.pc = "publish" /\ j.root = op[d].root
    BY <1>0 DEF Op
  <1>3. \/ op' = [op EXCEPT ![d] = IdleOp]
        \/ op' = [op EXCEPT ![d] = j]
    BY <1>0 DEF AssignRoot, TypeOK
  <1>4. root' = [root EXCEPT ![d] = op[d].root] /\ op[d].root \in RootOrNone
    BY <1>0, OpIs DEF AssignRoot
  <1> HIDE DEF j
  <1>5. /\ root' \in [Devices -> RootOrNone] /\ root'[d] = op[d].root
        /\ \A e \in Devices \ {d} : root'[e] = root[e]
    BY <1>0, <1>4, PutRoot
  <1>6. /\ op' \in [Devices -> Op] /\ \A e \in Devices \ {d} : op'[e] = op[e]
        /\ op'[d] = IdleOp \/ op'[d] = j
    BY <1>0, <1>2, <1>3, PutOp, Nones
  <1> QED BY <1>0, <1>1, <1>2, <1>5, <1>6

LEMMA PublishIs ==
  ASSUME TypeInv, NEW d \in Devices, NEW p \in Pushes, Publish(d, p)
  PROVE  /\ acct[d].exists /\ op[d].pc = "publish"
         /\ op' \in [Devices -> Op] /\ \A e \in Devices \ {d} : op'[e] = op[e]
         /\ op'[d].pc = "await"
  <1>0. TypeOK /\ op[d].pc = "publish"
    BY DEF TypeInv, Publish
  <1>1. acct[d].exists
    BY <1>0, Nones DEF TypeInv, DeviceOK, CallOK, Absent
  <1> DEFINE j == [IdleOp EXCEPT !.pc = "await", !.push = p]
  <1>2. j \in Op /\ j.pc = "await"
    BY Nones DEF Op, IdleOp
  <1>3. op' = [op EXCEPT ![d] = j]
    BY DEF Publish
  <1> HIDE DEF j
  <1> QED BY <1>0, <1>1, <1>2, <1>3, PutOp

LEMMA EndOpIs ==
  ASSUME TypeInv, NEW d \in Devices, op[d].pc # "idle", op' = [op EXCEPT ![d] = IdleOp]
  PROVE  /\ acct[d].exists
         /\ op' \in [Devices -> Op] /\ \A e \in Devices \ {d} : op'[e] = op[e]
         /\ op'[d] = IdleOp
  <1>1. TypeOK /\ acct[d].exists
    BY Nones DEF TypeInv, DeviceOK, Absent
  <1> QED BY <1>1, Nones, PutOp

LEMMA LockIs ==
  ASSUME TypeInv, NEW d \in Devices, Lock(d)
  PROVE  /\ acct[d].exists
         /\ op' \in [Devices -> Op] /\ \A e \in Devices \ {d} : op'[e] = op[e]
         /\ op'[d].pc = op[d].pc /\ op'[d].root = op[d].root /\ op'[d].old = op[d].old
         /\ op'[d].disable = op[d].disable /\ op'[d].coords = op[d].coords
  <1>0. TypeOK /\ op[d] \in Op /\ Open(d)
    BY OpIs DEF TypeInv, Lock
  <1>1. acct[d].exists
    BY <1>0 DEF TypeInv, DeviceOK, Absent, Open
  <1> DEFINE j == [op[d] EXCEPT !.live = FALSE]
  <1>2. /\ j \in Op /\ j.pc = op[d].pc /\ j.root = op[d].root /\ j.old = op[d].old
        /\ j.disable = op[d].disable /\ j.coords = op[d].coords
    BY <1>0 DEF Op
  <1>3. op' = [op EXCEPT ![d] = j]
    BY <1>0 DEF Lock, TypeOK
  <1> HIDE DEF j
  <1> QED BY <1>0, <1>1, <1>2, <1>3, PutOp

LEMMA ReloadIs ==
  ASSUME TypeInv, NEW d \in Devices, Reload(d)
  PROVE  /\ acct[d].exists
         /\ op' \in [Devices -> Op] /\ \A e \in Devices \ {d} : op'[e] = op[e]
         /\ op'[d] = IdleOp
         /\ push' \in [Pushes -> Push]
         /\ \A q \in Pushes :
              \/ push'[q] = push[q] /\ q \notin InFlight(d)
              \/ /\ SamePlace(q) /\ push[q].device = d
                 /\ push'[q].at = push[q].at /\ push'[q].root = push[q].root
                 /\ \/ push'[q].pc = "late" /\ push[q].pc \in {"sent", "late"}
                    \/ push'[q].pc = "done" /\ push[q].pc \in {"reserve", "build", "stored"}
         /\ exposure' \in SUBSET Exposure /\ exposure \subseteq exposure'
  <1>0. TypeOK /\ Open(d)
    BY DEF TypeInv, Reload
  <1>1. acct[d].exists
    BY <1>0 DEF TypeInv, DeviceOK, Absent, Open
  <1>2. /\ op' \in [Devices -> Op] /\ \A e \in Devices \ {d} : op'[e] = op[e]
        /\ op'[d] = IdleOp
    BY <1>0, Nones, PutOp DEF Reload
  <1>3. exposure' \in SUBSET Exposure /\ exposure \subseteq exposure'
    <2>1. "torn purge" \in Exposure
      BY DEF Exposure
    <2> QED BY <1>0, <2>1, Exposed DEF Reload
  <1> DEFINE j(q) == [push[q] EXCEPT !.pc = IF @ \in {"sent", "late"} THEN "late" ELSE "done"]
  <1>4. \A q \in Pushes :
          /\ j(q) \in Push /\ j(q).at = push[q].at /\ j(q).root = push[q].root
          /\ j(q).device = push[q].device /\ j(q).day = push[q].day
          /\ j(q).slot = push[q].slot /\ j(q).index = push[q].index
          /\ j(q).pc = IF push[q].pc \in {"sent", "late"} THEN "late" ELSE "done"
    <2> SUFFICES ASSUME NEW q \in Pushes
                 PROVE  /\ j(q) \in Push /\ j(q).at = push[q].at /\ j(q).root = push[q].root
                        /\ j(q).device = push[q].device /\ j(q).day = push[q].day
                        /\ j(q).slot = push[q].slot /\ j(q).index = push[q].index
                        /\ j(q).pc = IF push[q].pc \in {"sent", "late"} THEN "late" ELSE "done"
      OBVIOUS
    <2>1. push[q] \in Push
      BY <1>0, PushIs
    <2> QED BY <2>1 DEF Push
  <1>5. push' = [q \in Pushes |-> IF q \notin InFlight(d) THEN push[q] ELSE j(q)]
    BY DEF Reload
  <1> HIDE DEF j
  <1>6. \A q \in Pushes : push[q] \in Push
    BY <1>0, PushIs
  <1>7. push' \in [Pushes -> Push]
    BY <1>4, <1>5, <1>6
  <1>8. ASSUME NEW q \in Pushes, q \in InFlight(d)
        PROVE  /\ SamePlace(q) /\ push[q].device = d
               /\ push'[q].at = push[q].at /\ push'[q].root = push[q].root
               /\ \/ push'[q].pc = "late" /\ push[q].pc \in {"sent", "late"}
                  \/ push'[q].pc = "done" /\ push[q].pc \in {"reserve", "build", "stored"}
    <2>1. push'[q] = j(q)
      BY <1>5, <1>8
    <2>2. push[q].device = d /\ push[q].pc \notin {"idle", "done"}
      BY <1>8 DEF InFlight
    <2> QED BY <1>0, <1>4, <2>1, <2>2, PushIs DEF SamePlace
  <1>9. \A q \in Pushes : q \notin InFlight(d) => push'[q] = push[q]
    BY <1>5
  <1> QED BY <1>1, <1>2, <1>3, <1>7, <1>8, <1>9

LEMMA RotateIs ==
  ASSUME TypeInv, NEW d \in Devices, CommitRotate(d)
  PROVE  /\ acct[d].exists
         /\ acct' \in [Devices -> Account] /\ \A e \in Devices \ {d} : acct'[e] = acct[e]
         /\ acct'[d].exists
         /\ acct' = acct \/ "rewound" \in exposure'
         /\ rotate' \in [Devices -> SUBSET Account] /\ rotate'[d] = {}
         /\ \A e \in Devices \ {d} : rotate'[e] = rotate[e]
         /\ exposure' \in SUBSET Exposure /\ exposure \subseteq exposure'
  <1>0. TypeOK
    BY DEF TypeInv
  <1>1. PICK a \in rotate[d] :
          /\ acct' = [acct EXCEPT ![d] = a] /\ Expose(a # acct[d], "rewound")
          /\ rotate' = [rotate EXCEPT ![d] = {}]
    BY DEF CommitRotate
  <1>2. a \in Account /\ a.exists /\ acct[d].exists
    BY <1>0 DEF TypeOK, TypeInv, DeviceOK, Absent
  <1>3. /\ exposure' \in SUBSET Exposure /\ exposure \subseteq exposure'
        /\ a # acct[d] => "rewound" \in exposure'
    <2>1. "rewound" \in Exposure
      BY DEF Exposure
    <2> QED BY <1>0, <1>1, <2>1, Exposed
  <1>4. /\ acct' \in [Devices -> Account] /\ acct'[d] = a
        /\ \A e \in Devices \ {d} : acct'[e] = acct[e]
    BY <1>0, <1>1, <1>2, PutAccount
  <1>5. a = acct[d] => acct' = acct
    BY <1>0, <1>1 DEF TypeOK
  <1>6. rotate' \in [Devices -> SUBSET Account] /\ rotate'[d] = {}
        /\ \A e \in Devices \ {d} : rotate'[e] = rotate[e]
    BY <1>0, <1>1 DEF TypeOK
  <1> QED BY <1>2, <1>3, <1>4, <1>5, <1>6

(* The index of the last record and the state of OPAQUE do not matter.     *)
SameRow(d) ==
  /\ acct'[d].exists = acct[d].exists /\ acct'[d].root = acct[d].root
  /\ acct'[d].day = acct[d].day /\ acct'[d].slot = acct[d].slot
  /\ acct'[d].pointers = acct[d].pointers

LEMMA MarkIs ==
  ASSUME TypeInv, NEW p \in Pushes, MarkWritten(p)
  PROVE  /\ push[p].device \in Devices /\ acct[push[p].device].exists
         /\ acct' \in [Devices -> Account] /\ SameRow(push[p].device)
         /\ \A e \in Devices \ {push[p].device} : acct'[e] = acct[e]
         /\ exposure' \in SUBSET Exposure /\ exposure \subseteq exposure'
  <1> DEFINE d == push[p].device
             a == [acct[d] EXCEPT !.index = push[p].index]
  <1>0. TypeOK /\ PushOK(p) /\ push[p].pc = "stored"
    BY DEF TypeInv, MarkWritten
  <1>1. d \in Devices
    BY <1>0, PushIs DEF PushOK, Flying
  <1>2. acct[d].exists
    BY <1>1 DEF TypeInv, DeviceOK, Absent
  <1>3. /\ a \in Account /\ a.exists = acct[d].exists /\ a.root = acct[d].root
        /\ a.day = acct[d].day /\ a.slot = acct[d].slot /\ a.pointers = acct[d].pointers
    BY <1>0, <1>1, AccountIs, PushIs DEF Account, Index
  <1>4. acct' = [acct EXCEPT ![d] = a]
    BY <1>0, <1>1 DEF MarkWritten, TypeOK
  <1>5. exposure' \in SUBSET Exposure /\ exposure \subseteq exposure'
    <2>1. "crossed mark" \in Exposure
      BY DEF Exposure
    <2> QED BY <1>0, <2>1, Exposed DEF MarkWritten
  <1> HIDE DEF a
  <1> QED BY <1>0, <1>1, <1>2, <1>3, <1>4, <1>5, PutAccount DEF SameRow

(* A record arrives, or the client hears of it or gives up.                *)
LEMMA ReplyIs ==
  ASSUME TypeInv, NEW p \in Pushes, PutRecord(p) \/ UploadFailed(p) \/ MarkWritten(p)
  PROVE  /\ push' \in [Pushes -> Push] /\ OthersStay(p) /\ SamePlace(p)
         /\ push'[p].at = push[p].at /\ push'[p].root = push[p].root
         /\ push[p].pc \in {"sent", "stored", "late"}
         /\ push'[p].pc \in {"stored", "late", "done"} /\ push[p].at > 0
         /\ push[p].device \in Devices /\ acct[push[p].device].exists
         /\ acct' \in [Devices -> Account] /\ SameRow(push[p].device)
         /\ \A e \in Devices \ {push[p].device} : acct'[e] = acct[e]
         /\ exposure' \in SUBSET Exposure /\ exposure \subseteq exposure'
         /\ stored' \in SUBSET Pushes /\ stored' \subseteq stored \cup {p}
         /\ UNCHANGED <<day, session, root, top, op, rotate, found, budget, raced, missed>>
  <1>0. TypeOK /\ PushOK(p)
    BY DEF TypeInv
  <1>1. PICK x \in {"stored", "late", "done"} : push' = [push EXCEPT ![p].pc = x]
    <2>1. CASE PutRecord(p)
      BY <1>0, <2>1 DEF PutRecord, TypeOK
    <2>2. CASE UploadFailed(p)
      BY <1>0, <2>2 DEF UploadFailed, TypeOK
    <2> QED BY <2>1, <2>2 DEF MarkWritten
  <1>2. /\ push' \in [Pushes -> Push] /\ OthersStay(p) /\ SamePlace(p)
        /\ push'[p].at = push[p].at /\ push'[p].root = push[p].root /\ push'[p].pc = x
    BY <1>1, MovesOn
  <1>3. push[p].pc \in {"sent", "stored", "late"}
    BY DEF PutRecord, UploadFailed, MarkWritten
  <1>4. push[p].at > 0 /\ push[p].device \in Devices
    BY <1>0, <1>3, PushIs DEF PushOK, Sealed, Flying
  <1>5. acct[push[p].device].exists
    BY <1>4 DEF TypeInv, DeviceOK, Absent
  <1>6. /\ acct' \in [Devices -> Account] /\ SameRow(push[p].device)
        /\ \A e \in Devices \ {push[p].device} : acct'[e] = acct[e]
        /\ exposure' \in SUBSET Exposure /\ exposure \subseteq exposure'
    <2>1. CASE MarkWritten(p)
      BY <2>1, MarkIs
    <2>2. CASE PutRecord(p) \/ UploadFailed(p)
      BY <1>0, <2>2 DEF PutRecord, UploadFailed, SameRow, TypeOK
    <2> QED BY <2>1, <2>2
  <1>7. /\ stored' \in SUBSET Pushes /\ stored' \subseteq stored \cup {p}
    BY <1>0 DEF PutRecord, UploadFailed, MarkWritten, TypeOK
  <1>8. UNCHANGED <<day, session, root, top, op, rotate, found, budget, raced, missed>>
    BY DEF PutRecord, UploadFailed, MarkWritten, history
  <1> QED BY <1>1, <1>2, <1>3, <1>4, <1>5, <1>6, <1>7, <1>8

LEMMA RebindIs ==
  ASSUME TypeInv, NEW d \in Devices, Rebind(d)
  PROVE  /\ acct[d].exists /\ ~Open(d)
         /\ acct' \in [Devices -> Account] /\ SameRow(d)
         /\ \A e \in Devices \ {d} : acct'[e] = acct[e]
         /\ session' \in [Devices -> {"locked", "online", "offline"}]
         /\ \A e \in Devices \ {d} : session'[e] = session[e]
         /\ root' \in [Devices -> RootOrNone] /\ root'[d] = acct[d].root
         /\ \A e \in Devices \ {d} : root'[e] = root[e]
         /\ top' \in [Devices -> Index]
  <1>0. TypeOK /\ acct[d].exists /\ acct[d] \in Account /\ ~Open(d)
    BY AccountIs DEF TypeInv, Rebind
  <1> DEFINE a == [acct[d] EXCEPT !.enrolled = FALSE, !.index = 0]
  <1>1. /\ a \in Account /\ a.exists = acct[d].exists /\ a.root = acct[d].root
        /\ a.day = acct[d].day /\ a.slot = acct[d].slot /\ a.pointers = acct[d].pointers
    BY <1>0 DEF Account, Index
  <1>2. acct' = [acct EXCEPT ![d] = a]
    BY <1>0 DEF Rebind, TypeOK
  <1>3. top' \in [Devices -> Index]
    BY <1>0 DEF Rebind, TypeOK, Index
  <1> HIDE DEF a
  <1>4. /\ acct' \in [Devices -> Account] /\ acct'[d] = a
        /\ \A e \in Devices \ {d} : acct'[e] = acct[e]
    BY <1>0, <1>1, <1>2, PutAccount
  <1>5. /\ session' \in [Devices -> {"locked", "online", "offline"}]
        /\ \A e \in Devices \ {d} : session'[e] = session[e]
    BY <1>0, PutSession DEF Rebind
  <1>6. /\ root' \in [Devices -> RootOrNone] /\ root'[d] = acct[d].root
        /\ \A e \in Devices \ {d} : root'[e] = root[e]
    BY <1>0, AccountIs, PutRoot DEF Rebind
  <1> QED BY <1>0, <1>1, <1>3, <1>4, <1>5, <1>6 DEF SameRow

LEMMA AdoptIs ==
  ASSUME TypeInv, NEW d \in Devices, Adopt(d)
  PROVE  LET p == found[d] IN
         /\ Absent(d) /\ p \in Pushes /\ push[p].at > 0
         /\ acct' \in [Devices -> Account]
         /\ \A e \in Devices \ {d} : acct'[e] = acct[e]
         /\ acct'[d].exists /\ acct'[d].root = NoRoot
         /\ acct'[d].day = push[p].day /\ acct'[d].slot = push[p].slot
         /\ op' \in [Devices -> Op] /\ \A e \in Devices \ {d} : op'[e] = op[e]
         /\ op'[d].pc = "wrap" /\ op'[d].root = push[p].root /\ op'[d].root # NoRoot
         /\ exposure' \in SUBSET Exposure /\ exposure \subseteq exposure'
         /\ \A q \in Pushes :
              /\ Before(At(p), push[q])
              /\ push[q].pc = "build" \/ push[q].root = push[p].root
              => "overlooked" \in exposure'
  <1> DEFINE p == found[d]
             over == \E q \in Pushes :
               /\ Before(At(p), push[q])
               /\ push[q].pc = "build" \/ push[q].root = push[p].root
             a == Adopted(p)
             j == [IdleOp EXCEPT !.pc = "wrap", !.root = push[p].root]
  <1>0. TypeOK /\ DeviceOK(d) /\ ~acct[d].exists /\ p # NoPush
    BY DEF TypeInv, Adopt
  <1>1. p \in Pushes /\ Absent(d) /\ push[p].at > 0
    BY <1>0 DEF TypeOK, DeviceOK
  <1>2. push[p].root # NoRoot /\ push[p].root \in RootOrNone
    BY <1>0, <1>1, PushIs DEF TypeInv, PushOK
  <1>3. /\ a \in Account /\ a.exists /\ a.root = NoRoot
        /\ a.day = push[p].day /\ a.slot = push[p].slot
    BY <1>0, <1>1, Nones, PushIs DEF Adopted, Account, FirstAccount, NoAccount, Slot
  <1>4. j \in Op /\ j.pc = "wrap" /\ j.root = push[p].root
    BY <1>2, Nones DEF Op, IdleOp
  <1>5. /\ acct' = [acct EXCEPT ![d] = a] /\ op' = [op EXCEPT ![d] = j]
        /\ Expose(over, "overlooked")
    BY DEF Adopt, At
  <1>6. /\ exposure' \in SUBSET Exposure /\ exposure \subseteq exposure'
        /\ over => "overlooked" \in exposure'
    <2>1. "overlooked" \in Exposure
      BY DEF Exposure
    <2> HIDE DEF over
    <2> QED BY <1>0, <1>5, <2>1, Exposed
  <1>7. \A q \in Pushes :
          /\ Before(At(p), push[q])
          /\ push[q].pc = "build" \/ push[q].root = push[p].root
          => "overlooked" \in exposure'
    BY <1>6
  <1> HIDE DEF j, a, over
  <1> QED BY <1>0, <1>1, <1>2, <1>3, <1>4, <1>5, <1>6, <1>7, PutOp, PutAccount

-----------------------------------------------------------------------------
(* Types, devices and pushes *)

StillBuilt == \A q \in Pushes : push[q].at > 0 => push'[q].at > 0

LEMMA DeviceKept ==
  ASSUME TypeInv, NEW e \in Devices, Unmoved(e), StillBuilt, budget'.ops >= budget.ops,
         TypeOK',
         \A q \in Pushes : push'[q].device = e => push[q].device = e \/ acct[e].exists
  PROVE  DeviceOK(e)'
  <1>1. TypeOK /\ DeviceOK(e)
    BY DEF TypeInv
  <1>2. acct'[e].exists \/ Absent(e)'
    BY <1>1 DEF Unmoved, DeviceOK, Absent
  <1>3. acct'[e].exists => e = First \/ found'[e] # NoPush
    BY <1>1 DEF Unmoved, DeviceOK
  <1>4. \A a \in rotate'[e] : a.exists
    BY <1>1 DEF Unmoved, DeviceOK
  <1>5. found'[e] # NoPush => push'[found'[e]].at > 0
    BY <1>1 DEF Unmoved, DeviceOK, StillBuilt, TypeOK
  <1>6. CallOK(e)'
    <2>1. budget.ops \in Nat /\ budget'.ops \in Nat
      BY <1>1, RestoreAssumption DEF TypeOK
    <2> QED BY <1>1, <2>1 DEF Unmoved, DeviceOK, CallOK
  <1> QED BY <1>2, <1>3, <1>4, <1>5, <1>6 DEF DeviceOK

LEMMA DeviceMoved ==
  ASSUME TypeInv, NEW d \in Devices, acct[d].exists, acct'[d].exists, StillBuilt,
         found' = found, \A a \in rotate'[d] : a.exists, CallOK(d)'
  PROVE  DeviceOK(d)'
  <1>1. TypeOK /\ DeviceOK(d)
    BY DEF TypeInv
  <1>2. found'[d] # NoPush => push'[found'[d]].at > 0
    BY <1>1 DEF DeviceOK, StillBuilt, TypeOK
  <1> QED BY <1>1, <1>2 DEF DeviceOK

LEMMA PushKept ==
  ASSUME TypeInv, NEW q \in Pushes, push'[q] = push[q], q \in stored' => q \in stored,
         day' = day
  PROVE  PushOK(q)'
  <1>1. PushOK(q)
    BY DEF TypeInv
  <1>2. Sealed(q)' => Sealed(q)
    BY DEF Sealed
  <1>3. Flying(q)' <=> Flying(q)
    BY DEF Flying
  <1> QED BY <1>1, <1>2, <1>3 DEF PushOK

LEMMA CallKept ==
  ASSUME TypeInv, NEW d \in Devices, budget' = budget, op' = op
  PROVE  CallOK(d)'
  BY DEF TypeInv, DeviceOK, CallOK

(* A step that leaves every row, session and call alone but for the index  *)
(* and the reservation of one device's row.                                *)
LEMMA RowStep ==
  ASSUME TypeInv, TypeOK', NEW d \in Devices, acct[d].exists, acct'[d].exists, StillBuilt,
         \A e \in Devices \ {d} : acct'[e] = acct[e],
         \A q \in Pushes : push'[q].device \in {push[q].device, d, NoDevice},
         UNCHANGED <<session, root, op, rotate, found, budget>>
  PROVE  \A e \in Devices : DeviceOK(e)'
  <1>1. ASSUME NEW e \in Devices \ {d} PROVE DeviceOK(e)'
    <2>1. Unmoved(e)
      BY DEF Unmoved
    <2>2. budget'.ops >= budget.ops
      BY Budgeted DEF TypeInv
    <2>3. e # NoDevice
      BY RestoreAssumption
    <2> QED BY <2>1, <2>2, <2>3, DeviceKept
  <1>2. DeviceOK(d)'
    <2>1. \A a \in rotate'[d] : a.exists
      BY DEF TypeInv, DeviceOK
    <2> QED BY <2>1, CallKept, DeviceMoved
  <1> QED BY <1>1, <1>2

(* A step of the calls of one device that has an account.                  *)
LEMMA CallStep ==
  ASSUME TypeInv, TypeOK', NEW d \in Devices, acct[d].exists, acct'[d].exists, StillBuilt,
         \A e \in Devices \ {d} : /\ acct'[e] = acct[e] /\ session'[e] = session[e]
                                  /\ root'[e] = root[e] /\ op'[e] = op[e]
                                  /\ rotate'[e] = rotate[e],
         \A q \in Pushes : push'[q].device \in {push[q].device, d, NoDevice},
         \A a \in rotate'[d] : a.exists,
         budget'.ops >= budget.ops, found' = found, CallOK(d)'
  PROVE  \A e \in Devices : DeviceOK(e)'
  <1>1. ASSUME NEW e \in Devices \ {d} PROVE DeviceOK(e)'
    <2>1. Unmoved(e)
      BY DEF Unmoved
    <2>2. e # NoDevice
      BY RestoreAssumption
    <2> QED BY <2>1, <2>2, DeviceKept
  <1>2. DeviceOK(d)'
    BY DeviceMoved
  <1> QED BY <1>1, <1>2

LEMMA PushesKept ==
  ASSUME TypeInv, push' = push, day' = day, stored' \subseteq stored
  PROVE  /\ \A q \in Pushes : PushOK(q)'
         /\ StillBuilt
         /\ \A d, q : q \in Pushes => push'[q].device \in {push[q].device, d, NoDevice}
  BY PushKept DEF StillBuilt

LEMMA LandType ==
  ASSUME TypeInv, NEW d \in Devices, NEW p \in Pushes, NEW force, LandSave(d, p, force),
         UNCHANGED <<day, stored>>
  PROVE  /\ \A q \in Pushes : PushOK(q)'
         /\ StillBuilt
         /\ \A q \in Pushes : push'[q].device \in {push[q].device, d, NoDevice}
  <1>0. TypeOK /\ PushOK(p)
    BY DEF TypeInv
  <1>1. /\ OthersStay(p) /\ push[p] = IdlePush
        /\ \/ push'[p] = UnsentPush
           \/ /\ push'[p].pc = "reserve" /\ push'[p].device = d
              /\ push'[p].day = day /\ push'[p].at = 0
    BY LandIs
  <1>2. \A q \in Pushes \ {p} : PushOK(q)'
    BY <1>1, PushKept DEF OthersStay
  <1>3. p \notin stored
    BY <1>0, <1>1, Nones DEF PushOK, Sealed
  <1>4. PushOK(p)'
    <2>1. day \in Nat /\ d # NoDevice
      BY <1>0, DayIs, RestoreAssumption
    <2>2. CASE push'[p] = UnsentPush
      BY <1>3, <2>1, <2>2, Nones DEF PushOK, Sealed, Flying
    <2>3. CASE /\ push'[p].pc = "reserve" /\ push'[p].device = d
               /\ push'[p].day = day /\ push'[p].at = 0
      BY <1>3, <2>1, <2>3 DEF PushOK, Sealed, Flying
    <2> QED BY <1>1, <2>2, <2>3
  <1>5. StillBuilt /\ \A q \in Pushes : push'[q].device \in {push[q].device, d, NoDevice}
    BY <1>1, Nones DEF StillBuilt, OthersStay
  <1> QED BY <1>2, <1>4, <1>5

LEMMA PushTypes ==
  ASSUME TypeInv, NEW p \in Pushes,
         \/ \E d \in Devices : BeginPush(d, p)
         \/ Reserve(p) \/ Build(p) \/ PutRecord(p) \/ UploadFailed(p) \/ MarkWritten(p)
  PROVE  TypeInv'
  <1>0. TypeOK /\ PushOK(p)
    BY DEF TypeInv
  <1>1. ASSUME NEW d \in Devices, BeginPush(d, p) PROVE TypeInv'
    <2>1. LandSave(d, p, FALSE) /\ UNCHANGED <<day, stored>>
      BY <1>1 DEF BeginPush
    <2>2. raced' \in SUBSET Pushes
      BY <1>0, <1>1 DEF BeginPush, TypeOK, InFlight
    <2>3. TypeOK'
      <3>1. top' \in [Devices -> Index] /\ push' \in [Pushes -> Push]
        BY <2>1, LandIs
      <3> QED BY <1>0, <1>1, <2>2, <3>1 DEF BeginPush, TypeOK
    <2>4. acct[d].exists /\ acct'[d].exists
      BY <1>1, <2>1, LandIs DEF BeginPush
    <2>5. \A e \in Devices : DeviceOK(e)'
      BY <1>1, <2>1, <2>3, <2>4, LandType, RowStep DEF BeginPush
    <2> QED BY <2>1, <2>3, <2>5, LandType DEF TypeInv
  <1>2. CASE Reserve(p)
    <2> DEFINE d == push[p].device
    <2>1. TypeOK'
      BY <1>0, <1>2, ReserveIs DEF Reserve, TypeOK, history
    <2>0. /\ OthersStay(p) /\ SamePlace(p) /\ push[p].pc = "reserve"
          /\ push'[p].pc = "build" /\ push'[p].at = 0 /\ day' = day /\ stored' = stored
      BY <1>2, ReserveIs DEF Reserve
    <2>2. \A q \in Pushes \ {p} : PushOK(q)'
      BY <2>0, PushKept DEF OthersStay
    <2>10. push[p].at = 0 /\ p \notin stored /\ push[p].device # NoDevice
           /\ push[p].day <= day
      BY <1>0, <2>0 DEF PushOK, Sealed, Flying
    <2>3. PushOK(p)'
      BY <2>0, <2>10 DEF PushOK, Sealed, Flying, SamePlace
    <2>4. StillBuilt /\ \A q \in Pushes : push'[q].device = push[q].device
      BY <2>0, <2>10 DEF StillBuilt, OthersStay, SamePlace
    <2>5. d \in Devices /\ acct[d].exists /\ acct'[d].exists
          /\ \A e \in Devices \ {d} : acct'[e] = acct[e]
      BY <1>2, ReserveIs
    <2> HIDE DEF d
    <2>6. \A e \in Devices : DeviceOK(e)'
      BY <1>2, <2>1, <2>4, <2>5, RowStep DEF Reserve
    <2> QED BY <2>1, <2>2, <2>3, <2>6 DEF TypeInv
  <1>3. CASE Build(p)
    <2> DEFINE d == push[p].device
    <2>1. TypeOK'
      BY <1>0, <1>3, BuildIs DEF Build, TypeOK, history
    <2>0. /\ OthersStay(p) /\ push[p].pc = "build" /\ day' = day /\ stored' = stored
          /\ \/ push'[p] = UnsentPush
             \/ /\ SamePlace(p) /\ push'[p].pc = "sent" /\ push'[p].at > 0
                /\ push'[p].root # NoRoot
      BY <1>3, BuildIs DEF Build
    <2>2. \A q \in Pushes \ {p} : PushOK(q)'
      BY <2>0, PushKept DEF OthersStay
    <2>3. push[p].at = 0 /\ p \notin stored /\ push[p].device # NoDevice
          /\ push[p].day <= day
      BY <1>0, <2>0 DEF PushOK, Sealed, Flying
    <2>4. PushOK(p)'
      BY <1>0, <2>0, <2>3, Nones, DayIs DEF PushOK, Sealed, Flying, SamePlace
    <2>5. StillBuilt /\ \A q \in Pushes : push'[q].device \in {push[q].device, d, NoDevice}
      BY <2>0, <2>3, Nones DEF StillBuilt, OthersStay, SamePlace
    <2>6. d \in Devices /\ acct[d].exists /\ acct' = acct
      BY <1>3, BuildIs DEF Build
    <2> HIDE DEF d
    <2>7. \A e \in Devices : DeviceOK(e)'
      BY <1>3, <2>1, <2>5, <2>6, RowStep DEF Build
    <2> QED BY <2>1, <2>2, <2>4, <2>7 DEF TypeInv
  <1>4. ASSUME PutRecord(p) \/ UploadFailed(p) \/ MarkWritten(p) PROVE TypeInv'
    <2> DEFINE d == push[p].device
    <2>1. /\ push' \in [Pushes -> Push] /\ OthersStay(p) /\ SamePlace(p)
          /\ push'[p].at = push[p].at /\ push'[p].root = push[p].root
          /\ push[p].pc \in {"sent", "stored", "late"}
          /\ push'[p].pc \in {"stored", "late", "done"} /\ push[p].at > 0
      BY <1>4, ReplyIs
    <2>2. d \in Devices /\ acct[d].exists /\ acct'[d].exists
          /\ \A e \in Devices \ {d} : acct'[e] = acct[e]
      BY <1>4, ReplyIs DEF SameRow
    <2>3. /\ acct' \in [Devices -> Account] /\ exposure' \in SUBSET Exposure
          /\ stored' \in SUBSET Pushes /\ stored' \subseteq stored \cup {p}
          /\ UNCHANGED <<day, session, root, top, op, rotate, found, budget, raced, missed>>
      BY <1>4, ReplyIs
    <2>4. TypeOK'
      BY <1>0, <2>1, <2>3 DEF TypeOK
    <2>5. \A q \in Pushes \ {p} : PushOK(q)'
      BY <2>1, <2>3, PushKept DEF OthersStay
    <2>6. PushOK(p)'
      BY <1>0, <2>1, <2>3 DEF PushOK, Sealed, Flying, SamePlace
    <2>7. StillBuilt /\ \A q \in Pushes : push'[q].device = push[q].device
      BY <2>1 DEF StillBuilt, OthersStay, SamePlace
    <2> HIDE DEF d
    <2>8. \A e \in Devices : DeviceOK(e)'
      BY <2>2, <2>3, <2>4, <2>7, RowStep
    <2> QED BY <2>4, <2>5, <2>6, <2>8 DEF TypeInv
  <1> QED BY <1>1, <1>2, <1>3, <1>4

LEMMA ChangeTypes ==
  ASSUME TypeInv, NEW d \in Devices,
         \/ \E r \in Roots : BeginInstall(d, r)
         \/ BeginDisable(d) \/ PurgeOne(d) \/ ClearRoot(d) \/ WrapRoot(d)
         \/ AssignRoot(d) \/ PublishFailed(d) \/ ForgetRoot(d)
         \/ \E p \in Pushes : Publish(d, p)
  PROVE  TypeInv'
  <1>0. TypeOK /\ CallOK(d) /\ \A a \in rotate[d] : a.exists
    BY DEF TypeInv, DeviceOK
  <1>1. ASSUME NEW r \in Roots, BeginInstall(d, r) PROVE TypeInv'
    <2>1. raced' \in SUBSET Pushes
      BY <1>0, <1>1 DEF BeginInstall, TypeOK, InFlight
    <2>2. budget'.ops > 0 /\ budget'.ops >= budget.ops
          /\ budget' \in [ops : 0 .. MaxOps, events : 0 .. MaxEvents]
      BY <1>0, <1>1, Budgeted DEF BeginInstall
    <2>3. TypeOK'
      BY <1>0, <1>1, <2>1, <2>2, InstallIs DEF BeginInstall, TypeOK
    <2>4. CallOK(d)'
      <3>1. /\ op'[d].pc \in {"wrap", "clear", "purge"} /\ op'[d].root = r
            /\ op'[d].pc = "purge" => op'[d].old # NoRoot
        BY <1>1, InstallIs
      <3>2. r # NoRoot
        BY Nones
      <3> QED BY <2>2, <3>1, <3>2 DEF CallOK
    <2>5. push' = push /\ day' = day /\ stored' = stored
      BY <1>1 DEF BeginInstall
    <2>6. \A e \in Devices : DeviceOK(e)'
      BY <1>0, <1>1, <2>2, <2>3, <2>4, <2>5, InstallIs, PushesKept, CallStep
      DEF BeginInstall
    <2> QED BY <2>3, <2>5, <2>6, PushesKept DEF TypeInv
  <1>2. CASE BeginDisable(d)
    <2>1. raced' \in SUBSET Pushes
      BY <1>0, <1>2 DEF BeginDisable, TypeOK, InFlight
    <2>2. budget'.ops > 0 /\ budget'.ops >= budget.ops
          /\ budget' \in [ops : 0 .. MaxOps, events : 0 .. MaxEvents]
      BY <1>0, <1>2, Budgeted DEF BeginDisable
    <2>3. TypeOK'
      BY <1>0, <1>2, <2>1, <2>2, DisableIs DEF BeginDisable, TypeOK
    <2>4. CallOK(d)'
      BY <1>2, <2>2, DisableIs DEF CallOK
    <2>5. push' = push /\ day' = day /\ stored' = stored
      BY <1>2 DEF BeginDisable
    <2>6. \A e \in Devices : DeviceOK(e)'
      <3>1. /\ acct[d].exists /\ \A e \in Devices \ {d} : op'[e] = op[e]
            /\ UNCHANGED <<session, root, acct, rotate, found>>
        BY <1>2, DisableIs DEF BeginDisable
      <3>2. StillBuilt /\ \A q \in Pushes : push'[q].device \in {push[q].device, d, NoDevice}
        BY <2>5, PushesKept
      <3> QED BY <1>0, <2>2, <2>3, <2>4, <3>1, <3>2, CallStep
    <2> QED BY <2>3, <2>5, <2>6, PushesKept DEF TypeInv
  <1>3. CASE PurgeOne(d)
    <2>1. missed' \in SUBSET Address /\ stored' \subseteq stored
      <3>1. stored' \subseteq stored
        BY <1>3 DEF PurgeOne
      <3>2. \E a \in Address : missed' = missed \/ missed' = missed \cup {a}
        BY <1>3, PurgeOneIs
      <3> QED BY <1>0, <3>1, <3>2 DEF TypeOK
    <2>2. TypeOK'
      BY <1>0, <1>3, <2>1, PurgeOneIs DEF PurgeOne, TypeOK
    <2>3. CallOK(d)'
      BY <1>0, <1>3, PurgeOneIs DEF CallOK, PurgeOne
    <2>4. push' = push /\ day' = day
      BY <1>3 DEF PurgeOne
    <2>5. \A e \in Devices : DeviceOK(e)'
      <3>1. /\ acct[d].exists /\ \A e \in Devices \ {d} : op'[e] = op[e]
            /\ UNCHANGED <<session, root, acct, rotate, found, budget>>
        BY <1>3, PurgeOneIs DEF PurgeOne
      <3>2. StillBuilt /\ budget'.ops >= budget.ops
        BY <1>0, <2>4, <3>1, Budgeted DEF StillBuilt
      <3> QED BY <1>0, <2>2, <2>3, <2>4, <3>1, <3>2, CallStep
    <2> QED BY <2>1, <2>2, <2>4, <2>5, PushesKept DEF TypeInv
  <1>4. CASE ClearRoot(d) \/ WrapRoot(d)
    <2>1. /\ acct[d].exists /\ acct'[d].exists /\ acct' \in [Devices -> Account]
          /\ \A e \in Devices \ {d} : acct'[e] = acct[e] /\ op'[e] = op[e]
          /\ op' \in [Devices -> Op]
          /\ exposure' \in SUBSET Exposure
      <3>1. CASE ClearRoot(d)
        <4>1. exposure' \in SUBSET Exposure
          BY <1>0, <3>1 DEF ClearRoot, TypeOK
        <4> QED BY <3>1, <4>1, ClearIs
      <3>2. CASE WrapRoot(d)
        <4>1. acct \in [Devices -> Account]
          BY <1>0 DEF TypeOK
        <4> QED BY <3>2, <4>1, WrapIs
      <3> QED BY <1>4, <3>1, <3>2
    <2>2. /\ UNCHANGED <<day, session, root, top, push, rotate, found, stored, budget,
                         raced, missed>>
      BY <1>4 DEF ClearRoot, WrapRoot, history
    <2>3. TypeOK'
      BY <1>0, <2>1, <2>2 DEF TypeOK
    <2>4. CallOK(d)'
      BY <1>0, <1>4, <2>2, ClearIs, WrapIs, Nones DEF CallOK
    <2>5. \A e \in Devices : DeviceOK(e)'
      BY <1>0, <2>1, <2>2, <2>3, <2>4, PushesKept, CallStep, Budgeted
    <2> QED BY <2>2, <2>3, <2>5, PushesKept DEF TypeInv
  <1>5. CASE AssignRoot(d) \/ PublishFailed(d) \/ ForgetRoot(d)
    <2>1. /\ acct[d].exists /\ acct' = acct /\ op' \in [Devices -> Op]
          /\ root' \in [Devices -> RootOrNone]
          /\ \A e \in Devices \ {d} : op'[e] = op[e] /\ root'[e] = root[e]
          /\ op'[d] = IdleOp \/ (op'[d].pc = "publish" /\ op'[d].root # NoRoot)
      <3>1. CASE AssignRoot(d)
        BY <3>1, AssignIs DEF AssignRoot
      <3>2. CASE PublishFailed(d)
        BY <1>0, <3>2, EndOpIs DEF PublishFailed, TypeOK
      <3>3. CASE ForgetRoot(d)
        BY <1>0, <3>3, EndOpIs, PutRoot, Nones DEF ForgetRoot
      <3> QED BY <1>5, <3>1, <3>2, <3>3
    <2>2. /\ UNCHANGED <<day, session, top, push, rotate, found, stored, budget,
                         raced, missed, exposure>>
      BY <1>5 DEF AssignRoot, PublishFailed, ForgetRoot, history
    <2>3. TypeOK'
      BY <1>0, <2>1, <2>2 DEF TypeOK
    <2>4. CallOK(d)'
      BY <2>1, Nones DEF CallOK
    <2>5. \A e \in Devices : DeviceOK(e)'
      BY <1>0, <2>1, <2>2, <2>3, <2>4, PushesKept, CallStep, Budgeted
    <2> QED BY <2>2, <2>3, <2>5, PushesKept DEF TypeInv
  <1>6. ASSUME NEW p \in Pushes, Publish(d, p) PROVE TypeInv'
    <2>1. LandSave(d, p, TRUE)
          /\ UNCHANGED <<day, session, root, acct, rotate, found, stored, budget, raced,
                         missed, exposure>>
      BY <1>6 DEF Publish, history
    <2>2. TypeOK'
      BY <1>0, <1>6, <2>1, LandIs, PublishIs DEF TypeOK
    <2>3. CallOK(d)'
      BY <1>6, PublishIs DEF CallOK
    <2>4. \A e \in Devices : DeviceOK(e)'
      <3>1. /\ acct[d].exists /\ \A e \in Devices \ {d} : op'[e] = op[e]
        BY <1>6, PublishIs
      <3>2. /\ StillBuilt
            /\ \A q \in Pushes : push'[q].device \in {push[q].device, d, NoDevice}
        BY <2>1, LandType
      <3>3. budget'.ops >= budget.ops
        BY <1>0, <2>1, Budgeted
      <3> QED BY <1>0, <2>1, <2>2, <2>3, <3>1, <3>2, <3>3, CallStep
    <2> QED BY <2>1, <2>2, <2>4, LandType DEF TypeInv
  <1> QED BY <1>1, <1>2, <1>3, <1>4, <1>5, <1>6

LEMMA DiscoverIs ==
  ASSUME TypeInv, NEW d \in Devices, NEW r \in Roots, Discover(d, r)
  PROVE  /\ ~acct[d].exists
         /\ found' \in [Devices -> Pushes \cup {NoPush}]
         /\ \A e \in Devices \ {d} : found'[e] = found[e]
         /\ found[d] = NoPush
         /\ found'[d] \in stored
  <1>0. TypeOK
    BY DEF TypeInv
  <1>1. PICK e \in HitDays(r), n \in 1 .. ScanSlots :
          \E q \in {x \in DayPrefix(r, e) : push[x].slot < n} :
            found' = [found EXCEPT ![d] = q]
    BY DEF Discover
  <1>2. PICK q \in stored : found' = [found EXCEPT ![d] = q]
    BY <1>1 DEF DayPrefix
  <1> QED BY <1>0, <1>2 DEF TypeOK, Discover

LEMMA SessionTypes ==
  ASSUME TypeInv, NEW d \in Devices,
         \/ OpenVault(d) \/ Lock(d) \/ Reload(d) \/ BeginRotate(d) \/ CommitRotate(d)
         \/ Rebind(d) \/ Adopt(d)
         \/ \E r \in Roots : Discover(d, r)
  PROVE  TypeInv'
  <1>0. TypeOK /\ CallOK(d) /\ \A a \in rotate[d] : a.exists
    BY DEF TypeInv, DeviceOK
  <1>1. CASE OpenVault(d)
    <2>1. /\ session' \in [Devices -> {"locked", "online", "offline"}]
          /\ \A e \in Devices \ {d} : session'[e] = session[e]
      BY <1>0, <1>1, PutSession DEF OpenVault
    <2>2. /\ root' \in [Devices -> RootOrNone]
          /\ \A e \in Devices \ {d} : root'[e] = root[e]
      BY <1>0, <1>1, PutRoot, AccountIs DEF OpenVault
    <2>3. /\ acct[d].exists
          /\ UNCHANGED <<day, acct, top, push, op, rotate, found, stored, budget,
                         raced, missed, exposure>>
      BY <1>1 DEF OpenVault, history
    <2>4. TypeOK'
      BY <1>0, <2>1, <2>2, <2>3 DEF TypeOK
    <2>5. CallOK(d)'
      BY <2>3, CallKept
    <2>6. budget'.ops >= budget.ops
      BY <1>0, <2>3, Budgeted
    <2>7. \A e \in Devices : DeviceOK(e)'
      BY <1>0, <2>1, <2>2, <2>3, <2>4, <2>5, <2>6, PushesKept, CallStep
    <2> QED BY <2>3, <2>4, <2>7, PushesKept DEF TypeInv
  <1>2. CASE Lock(d)
    <2>1. /\ session' \in [Devices -> {"locked", "online", "offline"}]
          /\ \A e \in Devices \ {d} : session'[e] = session[e]
      BY <1>0, <1>2, PutSession DEF Lock
    <2>2. /\ root' \in [Devices -> RootOrNone]
          /\ \A e \in Devices \ {d} : root'[e] = root[e]
      BY <1>0, <1>2, PutRoot, Nones DEF Lock
    <2>3. /\ budget' \in [ops : 0 .. MaxOps, events : 0 .. MaxEvents]
          /\ budget'.ops = budget.ops /\ budget'.ops >= budget.ops
      BY <1>0, <1>2, Budgeted DEF Lock
    <2>4. /\ acct[d].exists
          /\ op' \in [Devices -> Op] /\ \A e \in Devices \ {d} : op'[e] = op[e]
          /\ UNCHANGED <<day, acct, top, push, rotate, found, stored,
                         raced, missed, exposure>>
      BY <1>2, LockIs DEF Lock, history
    <2>5. TypeOK'
      BY <1>0, <2>1, <2>2, <2>3, <2>4 DEF TypeOK
    <2>6. CallOK(d)'
      BY <1>0, <1>2, <2>3, LockIs DEF CallOK
    <2>7. \A e \in Devices : DeviceOK(e)'
      BY <1>0, <2>1, <2>2, <2>3, <2>4, <2>5, <2>6, PushesKept, CallStep
    <2> QED BY <2>4, <2>5, <2>7, PushesKept DEF TypeInv
  <1>3. CASE Reload(d)
    <2>1. /\ session' \in [Devices -> {"locked", "online", "offline"}]
          /\ \A e \in Devices \ {d} : session'[e] = session[e]
      BY <1>0, <1>3, PutSession DEF Reload
    <2>2. /\ root' \in [Devices -> RootOrNone]
          /\ \A e \in Devices \ {d} : root'[e] = root[e]
      BY <1>0, <1>3, PutRoot, Nones DEF Reload
    <2>3. /\ budget' \in [ops : 0 .. MaxOps, events : 0 .. MaxEvents]
          /\ budget'.ops = budget.ops /\ budget'.ops >= budget.ops
      <3>1. Event("reload")
        BY <1>3 DEF Reload
      <3> QED BY <1>0, <3>1, Budgeted
    <2>4. /\ rotate' \in [Devices -> SUBSET Account] /\ rotate'[d] = {}
          /\ \A e \in Devices \ {d} : rotate'[e] = rotate[e]
      BY <1>0, <1>3 DEF Reload, TypeOK
    <2>5. UNCHANGED <<day, acct, top, found, stored, raced, missed>>
      BY <1>3 DEF Reload, history
    <2>6. /\ acct[d].exists
          /\ op' \in [Devices -> Op] /\ \A e \in Devices \ {d} : op'[e] = op[e]
          /\ op'[d] = IdleOp /\ push' \in [Pushes -> Push]
          /\ exposure' \in SUBSET Exposure
      BY <1>3, ReloadIs
    <2>7. TypeOK'
      BY <1>0, <2>1, <2>2, <2>3, <2>4, <2>5, <2>6 DEF TypeOK
    <2>8. CallOK(d)'
      BY <2>6, Nones DEF CallOK
    <2>9. ASSUME NEW q \in Pushes
          PROVE  PushOK(q)' /\ push'[q].device = push[q].device
                 /\ push'[q].at = push[q].at
      <3>1. \/ push'[q] = push[q]
            \/ /\ SamePlace(q) /\ push'[q].at = push[q].at /\ push'[q].root = push[q].root
               /\ \/ push'[q].pc = "late" /\ push[q].pc \in {"sent", "late"}
                  \/ push'[q].pc = "done" /\ push[q].pc \in {"reserve", "build", "stored"}
        BY <1>3, ReloadIs
      <3>2. CASE push'[q] = push[q]
        BY <2>5, <3>2, PushKept
      <3>3. CASE /\ SamePlace(q) /\ push'[q].at = push[q].at /\ push'[q].root = push[q].root
                 /\ \/ push'[q].pc = "late" /\ push[q].pc \in {"sent", "late"}
                    \/ push'[q].pc = "done" /\ push[q].pc \in {"reserve", "build", "stored"}
        <4>1. PushOK(q)
          BY DEF TypeInv
        <4>2. (Sealed(q)' => Sealed(q)) /\ (Flying(q)' => Flying(q))
          BY <2>5, <3>3 DEF Sealed, Flying
        <4> QED BY <2>5, <3>3, <4>1, <4>2 DEF PushOK, SamePlace
      <3> QED BY <3>1, <3>2, <3>3
    <2>10. StillBuilt /\ \A q \in Pushes : push'[q].device \in {push[q].device, d, NoDevice}
      BY <2>9 DEF StillBuilt
    <2>11. \A e \in Devices : DeviceOK(e)'
      BY <2>1, <2>2, <2>3, <2>4, <2>5, <2>6, <2>7, <2>8, <2>10, CallStep
    <2> QED BY <2>7, <2>9, <2>11 DEF TypeInv
  <1>4. CASE BeginRotate(d) \/ CommitRotate(d)
    <2>1. /\ acct[d].exists /\ acct'[d].exists
          /\ acct' \in [Devices -> Account] /\ \A e \in Devices \ {d} : acct'[e] = acct[e]
          /\ rotate' \in [Devices -> SUBSET Account]
          /\ \A e \in Devices \ {d} : rotate'[e] = rotate[e]
          /\ \A a \in rotate'[d] : a.exists
          /\ exposure' \in SUBSET Exposure
      <3>1. CASE BeginRotate(d)
        <4>1. /\ acct[d].exists /\ acct[d] \in Account /\ acct' = acct
              /\ exposure' = exposure
              /\ rotate' = [rotate EXCEPT ![d] = {acct[d]}]
          BY <1>0, <3>1, AccountIs DEF BeginRotate
        <4> QED BY <1>0, <4>1 DEF TypeOK
      <3>2. CASE CommitRotate(d)
        BY <3>2, RotateIs
      <3> QED BY <1>4, <3>1, <3>2
    <2>2. /\ budget' \in [ops : 0 .. MaxOps, events : 0 .. MaxEvents]
          /\ budget'.ops = budget.ops /\ budget'.ops >= budget.ops
      <3>1. CASE BeginRotate(d)
        BY <1>0, <3>1, Budgeted DEF BeginRotate
      <3>2. CASE CommitRotate(d)
        BY <1>0, <3>2, Budgeted DEF CommitRotate, TypeOK
      <3> QED BY <1>4, <3>1, <3>2
    <2>3. UNCHANGED <<day, session, root, top, push, op, found, stored, raced, missed>>
      BY <1>4 DEF BeginRotate, CommitRotate, history
    <2>4. TypeOK'
      BY <1>0, <2>1, <2>2, <2>3 DEF TypeOK
    <2>5. CallOK(d)'
      BY <1>0, <2>2, <2>3 DEF CallOK
    <2>6. \A e \in Devices : DeviceOK(e)'
      BY <1>0, <2>1, <2>2, <2>3, <2>4, <2>5, PushesKept, CallStep
    <2> QED BY <2>3, <2>4, <2>6, PushesKept DEF TypeInv
  <1>5. CASE Rebind(d)
    <2>1. UNCHANGED <<day, push, op, rotate, found, stored, budget, raced, missed, exposure>>
      BY <1>5 DEF Rebind, history
    <2>2. acct[d].exists /\ acct'[d].exists
      BY <1>5, RebindIs DEF SameRow
    <2>3. TypeOK'
      BY <1>0, <1>5, <2>1, RebindIs DEF TypeOK
    <2>4. CallOK(d)' /\ budget'.ops >= budget.ops
      BY <1>0, <2>1, CallKept, Budgeted
    <2>5. /\ StillBuilt
          /\ \A q \in Pushes : PushOK(q)' /\ push'[q].device \in {push[q].device, d, NoDevice}
      BY <2>1, PushesKept
    <2>6. \A e \in Devices \ {d} : /\ acct'[e] = acct[e] /\ session'[e] = session[e]
                                   /\ root'[e] = root[e] /\ op'[e] = op[e]
                                   /\ rotate'[e] = rotate[e]
      BY <1>5, <2>1, RebindIs
    <2>7. \A e \in Devices : DeviceOK(e)'
      BY <1>0, <2>1, <2>2, <2>3, <2>4, <2>5, <2>6, CallStep
    <2> QED BY <2>3, <2>5, <2>7 DEF TypeInv
  <1>6. CASE Adopt(d)
    <2>1. UNCHANGED <<day, root, top, push, rotate, found, stored, budget, raced, missed>>
      BY <1>6 DEF Adopt, history
    <2>2. /\ session' \in [Devices -> {"locked", "online", "offline"}]
          /\ \A e \in Devices \ {d} : session'[e] = session[e]
      BY <1>0, <1>6, PutSession DEF Adopt
    <2>3. /\ acct' \in [Devices -> Account] /\ acct'[d].exists
          /\ op' \in [Devices -> Op] /\ op'[d].pc = "wrap" /\ op'[d].root # NoRoot
          /\ exposure' \in SUBSET Exposure /\ found[d] # NoPush /\ rotate[d] = {}
          /\ \A e \in Devices \ {d} : acct'[e] = acct[e] /\ op'[e] = op[e]
      BY <1>6, AdoptIs, RestoreAssumption DEF Absent
    <2>4. TypeOK'
      BY <1>0, <2>1, <2>2, <2>3 DEF TypeOK
    <2>5. StillBuilt /\ (\A q \in Pushes : PushOK(q)') /\ budget'.ops >= budget.ops
      BY <1>0, <2>1, PushesKept, Budgeted
    <2>6. ASSUME NEW e \in Devices \ {d} PROVE DeviceOK(e)'
      BY <2>1, <2>2, <2>3, <2>4, <2>5, DeviceKept DEF Unmoved
    <2>7. DeviceOK(d)'
      <3>1. CallOK(d)'
        BY <2>3 DEF CallOK
      <3>2. push[found[d]].at > 0
        BY <2>3 DEF TypeInv, DeviceOK
      <3> QED BY <2>1, <2>3, <3>1, <3>2 DEF DeviceOK
    <2> QED BY <2>4, <2>5, <2>6, <2>7 DEF TypeInv
  <1>7. ASSUME NEW r \in Roots, Discover(d, r) PROVE TypeInv'
    <2>1. UNCHANGED <<day, session, root, acct, top, push, op, rotate, stored, budget,
                      raced, missed, exposure>>
      BY <1>7 DEF Discover, history
    <2>2. /\ ~acct[d].exists /\ found' \in [Devices -> Pushes \cup {NoPush}]
          /\ found'[d] \in stored
          /\ \A e \in Devices \ {d} : found'[e] = found[e]
      BY <1>7, DiscoverIs
    <2>3. TypeOK'
      BY <1>0, <2>1, <2>2 DEF TypeOK
    <2>4. StillBuilt /\ (\A q \in Pushes : PushOK(q)') /\ budget'.ops >= budget.ops
      BY <1>0, <2>1, PushesKept, Budgeted
    <2>5. ASSUME NEW e \in Devices \ {d} PROVE DeviceOK(e)'
      BY <2>1, <2>2, <2>3, <2>4, DeviceKept DEF Unmoved
    <2>6. DeviceOK(d)'
      <3>1. CallOK(d)'
        BY <2>1, CallKept
      <3>2. Absent(d)' /\ rotate'[d] = {}
        BY <2>1, <2>2 DEF TypeInv, DeviceOK, Absent
      <3>3. push[found'[d]].at > 0
        BY <1>0, <2>2 DEF TypeInv, PushOK, Sealed, TypeOK
      <3> QED BY <2>1, <2>2, <3>1, <3>2, <3>3 DEF DeviceOK
    <2> QED BY <2>3, <2>4, <2>5, <2>6 DEF TypeInv
  <1> QED BY <1>1, <1>2, <1>3, <1>4, <1>5, <1>6, <1>7

LEMMA NextDayType ==
  ASSUME TypeInv, NextDay
  PROVE  TypeInv' /\ day' = day + 1 /\ day' \in Nat
         /\ UNCHANGED <<session, root, acct, top, push, op, rotate, found, stored,
                        raced, missed, exposure>>
         /\ budget'.ops = budget.ops
  <1>0. TypeOK
    BY DEF TypeInv
  <1>1. /\ UNCHANGED <<session, root, acct, top, push, op, rotate, found, stored,
                       raced, missed, exposure>>
        /\ day' = day + 1 /\ day' \in Day /\ day' \in Nat
    BY <1>0, RestoreAssumption DEF NextDay, history, TypeOK, Day
  <1>2. /\ budget' \in [ops : 0 .. MaxOps, events : 0 .. MaxEvents]
        /\ budget'.ops = budget.ops /\ budget'.ops >= budget.ops
    BY <1>0, Budgeted DEF NextDay
  <1>3. TypeOK'
    BY <1>0, <1>1, <1>2 DEF TypeOK
  <1>4. ASSUME NEW e \in Devices PROVE DeviceOK(e)'
    <2>1. Unmoved(e) /\ StillBuilt
      BY <1>1 DEF Unmoved, StillBuilt
    <2> QED BY <1>1, <1>2, <1>3, <2>1, DeviceKept
  <1>5. ASSUME NEW q \in Pushes PROVE PushOK(q)'
    <2>1. PushOK(q)
      BY DEF TypeInv
    <2>2. (Sealed(q)' <=> Sealed(q)) /\ (Flying(q)' <=> Flying(q)) /\ push'[q] = push[q]
      BY <1>1 DEF Sealed, Flying
    <2>3. push[q].day \in Nat /\ day \in Nat
      BY <1>0, PushIs, DayIs
    <2> QED BY <1>1, <2>1, <2>2, <2>3 DEF PushOK
  <1> QED BY <1>1, <1>2, <1>3, <1>4, <1>5 DEF TypeInv

LEMMA StutterType ==
  ASSUME TypeInv, UNCHANGED vars
  PROVE  TypeInv'
  <1>0. TypeOK
    BY DEF TypeInv
  <1>1. TypeOK' /\ push' = push /\ day' = day /\ stored' = stored
    BY <1>0 DEF TypeOK, vars
  <1>2. ASSUME NEW e \in Devices PROVE DeviceOK(e)'
    <2>1. Unmoved(e) /\ StillBuilt /\ budget'.ops >= budget.ops
      BY <1>0, Budgeted DEF Unmoved, StillBuilt, vars
    <2> QED BY <1>1, <2>1, DeviceKept
  <1> QED BY <1>1, <1>2, PushesKept DEF TypeInv

LEMMA TypeNext ==
  ASSUME TypeInv, [Next]_vars
  PROVE  TypeInv'
  BY PushTypes, ChangeTypes, SessionTypes, NextDayType, StutterType DEF Next

LEMMA TypeInit ==
  ASSUME Init
  PROVE  TypeInv
  <1>1. PICK r \in StartRoots :
          acct = [d \in Devices |-> IF d = First THEN [FirstAccount EXCEPT !.root = r]
                                                 ELSE NoAccount]
    BY DEF Init
  <1>2. /\ [FirstAccount EXCEPT !.root = r] \in Account
        /\ [FirstAccount EXCEPT !.root = r].exists
    BY Nones, RestoreAssumption DEF Account, FirstAccount, NoAccount, RootOrNone
  <1>3. TypeOK
    <2>1. budget \in [ops : 0 .. MaxOps, events : 0 .. MaxEvents] /\ day \in Day
      BY RestoreAssumption DEF Init, Day
    <2> QED BY <1>1, <1>2, <2>1, Nones DEF Init, TypeOK, Index
  <1>4. ASSUME NEW q \in Pushes PROVE PushOK(q)
    <2>1. push[q] = IdlePush /\ q \notin stored /\ day = 0
      BY DEF Init
    <2> QED BY <2>1, Nones DEF PushOK, Sealed, Flying
  <1>5. ASSUME NEW d \in Devices PROVE DeviceOK(d)
    <2>1. /\ session[d] = "locked" /\ root[d] = NoRoot /\ op[d] = IdleOp
          /\ rotate[d] = {} /\ found[d] = NoPush
          /\ \A q \in Pushes : push[q].device # d
      BY Nones, RestoreAssumption DEF Init
    <2>2. acct[d].exists => d = First
      BY <1>1, Nones
    <2>3. ~acct[d].exists => acct[d] = NoAccount
      BY <1>1, <1>2
    <2>4. CallOK(d)
      BY <2>1, Nones DEF CallOK
    <2> QED BY <2>1, <2>2, <2>3, <2>4 DEF DeviceOK, Absent
  <1> QED BY <1>3, <1>4, <1>5 DEF TypeInv

(* Every reachable state is well typed: whatever the devices, pushes and   *)
(* roots, a device without an account has nothing running, and a record on *)
(* the server was built by a device under a root.                          *)
THEOREM TypeCorrect == Spec => []TypeOK
  <1>1. Init => TypeInv
    BY TypeInit
  <1>2. TypeInv /\ [Next]_vars => TypeInv'
    BY TypeNext
  <1>3. TypeInv => TypeOK
    BY DEF TypeInv
  <1> QED BY <1>1, <1>2, <1>3, PTL DEF Spec

-----------------------------------------------------------------------------
(* A change of root waits for no push, and races those it meets. *)

(* What flies did so before, and its device's call stands as it did.       *)
LEMMA FlightKept ==
  ASSUME TypeInv, FlightOK, raced \subseteq raced',
         \A q \in Pushes : Flying(q)' /\ q \notin raced' =>
           \/ /\ Flying(q) /\ push'[q].device = push[q].device
              /\ op'[push[q].device].pc \in {op[push[q].device].pc, "idle", "await"}
           \/ op'[push'[q].device].pc \in {"idle", "await"}
  PROVE  FlightOK'
  BY DEF FlightOK

LEMMA LandPlace ==
  ASSUME TypeInv, NEW d \in Devices, NEW p \in Pushes, NEW force, LandSave(d, p, force)
  PROVE  OthersStay(p) /\ (push'[p] = UnsentPush \/ push'[p].device = d)
  <1>1. OthersStay(p)
    BY LandIs
  <1>2. push'[p] = UnsentPush \/ push'[p].device = d
    BY LandIs
  <1> QED BY <1>1, <1>2

LEMMA FlightNext ==
  ASSUME TypeInv, FlightOK, [Next]_vars
  PROVE  FlightOK'
  <1> USE DEF Flying
  <1>0. TypeOK /\ TypeInv'
    BY TypeNext DEF TypeInv
  <1>1. ASSUME UNCHANGED <<push, op, raced>> PROVE FlightOK'
    BY <1>1 DEF FlightOK
  <1>2. ASSUME NEW d \in Devices, NEW p \in Pushes, BeginPush(d, p) PROVE FlightOK'
    <2>1. OthersStay(p) /\ (push'[p] = UnsentPush \/ push'[p].device = d)
      <3>1. LandSave(d, p, FALSE)
        BY <1>2 DEF BeginPush
      <3> QED BY <3>1, LandPlace
    <2>2. op' = op /\ raced \subseteq raced'
      BY <1>2 DEF BeginPush
    <2>3. ASSUME push'[p].device = d, Flying(p)', p \notin raced'
          PROVE  op[d].pc \in {"idle", "await"}
      <3>1. Quiet(d) \/ p \in raced'
        <4>1. p \in InFlight(d)'
          BY <2>3 DEF InFlight
        <4> QED BY <1>2, <4>1 DEF BeginPush
      <3> QED BY <2>3, <3>1, QuietIs
    <2> QED BY <2>1, <2>2, <2>3, Nones, FlightKept DEF OthersStay
  <1>3. ASSUME NEW d \in Devices, NEW p \in Pushes, Publish(d, p) PROVE FlightOK'
    <2>1. OthersStay(p) /\ (push'[p] = UnsentPush \/ push'[p].device = d)
      <3>1. LandSave(d, p, TRUE)
        BY <1>3 DEF Publish
      <3> QED BY <3>1, LandPlace
    <2>2. /\ op'[d].pc = "await" /\ raced' = raced
          /\ \A e \in Devices \ {d} : op'[e] = op[e]
      BY <1>3, PublishIs DEF Publish, history
    <2>3. ASSUME NEW q \in Pushes \ {p}, Flying(q)', q \notin raced'
          PROVE  /\ Flying(q) /\ push'[q].device = push[q].device
                 /\ op'[push[q].device].pc \in {op[push[q].device].pc, "idle", "await"}
      <3>1. push'[q] = push[q]
        BY <2>1 DEF OthersStay
      <3>2. push[q].device \in Devices
        BY <1>0, <2>3, <3>1, PushIs DEF TypeInv, PushOK
      <3> QED BY <2>2, <2>3, <3>1, <3>2
    <2> QED BY <2>1, <2>2, <2>3, Nones, FlightKept
  <1>4. ASSUME NEW p \in Pushes,
               Reserve(p) \/ Build(p) \/ PutRecord(p) \/ UploadFailed(p) \/ MarkWritten(p)
        PROVE  FlightOK'
    <2>1. op' = op /\ raced' = raced
      BY <1>4 DEF Reserve, Build, PutRecord, UploadFailed, MarkWritten, history
    <2>2. /\ OthersStay(p) /\ Flying(p)
          /\ push'[p] = UnsentPush \/ SamePlace(p)
      <3>1. CASE Reserve(p)
        BY <3>1, ReserveIs
      <3>2. CASE Build(p)
        BY <3>2, BuildIs
      <3>3. CASE PutRecord(p) \/ UploadFailed(p) \/ MarkWritten(p)
        BY <3>3, ReplyIs
      <3> QED BY <1>4, <3>1, <3>2, <3>3
    <2> QED BY <2>1, <2>2, Nones, FlightKept DEF OthersStay, SamePlace
  <1>5. ASSUME NEW d \in Devices,
               (\E r \in Roots : BeginInstall(d, r)) \/ BeginDisable(d)
        PROVE  FlightOK'
    <2>1. /\ push' = push /\ raced' = raced \cup InFlight(d)
          /\ \A e \in Devices \ {d} : op'[e] = op[e]
      BY <1>5, InstallIs, DisableIs DEF BeginInstall, BeginDisable
    <2>2. ASSUME NEW q \in Pushes, Flying(q), q \notin raced'
          PROVE  op'[push[q].device] = op[push[q].device]
      <3>1. push[q].device # d
        BY <2>1, <2>2 DEF InFlight
      <3>2. push[q].device \in Devices
        BY <1>0, <2>2, PushIs DEF TypeInv, PushOK
      <3> QED BY <2>1, <3>1, <3>2
    <2> QED BY <2>1, <2>2, FlightKept
  <1>6. ASSUME NEW d \in Devices,
               \/ PurgeOne(d) \/ ClearRoot(d) \/ WrapRoot(d) \/ AssignRoot(d)
               \/ PublishFailed(d) \/ ForgetRoot(d) \/ Lock(d)
        PROVE  FlightOK'
    <2>1. /\ push' = push /\ raced' = raced
          /\ \A e \in Devices \ {d} : op'[e] = op[e]
          /\ \/ op[d].pc \notin {"idle", "await"}
             \/ op'[d].pc = op[d].pc
      <3>1. CASE PurgeOne(d)
        BY <3>1, PurgeOneIs DEF PurgeOne
      <3>2. CASE ClearRoot(d) \/ WrapRoot(d) \/ AssignRoot(d)
        BY <3>2, ClearIs, WrapIs, AssignIs DEF ClearRoot, WrapRoot, AssignRoot, history
      <3>3. CASE PublishFailed(d) \/ ForgetRoot(d)
        BY <3>3, EndOpIs DEF PublishFailed, ForgetRoot, history
      <3>4. CASE Lock(d)
        BY <3>4, LockIs DEF Lock, history
      <3> QED BY <1>6, <3>1, <3>2, <3>3, <3>4
    <2>2. ASSUME NEW q \in Pushes, Flying(q), q \notin raced
          PROVE  op'[push[q].device].pc \in {op[push[q].device].pc, "idle", "await"}
      <3>1. push[q].device \in Devices
        BY <1>0, <2>2, PushIs DEF TypeInv, PushOK
      <3>2. op[push[q].device].pc \in {"idle", "await"}
        BY <2>2 DEF FlightOK
      <3> QED BY <2>1, <3>1, <3>2
    <2> QED BY <2>1, <2>2, FlightKept
  <1>7. ASSUME NEW d \in Devices, Reload(d) PROVE FlightOK'
    <2>1. /\ raced' = raced /\ op'[d].pc = "idle"
          /\ \A e \in Devices \ {d} : op'[e] = op[e]
      <3>1. raced' = raced
        BY <1>7 DEF Reload, history
      <3>2. op'[d] = IdleOp /\ \A e \in Devices \ {d} : op'[e] = op[e]
        BY <1>7, ReloadIs
      <3> QED BY <3>1, <3>2, Nones
    <2>2. ASSUME NEW q \in Pushes, Flying(q)'
          PROVE  Flying(q) /\ push'[q].device = push[q].device
      <3>1. \/ push'[q] = push[q]
            \/ /\ SamePlace(q)
               /\ \/ push'[q].pc = "late" /\ push[q].pc \in {"sent", "late"}
                  \/ push'[q].pc = "done"
        BY <1>7, ReloadIs
      <3> QED BY <2>2, <3>1 DEF SamePlace
    <2>3. ASSUME NEW q \in Pushes, Flying(q)
          PROVE  op'[push[q].device].pc \in {op[push[q].device].pc, "idle", "await"}
      <3>1. push[q].device \in Devices
        BY <1>0, <2>3, PushIs DEF TypeInv, PushOK
      <3> QED BY <2>1, <3>1
    <2> QED BY <2>1, <2>2, <2>3, FlightKept
  <1>8. ASSUME NEW d \in Devices, Adopt(d) PROVE FlightOK'
    <2>1. /\ push' = push /\ raced' = raced
          /\ \A e \in Devices \ {d} : op'[e] = op[e]
          /\ \A q \in Pushes : push[q].device # d
      BY <1>8, AdoptIs DEF Adopt, Absent, history
    <2>2. ASSUME NEW q \in Pushes, Flying(q)
          PROVE  op'[push[q].device] = op[push[q].device]
      <3>1. push[q].device \in Devices
        BY <1>0, <2>2, PushIs DEF TypeInv, PushOK
      <3> QED BY <2>1, <3>1
    <2> QED BY <2>1, <2>2, FlightKept
  <1>9. ASSUME NEW d \in Devices,
               \/ OpenVault(d) \/ BeginRotate(d) \/ CommitRotate(d) \/ Rebind(d)
               \/ \E r \in Roots : Discover(d, r)
        PROVE  FlightOK'
    BY <1>1, <1>9 DEF OpenVault, BeginRotate, CommitRotate, Rebind, Discover, history
  <1>10. CASE NextDay \/ UNCHANGED vars
    BY <1>1, <1>10 DEF NextDay, vars, history
  <1> QED BY <1>2, <1>3, <1>4, <1>5, <1>6, <1>7, <1>8, <1>9, <1>10 DEF Next

-----------------------------------------------------------------------------
(* Roots and records while nothing has rewound the row *)

(* Push q takes no place it had not, and keeps the one it has.             *)
Rests(q) ==
  /\ push'[q].pc = "reserve" => push[q].pc = "reserve"
  /\ push'[q].pc = "build" => push[q].pc = "build"
  /\ push'[q].at > 0 => push[q].at > 0
  /\ Sealed(q)' => Sealed(q)
  /\ push'[q].pc \in {"reserve", "build"} \/ push'[q].at > 0 \/ Sealed(q)' =>
       SamePlace(q) /\ push'[q].root = push[q].root

LEMMA RestsSame ==
  ASSUME NEW q \in Pushes, push'[q] = push[q], q \in stored' => q \in stored
  PROVE  Rests(q)
  BY DEF Rests, Sealed, SamePlace

LEMMA RestsUnsent ==
  ASSUME NEW q \in Pushes, push'[q] = UnsentPush, q \notin stored'
  PROVE  Rests(q)
  BY Nones DEF Rests, Sealed

LEMMA LandRests ==
  ASSUME TypeInv, NEW d \in Devices, NEW p \in Pushes, NEW force, LandSave(d, p, force),
         stored' = stored
  PROVE  /\ \A q \in Pushes \ {p} : Rests(q)
         /\ p \notin stored
         /\ \/ Rests(p)
            \/ /\ push'[p].pc = "reserve" /\ push'[p].device = d /\ push'[p].at = 0
               /\ push'[p].day = day /\ push'[p].slot = NextSlot(acct[d], day)
               /\ root[d] # NoRoot
  <1>1. /\ OthersStay(p) /\ push[p] = IdlePush
        /\ \/ push'[p] = UnsentPush
           \/ /\ push'[p].pc = "reserve" /\ push'[p].device = d /\ push'[p].at = 0
              /\ push'[p].day = day /\ push'[p].slot = NextSlot(acct[d], day)
              /\ root[d] # NoRoot
    BY LandIs
  <1>2. \A q \in Pushes \ {p} : Rests(q)
    BY <1>1, RestsSame DEF OthersStay
  <1>3. p \notin stored
    BY <1>1, Nones DEF TypeInv, PushOK, Sealed
  <1> QED BY <1>1, <1>2, <1>3, RestsUnsent

LEMMA ReplyRests ==
  ASSUME TypeInv, NEW p \in Pushes, PutRecord(p) \/ UploadFailed(p) \/ MarkWritten(p)
  PROVE  \A q \in Pushes : Rests(q)
  <1>1. /\ OthersStay(p) /\ SamePlace(p)
        /\ push'[p].at = push[p].at /\ push'[p].root = push[p].root
        /\ push[p].pc \in {"sent", "stored", "late"}
        /\ push'[p].pc \in {"stored", "late", "done"}
        /\ stored' \subseteq stored \cup {p}
    BY ReplyIs
  <1>2. Rests(p)
    BY <1>1 DEF Rests, Sealed
  <1>3. \A q \in Pushes \ {p} : Rests(q)
    BY <1>1, RestsSame DEF OthersStay
  <1> QED BY <1>2, <1>3

LEMMA ReloadRests ==
  ASSUME TypeInv, NEW d \in Devices, Reload(d)
  PROVE  \A q \in Pushes : Rests(q)
  <1> SUFFICES ASSUME NEW q \in Pushes PROVE Rests(q)
    OBVIOUS
  <1>1. stored' = stored
    BY DEF Reload
  <1>2. \/ push'[q] = push[q]
        \/ /\ SamePlace(q)
           /\ push'[q].at = push[q].at /\ push'[q].root = push[q].root
           /\ \/ push'[q].pc = "late" /\ push[q].pc \in {"sent", "late"}
              \/ push'[q].pc = "done" /\ push[q].pc \in {"reserve", "build", "stored"}
    BY ReloadIs
  <1>3. CASE push'[q] = push[q]
    BY <1>1, <1>3, RestsSame
  <1>4. CASE /\ SamePlace(q)
             /\ push'[q].at = push[q].at /\ push'[q].root = push[q].root
             /\ \/ push'[q].pc = "late" /\ push[q].pc \in {"sent", "late"}
                \/ push'[q].pc = "done" /\ push[q].pc \in {"reserve", "build", "stored"}
    BY <1>1, <1>4 DEF Rests, Sealed
  <1> QED BY <1>2, <1>3, <1>4

SameCall(d) ==
  /\ op'[d].pc = op[d].pc /\ op'[d].root = op[d].root /\ op'[d].old = op[d].old
  /\ op'[d].coords = op[d].coords

LEMMA RootKept ==
  ASSUME NEW d \in Devices, RootOK(d), SameCall(d), acct'[d].root = acct[d].root,
         root'[d] = root[d], session'[d] = session[d]
  PROVE  RootOK(d)'
  BY DEF RootOK, SameCall, Open

LEMMA TrackedKept ==
  ASSUME TypeInv, TypeInv', NEW q \in Pushes, Kept(q) => TrackedOK(q), Rests(q),
         missed \subseteq missed', raced \subseteq raced', day' >= day,
         \A d \in Devices : d = push[q].device =>
           /\ acct'[d].root = acct[d].root /\ acct'[d].pointers = acct[d].pointers
           /\ op'[d].pc = op[d].pc /\ op'[d].coords = op[d].coords
  PROVE  Kept(q)' => TrackedOK(q)'
  <1> SUFFICES ASSUME Kept(q)' PROVE TrackedOK(q)'
    OBVIOUS
  <1>0. TypeOK /\ TypeOK' /\ PushOK(q) /\ PushOK(q)'
    BY DEF TypeInv
  <1>1. CASE push'[q].pc # "build" /\ ~Sealed(q)'
    BY <1>1 DEF TrackedOK
  <1>2. CASE push'[q].pc = "build" \/ Sealed(q)'
    <2>1. /\ SamePlace(q) /\ push'[q].root = push[q].root
          /\ push'[q].pc = "build" => push[q].pc = "build"
          /\ Sealed(q)' => Sealed(q)
      BY <1>2 DEF Rests
    <2>2. push[q].device \in Devices /\ push[q].day \in Nat /\ day \in Nat /\ day' \in Nat
      BY <1>0, <1>2, <2>1, PushIs, DayIs DEF TypeOK, Day, PushOK, Flying
    <2>3. Kept(q)
      BY <2>1, <2>2, RestoreAssumption DEF Kept, SamePlace
    <2>4. At(q)' = At(q) /\ Addr(q)' = Addr(q)
      BY <2>1 DEF At, Addr, SamePlace
    <2>5. /\ push[q].pc = "build" => At(q) \in acct[push[q].device].pointers
          /\ Sealed(q) /\ Addr(q) \notin missed =>
               /\ push[q].root = acct[push[q].device].root
               /\ At(q) \in acct[push[q].device].pointers
               /\ op[push[q].device].pc = "purge" => At(q) \in op[push[q].device].coords
               /\ op[push[q].device].pc # "clear"
      BY <2>3 DEF TrackedOK
    <2>6. push'[q].device = push[q].device
      BY <2>1 DEF SamePlace
    <2> HIDE DEF Sealed, At, Addr
    <2> QED BY <2>1, <2>2, <2>4, <2>5, <2>6 DEF TrackedOK
  <1> QED BY <1>1, <1>2

(* A step that takes no place, and changes no root, pointers or call.      *)
LEMMA PurgeKept ==
  ASSUME TypeInv, TypeInv', PurgeBody, \A q \in Pushes : Rests(q),
         missed \subseteq missed', raced \subseteq raced', day' >= day,
         \A d \in Devices : /\ SameCall(d) /\ acct'[d].root = acct[d].root
                            /\ acct'[d].pointers = acct[d].pointers
                            /\ root'[d] = root[d] /\ session'[d] = session[d]
  PROVE  PurgeBody'
  <1>1. \A d \in Devices : RootOK(d)'
    BY RootKept DEF PurgeBody
  <1>2. \A q \in Pushes : Kept(q)' => TrackedOK(q)'
    BY TrackedKept DEF PurgeBody, SameCall
  <1> QED BY <1>1, <1>2 DEF PurgeBody

(* A step of one device's root and call, that keeps what its row tracks.   *)
LEMMA ChangeKept ==
  ASSUME TypeInv, TypeInv', PurgeBody, NEW d \in Devices, \A q \in Pushes : Rests(q),
         missed \subseteq missed', raced \subseteq raced', day' = day,
         \A e \in Devices \ {d} : /\ op'[e] = op[e] /\ acct'[e] = acct[e]
                                  /\ root'[e] = root[e] /\ session'[e] = session[e],
         RootOK(d)',
         \A q \in Pushes : push[q].device = d => (Kept(q)' => TrackedOK(q)')
  PROVE  PurgeBody'
  <1>0. day' >= day
    BY DayIs DEF TypeInv
  <1>1. ASSUME NEW e \in Devices \ {d} PROVE RootOK(e)'
    BY RootKept DEF PurgeBody, SameCall
  <1>2. ASSUME NEW q \in Pushes, push[q].device # d PROVE Kept(q)' => TrackedOK(q)'
    BY <1>0, <1>2, TrackedKept DEF PurgeBody
  <1> QED BY <1>1, <1>2 DEF PurgeBody

LEMMA NoneTracked ==
  ASSUME TypeInv, PurgeBody, NEW d \in Devices, NEW q \in Pushes, push[q].device = d,
         Kept(q), Sealed(q), Addr(q) \notin missed
  PROVE  /\ op[d].pc # "clear" /\ acct[d].root # NoRoot /\ push[q].root = acct[d].root
         /\ op[d].pc = "purge" => At(q) \in op[d].coords
         /\ At(q) \in acct[d].pointers
  <1>1. TrackedOK(q) /\ PushOK(q)
    BY DEF PurgeBody, TypeInv
  <1>2. push[q].root # NoRoot
    BY <1>1 DEF PushOK
  <1> HIDE DEF Sealed, Addr, At
  <1> QED BY <1>1, <1>2 DEF TrackedOK

(* Nothing of the device flies that the change of root would not race.     *)
LEMMA OnlySealed ==
  ASSUME TypeInv, FlightOK, NEW d \in Devices, op[d].pc \notin {"idle", "await"},
         NEW q \in Pushes, push[q].device = d, Kept(q)
  PROVE  push[q].pc # "build"
  BY DEF FlightOK, Flying, Kept

LEMMA PurgePushes ==
  ASSUME TypeInv, TypeInv', FlightOK, PurgeBody, NEW p \in Pushes,
         \/ \E d \in Devices : BeginPush(d, p)
         \/ Reserve(p) \/ Build(p) \/ PutRecord(p) \/ UploadFailed(p) \/ MarkWritten(p)
  PROVE  PurgeBody'
  <1>0. TypeOK /\ PushOK(p) /\ day \in Nat
    BY DayIs DEF TypeInv
  <1>1. ASSUME NEW d \in Devices, BeginPush(d, p) PROVE PurgeBody'
    <2>1. /\ LandSave(d, p, FALSE) /\ raced \subseteq raced'
          /\ UNCHANGED <<day, session, root, acct, op, stored, missed>>
      BY <1>1 DEF BeginPush
    <2>2. ASSUME NEW q \in Pushes PROVE Kept(q)' => TrackedOK(q)'
      <3>1. CASE Rests(q)
        BY <1>0, <2>1, <3>1, TrackedKept DEF PurgeBody
      <3>2. CASE ~Rests(q)
        <4>1. push'[q].pc = "reserve" /\ q \notin stored
          BY <2>1, <3>2, LandRests
        <4> QED BY <2>1, <4>1 DEF TrackedOK, Sealed
      <3> QED BY <3>1, <3>2
    <2>3. \A e \in Devices : RootOK(e)'
      BY <2>1, RootKept DEF PurgeBody, SameCall
    <2> QED BY <2>2, <2>3 DEF PurgeBody
  <1>2. CASE Reserve(p)
    <2> DEFINE d == push[p].device
    <2>1. /\ d \in Devices /\ OthersStay(p) /\ SamePlace(p) /\ push'[p].pc = "build"
          /\ \A e \in Devices \ {d} : acct'[e] = acct[e]
          /\ acct'[d].root = acct[d].root
          /\ acct'[d].pointers =
               {x \in acct[d].pointers : x.day >= push[p].day - RetainDays} \cup {At(p)}
      BY <1>2, ReserveIs
    <2>2. /\ UNCHANGED <<day, session, root, op, stored, missed, raced>>
          /\ push[p].pc = "reserve"
      BY <1>2 DEF Reserve, history
    <2>3. p \notin stored
      BY <1>0, <2>2 DEF PushOK, Sealed
    <2>4. ASSUME NEW q \in Pushes, Kept(q)' PROVE TrackedOK(q)'
      <3>1. CASE q = p
        <4>1. ~Sealed(q)' /\ At(q)' = At(p) /\ push'[q].device = d
          BY <2>1, <2>2, <2>3, <3>1 DEF Sealed, At, SamePlace
        <4>2. At(p) \in acct'[d].pointers
          BY <2>1
        <4> HIDE DEF d, Sealed, At
        <4> QED BY <4>1, <4>2 DEF TrackedOK
      <3>2. CASE q # p /\ push[q].device = d
        <4>1. push'[q] = push[q] /\ Kept(q)
          BY <2>1, <2>2, <2>4, <3>2 DEF OthersStay, Kept
        <4>2. At(q) \in acct[d].pointers => At(q) \in acct'[d].pointers
          <5>1. At(q).day = push[q].day
            BY DEF At
          <5>2. push[q].day \in Nat /\ push[p].day \in Nat /\ push[p].day <= day
            BY <1>0, PushIs DEF PushOK
          <5>3. push[q].day >= push[p].day - RetainDays
            BY <1>0, <4>1, <5>2, RestoreAssumption DEF Kept
          <5> QED BY <2>1, <5>1, <5>3
        <4>3. /\ At(q)' = At(q) /\ Addr(q)' = Addr(q) /\ (Sealed(q)' <=> Sealed(q))
          BY <2>2, <4>1 DEF At, Addr, Sealed
        <4>4. TrackedOK(q)
          BY <4>1 DEF PurgeBody
        <4>5. acct'[d].root = acct[d].root /\ op' = op /\ missed' = missed
          BY <2>1, <2>2
        <4> HIDE DEF d, At, Addr, Sealed
        <4> QED BY <3>2, <4>1, <4>2, <4>3, <4>4, <4>5 DEF TrackedOK
      <3>3. CASE q # p /\ push[q].device # d
        <4>1. Rests(q)
          BY <2>1, <2>2, <3>3, RestsSame DEF OthersStay
        <4>2. \A e \in Devices : e = push[q].device => acct'[e] = acct[e]
          BY <2>1, <3>3
        <4> HIDE DEF d
        <4> QED BY <1>0, <2>2, <2>4, <4>1, <4>2, TrackedKept DEF PurgeBody
      <3> QED BY <3>1, <3>2, <3>3
    <2>5. \A e \in Devices : RootOK(e)'
      BY <2>1, <2>2, RootKept DEF PurgeBody, SameCall
    <2> QED BY <2>4, <2>5 DEF PurgeBody
  <1>3. CASE Build(p)
    <2> DEFINE d == push[p].device
    <2>1. /\ d \in Devices /\ OthersStay(p)
          /\ \/ push'[p] = UnsentPush
             \/ /\ SamePlace(p) /\ push'[p].pc = "sent"
                /\ push'[p].root = root[d] /\ session[d] = "online"
      BY <1>3, BuildIs
    <2>2. /\ UNCHANGED <<day, session, root, acct, op, stored, missed, raced>>
          /\ push[p].pc = "build"
      BY <1>3 DEF Build, history
    <2>3. p \notin stored
      BY <1>0, <2>2 DEF PushOK, Sealed
    <2>4. ASSUME NEW q \in Pushes, Kept(q)' PROVE TrackedOK(q)'
      <3>1. CASE q # p \/ push'[p] = UnsentPush
        <4>1. Rests(q)
          BY <2>1, <2>2, <2>3, <3>1, RestsSame, RestsUnsent DEF OthersStay
        <4> HIDE DEF d
        <4> QED BY <1>0, <2>2, <2>4, <4>1, TrackedKept DEF PurgeBody
      <3>2. CASE q = p /\ push'[p] # UnsentPush
        <4>1. Kept(p)
          BY <2>1, <2>2, <2>4, <3>2 DEF Kept, SamePlace
        <4>2. At(p) \in acct[d].pointers
          BY <2>2, <4>1 DEF PurgeBody, TrackedOK
        <4>3. op[d].pc \in {"idle", "await"}
          BY <2>2, <4>1 DEF FlightOK, Flying, Kept
        <4>4. root[d] = acct[d].root
          BY <2>1, <3>2, <4>3 DEF PurgeBody, RootOK, Open
        <4>5. /\ At(p)' = At(p) /\ push'[p].device = d /\ push'[p].root = acct[d].root
              /\ push'[p].pc = "sent"
          BY <2>1, <3>2, <4>4 DEF At, SamePlace
        <4> HIDE DEF d, At
        <4> QED BY <2>2, <3>2, <4>2, <4>3, <4>5 DEF TrackedOK
      <3> QED BY <3>1, <3>2
    <2>5. \A e \in Devices : RootOK(e)'
      BY <2>2, RootKept DEF PurgeBody, SameCall
    <2> QED BY <2>4, <2>5 DEF PurgeBody
  <1>4. CASE PutRecord(p) \/ UploadFailed(p) \/ MarkWritten(p)
    <2>1. /\ UNCHANGED <<day, session, root, op, raced, missed>>
          /\ push[p].device \in Devices /\ SameRow(push[p].device)
          /\ \A e \in Devices \ {push[p].device} : acct'[e] = acct[e]
      BY <1>4, ReplyIs
    <2>2. \A e \in Devices : acct'[e].root = acct[e].root
                             /\ acct'[e].pointers = acct[e].pointers
      BY <2>1 DEF SameRow
    <2>3. \A q \in Pushes : Rests(q)
      BY <1>4, ReplyRests
    <2> QED BY <1>0, <2>1, <2>2, <2>3, PurgeKept DEF SameCall
  <1> QED BY <1>1, <1>2, <1>3, <1>4

(* The history is never taken back. *)
LEMMA Grows ==
  ASSUME TypeInv, [Next]_vars
  PROVE  exposure \subseteq exposure'
  <1>1. ASSUME UNCHANGED exposure PROVE exposure \subseteq exposure'
    BY <1>1
  <1>2. ASSUME NEW d \in Devices,
               \/ \E p \in Pushes : BeginPush(d, p) \/ Publish(d, p)
               \/ \E r \in Roots : BeginInstall(d, r) \/ Discover(d, r)
               \/ BeginDisable(d) \/ ClearRoot(d) \/ AssignRoot(d)
               \/ PublishFailed(d) \/ ForgetRoot(d) \/ OpenVault(d) \/ Lock(d)
               \/ BeginRotate(d) \/ Rebind(d)
        PROVE  UNCHANGED exposure
    BY <1>2 DEF BeginPush, Publish, BeginInstall, Discover, BeginDisable, ClearRoot,
                AssignRoot, PublishFailed, ForgetRoot, OpenVault, Lock, BeginRotate, Rebind
  <1>3. ASSUME NEW d \in Devices,
               PurgeOne(d) \/ WrapRoot(d) \/ Reload(d) \/ CommitRotate(d) \/ Adopt(d)
        PROVE  exposure \subseteq exposure'
    BY <1>3, PurgeOneIs, WrapIs, ReloadIs, RotateIs, AdoptIs
  <1>4. ASSUME NEW p \in Pushes,
               Reserve(p) \/ Build(p) \/ PutRecord(p) \/ UploadFailed(p) \/ MarkWritten(p)
        PROVE  exposure \subseteq exposure'
    BY <1>4, ReserveIs, BuildIs, ReplyIs
  <1>5. CASE NextDay \/ UNCHANGED vars
    BY <1>5 DEF NextDay, vars
  <1> QED BY <1>1, <1>2, <1>3, <1>4, <1>5 DEF Next

LEMMA PurgeBegins ==
  ASSUME TypeInv, TypeInv', FlightOK, PurgeBody, NEW d \in Devices,
         Open(d), op[d].pc \in {"idle", "await"},
         UNCHANGED <<day, session, root, acct, push, stored>>,
         missed \subseteq missed', raced' = raced \cup InFlight(d),
         \A e \in Devices \ {d} : op'[e] = op[e],
         \/ op'[d].pc = "wrap" /\ root[d] \in {NoRoot, op'[d].root}
         \/ /\ op'[d].pc = "clear"
            /\ \/ root[d] = NoRoot
               \/ \A c \in acct[d].pointers : <<root[d], c.day, c.slot>> \in missed'
         \/ /\ op'[d].pc = "purge" /\ root[d] # NoRoot
            /\ op'[d].old = root[d] /\ op'[d].coords = acct[d].pointers
  PROVE  PurgeBody'
  <1>0. root[d] = acct[d].root
    BY DEF PurgeBody, RootOK
  <1>1. RootOK(d)'
    BY <1>0 DEF RootOK
  <1>2. ASSUME NEW q \in Pushes, push[q].device = d, Kept(q)' PROVE TrackedOK(q)'
    <2>1. Kept(q) /\ push[q].pc \in {"idle", "done"}
      BY <1>2 DEF Kept, InFlight
    <2>2. /\ (Sealed(q)' <=> Sealed(q)) /\ Addr(q)' = Addr(q) /\ At(q)' = At(q)
          /\ push'[q] = push[q] /\ acct' = acct
      BY DEF Sealed, Addr, At
    <2>3. Addr(q) = <<push[q].root, At(q).day, At(q).slot>>
      BY DEF Addr, At
    <2>4. ASSUME Sealed(q), Addr(q) \notin missed'
          PROVE  /\ push[q].root = acct[d].root
                 /\ At(q) \in acct[d].pointers
                 /\ op'[d].pc = "purge" => At(q) \in op'[d].coords
                 /\ op'[d].pc # "clear"
      <3>1. /\ push[q].root = acct[d].root /\ acct[d].root # NoRoot
            /\ At(q) \in acct[d].pointers
        BY <1>2, <2>1, <2>4, NoneTracked
      <3> HIDE DEF At, Addr, Sealed
      <3>2. op'[d].pc # "clear"
        BY <1>0, <2>3, <2>4, <3>1
      <3> QED BY <1>0, <3>1, <3>2
    <2> HIDE DEF At, Addr, Sealed
    <2> QED BY <1>2, <2>1, <2>2, <2>4 DEF TrackedOK
  <1>3. \A q \in Pushes : Rests(q)
    BY RestsSame
  <1> QED BY <1>1, <1>2, <1>3, ChangeKept

LEMMA PurgeChanges ==
  ASSUME TypeInv, TypeInv', FlightOK, PurgeBody, NEW d \in Devices,
         \/ \E r \in Roots : BeginInstall(d, r)
         \/ BeginDisable(d) \/ PurgeOne(d) \/ ClearRoot(d) \/ WrapRoot(d)
         \/ AssignRoot(d) \/ PublishFailed(d) \/ ForgetRoot(d)
         \/ \E p \in Pushes : Publish(d, p)
  PROVE  PurgeBody'
  <1>0. TypeOK /\ RootOK(d) /\ CallOK(d) /\ day' >= day
    <2>1. day' = day
      BY DEF BeginInstall, BeginDisable, PurgeOne, ClearRoot, WrapRoot, AssignRoot,
             PublishFailed, ForgetRoot, Publish
    <2> QED BY <2>1, DayIs DEF TypeInv, DeviceOK, PurgeBody
  <1>1. ASSUME NEW r \in Roots, BeginInstall(d, r) PROVE PurgeBody'
    <2>1. /\ UNCHANGED <<day, session, root, acct, push, stored>>
          /\ raced' = raced \cup InFlight(d)
      BY <1>1 DEF BeginInstall
    <2> QED BY <1>1, <2>1, InstallIs, PurgeBegins
  <1>2. CASE BeginDisable(d)
    <2>1. /\ UNCHANGED <<day, session, root, acct, push, stored>>
          /\ raced' = raced \cup InFlight(d)
      BY <1>2 DEF BeginDisable
    <2> QED BY <1>2, <2>1, DisableIs, PurgeBegins
  <1>3. CASE PurgeOne(d)
    <2>1. /\ UNCHANGED <<day, session, root, acct, push, raced>>
      BY <1>3 DEF PurgeOne
    <2>2. PICK c \in op[d].coords :
            LET a == <<op[d].old, c.day, c.slot>> IN
            /\ op'[d].coords = op[d].coords \ {c}
            /\ \/ stored' = {q \in stored : Addr(q) # a} /\ UNCHANGED missed
               \/ missed' = missed \cup {a} /\ UNCHANGED stored
      BY <1>3, PurgeOneIs
    <2>3. /\ op[d].pc = "purge" /\ op'[d].pc = "purge" /\ op'[d].root = op[d].root
          /\ op'[d].old = op[d].old
          /\ \A e \in Devices \ {d} : op'[e] = op[e]
      BY <1>3, PurgeOneIs
    <2>4. RootOK(d)'
      BY <1>0, <2>1, <2>3 DEF RootOK
    <2>5. \A q \in Pushes : Rests(q)
      BY <2>1, <2>2, RestsSame
    <2>6. ASSUME NEW q \in Pushes, push[q].device = d, Kept(q)' PROVE TrackedOK(q)'
      <3>1. Kept(q)
        BY <2>1, <2>6 DEF Kept
      <3>2. push[q].pc \notin {"build", "sent", "late", "stored"}
        BY <2>3, <2>6, <3>1 DEF FlightOK, Flying, Kept
      <3>3. /\ Sealed(q) <=> q \in stored
            /\ Sealed(q)' <=> q \in stored'
            /\ Addr(q)' = Addr(q) /\ At(q)' = At(q)
        BY <2>1, <3>2 DEF Sealed, Addr, At
      <3>4. ASSUME q \in stored', Addr(q) \notin missed'
            PROVE  /\ push[q].root = acct[d].root
                   /\ At(q) \in acct[d].pointers
                   /\ At(q) \in op'[d].coords
        <4>1. q \in stored /\ Addr(q) \notin missed
          BY <2>2, <3>4
        <4>2. /\ push[q].root = acct[d].root /\ At(q) \in op[d].coords
              /\ At(q) \in acct[d].pointers
          BY <2>3, <2>6, <3>1, <3>3, <4>1, NoneTracked
        <4>3. Addr(q) # <<op[d].old, c.day, c.slot>>
          BY <2>2, <3>4, <4>1
        <4>4. push[q].root = op[d].old
          BY <1>0, <2>3, <4>2 DEF RootOK
        <4>5. At(q) # c
          BY <4>3, <4>4 DEF Addr, At
        <4> QED BY <2>2, <4>2, <4>5
      <3> HIDE DEF At, Addr, Sealed
      <3> QED BY <2>1, <2>3, <2>6, <3>2, <3>3, <3>4 DEF TrackedOK
    <2> QED BY <1>0, <2>1, <2>2, <2>3, <2>4, <2>5, <2>6, ChangeKept
  <1>4. CASE ClearRoot(d)
    <2>1. /\ op[d].pc \in {"purge", "clear"}
          /\ op[d].pc = "purge" => op[d].coords = {}
          /\ \A e \in Devices \ {d} : op'[e] = op[e] /\ acct'[e] = acct[e]
          /\ op'[d].pc \in {"forget", "wrap"} /\ acct'[d].root = NoRoot
      BY <1>4, ClearIs
    <2>2. UNCHANGED <<day, session, root, push, stored, missed, raced>>
      BY <1>4 DEF ClearRoot, history
    <2>3. RootOK(d)'
      BY <2>1 DEF RootOK
    <2>4. \A q \in Pushes : Rests(q)
      BY <2>2, RestsSame
    <2>5. ASSUME NEW q \in Pushes, push[q].device = d, Kept(q)' PROVE TrackedOK(q)'
      <3>1. Kept(q)
        BY <2>2, <2>5 DEF Kept
      <3>2. push'[q].pc # "build"
        BY <2>1, <2>2, <2>5, <3>1, OnlySealed
      <3>3. ~(Sealed(q) /\ Addr(q) \notin missed)
        BY <2>1, <2>5, <3>1, NoneTracked
      <3>4. (Sealed(q)' <=> Sealed(q)) /\ Addr(q)' = Addr(q)
        BY <2>2 DEF Sealed, Addr
      <3> HIDE DEF Addr, Sealed
      <3> QED BY <2>2, <3>2, <3>3, <3>4 DEF TrackedOK
    <2> QED BY <1>0, <2>1, <2>2, <2>3, <2>4, <2>5, ChangeKept
  <1>5. CASE WrapRoot(d)
    <2>1. /\ op[d].pc = "wrap" /\ \A e \in Devices \ {d} : op'[e] = op[e]
          /\ \/ ~Open(d) /\ op'[d] = IdleOp /\ acct' = acct
             \/ /\ op'[d].pc = "assign" /\ op'[d].root = op[d].root
                /\ \A e \in Devices \ {d} : acct'[e] = acct[e]
                /\ acct'[d].root = op[d].root /\ acct'[d].pointers = acct[d].pointers
      BY <1>5, WrapIs
    <2>2. UNCHANGED <<day, session, root, push, stored, missed, raced>>
      BY <1>5 DEF WrapRoot, history
    <2>3. RootOK(d)'
      BY <2>1, <2>2, Nones DEF RootOK, Open
    <2>4. \A q \in Pushes : Rests(q)
      BY <2>2, RestsSame
    <2>5. ASSUME NEW q \in Pushes, push[q].device = d, Kept(q)' PROVE TrackedOK(q)'
      <3>1. Kept(q)
        BY <2>2, <2>5 DEF Kept
      <3>2. push'[q].pc # "build"
        BY <2>1, <2>2, <2>5, <3>1, OnlySealed
      <3>3. (Sealed(q)' <=> Sealed(q)) /\ Addr(q)' = Addr(q) /\ At(q)' = At(q)
        BY <2>2 DEF Sealed, Addr, At
      <3>4. op'[d].pc \notin {"purge", "clear"}
        BY <2>1, Nones
      <3>5. Sealed(q) /\ Addr(q) \notin missed =>
              push[q].root = acct'[d].root /\ At(q) \in acct'[d].pointers
        BY <1>0, <2>1, <2>5, <3>1, NoneTracked DEF RootOK
      <3> HIDE DEF Addr, Sealed, At
      <3> QED BY <2>2, <2>5, <3>2, <3>3, <3>4, <3>5 DEF TrackedOK
    <2> QED BY <1>0, <2>1, <2>2, <2>3, <2>4, <2>5, ChangeKept
  <1>6. CASE AssignRoot(d) \/ PublishFailed(d) \/ ForgetRoot(d)
    <2>1. /\ op[d].pc \in {"assign", "publish", "forget"}
          /\ \A e \in Devices \ {d} : op'[e] = op[e] /\ root'[e] = root[e]
          /\ op'[d].pc \in {"idle", "publish"} /\ RootOK(d)'
      <3>1. CASE AssignRoot(d)
        <4>1. /\ op[d].pc = "assign" /\ root'[d] = op[d].root
              /\ \A e \in Devices \ {d} : op'[e] = op[e] /\ root'[e] = root[e]
              /\ op'[d] = IdleOp \/ (op'[d].pc = "publish" /\ op'[d].root = op[d].root)
          BY <3>1, AssignIs
        <4>2. acct' = acct
          BY <3>1 DEF AssignRoot
        <4> QED BY <1>0, <4>1, <4>2, Nones DEF RootOK
      <3>2. CASE PublishFailed(d)
        <4>1. /\ op[d].pc = "publish" /\ UNCHANGED <<root, acct, session>>
          BY <3>2 DEF PublishFailed
        <4>2. op'[d] = IdleOp /\ \A e \in Devices \ {d} : op'[e] = op[e]
          BY <3>2, EndOpIs DEF PublishFailed
        <4> QED BY <1>0, <4>1, <4>2, Nones DEF RootOK, Open
      <3>3. CASE ForgetRoot(d)
        <4>1. /\ op[d].pc = "forget" /\ UNCHANGED acct
              /\ root' = [root EXCEPT ![d] = NoRoot]
          BY <3>3 DEF ForgetRoot
        <4>2. op'[d] = IdleOp /\ \A e \in Devices \ {d} : op'[e] = op[e]
          BY <3>3, EndOpIs DEF ForgetRoot
        <4>3. root'[d] = NoRoot /\ \A e \in Devices \ {d} : root'[e] = root[e]
          BY <1>0, <4>1, PutRoot, Nones
        <4> QED BY <1>0, <4>1, <4>2, <4>3, Nones DEF RootOK
      <3> QED BY <1>6, <3>1, <3>2, <3>3
    <2>2. UNCHANGED <<day, session, acct, push, stored, missed, raced>>
      BY <1>6 DEF AssignRoot, PublishFailed, ForgetRoot, history
    <2>3. \A q \in Pushes : Rests(q)
      BY <2>2, RestsSame
    <2>4. ASSUME NEW q \in Pushes, push[q].device = d, Kept(q)' PROVE TrackedOK(q)'
      <3>1. Kept(q) /\ TrackedOK(q)
        BY <2>2, <2>4 DEF Kept, PurgeBody
      <3>2. (Sealed(q)' <=> Sealed(q)) /\ Addr(q)' = Addr(q) /\ At(q)' = At(q)
        BY <2>2 DEF Sealed, Addr, At
      <3> HIDE DEF Addr, Sealed, At
      <3> QED BY <2>1, <2>2, <2>4, <3>1, <3>2 DEF TrackedOK
    <2> QED BY <1>0, <2>1, <2>2, <2>3, <2>4, ChangeKept
  <1>7. ASSUME NEW p \in Pushes, Publish(d, p) PROVE PurgeBody'
    <2>1. /\ LandSave(d, p, TRUE)
          /\ UNCHANGED <<day, session, root, acct, stored, missed, raced>>
      BY <1>7 DEF Publish, history
    <2>2. /\ op[d].pc = "publish" /\ op'[d].pc = "await"
          /\ \A e \in Devices \ {d} : op'[e] = op[e]
      BY <1>7, PublishIs
    <2>3. \A e \in Devices : RootOK(e)'
      <3>1. RootOK(d)'
        BY <1>0, <2>1, <2>2 DEF RootOK, Open
      <3>2. \A e \in Devices \ {d} : RootOK(e)'
        BY <2>1, <2>2, RootKept DEF PurgeBody, SameCall
      <3> QED BY <3>1, <3>2
    <2>4. ASSUME NEW q \in Pushes, Kept(q)' PROVE TrackedOK(q)'
      <3>1. CASE Rests(q)
        <4>1. CASE push[q].device # d
          BY <1>0, <2>1, <2>2, <2>4, <3>1, <4>1, TrackedKept DEF PurgeBody
        <4>2. CASE push[q].device = d
          <5>1. Kept(q) => TrackedOK(q)
            BY DEF PurgeBody
          <5>2. CASE push'[q].pc # "build" /\ ~Sealed(q)'
            BY <5>2 DEF TrackedOK
          <5>3. CASE push'[q].pc = "build" \/ Sealed(q)'
            <6>1. /\ SamePlace(q) /\ push'[q].root = push[q].root
                  /\ push'[q].pc = "build" => push[q].pc = "build"
                  /\ Sealed(q)' => Sealed(q)
              BY <3>1, <5>3 DEF Rests
            <6>2. Kept(q) /\ At(q)' = At(q) /\ Addr(q)' = Addr(q)
                  /\ push'[q].device = d
              BY <2>1, <2>4, <4>2, <6>1 DEF Kept, SamePlace, At, Addr
            <6> HIDE DEF At, Addr, Sealed
            <6> QED BY <2>1, <2>2, <4>2, <5>1, <6>1, <6>2 DEF TrackedOK
          <5> QED BY <5>2, <5>3
        <4> QED BY <4>1, <4>2
      <3>2. CASE ~Rests(q)
        <4>1. push'[q].pc = "reserve" /\ q \notin stored
          BY <2>1, <3>2, LandRests
        <4> QED BY <2>1, <4>1 DEF TrackedOK, Sealed
      <3> QED BY <3>1, <3>2
    <2> QED BY <2>3, <2>4 DEF PurgeBody
  <1> QED BY <1>1, <1>2, <1>3, <1>4, <1>5, <1>6, <1>7

LEMMA PurgeSessions ==
  ASSUME TypeInv, TypeInv', FlightOK, PurgeBody, "rewound" \notin exposure',
         NEW d \in Devices,
         \/ OpenVault(d) \/ Lock(d) \/ Reload(d) \/ BeginRotate(d) \/ CommitRotate(d)
         \/ Rebind(d) \/ Adopt(d)
         \/ \E r \in Roots : Discover(d, r)
  PROVE  PurgeBody'
  <1>0. TypeOK /\ RootOK(d) /\ day \in Nat
    BY DayIs DEF TypeInv, PurgeBody
  <1>1. ASSUME UNCHANGED <<day, session, root, acct, push, op, stored, raced, missed>>
        PROVE  PurgeBody'
    <2>1. \A q \in Pushes : Rests(q)
      BY <1>1, RestsSame
    <2> QED BY <1>0, <1>1, <2>1, PurgeKept DEF SameCall
  <1>2. CASE OpenVault(d) \/ Rebind(d) \/ Lock(d)
    <2>1. /\ UNCHANGED <<day, push, stored, raced, missed>>
          /\ \A e \in Devices \ {d} : /\ session'[e] = session[e] /\ root'[e] = root[e]
                                      /\ acct'[e] = acct[e] /\ op'[e] = op[e]
          /\ SameRow(d) /\ SameCall(d)
          /\ root'[d] = acct[d].root \/ ~Open(d)'
      <3>1. CASE OpenVault(d)
        <4>1. /\ UNCHANGED <<day, push, acct, op, stored, raced, missed>>
              /\ root' = [root EXCEPT ![d] = acct[d].root]
              /\ \E s \in {"online", "offline"} : session' = [session EXCEPT ![d] = s]
          BY <3>1 DEF OpenVault, history
        <4> QED BY <1>0, <4>1 DEF TypeOK, SameRow, SameCall
      <3>2. CASE Rebind(d)
        <4>1. UNCHANGED <<day, push, op, stored, raced, missed>>
          BY <3>2 DEF Rebind, history
        <4> QED BY <3>2, <4>1, RebindIs DEF SameCall
      <3>3. CASE Lock(d)
        <4>1. /\ UNCHANGED <<day, push, acct, stored, raced, missed>>
              /\ root' = [root EXCEPT ![d] = NoRoot]
              /\ session' = [session EXCEPT ![d] = "locked"]
          BY <3>3 DEF Lock, history
        <4>2. SameCall(d) /\ \A e \in Devices \ {d} : op'[e] = op[e]
          BY <3>3, LockIs DEF SameCall
        <4> QED BY <1>0, <4>1, <4>2 DEF TypeOK, SameRow, Open
      <3> QED BY <1>2, <3>1, <3>2, <3>3
    <2>2. \A e \in Devices : RootOK(e)'
      <3>1. RootOK(d)'
        BY <1>0, <2>1 DEF RootOK, SameRow, SameCall
      <3>2. \A e \in Devices \ {d} : RootOK(e)'
        BY <2>1, RootKept DEF PurgeBody, SameCall
      <3> QED BY <3>1, <3>2
    <2>3. \A q \in Pushes : Rests(q)
      BY <2>1, RestsSame
    <2>4. \A e \in Devices : /\ acct'[e].root = acct[e].root
                             /\ acct'[e].pointers = acct[e].pointers
                             /\ op'[e].pc = op[e].pc /\ op'[e].coords = op[e].coords
      BY <2>1 DEF SameRow, SameCall
    <2>5. \A q \in Pushes : Kept(q)' => TrackedOK(q)'
      BY <1>0, <2>1, <2>3, <2>4, TrackedKept DEF PurgeBody
    <2> QED BY <2>2, <2>5 DEF PurgeBody
  <1>3. CASE Reload(d)
    <2>1. UNCHANGED <<day, acct, stored, raced, missed>>
          /\ session' = [session EXCEPT ![d] = "locked"]
          /\ root' = [root EXCEPT ![d] = NoRoot]
      BY <1>3 DEF Reload, history
    <2>2. /\ op'[d].pc = "idle" /\ \A e \in Devices \ {d} : op'[e] = op[e]
      BY <1>3, ReloadIs, Nones
    <2>3. /\ ~Open(d)'
          /\ \A e \in Devices \ {d} : session'[e] = session[e] /\ root'[e] = root[e]
      BY <1>0, <2>1 DEF TypeOK, Open
    <2>4. RootOK(d)'
      BY <2>2, <2>3 DEF RootOK
    <2>5. \A q \in Pushes : Rests(q)
      BY <1>3, ReloadRests
    <2>6. ASSUME NEW q \in Pushes, push[q].device = d, Kept(q)' PROVE TrackedOK(q)'
      <3>1. CASE push'[q].pc # "build" /\ ~Sealed(q)'
        BY <3>1 DEF TrackedOK
      <3>2. CASE push'[q].pc = "build" \/ Sealed(q)'
        <4>1. /\ SamePlace(q) /\ push'[q].root = push[q].root
              /\ push'[q].pc = "build" => push[q].pc = "build"
              /\ Sealed(q)' => Sealed(q)
          BY <2>5, <3>2 DEF Rests
        <4>2. Kept(q) /\ At(q)' = At(q) /\ Addr(q)' = Addr(q) /\ push'[q].device = d
          BY <2>1, <2>6, <4>1 DEF Kept, SamePlace, At, Addr
        <4>3. TrackedOK(q)
          BY <4>2 DEF PurgeBody
        <4> HIDE DEF At, Addr, Sealed
        <4> QED BY <2>1, <2>2, <2>6, <4>1, <4>2, <4>3 DEF TrackedOK
      <3> QED BY <3>1, <3>2
    <2> QED BY <2>1, <2>2, <2>3, <2>4, <2>5, <2>6, ChangeKept
  <1>4. CASE BeginRotate(d)
    BY <1>1, <1>4 DEF BeginRotate, history
  <1>5. CASE CommitRotate(d)
    <2>1. acct' = acct
      BY <1>5, RotateIs
    <2> QED BY <1>1, <1>5, <2>1 DEF CommitRotate, history
  <1>6. CASE Adopt(d)
    <2>1. /\ UNCHANGED <<day, root, push, stored, raced, missed>>
          /\ session' = [session EXCEPT ![d] = "online"]
      BY <1>6 DEF Adopt, history
    <2>2. /\ \A e \in Devices \ {d} : acct'[e] = acct[e] /\ op'[e] = op[e]
          /\ op'[d].pc = "wrap" /\ acct'[d].root = NoRoot
          /\ \A q \in Pushes : push[q].device # d
      BY <1>6, AdoptIs DEF Absent
    <2>3. RootOK(d)' /\ \A q \in Pushes : Rests(q)
      BY <2>1, <2>2, RestsSame DEF RootOK
    <2>4. \A e \in Devices \ {d} : session'[e] = session[e] /\ root'[e] = root[e]
      BY <1>0, <2>1 DEF TypeOK
    <2> QED BY <2>1, <2>2, <2>3, <2>4, ChangeKept
  <1>7. ASSUME NEW r \in Roots, Discover(d, r) PROVE PurgeBody'
    BY <1>1, <1>7 DEF Discover, history
  <1> QED BY <1>2, <1>3, <1>4, <1>5, <1>6, <1>7

LEMMA PurgeNext ==
  ASSUME TypeInv, PurgeInv, [Next]_vars
  PROVE  PurgeInv'
  <1>0. TypeInv' /\ FlightOK' /\ FlightOK
    BY TypeNext, FlightNext DEF PurgeInv
  <1> SUFFICES ASSUME "rewound" \notin exposure' PROVE PurgeBody'
    BY <1>0 DEF PurgeInv
  <1>1. exposure \subseteq exposure'
    BY Grows
  <1>2. PurgeBody
    BY <1>1 DEF PurgeInv
  <1>3. ASSUME UNCHANGED <<session, root, acct, push, op, stored, raced, missed>>, day' >= day
        PROVE  PurgeBody'
    <2>1. \A q \in Pushes : Rests(q)
      BY <1>3, RestsSame
    <2> QED BY <1>0, <1>2, <1>3, <2>1, PurgeKept DEF SameCall
  <1>4. CASE NextDay
    <2>1. day' >= day
      BY <1>4, NextDayType, DayIs DEF TypeInv
    <2> QED BY <1>3, <1>4, <2>1, NextDayType
  <1>5. CASE UNCHANGED vars
    <2>1. day' >= day
      BY <1>5, DayIs DEF TypeInv, vars
    <2> QED BY <1>3, <1>5, <2>1 DEF vars
  <1> QED BY <1>0, <1>2, <1>4, <1>5, PurgePushes, PurgeChanges, PurgeSessions DEF Next

LEMMA PurgeInit ==
  ASSUME Init
  PROVE  PurgeInv
  <1>1. /\ \A q \in Pushes : push[q].pc = "idle" /\ q \notin stored
        /\ \A d \in Devices : op[d].pc = "idle" /\ session[d] = "locked"
    BY Nones DEF Init
  <1>2. FlightOK
    BY <1>1 DEF FlightOK, Flying
  <1>3. \A d \in Devices : RootOK(d)
    BY <1>1 DEF RootOK, Open
  <1>4. \A q \in Pushes : TrackedOK(q)
    BY <1>1 DEF TrackedOK, Sealed
  <1> QED BY <1>2, <1>3, <1>4 DEF PurgeInv, PurgeBody

(* installRestoreRoot and disableServerRestore leave no record that opens  *)
(* under a root the account has given up, but for the causes named with    *)
(* the property: every one its row still tracked was deleted by then, or   *)
(* the request that should have deleted it is named among the missed.      *)
THEOREM OldRecordsPurged == Spec => []PurgedUnlessRaced
  <1>1. Init => TypeInv /\ PurgeInv
    BY TypeInit, PurgeInit
  <1>2. TypeInv /\ PurgeInv /\ [Next]_vars => TypeInv' /\ PurgeInv'
    BY TypeNext, PurgeNext
  <1>3. TypeInv /\ PurgeInv => PurgedUnlessRaced
    <2> SUFFICES ASSUME TypeInv, PurgeInv, NEW q \in stored, q \notin raced,
                        Addr(q) \notin missed, ~(push[q].day < day - RetainDays),
                        "rewound" \notin exposure
                 PROVE  push[q].root = acct[push[q].device].root
      BY DEF PurgedUnlessRaced
    <2>1. q \in Pushes /\ Sealed(q)
      BY DEF TypeInv, TypeOK, Sealed
    <2>2. push[q].day \in Int /\ day - RetainDays \in Int
      BY <2>1, PushIs, DayIs, RestoreAssumption DEF TypeInv
    <2>3. Kept(q)
      BY <2>2 DEF Kept
    <2>4. TrackedOK(q)
      BY <2>1, <2>3 DEF PurgeInv, PurgeBody
    <2> HIDE DEF Sealed, Addr
    <2> QED BY <2>1, <2>4 DEF TrackedOK
  <1> QED BY <1>1, <1>2, <1>3, PTL DEF Spec

-----------------------------------------------------------------------------
(* No address is taken twice while nothing that could cause it happened. *)

(* Push q takes no slot it had not, and keeps the one it has; or it learns *)
(* the coordinate it will ask for today, of a device that has a root.      *)
Holds(q) ==
  /\ push'[q].pc = "reserve" => push[q].pc = "reserve" /\ SamePlace(q)
  /\ Taken(q)' => Taken(q) /\ SamePlace(q) /\ push'[q].root = push[q].root
Starts(q) ==
  /\ push'[q].pc = "reserve" /\ push'[q].at = 0 /\ push'[q].day = day
  /\ \A d \in Devices : push'[q].device = d => root[d] # NoRoot

LEMMA RestsHold ==
  ASSUME NEW q \in Pushes, Rests(q)
  PROVE  Holds(q)
  BY DEF Rests, Holds, Taken

LEMMA LandHolds ==
  ASSUME TypeInv, NEW d \in Devices, NEW p \in Pushes, NEW force, LandSave(d, p, force),
         stored' = stored
  PROVE  \A q \in Pushes : Holds(q) \/ Starts(q)
  <1>1. \A q \in Pushes \ {p} : Holds(q)
    BY LandRests, RestsHold
  <1>2. Holds(p) \/ Starts(p)
    BY LandRests, RestsHold DEF Starts
  <1> QED BY <1>1, <1>2

LEMMA BuildHolds ==
  ASSUME TypeInv, NEW p \in Pushes, Build(p), "root changed" \notin exposure'
  PROVE  \A q \in Pushes : Holds(q)
  <1>1. /\ push[p].pc = "build" /\ OthersStay(p)
        /\ \/ push'[p] = UnsentPush
           \/ SamePlace(p) /\ push'[p].pc = "sent" /\ push'[p].root = push[p].root
    BY BuildIs
  <1>2. Holds(p)
    <2>1. CASE push'[p] = UnsentPush
      <3>1. push'[p].pc = "done" /\ push'[p].at = 0
        BY <2>1, Nones
      <3>2. ~Taken(p)'
        BY <3>1, Zero DEF Taken
      <3> QED BY <3>1, <3>2 DEF Holds
    <2>2. CASE SamePlace(p) /\ push'[p].pc = "sent" /\ push'[p].root = push[p].root
      BY <1>1, <2>2 DEF Holds, Taken
    <2> QED BY <1>1, <2>1, <2>2
  <1>3. \A q \in Pushes \ {p} : Holds(q)
    BY <1>1 DEF OthersStay, Holds, Taken, SamePlace
  <1> QED BY <1>2, <1>3

StillFound == \A d \in Devices : found[d] # NoPush => found'[d] # NoPush
SameSlot(d) ==
  /\ acct'[d].root = acct[d].root /\ acct'[d].day = acct[d].day
  /\ acct'[d].slot = acct[d].slot

LEMMA AloneBefore ==
  ASSUME NEW d \in Devices, Alone(d)', StillFound, exposure \subseteq exposure'
  PROVE  Alone(d)
  BY DEF Alone, StillFound

(* A device whose row stands takes no slot that others have come to hold,  *)
(* unless it is no longer alone with them.                                 *)
LEMMA FreshKept ==
  ASSUME TypeInv, TypeInv', NEW d \in Devices, FreshOK(d), SameSlot(d), day' >= day,
         StillFound, exposure \subseteq exposure',
         \A q \in Pushes :
           \/ Holds(q) \/ Starts(q)
           \/ push'[q].pc # "reserve" /\ push'[q].device # d /\ ~Alone(d)'
  PROVE  FreshOK(d)'
  <1> SUFFICES ASSUME acct'[d].root # NoRoot, NEW q \in Pushes, NEW e \in Day,
                      Taken(q)', push'[q].root = acct'[d].root,
                      push'[q].device = d \/ Alone(d)', NextDayOf(d, e)', push'[q].day = e
               PROVE  push'[q].slot < NextSlot(acct'[d], e)
    BY DEF FreshOK
  <1>0. TypeOK /\ TypeOK' /\ day \in Nat /\ day' \in Nat /\ e \in Nat /\ PushOK(q)
    BY DayIs DEF TypeInv, TypeOK, Day
  <1>1. /\ Taken(q) /\ SamePlace(q) /\ push'[q].root = push[q].root
    BY DEF Holds, Starts, Taken
  <1>2. push[q].device = d \/ Alone(d)
    BY <1>1, AloneBefore DEF SamePlace
  <1>3. push[q].day = e /\ e <= day
    BY <1>0, <1>1 DEF SamePlace, PushOK
  <1>4. NextSlot(acct'[d], e) = NextSlot(acct[d], e)
    BY DEF NextSlot, SameSlot
  <1>5. acct[d].day <= e
    BY DEF NextDayOf, SameSlot
  <1>6. NextDayOf(d, e)
    <2>1. CASE e = day'
      <3>1. e = day
        BY <1>0, <1>3, <2>1
      <3> QED BY <1>5, <3>1 DEF NextDayOf
    <2>2. ASSUME NEW p \in Pushes, push'[p].pc = "reserve", push'[p].device = d,
                 push'[p].day = e, push'[p].slot = NextSlot(acct'[d], e)
          PROVE  NextDayOf(d, e)
      <3>1. CASE Holds(p)
        BY <1>4, <1>5, <2>2, <3>1 DEF NextDayOf, Holds, SamePlace
      <3>2. CASE Starts(p)
        BY <1>5, <2>2, <3>2 DEF NextDayOf, Starts
      <3> QED BY <2>2, <3>1, <3>2
    <2> QED BY <2>1, <2>2 DEF NextDayOf
  <1>7. push[q].slot < NextSlot(acct[d], e)
    BY <1>1, <1>2, <1>3, <1>6 DEF FreshOK, SameSlot
  <1> QED BY <1>1, <1>4, <1>7 DEF SamePlace

(* The device that has just adopted waits for its first record.            *)
LEMMA AdoptedKept ==
  ASSUME TypeInv, NEW d \in Devices, AdoptedOK(d), SameSlot(d), StillFound,
         exposure \subseteq exposure', budget'.ops = 0 => budget.ops = 0,
         \A q \in Pushes : Holds(q) \/ Starts(q),
         \A q \in Pushes : push'[q].device \in {push[q].device, NoDevice} \/ Starts(q),
         op'[d].pc = "wrap" /\ budget'.ops = 0 =>
           /\ op[d].pc = "wrap" /\ op'[d].root = op[d].root
           /\ root'[d] \in {root[d], acct[d].root, NoRoot}
  PROVE  AdoptedOK(d)'
  <1> SUFFICES ASSUME op'[d].pc = "wrap", budget'.ops = 0
               PROVE  /\ acct'[d].root = NoRoot
                      /\ root'[d] = NoRoot
                      /\ found'[d] # NoPush
                      /\ \A q \in Pushes : push'[q].device # d
                      /\ exposure' \cap {"overlooked", "old device"} = {} =>
                           \A q \in Pushes : Taken(q)' /\ push'[q].root = op'[d].root =>
                             ~Before([day |-> acct'[d].day, slot |-> acct'[d].slot], push'[q])
    BY DEF AdoptedOK
  <1>1. /\ acct[d].root = NoRoot /\ root[d] = NoRoot /\ found[d] # NoPush
        /\ \A q \in Pushes : push[q].device # d
        /\ exposure \cap {"overlooked", "old device"} = {} =>
             \A q \in Pushes : Taken(q) /\ push[q].root = op[d].root =>
               ~Before([day |-> acct[d].day, slot |-> acct[d].slot], push[q])
    BY DEF AdoptedOK
  <1>2. acct'[d].root = NoRoot /\ root'[d] = NoRoot /\ found'[d] # NoPush
    BY <1>1 DEF SameSlot, StillFound
  <1>3. ASSUME NEW q \in Pushes PROVE push'[q].device # d
    <2>1. CASE Starts(q)
      <3>1. push'[q].device = d => root[d] # NoRoot
        BY <2>1 DEF Starts
      <3> QED BY <1>1, <3>1
    <2>2. CASE push'[q].device \in {push[q].device, NoDevice}
      <3>1. NoDevice # d
        BY RestoreAssumption
      <3> QED BY <1>1, <2>2, <3>1
    <2> QED BY <2>1, <2>2
  <1>4. ASSUME exposure' \cap {"overlooked", "old device"} = {}, NEW q \in Pushes, Taken(q)',
               push'[q].root = op'[d].root
        PROVE  ~Before([day |-> acct'[d].day, slot |-> acct'[d].slot], push'[q])
    <2>1. Taken(q) /\ SamePlace(q) /\ push'[q].root = push[q].root
      <3>1. push'[q].pc # "reserve" \/ push'[q].at # 0
        BY <1>4, Zero DEF Taken
      <3> QED BY <1>4, <3>1 DEF Holds, Starts
    <2>2. exposure \cap {"overlooked", "old device"} = {}
      BY <1>4
    <2>3. ~Before([day |-> acct[d].day, slot |-> acct[d].slot], push[q])
      BY <1>1, <1>4, <2>1, <2>2
    <2> QED BY <2>1, <2>3 DEF Before, SamePlace, SameSlot
  <1> QED BY <1>2, <1>3, <1>4

LEMMA ApartKept ==
  ASSUME ApartOK, exposure \subseteq exposure', \A q \in Pushes : Holds(q) \/ Starts(q)
  PROVE  ApartOK'
  <1> SUFFICES ASSUME NEW p \in Pushes, NEW q \in Pushes, Taken(p)', Taken(q)',
                      SameAddress(p, q)', push'[p].root # NoRoot
               PROVE  /\ push'[p].device # push'[q].device
                      /\ exposure' \cap {"overlooked", "old device"} # {}
    BY DEF ApartOK
  <1>1. \A x \in {p, q} : Taken(x) /\ SamePlace(x) /\ push'[x].root = push[x].root
    BY DEF Holds, Starts, Taken
  <1>2. SameAddress(p, q)
    BY <1>1 DEF SameAddress, Addr, SamePlace
  <1>3. /\ push[p].device # push[q].device
        /\ exposure \cap {"overlooked", "old device"} # {}
    BY <1>1, <1>2 DEF ApartOK
  <1> QED BY <1>1, <1>3 DEF SamePlace

ReuseBody ==
  /\ \A d \in Devices : FreshOK(d) /\ AdoptedOK(d)
  /\ ApartOK

(* A step of device d that changes no coordinate or root of a row.         *)
LEMMA ReuseKept ==
  ASSUME TypeInv, TypeInv', ReuseBody, NEW d \in Devices,
         \A e \in Devices : SameSlot(e), day' >= day, StillFound,
         exposure \subseteq exposure', budget'.ops >= budget.ops,
         \A q \in Pushes : Holds(q) \/ Starts(q),
         \A q \in Pushes : push'[q].device \in {push[q].device, NoDevice} \/ Starts(q),
         \A e \in Devices \ {d} : op'[e] = op[e] /\ root'[e] = root[e],
         op'[d].pc = "wrap" /\ budget'.ops = 0 =>
           /\ op[d].pc = "wrap" /\ op'[d].root = op[d].root
           /\ root'[d] \in {root[d], acct[d].root, NoRoot}
  PROVE  ReuseBody'
  <1>1. \A e \in Devices : FreshOK(e)'
    BY FreshKept DEF ReuseBody
  <1>2. budget'.ops = 0 => budget.ops = 0
    BY Budgeted DEF TypeInv
  <1>3. \A e \in Devices : AdoptedOK(e)'
    BY <1>2, AdoptedKept DEF ReuseBody
  <1>4. ApartOK'
    BY ApartKept DEF ReuseBody
  <1> QED BY <1>1, <1>3, <1>4 DEF ReuseBody

(* A reservation takes the next slot of the day its push landed on.        *)
LEMMA ReuseReserve ==
  ASSUME TypeInv, TypeInv', ReuseBody, NEW p \in Pushes, Reserve(p),
         exposure' \cap ReuseCause = {},
         NEW d \in Devices, d = push[p].device, NEW c \in Day, c = push[p].day,
         NEW s \in Nat, s = push[p].slot
  PROVE  ReuseBody'
  <1>0. TypeOK /\ TypeOK' /\ c \in Nat /\ push[p].device = d /\ push[p].day = c
        /\ push[p].slot = s
    BY DayIs DEF TypeInv
  <1>1. /\ push[p].pc = "reserve" /\ OthersStay(p) /\ SamePlace(p)
        /\ push'[p].pc = "build" /\ push'[p].root = acct[d].root
        /\ \A e \in Devices \ {d} : acct'[e] = acct[e]
        /\ acct[d].exists /\ acct'[d].root = acct[d].root
        /\ acct'[d].day = c /\ acct'[d].slot = s /\ exposure \subseteq exposure'
    BY ReserveIs
  <1>2. s = NextSlot(acct[d], c) /\ acct[d].day <= c
    <2>1. "stale read" \notin exposure' /\ acct[d].day \in Int
      BY <1>0, AccountIs DEF ReuseCause
    <2>2. s # NextSlot(acct[d], c) \/ acct[d].day > c => "stale read" \in exposure'
      BY ReserveIs
    <2>3. s = NextSlot(acct[d], c) /\ ~(acct[d].day > c)
      BY <2>1, <2>2
    <2>4. c \in Int
      BY <1>0
    <2> QED BY <2>1, <2>3, <2>4, NotAbove
  <1>3. \A e \in Devices \ {d} : found[e] # NoPush => "old device" \in exposure'
    BY ReserveIs
  <1>4. UNCHANGED <<day, root, op, found, budget>>
    BY DEF Reserve
  <1>5. \A q \in Pushes \ {p} : push'[q] = push[q]
    BY <1>1 DEF OthersStay
  <1>6. StillFound
    BY <1>4 DEF StillFound
  <1>7. NextDayOf(d, c)
    BY <1>0, <1>1, <1>2 DEF NextDayOf
  (* What is taken already on that day, of the device or if it is alone.   *)
  <1>8. ASSUME NEW q \in Pushes, Taken(q), push[q].root = acct[d].root,
               acct[d].root # NoRoot, push[q].device = d \/ Alone(d), push[q].day = c
        PROVE  push[q].slot < s
    BY <1>0, <1>2, <1>7, <1>8 DEF ReuseBody, FreshOK
  <1>9. FreshOK(d)'
    <2> SUFFICES ASSUME acct'[d].root # NoRoot, NEW q \in Pushes, NEW e \in Day,
                        Taken(q)', push'[q].root = acct'[d].root,
                        push'[q].device = d \/ Alone(d)', NextDayOf(d, e)', push'[q].day = e
                 PROVE  push'[q].slot < NextSlot(acct'[d], e)
      BY DEF FreshOK
    <2>1. e \in Nat /\ c <= e
      BY <1>0, <1>1, DayIs DEF NextDayOf
    <2>2. CASE e = c
      <3>1. NextSlot(acct'[d], e) = s + 1
        BY <1>1, <2>2 DEF NextSlot
      <3>2. push'[q].slot <= s
        <4>1. CASE q = p
          BY <1>0, <1>1, <4>1 DEF SamePlace
        <4>2. CASE q # p
          <5>1. /\ push'[q] = push[q] /\ Taken(q) /\ push[q].root = acct[d].root
                /\ acct[d].root # NoRoot /\ push[q].day = c
            BY <1>1, <1>5, <2>2, <4>2 DEF Taken
          <5>2. push[q].device = d \/ Alone(d)
            BY <1>1, <1>6, <5>1, AloneBefore, <1>0
          <5>3. push[q].slot < s
            BY <1>8, <5>1, <5>2
          <5> QED BY <1>0, <5>1, <5>3, PushIs
        <4> QED BY <4>1, <4>2
      <3>3. push'[q].slot \in Nat
        <4>1. push'[q] \in Push
          BY <1>0 DEF TypeOK
        <4> QED BY <4>1 DEF Push, Slot
      <3> QED BY <1>0, <3>1, <3>2, <3>3
    <2>3. CASE e # c
      <3>1. NextSlot(acct'[d], e) = 0 /\ NextSlot(acct[d], e) = 0 /\ acct[d].day <= e
        <4>1. acct[d].day \in Int
          BY <1>0, AccountIs
        <4>2. acct[d].day < e
          BY <1>0, <1>2, <2>1, <2>3, <4>1
        <4> QED BY <1>0, <1>1, <2>1, <2>3, <4>1, <4>2 DEF NextSlot
      <3>2. q # p
        BY <1>1, <2>3 DEF SamePlace
      <3>3. /\ push'[q] = push[q] /\ Taken(q) /\ push[q].root = acct[d].root
            /\ acct[d].root # NoRoot /\ push[q].day = e
        BY <1>1, <1>5, <3>2 DEF Taken
      <3>4. push[q].device = d \/ Alone(d)
        BY <1>0, <1>1, <1>6, <3>3, AloneBefore
      <3>5. NextDayOf(d, e)
        <4>1. CASE e = day'
          BY <1>4, <3>1, <4>1 DEF NextDayOf
        <4>2. ASSUME NEW x \in Pushes, push'[x].pc = "reserve", push'[x].device = d,
                     push'[x].day = e, push'[x].slot = NextSlot(acct'[d], e)
              PROVE  NextDayOf(d, e)
          <5>1. x # p
            BY <1>1, <4>2
          <5>2. push'[x] = push[x]
            BY <1>5, <5>1
          <5> QED BY <3>1, <4>2, <5>2 DEF NextDayOf
        <4> QED BY <4>1, <4>2 DEF NextDayOf
      <3>6. push[q].slot < NextSlot(acct[d], e)
        BY <3>3, <3>4, <3>5 DEF ReuseBody, FreshOK
      <3> QED BY <3>1, <3>3, <3>6
    <2> QED BY <2>2, <2>3
  <1>10. ASSUME NEW e \in Devices \ {d}, found[e] = NoPush, acct[e].exists
         PROVE  ~Alone(e)'
    <2>1. DeviceOK(e) /\ DeviceOK(d)
      BY <1>0 DEF TypeInv
    <2>2. found[d] # NoPush
      BY <1>1, <1>10, <2>1 DEF DeviceOK
    <2> QED BY <1>0, <1>4, <1>10, <2>2 DEF Alone
  <1>11. ASSUME NEW e \in Devices \ {d} PROVE FreshOK(e)'
    <2>1. CASE acct[e].root = NoRoot
      BY <1>1, <2>1 DEF FreshOK
    <2>2. CASE acct[e].root # NoRoot
      <3>1. acct[e].exists
        <4>1. DeviceOK(e)
          BY DEF TypeInv
        <4> QED BY <2>2, <4>1, Nones DEF DeviceOK, Absent
      <3>2. ~Alone(e)'
        BY <1>3, <1>10, <3>1 DEF Alone
      <3>3. \A q \in Pushes \ {p} : Holds(q)
        BY <1>5 DEF Holds, Taken, SamePlace
      <3>4. push'[p].pc # "reserve" /\ push'[p].device # e
        BY <1>1 DEF SamePlace
      <3>5. SameSlot(e) /\ FreshOK(e) /\ day' >= day
        BY <1>0, <1>1, <1>4, DayIs DEF SameSlot, ReuseBody
      <3> QED BY <1>1, <1>6, <3>2, <3>3, <3>4, <3>5, FreshKept
    <2> QED BY <2>1, <2>2
  <1>12. ASSUME NEW e \in Devices PROVE AdoptedOK(e)'
    <2> SUFFICES ASSUME op'[e].pc = "wrap", budget'.ops = 0
                 PROVE  /\ acct'[e].root = NoRoot /\ root'[e] = NoRoot /\ found'[e] # NoPush
                        /\ \A q \in Pushes : push'[q].device # e
                        /\ exposure' \cap {"overlooked", "old device"} # {}
      BY DEF AdoptedOK
    <2>1. /\ acct[e].root = NoRoot /\ root[e] = NoRoot /\ found[e] # NoPush
          /\ \A q \in Pushes : push[q].device # e
      BY <1>4 DEF ReuseBody, AdoptedOK
    <2>2. e # d
      BY <2>1
    <2>3. "old device" \in exposure'
      BY <1>3, <2>1, <2>2
    <2>4. \A q \in Pushes : push'[q].device = push[q].device
      BY <1>1, <1>5 DEF SamePlace
    <2> QED BY <1>1, <1>4, <2>1, <2>2, <2>3, <2>4
  <1>13. ApartOK'
    <2> SUFFICES ASSUME NEW x \in Pushes, NEW y \in Pushes, Taken(x)', Taken(y)',
                        SameAddress(x, y)', push'[x].root # NoRoot
                 PROVE  /\ push'[x].device # push'[y].device
                        /\ exposure' \cap {"overlooked", "old device"} # {}
      BY DEF ApartOK
    <2>1. /\ x # y /\ push'[x].root = push'[y].root /\ push'[x].day = push'[y].day
          /\ push'[x].slot = push'[y].slot
      BY DEF SameAddress, Addr
    <2>2. ASSUME NEW q \in Pushes \ {p}, Taken(q)', push'[q].root = push'[p].root,
                 push'[p].root # NoRoot, push'[q].day = push'[p].day,
                 push'[q].slot = push'[p].slot
          PROVE  /\ push'[q].device # push'[p].device
                 /\ exposure' \cap {"overlooked", "old device"} # {}
      <3>1. /\ push'[q] = push[q] /\ Taken(q) /\ push[q].root = acct[d].root
            /\ acct[d].root # NoRoot /\ push[q].day = c /\ push[q].slot = s
            /\ push'[p].device = d
        BY <1>1, <1>5, <2>2 DEF Taken, SamePlace
      <3>2. push[q].device # d /\ ~Alone(d)
        BY <1>0, <1>8, <3>1
      <3> QED BY <1>0, <1>1, <1>3, <3>1, <3>2 DEF Alone
    <2>3. CASE x = p
      BY <2>1, <2>2, <2>3
    <2>4. CASE y = p
      BY <2>1, <2>2, <2>4
    <2>5. CASE x # p /\ y # p
      <3>1. push'[x] = push[x] /\ push'[y] = push[y]
        BY <1>5, <2>5
      <3>2. Taken(x) /\ Taken(y) /\ SameAddress(x, y) /\ push[x].root # NoRoot
        BY <2>1, <3>1 DEF Taken, SameAddress, Addr
      <3>3. /\ push[x].device # push[y].device
            /\ exposure \cap {"overlooked", "old device"} # {}
        BY <3>2 DEF ReuseBody, ApartOK
      <3> QED BY <1>1, <3>1, <3>3
    <2> QED BY <2>3, <2>4, <2>5
  <1> QED BY <1>9, <1>11, <1>12, <1>13 DEF ReuseBody

(* Wrapping a root: the one the row has, the one just adopted, or one of   *)
(* which no record can take the slots that are left.                       *)
LEMMA ReuseWrap ==
  ASSUME TypeInv, TypeInv', ReuseBody, NEW d \in Devices, RootOK(d), WrapRoot(d), Open(d),
         exposure' \cap ReuseCause = {}
  PROVE  ReuseBody'
  <1>0. TypeOK /\ DeviceOK(d)
    BY DEF TypeInv
  <1>1. /\ op[d].pc = "wrap" /\ op[d].root # NoRoot /\ exposure \subseteq exposure'
        /\ \A e \in Devices \ {d} : op'[e] = op[e] /\ acct'[e] = acct[e]
        /\ op'[d].pc = "assign" /\ acct'[d].root = op[d].root
        /\ acct'[d].day = acct[d].day /\ acct'[d].slot = acct[d].slot
        /\ \/ budget.ops = 0
           \/ ~Retaken(op[d].root, NextSlot(acct[d], day))
    <2>1. "re-enabled" \notin exposure'
      BY DEF ReuseCause
    <2> QED BY <2>1, WrapIs
  <1>2. /\ UNCHANGED <<day, root, push, found, budget>>
    BY DEF WrapRoot
  <1>3. acct[d].root \in {NoRoot, op[d].root}
    BY <1>1 DEF RootOK
  <1>4. \A q \in Pushes : Holds(q)
    BY <1>2 DEF Holds, Taken, SamePlace
  <1>5. StillFound /\ day' >= day
    BY <1>0, <1>2, DayIs DEF StillFound
  <1>6. ASSUME NEW q \in Pushes, NEW e \in Day, Taken(q), push[q].root = op[d].root,
               push[q].device = d \/ Alone(d), NextDayOf(d, e), push[q].day = e
        PROVE  push[q].slot < NextSlot(acct[d], e)
    <2>0. /\ push[q].slot \in Nat /\ acct[d].slot \in Nat /\ acct[d].day \in Int
          /\ e \in Nat /\ NextSlot(acct[d], e) \in Nat
      <3>1. push[q].slot \in Nat /\ acct[d].slot \in Nat /\ acct[d].day \in Int
        BY <1>0, PushIs, AccountIs
      <3> QED BY <1>0, <3>1, DayIs DEF NextSlot
    <2>1. CASE acct[d].root = op[d].root
      BY <1>1, <1>6, <2>1 DEF ReuseBody, FreshOK
    <2>2. CASE acct[d].root # op[d].root /\ budget.ops = 0
      <3>1. AdoptedOK(d)
        BY DEF ReuseBody
      <3>2. push[q].device # d
        BY <1>1, <2>2, <3>1 DEF AdoptedOK
      <3>3. exposure \cap {"overlooked", "old device"} = {}
        BY <1>6, <3>2 DEF Alone
      <3>4. ~Before([day |-> acct[d].day, slot |-> acct[d].slot], push[q])
        BY <1>1, <1>6, <2>2, <3>1, <3>3 DEF AdoptedOK
      <3>5. ~(acct[d].day < e) /\ ~(acct[d].day = e /\ acct[d].slot < push[q].slot)
        BY <1>6, <3>4 DEF Before
      <3>6. acct[d].day <= e
        BY <1>6 DEF NextDayOf
      <3>7. acct[d].day = e
        BY <2>0, <3>5, <3>6
      <3>8. NextSlot(acct[d], e) = acct[d].slot + 1
        BY <3>7 DEF NextSlot
      <3>9. push[q].slot <= acct[d].slot
        BY <2>0, <3>5, <3>7
      <3> QED BY <2>0, <3>8, <3>9
    <2>3. CASE acct[d].root # op[d].root /\ budget.ops # 0
      <3>1. ~Retaken(op[d].root, NextSlot(acct[d], day))
        BY <1>1, <2>3
      <3>2. /\ ~(e = day /\ NextSlot(acct[d], e) <= push[q].slot)
            /\ \A p \in Pushes : push[p].pc = "reserve" /\ push[p].day = e =>
                 ~(push[p].slot <= push[q].slot)
        BY <1>6, <3>1 DEF Retaken
      <3>3. CASE e = day
        <4>1. ~(NextSlot(acct[d], e) <= push[q].slot)
          BY <3>2, <3>3
        <4> QED BY <2>0, <4>1
      <3>4. ASSUME NEW p \in Pushes, push[p].pc = "reserve", push[p].day = e,
                   push[p].slot = NextSlot(acct[d], e)
            PROVE  push[q].slot < NextSlot(acct[d], e)
        <4>1. ~(NextSlot(acct[d], e) <= push[q].slot)
          BY <3>2, <3>4
        <4> QED BY <2>0, <4>1
      <3> QED BY <1>6, <3>3, <3>4 DEF NextDayOf
    <2> QED BY <2>1, <2>2, <2>3
  <1>7. FreshOK(d)'
    <2> SUFFICES ASSUME NEW q \in Pushes, NEW e \in Day,
                        Taken(q)', push'[q].root = acct'[d].root,
                        push'[q].device = d \/ Alone(d)', NextDayOf(d, e)', push'[q].day = e
                 PROVE  push'[q].slot < NextSlot(acct'[d], e)
      BY DEF FreshOK
    <2>1. NextSlot(acct'[d], e) = NextSlot(acct[d], e)
      BY <1>1 DEF NextSlot
    <2>2. /\ Taken(q) /\ push[q].root = op[d].root /\ push[q].day = e
          /\ push[q].device = d \/ Alone(d)
      BY <1>1, <1>2, <1>5, AloneBefore DEF Taken
    <2>3. NextDayOf(d, e)
      BY <1>1, <1>2, <2>1 DEF NextDayOf
    <2> QED BY <1>2, <1>6, <2>1, <2>2, <2>3
  <1>8. \A e \in Devices \ {d} : FreshOK(e)'
    BY <1>1, <1>4, <1>5, FreshKept DEF ReuseBody, SameSlot
  <1>9. AdoptedOK(d)'
    BY <1>1 DEF AdoptedOK
  <1>10. \A e \in Devices \ {d} : AdoptedOK(e)'
    BY <1>1, <1>2, <1>4, <1>5, AdoptedKept DEF ReuseBody, SameSlot
  <1>11. ApartOK'
    BY <1>1, <1>4, ApartKept DEF ReuseBody
  <1> QED BY <1>7, <1>8, <1>9, <1>10, <1>11 DEF ReuseBody

(* A row that loses its root, or is new and has none yet.                  *)
LEMMA ReuseBlank ==
  ASSUME TypeInv, TypeInv', ReuseBody, NEW d \in Devices, ClearRoot(d) \/ Adopt(d)
  PROVE  ReuseBody'
  <1>0. TypeOK /\ DeviceOK(d)
    BY DEF TypeInv
  <1>1. /\ acct'[d].root = NoRoot /\ exposure \subseteq exposure'
        /\ \A e \in Devices \ {d} : op'[e] = op[e] /\ acct'[e] = acct[e]
    <2>1. CASE ClearRoot(d)
      BY <2>1, ClearIs DEF ClearRoot
    <2>2. CASE Adopt(d)
      BY <2>2, AdoptIs
    <2> QED BY <2>1, <2>2
  <1>2. UNCHANGED <<day, root, push, found, budget>>
    BY DEF ClearRoot, Adopt
  <1>3. \A q \in Pushes : Holds(q)
    BY <1>2 DEF Holds, Taken, SamePlace
  <1>4. StillFound /\ day' >= day
    BY <1>0, <1>2, DayIs DEF StillFound
  <1>5. FreshOK(d)'
    BY <1>1 DEF FreshOK
  <1>6. AdoptedOK(d)'
    <2>1. CASE ClearRoot(d)
      <3>1. op[d].pc \in {"purge", "clear"}
        BY <2>1, ClearIs
      <3>2. budget.ops > 0
        BY <1>0, <3>1 DEF DeviceOK, CallOK
      <3>3. budget'.ops # 0
        BY <1>2, <3>2, Zero
      <3> QED BY <3>3 DEF AdoptedOK
    <2>2. CASE Adopt(d)
      <3>1. /\ root[d] = NoRoot /\ found[d] \in Pushes
            /\ \A q \in Pushes : push[q].device # d
            /\ acct'[d].day = push[found[d]].day /\ acct'[d].slot = push[found[d]].slot
            /\ op'[d].root = push[found[d]].root
            /\ \A q \in Pushes :
                 /\ Before(At(found[d]), push[q])
                 /\ push[q].root = push[found[d]].root
                 => "overlooked" \in exposure'
        BY <2>2, AdoptIs DEF Absent
      <3>2. At(found[d]) = [day |-> acct'[d].day, slot |-> acct'[d].slot]
        BY <3>1 DEF At
      <3>3. found'[d] # NoPush /\ root'[d] = NoRoot /\ push' = push
        BY <1>2, <3>1, RestoreAssumption
      <3>4. ASSUME exposure' \cap {"overlooked", "old device"} = {},
                   NEW q \in Pushes, push'[q].root = op'[d].root
            PROVE  ~Before([day |-> acct'[d].day, slot |-> acct'[d].slot], push'[q])
        <4>1. "overlooked" \notin exposure'
          BY <3>4
        <4> HIDE DEF At
        <4> QED BY <3>1, <3>2, <3>3, <3>4, <4>1
      <3> QED BY <1>1, <3>1, <3>3, <3>4 DEF AdoptedOK
    <2> QED BY <2>1, <2>2
  <1>7. \A e \in Devices \ {d} : FreshOK(e)'
    BY <1>1, <1>3, <1>4, FreshKept DEF ReuseBody, SameSlot
  <1>8. \A e \in Devices \ {d} : AdoptedOK(e)'
    BY <1>1, <1>2, <1>3, <1>4, AdoptedKept DEF ReuseBody, SameSlot
  <1>9. ApartOK'
    BY <1>1, <1>3, ApartKept DEF ReuseBody
  <1> QED BY <1>5, <1>6, <1>7, <1>8, <1>9 DEF ReuseBody

LEMMA HoldsSame ==
  ASSUME push' = push
  PROVE  /\ \A q \in Pushes : Holds(q) \/ Starts(q)
         /\ \A q \in Pushes : push'[q].device \in {push[q].device, NoDevice} \/ Starts(q)
  BY DEF Holds, Taken, SamePlace

LEMMA ReusePushes ==
  ASSUME TypeInv, TypeInv', ReuseBody, exposure' \cap ReuseCause = {}, NEW p \in Pushes,
         \/ \E d \in Devices : BeginPush(d, p) \/ Publish(d, p)
         \/ Reserve(p) \/ Build(p) \/ PutRecord(p) \/ UploadFailed(p) \/ MarkWritten(p)
  PROVE  ReuseBody'
  <1>0. TypeOK /\ day \in Nat /\ PushOK(p) /\ First \in Devices
    BY DayIs, RestoreAssumption DEF TypeInv
  <1>1. ASSUME NEW d \in Devices, BeginPush(d, p) \/ Publish(d, p) PROVE ReuseBody'
    <2>1. /\ UNCHANGED <<day, root, acct, found, stored, budget, exposure>>
          /\ \E force : LandSave(d, p, force)
          /\ op' = op \/ (op'[d].pc = "await" /\ \A e \in Devices \ {d} : op'[e] = op[e])
      BY <1>1, PublishIs DEF BeginPush, Publish
    <2>2. \A q \in Pushes : Holds(q) \/ Starts(q)
      BY <2>1, LandHolds
    <2>3. \A q \in Pushes : push'[q].device \in {push[q].device, NoDevice} \/ Starts(q)
      <3>1. /\ OthersStay(p)
            /\ push'[p] = UnsentPush \/ push'[p].pc = "reserve"
        BY <2>1, LandIs
      <3>2. push[p].pc = "idle"
        BY <2>1 DEF LandSave
      <3>3. push'[p] = UnsentPush \/ Starts(p)
        BY <2>2, <3>1, <3>2 DEF Holds
      <3> QED BY <3>1, <3>3, Nones DEF OthersStay
    <2>4. StillFound /\ exposure \subseteq exposure' /\ \A e \in Devices : SameSlot(e)
      BY <2>1 DEF SameSlot, StillFound
    <2>5. day' >= day /\ budget'.ops >= budget.ops
      BY <1>0, <2>1, TimeStands
    <2> QED BY <2>1, <2>2, <2>3, <2>4, <2>5, ReuseKept
  <1>2. CASE Reserve(p)
    <2>1. push[p].device \in Devices
      BY <1>2, ReserveIs
    <2>2. push[p].day \in Day /\ push[p].slot \in Nat
      BY <1>0, PushIs
    <2> QED BY <1>2, <2>1, <2>2, ReuseReserve
  <1>3. CASE Build(p)
    <2>1. /\ UNCHANGED <<day, root, acct, op, found, budget>>
          /\ exposure \subseteq exposure' /\ "root changed" \notin exposure'
      BY <1>3, BuildIs DEF Build, ReuseCause
    <2>2. \A q \in Pushes : Holds(q)
      BY <1>3, <2>1, BuildHolds
    <2>3. \A q \in Pushes : push'[q].device \in {push[q].device, NoDevice}
      <3>1. OthersStay(p) /\ (push'[p] = UnsentPush \/ SamePlace(p))
        BY <1>3, BuildIs
      <3> QED BY <3>1, Nones DEF OthersStay, SamePlace
    <2>4. StillFound /\ \A e \in Devices : SameSlot(e)
      BY <2>1 DEF SameSlot, StillFound
    <2>5. day' >= day /\ budget'.ops >= budget.ops
      BY <1>0, <2>1, TimeStands
    <2> QED BY <1>0, <2>1, <2>2, <2>3, <2>4, <2>5, ReuseKept
  <1>4. CASE PutRecord(p) \/ UploadFailed(p) \/ MarkWritten(p)
    <2>1. /\ UNCHANGED <<day, root, op, found, budget>>
          /\ OthersStay(p) /\ SamePlace(p) /\ exposure \subseteq exposure'
          /\ SameRow(push[p].device)
          /\ \A e \in Devices \ {push[p].device} : acct'[e] = acct[e]
      BY <1>4, ReplyIs
    <2>2. \A q \in Pushes : Holds(q)
      BY <1>4, ReplyRests, RestsHold
    <2>3. \A q \in Pushes : push'[q].device \in {push[q].device, NoDevice}
      BY <2>1 DEF OthersStay, SamePlace
    <2>4. /\ \A e \in Devices : SameSlot(e)
          /\ StillFound /\ day' >= day /\ budget'.ops >= budget.ops
      BY <1>0, <2>1, Budgeted DEF SameRow, SameSlot, StillFound
    <2> QED BY <1>0, <2>1, <2>2, <2>3, <2>4, ReuseKept
  <1> QED BY <1>1, <1>2, <1>3, <1>4

LEMMA ReuseCalls ==
  ASSUME TypeInv, TypeInv', ReuseBody, exposure' \cap ReuseCause = {}, NEW d \in Devices,
         RootOK(d),
         \/ \E r \in Roots : BeginInstall(d, r)
         \/ BeginDisable(d) \/ PurgeOne(d) \/ ClearRoot(d) \/ WrapRoot(d)
         \/ AssignRoot(d) \/ PublishFailed(d) \/ ForgetRoot(d)
  PROVE  ReuseBody'
  <1>0. TypeOK /\ day \in Nat
    BY DayIs DEF TypeInv
  <1>1. ASSUME UNCHANGED <<day, acct, push, found>>, exposure \subseteq exposure',
               budget'.ops >= budget.ops,
               \A e \in Devices \ {d} : op'[e] = op[e] /\ root'[e] = root[e],
               op'[d].pc # "wrap" \/ budget'.ops # 0
        PROVE  ReuseBody'
    <2>1. \A e \in Devices : SameSlot(e)
      BY <1>1 DEF SameSlot
    <2>2. StillFound /\ day' >= day
      BY <1>0, <1>1 DEF StillFound
    <2> QED BY <1>1, <2>1, <2>2, HoldsSame, ReuseKept
  <1>2. CASE (\E r \in Roots : BeginInstall(d, r)) \/ BeginDisable(d)
    <2>1. /\ UNCHANGED <<day, acct, push, found, root, exposure>> /\ StartOp
          /\ \A e \in Devices \ {d} : op'[e] = op[e]
      BY <1>2, InstallIs, DisableIs DEF BeginInstall, BeginDisable
    <2>2. budget'.ops > 0 /\ budget'.ops >= budget.ops
      BY <1>0, <2>1, Budgeted
    <2> QED BY <1>1, <2>1, <2>2, Zero
  <1>3. CASE PurgeOne(d) \/ AssignRoot(d) \/ PublishFailed(d) \/ ForgetRoot(d)
    <2>1. /\ UNCHANGED <<day, acct, push, found, budget>> /\ exposure \subseteq exposure'
          /\ \A e \in Devices \ {d} : op'[e] = op[e] /\ root'[e] = root[e]
          /\ op'[d].pc # "wrap"
      <3>1. CASE PurgeOne(d)
        BY <3>1, PurgeOneIs DEF PurgeOne
      <3>2. CASE AssignRoot(d)
        BY <3>2, AssignIs, Nones DEF AssignRoot
      <3>3. CASE PublishFailed(d)
        BY <3>3, EndOpIs, Nones DEF PublishFailed
      <3>4. CASE ForgetRoot(d)
        <4>1. root' = [root EXCEPT ![d] = NoRoot]
          BY <3>4 DEF ForgetRoot
        <4> QED BY <1>0, <3>4, <4>1, EndOpIs, Nones DEF ForgetRoot, TypeOK
      <3> QED BY <1>3, <3>1, <3>2, <3>3, <3>4
    <2> QED BY <1>0, <1>1, <2>1, Budgeted
  <1>4. CASE ClearRoot(d)
    BY <1>4, ReuseBlank
  <1>5. CASE WrapRoot(d)
    <2>1. CASE Open(d)
      BY <1>5, <2>1, ReuseWrap
    <2>2. CASE ~Open(d)
      <3>1. /\ UNCHANGED <<day, acct, push, found, root, exposure, budget>>
            /\ op' = [op EXCEPT ![d] = IdleOp]
        BY <1>5, <2>2 DEF WrapRoot
      <3>2. op'[d].pc # "wrap" /\ \A e \in Devices \ {d} : op'[e] = op[e]
        BY <1>0, <3>1, Nones DEF TypeOK
      <3> QED BY <1>0, <1>1, <3>1, <3>2, Budgeted
    <2> QED BY <2>1, <2>2
  <1> QED BY <1>2, <1>3, <1>4, <1>5

LEMMA ReuseSessions ==
  ASSUME TypeInv, TypeInv', ReuseBody, exposure' \cap ReuseCause = {}, NEW d \in Devices,
         \/ OpenVault(d) \/ Lock(d) \/ Reload(d) \/ BeginRotate(d) \/ CommitRotate(d)
         \/ Rebind(d) \/ Adopt(d)
         \/ \E r \in Roots : Discover(d, r)
  PROVE  ReuseBody'
  <1>0. TypeOK /\ day \in Nat
    BY DayIs DEF TypeInv
  <1>1. ASSUME UNCHANGED <<day, push, budget>>, exposure \subseteq exposure', StillFound,
               \A e \in Devices : SameSlot(e),
               \A e \in Devices \ {d} : op'[e] = op[e] /\ root'[e] = root[e],
               op'[d].pc = op[d].pc /\ op'[d].root = op[d].root,
               root'[d] \in {root[d], acct[d].root, NoRoot}
        PROVE  ReuseBody'
    BY <1>0, <1>1, Budgeted, HoldsSame, ReuseKept
  <1>2. CASE OpenVault(d)
    <2>1. /\ UNCHANGED <<day, push, budget, acct, op, found, exposure>>
          /\ root' = [root EXCEPT ![d] = acct[d].root]
      BY <1>2 DEF OpenVault
    <2> QED BY <1>0, <1>1, <2>1 DEF StillFound, SameSlot, TypeOK
  <1>3. CASE Lock(d)
    <2>1. /\ UNCHANGED <<day, push, acct, found, exposure>> /\ Event("lock")
          /\ root' = [root EXCEPT ![d] = NoRoot]
      BY <1>3 DEF Lock
    <2>2. /\ op'[d].pc = op[d].pc /\ op'[d].root = op[d].root
          /\ \A e \in Devices \ {d} : op'[e] = op[e]
      BY <1>3, LockIs
    <2>3. budget'.ops = budget.ops
      BY <1>0, <2>1, Budgeted
    <2>4. root'[d] = NoRoot /\ \A e \in Devices \ {d} : root'[e] = root[e]
      BY <1>0, <2>1 DEF TypeOK
    <2> QED BY <1>0, <2>1, <2>2, <2>3, <2>4, Budgeted, HoldsSame, ReuseKept
            DEF StillFound, SameSlot
  <1>4. CASE Reload(d)
    <2>1. /\ UNCHANGED <<day, acct, found>> /\ Event("reload")
          /\ root' = [root EXCEPT ![d] = NoRoot]
      BY <1>4 DEF Reload
    <2>2. /\ op'[d] = IdleOp /\ \A e \in Devices \ {d} : op'[e] = op[e]
          /\ exposure \subseteq exposure'
      BY <1>4, ReloadIs
    <2>3. \A q \in Pushes : Holds(q)
      BY <1>4, ReloadRests, RestsHold
    <2>4. \A q \in Pushes : push'[q].device = push[q].device
      BY <1>4, ReloadIs DEF SamePlace
    <2>5. budget'.ops = budget.ops
      BY <1>0, <2>1, Budgeted
    <2>6. op'[d].pc # "wrap" /\ \A e \in Devices \ {d} : root'[e] = root[e]
      BY <1>0, <2>1, <2>2, Nones DEF TypeOK
    <2>7. StillFound /\ \A e \in Devices : SameSlot(e)
      BY <2>1 DEF StillFound, SameSlot
    <2> QED BY <1>0, <2>1, <2>2, <2>3, <2>4, <2>5, <2>6, <2>7, Budgeted, ReuseKept
  <1>5. CASE BeginRotate(d)
    <2>1. UNCHANGED <<day, push, root, acct, op, found, exposure>> /\ Event("rotate")
      BY <1>5 DEF BeginRotate
    <2>2. budget'.ops = budget.ops
      BY <1>0, <2>1, Budgeted
    <2> QED BY <1>0, <2>1, <2>2, Budgeted, HoldsSame, ReuseKept DEF StillFound, SameSlot
  <1>6. CASE CommitRotate(d)
    <2>1. acct' = acct /\ exposure \subseteq exposure'
      BY <1>6, RotateIs DEF ReuseCause
    <2>2. UNCHANGED <<day, push, root, op, found, budget>>
      BY <1>6 DEF CommitRotate
    <2> QED BY <1>1, <2>1, <2>2 DEF StillFound, SameSlot
  <1>7. CASE Rebind(d)
    <2>1. /\ UNCHANGED <<day, push, op, found, budget, exposure>>
          /\ SameRow(d) /\ root'[d] = acct[d].root
          /\ \A e \in Devices \ {d} : acct'[e] = acct[e] /\ root'[e] = root[e]
      BY <1>7, RebindIs DEF Rebind
    <2>2. \A e \in Devices : SameSlot(e)
      BY <2>1 DEF SameRow, SameSlot
    <2> QED BY <1>1, <2>1, <2>2 DEF StillFound
  <1>8. CASE Adopt(d)
    BY <1>8, ReuseBlank
  <1>9. ASSUME NEW r \in Roots, Discover(d, r) PROVE ReuseBody'
    <2>1. UNCHANGED <<day, push, root, acct, op, budget, exposure>> /\ found[d] = NoPush
      BY <1>9 DEF Discover
    <2>2. StillFound
      <3>1. \E q : found' = [found EXCEPT ![d] = q]
        BY <1>9 DEF Discover
      <3> QED BY <1>0, <2>1, <3>1 DEF StillFound, TypeOK
    <2> QED BY <1>1, <2>1, <2>2 DEF SameSlot
  <1> QED BY <1>2, <1>3, <1>4, <1>5, <1>6, <1>7, <1>8, <1>9

LEMMA ReuseNext ==
  ASSUME TypeInv, PurgeInv, ReuseInv, [Next]_vars
  PROVE  ReuseInv'
  <1> SUFFICES ASSUME exposure' \cap ReuseCause = {} PROVE ReuseBody'
    BY DEF ReuseInv, ReuseBody
  <1>0. TypeInv' /\ exposure \subseteq exposure'
    BY TypeNext, Grows
  <1>1. ReuseBody /\ \A d \in Devices : RootOK(d)
    <2>1. exposure \cap ReuseCause = {} /\ "rewound" \notin exposure
      BY <1>0 DEF ReuseCause
    <2> QED BY <2>1 DEF ReuseInv, ReuseBody, PurgeInv, PurgeBody
  <1>2. ASSUME UNCHANGED <<root, acct, push, op, found>>, budget'.ops = budget.ops, day' >= day
        PROVE  ReuseBody'
    <2>1. First \in Devices /\ budget'.ops >= budget.ops
      BY <1>2, RestoreAssumption, Budgeted DEF TypeInv
    <2>2. StillFound /\ \A e \in Devices : SameSlot(e)
      BY <1>2 DEF StillFound, SameSlot
    <2> QED BY <1>0, <1>1, <1>2, <2>1, <2>2, HoldsSame, ReuseKept
  <1>3. CASE NextDay
    <2>1. day' >= day
      BY <1>3, NextDayType, DayIs DEF TypeInv
    <2>2. budget'.ops = budget.ops
      BY <1>3, Budgeted DEF NextDay, TypeInv
    <2> QED BY <1>2, <1>3, <2>1, <2>2 DEF NextDay
  <1>4. CASE UNCHANGED vars
    <2>1. day' >= day
      BY <1>4, DayIs DEF TypeInv, vars
    <2> QED BY <1>2, <1>4, <2>1 DEF vars
  <1> QED BY <1>0, <1>1, <1>3, <1>4, ReusePushes, ReuseCalls, ReuseSessions DEF Next

LEMMA ReuseInit ==
  ASSUME Init
  PROVE  ReuseInv
  <1>1. /\ \A q \in Pushes : push[q] = IdlePush
        /\ \A d \in Devices : op[d] = IdleOp
    BY DEF Init
  <1>2. \A q \in Pushes : ~Taken(q)
    <2>1. \A q \in Pushes : push[q].pc = "idle" /\ push[q].at = 0
      BY <1>1, Nones
    <2> QED BY <2>1, Zero DEF Taken
  <1>3. \A d \in Devices : op[d].pc = "idle"
    BY <1>1, Nones
  <1> QED BY <1>2, <1>3 DEF ReuseInv, FreshOK, AdoptedOK, ApartOK

(* reserveRestorePointer and the seal of adoptRestoredVault give no record *)
(* an address that another record has, but for the causes named with the   *)
(* property: whatever a device can take next lies above every slot taken   *)
(* under its root, by itself or, while it alone writes, by anyone.         *)
THEOREM AddressesTakenOnce == Spec => []AddressReuseHasCause
  <1>1. Init => IInv
    BY TypeInit, PurgeInit, ReuseInit DEF IInv
  <1>2. IInv /\ [Next]_vars => IInv'
    BY TypeNext, PurgeNext, ReuseNext DEF IInv
  <1>3. IInv => AddressReuseHasCause
    <2> SUFFICES ASSUME IInv, NEW p \in Written, NEW q \in Written, SameAddress(p, q),
                        exposure \cap ReuseCause = {}
                 PROVE  /\ push[p].device # push[q].device
                        /\ exposure \cap {"overlooked", "old device"} # {}
      BY DEF AddressReuseHasCause
    <2>1. p \in Pushes /\ q \in Pushes /\ Taken(p) /\ Taken(q) /\ push[p].at > 0
      BY DEF Written, Taken
    <2>2. push[p].root # NoRoot
      BY <2>1 DEF IInv, TypeInv, PushOK
    <2> QED BY <2>1, <2>2 DEF IInv, ReuseInv, ApartOK
  <1> QED BY <1>1, <1>2, <1>3, PTL DEF Spec

-----------------------------------------------------------------------------
(* A marked record is found: maxima of bounded sets *)

(* A set of naturals below a bound has a maximum: without one, adding 1    *)
(* would map the numbers it reaches into those of them that are not 0.     *)
LEMMA Maximum ==
  ASSUME NEW N \in Nat, NEW S, S \subseteq 0 .. N, S # {}
  PROVE  \E x \in S : \A y \in S : x >= y
  <1> SUFFICES ASSUME \A x \in S : \E y \in S : y > x PROVE FALSE
    <2>1. ASSUME NEW x \in S, NEW y \in S, ~(x >= y) PROVE y > x
      BY <2>1
    <2> QED BY <2>1
  <1> DEFINE U == {n \in 0 .. N : \E x \in S : n <= x}
             V == U \ {0}
             f == [n \in U |-> n + 1]
  <1>1. 0 \in U
    <2>1. PICK x \in S : x \in 0 .. N
      OBVIOUS
    <2> QED BY <2>1
  <1>2. f \in [U -> V]
    <2>1. ASSUME NEW n \in U PROVE n + 1 \in V
      <3>1. PICK x \in S : n <= x
        OBVIOUS
      <3>2. PICK y \in S : y > x
        OBVIOUS
      <3> QED BY <3>1, <3>2
    <2> QED BY <2>1
  <1>3. IsFiniteSet(U)
    <2>1. IsFiniteSet(0 .. N)
      BY FS_Interval
    <2> QED BY <2>1, FS_Subset
  <1>4. IsFiniteSet(V) /\ Cardinality(V) < Cardinality(U)
    <2>1. IsFiniteSet(V) /\ Cardinality(V) = Cardinality(U) - 1
      BY <1>1, <1>3, FS_RemoveElement
    <2>2. Cardinality(U) \in Nat
      BY <1>3, FS_CardinalityType
    <2> QED BY <2>1, <2>2
  <1>5. PICK m \in U, n \in U : m # n /\ f[m] = f[n]
    <2> HIDE DEF U, V, f
    <2> QED BY <1>2, <1>3, <1>4, FS_PigeonHole
  <1> QED BY <1>5

LEMMA MaxIs ==
  ASSUME NEW N \in Nat, NEW S, S \subseteq 0 .. N, S # {}
  PROVE  Max(S) \in S /\ \A y \in S : Max(S) >= y
  BY Maximum DEF Max

LEMMA WrittenIs ==
  ASSUME TypeOK
  PROVE  /\ IsFiniteSet(Written) /\ Cardinality(Written) \in Nat
         /\ \A q \in Pushes : q \in Written <=> push[q].at # 0
         /\ Written \subseteq Pushes
  <1>1. IsFiniteSet(Written)
    BY RestoreAssumption, FS_Subset DEF Written
  <1>2. \A q \in Pushes : push[q].at \in Nat
    BY PushIs
  <1> QED BY <1>1, <1>2, FS_CardinalityType DEF Written

(* The newest of some records. *)
LEMMA NewestIs ==
  ASSUME TypeOK, CountOK, NEW S, S \subseteq Pushes, S # {}
  PROVE  Newest(S) \in S /\ IsNewest(Newest(S), S)
  <1> DEFINE T == {push[q].at : q \in S}
  <1>1. T \subseteq 0 .. Cardinality(Written) /\ T # {} /\ Cardinality(Written) \in Nat
    BY PushIs, WrittenIs DEF CountOK
  <1>2. PICK n \in T : \A k \in T : n >= k
    BY <1>1, Maximum
  <1>3. \E q \in S : IsNewest(q, S)
    <2>1. PICK q \in S : push[q].at = n
      BY <1>2
    <2>2. \A x \in S : push[x].at <= push[q].at
      BY <1>1, <1>2, <2>1
    <2> QED BY <2>2 DEF IsNewest
  <1> QED BY <1>3 DEF Newest

-----------------------------------------------------------------------------
(* What a step does to records, rows and numbers *)

(* A record keeps its number, its address and its place in the chain.      *)
LEMMA RecordStays ==
  ASSUME TypeInv, [Next]_vars, NEW q \in Pushes, ~Build(q)
  PROVE  /\ push'[q].at = push[q].at
         /\ push[q].at # 0 => SamePlace(q) /\ push'[q].root = push[q].root
  <1>0. PushOK(q) /\ TypeOK
    BY DEF TypeInv
  <1>1. ASSUME push'[q] = push[q]
        PROVE  /\ push'[q].at = push[q].at
               /\ SamePlace(q) /\ push'[q].root = push[q].root
    BY <1>1 DEF SamePlace
  <1>2. ASSUME NEW p \in Pushes, NEW d \in Devices, BeginPush(d, p) \/ Publish(d, p)
        PROVE  \/ push'[q] = push[q]
               \/ push[q].at = 0 /\ push'[q].at = 0
    <2>1. PICK force : LandSave(d, p, force)
      BY <1>2 DEF BeginPush, Publish
    <2> QED BY <2>1, LandIs, Nones DEF OthersStay
  <1>3. ASSUME NEW p \in Pushes, Reserve(p)
        PROVE  \/ push'[q] = push[q]
               \/ push[q].at = 0 /\ push'[q].at = 0
    <2>1. push'[p].at = 0 /\ OthersStay(p) /\ push[p].pc = "reserve"
      BY <1>3, ReserveIs
    <2>2. CASE q = p
      BY <1>0, <2>1, <2>2 DEF PushOK
    <2> QED BY <2>1, <2>2 DEF OthersStay
  <1>4. ASSUME NEW p \in Pushes, Build(p)
        PROVE  push'[q] = push[q]
    BY <1>4, BuildIs DEF OthersStay
  <1>5. ASSUME NEW p \in Pushes, PutRecord(p) \/ UploadFailed(p) \/ MarkWritten(p)
        PROVE  /\ push'[q].at = push[q].at
               /\ SamePlace(q) /\ push'[q].root = push[q].root
    <2>1. CASE q = p
      BY <1>5, <2>1, ReplyIs
    <2>2. CASE q # p
      BY <1>1, <1>5, <2>2, ReplyIs DEF OthersStay
    <2> QED BY <2>1, <2>2
  <1>6. ASSUME NEW d \in Devices, Reload(d)
        PROVE  /\ push'[q].at = push[q].at
               /\ SamePlace(q) /\ push'[q].root = push[q].root
    BY <1>1, <1>6, ReloadIs
  <1>7. ASSUME NEW d \in Devices,
               \/ \E r \in Roots : BeginInstall(d, r) \/ Discover(d, r)
               \/ BeginDisable(d) \/ PurgeOne(d) \/ ClearRoot(d) \/ WrapRoot(d)
               \/ AssignRoot(d) \/ PublishFailed(d) \/ ForgetRoot(d) \/ OpenVault(d)
               \/ Lock(d) \/ BeginRotate(d) \/ CommitRotate(d) \/ Rebind(d) \/ Adopt(d)
        PROVE  push' = push
    BY <1>7 DEF BeginInstall, Discover, BeginDisable, PurgeOne, ClearRoot, WrapRoot,
                AssignRoot, PublishFailed, ForgetRoot, OpenVault, Lock, BeginRotate,
                CommitRotate, Rebind, Adopt
  <1>8. CASE NextDay \/ UNCHANGED vars
    BY <1>1, <1>8 DEF NextDay, vars
  <1> QED BY <1>1, <1>2, <1>3, <1>4, <1>5, <1>6, <1>7, <1>8 DEF Next

(* A push has a record from the step that builds it on, as the next one.   *)
LEMMA RecordNew ==
  ASSUME TypeInv, NEW q \in Pushes, Build(q)
  PROVE  /\ push[q].at = 0
         /\ push'[q].at \in {0, Cardinality(Written) + 1}
         /\ push'[q].at # 0 => SamePlace(q)
  <1>0. TypeOK /\ PushOK(q) /\ push[q].pc = "build"
    BY DEF TypeInv, Build
  <1>1. push[q].at = 0
    BY <1>0 DEF PushOK
  <1>2. push'[q].at \in {0, Cardinality(Written) + 1}
    <2>1. push[q] \in Push
      BY <1>0, PushIs
    <2>2. \/ push'[q] = UnsentPush
          \/ push'[q] = [push[q] EXCEPT !.pc = "sent", !.root = root[push[q].device],
                                       !.at = Cardinality(Written) + 1]
      BY <1>0 DEF Build, TypeOK
    <2> QED BY <2>1, <2>2, Nones DEF Push
  <1> QED BY <1>1, <1>2, BuildIs, Nones

LEMMA CountNext ==
  ASSUME TypeInv, CountOK, [Next]_vars
  PROVE  CountOK'
  <1>0. TypeOK
    BY DEF TypeInv
  <1>1. CASE \A q \in Pushes : push'[q].at = push[q].at
    <2>1. Written' = Written
      BY <1>1 DEF Written
    <2> QED BY <1>1, <2>1 DEF CountOK
  <1>2. ASSUME NEW p \in Pushes, push'[p].at # push[p].at PROVE CountOK'
    <2>1. Build(p)
      BY <1>2, RecordStays
    <2>2. push[p].at = 0 /\ push'[p].at = Cardinality(Written) + 1
      BY <1>2, <2>1, RecordNew
    <2>3. \A q \in Pushes \ {p} : push'[q] = push[q]
      BY <2>1, BuildIs DEF OthersStay
    <2>4. Written' = Written \cup {p} /\ p \notin Written
      <3>1. /\ \A q \in Pushes : push[q].at \in Nat
            /\ Cardinality(Written) \in Nat
        BY <1>0, PushIs, WrittenIs
      <3> QED BY <2>2, <2>3, <3>1 DEF Written
    <2>5. Cardinality(Written') = Cardinality(Written) + 1 /\ Cardinality(Written) \in Nat
      BY <1>0, <2>4, WrittenIs, FS_AddElement
    <2>6. ASSUME NEW q \in Pushes PROVE push'[q].at <= Cardinality(Written')
      <3>1. push[q].at <= Cardinality(Written) /\ push[q].at \in Nat
        BY <1>0, PushIs DEF CountOK
      <3> QED BY <2>2, <2>3, <2>5, <3>1
    <2> QED BY <2>6 DEF CountOK
  <1> QED BY <1>1, <1>2

(* A record leaves the server only when its device deletes it.             *)
LEMMA StoredStays ==
  ASSUME TypeInv, ReuseInv, [Next]_vars, exposure' = {},
         NEW m \in stored, op[push[m].device].pc # "purge"
  PROVE  m \in stored'
  <1>0. /\ TypeOK /\ exposure = {} /\ ReuseInv
        /\ m \in Pushes /\ push[m].at > 0 /\ push[m].root # NoRoot
    <2>1. m \in Pushes /\ exposure = {}
      BY Grows DEF TypeInv, TypeOK
    <2> QED BY <2>1 DEF TypeInv, PushOK, Sealed
  <1>1. ASSUME NEW p \in Pushes, PutRecord(p) PROVE m \in stored'
    <2>1. stored' = {q \in stored : Addr(q) # Addr(p)} \cup {p}
      BY <1>1 DEF PutRecord
    <2>2. Taken(m) /\ Taken(p)
      BY <1>0, <1>1, ReplyIs DEF Taken
    <2>3. CASE m # p /\ Addr(m) = Addr(p)
      BY <1>0, <2>2, <2>3 DEF ReuseInv, ApartOK, SameAddress
    <2> QED BY <2>1, <2>3
  <1>2. ASSUME NEW d \in Devices, PurgeOne(d) PROVE m \in stored'
    BY <1>2, PurgeOneIs
  <1>3. ASSUME NEW d \in Devices,
               \/ \E p \in Pushes : BeginPush(d, p) \/ Publish(d, p)
               \/ \E r \in Roots : BeginInstall(d, r) \/ Discover(d, r)
               \/ BeginDisable(d) \/ ClearRoot(d) \/ WrapRoot(d)
               \/ AssignRoot(d) \/ PublishFailed(d) \/ ForgetRoot(d) \/ OpenVault(d)
               \/ Lock(d) \/ Reload(d) \/ BeginRotate(d) \/ CommitRotate(d)
               \/ Rebind(d) \/ Adopt(d)
        PROVE  stored' = stored
    BY <1>3 DEF BeginPush, Publish, BeginInstall, Discover, BeginDisable, ClearRoot, WrapRoot,
                AssignRoot, PublishFailed, ForgetRoot, OpenVault, Lock, Reload, BeginRotate,
                CommitRotate, Rebind, Adopt
  <1>4. ASSUME NEW p \in Pushes,
               Reserve(p) \/ Build(p) \/ UploadFailed(p) \/ MarkWritten(p)
        PROVE  stored' = stored
    BY <1>4 DEF Reserve, Build, UploadFailed, MarkWritten
  <1>5. CASE NextDay \/ UNCHANGED vars
    BY <1>5 DEF NextDay, vars
  <1> QED BY <1>1, <1>2, <1>3, <1>4, <1>5 DEF Next

(* What is written to a row leaves the enrolment, and says of no record    *)
(* that it landed.                                                         *)
LEMMA RowsWritten ==
  ASSUME NEW a \in Account
  PROVE  /\ \A c : Reserved(a, c).enrolled = a.enrolled /\ Reserved(a, c).index = 0
         /\ Forgotten(a).enrolled = a.enrolled /\ Forgotten(a).index = 0
         /\ \A r : Wrapped(a, r).enrolled = a.enrolled /\ Wrapped(a, r).index = 0
  <1>1. ASSUME NEW c
        PROVE  Reserved(a, c).enrolled = a.enrolled /\ Reserved(a, c).index = 0
    <2> DEFINE x == {y \in a.pointers : y.day >= c.day - RetainDays} \cup {c}
    <2>1. Reserved(a, c) = [a EXCEPT !.day = c.day, !.slot = c.slot, !.index = 0,
                                     !.pointers = x]
      BY DEF Reserved
    <2> HIDE DEF x
    <2> QED BY <2>1 DEF Account
  <1>2. Forgotten(a).enrolled = a.enrolled /\ Forgotten(a).index = 0
    BY DEF Forgotten, Account
  <1>3. \A r : Wrapped(a, r).enrolled = a.enrolled /\ Wrapped(a, r).index = 0
    BY DEF Wrapped, Account
  <1> QED BY <1>1, <1>2, <1>3

(* The row of a device goes on saying what it said, or stops saying that   *)
(* its last record landed, or begins to.                                   *)
Says(d) == <<acct[d].enrolled, acct[d].root, acct[d].day, acct[d].slot, acct[d].index>>
Speaks(d) == acct[d].enrolled /\ acct[d].index > 0

LEMMA RowStays ==
  ASSUME TypeInv, [Next]_vars, exposure' = {}, NEW d \in Devices
  PROVE  \/ /\ Says(d)' = Says(d)
            /\ op[d].pc = "purge" => op'[d].pc = "purge"
         \/ ~Speaks(d)'
         \/ \E p \in Pushes : MarkWritten(p) /\ push[p].device = d
  <1>0. TypeOK /\ acct \in [Devices -> Account] /\ op \in [Devices -> Op]
    BY DEF TypeInv, TypeOK
  <1> DEFINE Goal == \/ /\ Says(d)' = Says(d)
                        /\ op[d].pc = "purge" => op'[d].pc = "purge"
                     \/ ~Speaks(d)'
  <1>1. ASSUME acct'[d] = acct[d], op[d].pc = "purge" => op'[d].pc = "purge" PROVE Goal
    BY <1>1 DEF Says
  <1>2. ASSUME acct'[d].index = 0 PROVE Goal
    BY <1>2, Zero DEF Speaks
  <1>3. ASSUME NEW p \in Pushes, Reserve(p) PROVE Goal
    <2>1. CASE push[p].device = d
      <3> DEFINE c == [day |-> push[p].day, slot |-> push[p].slot]
      <3>1. acct'[d] = Reserved(acct[d], c)
        BY <1>0, <1>3, <2>1 DEF Reserve
      <3>2. acct'[d].index = 0
        BY <1>0, <3>1, RowsWritten
      <3> QED BY <1>2, <3>2
    <2>2. CASE push[p].device # d
      BY <1>1, <1>3, <2>2, ReserveIs DEF Reserve
    <2> QED BY <2>1, <2>2
  <1>4. ASSUME NEW p \in Pushes, Build(p) \/ PutRecord(p) \/ UploadFailed(p) PROVE Goal
    BY <1>1, <1>4 DEF Build, PutRecord, UploadFailed
  <1>5. ASSUME NEW p \in Pushes, MarkWritten(p), push[p].device # d PROVE Goal
    BY <1>1, <1>5, MarkIs DEF MarkWritten
  <1>6. ASSUME NEW e \in Devices,
               \/ \E p \in Pushes : BeginPush(e, p)
               \/ \E r \in Roots : Discover(e, r)
               \/ OpenVault(e) \/ BeginRotate(e)
        PROVE  Goal
    BY <1>1, <1>6 DEF BeginPush, Discover, OpenVault, BeginRotate
  <1>7. ASSUME NEW e \in Devices,
               \/ \E r \in Roots : BeginInstall(e, r)
               \/ BeginDisable(e) \/ PurgeOne(e) \/ AssignRoot(e) \/ PublishFailed(e)
               \/ ForgetRoot(e) \/ \E p \in Pushes : Publish(e, p)
        PROVE  Goal
    <2>1. acct' = acct
      BY <1>7 DEF BeginInstall, BeginDisable, PurgeOne, AssignRoot, PublishFailed, ForgetRoot,
                  Publish
    <2>2. CASE e = d
      <3>1. CASE PurgeOne(e)
        BY <1>1, <2>1, <2>2, <3>1, PurgeOneIs
      <3>2. CASE ~PurgeOne(e)
        <4>1. op[e].pc # "purge"
          BY <1>7, <3>2, InstallIs, DisableIs
             DEF AssignRoot, PublishFailed, ForgetRoot, Publish
        <4> QED BY <1>1, <2>1, <2>2, <4>1
      <3> QED BY <3>1, <3>2
    <2>3. CASE e # d
      <3>1. op'[d] = op[d]
        <4>1. CASE PublishFailed(e) \/ ForgetRoot(e)
          BY <1>0, <2>3, <4>1 DEF PublishFailed, ForgetRoot
        <4>2. ASSUME NEW r \in Roots, BeginInstall(e, r) PROVE op'[d] = op[d]
          <5>1. \A f \in Devices \ {e} : op'[f] = op[f]
            BY <4>2, InstallIs
          <5> QED BY <2>3, <5>1
        <4>3. CASE BeginDisable(e)
          BY <2>3, <4>3, DisableIs
        <4>4. CASE PurgeOne(e)
          BY <2>3, <4>4, PurgeOneIs
        <4>5. CASE AssignRoot(e)
          BY <2>3, <4>5, AssignIs
        <4>6. ASSUME NEW p \in Pushes, Publish(e, p) PROVE op'[d] = op[d]
          BY <2>3, <4>6, PublishIs
        <4> QED BY <1>7, <4>1, <4>2, <4>3, <4>4, <4>5, <4>6
      <3> QED BY <1>1, <2>1, <3>1
    <2> QED BY <2>2, <2>3
  <1>8. ASSUME NEW e \in Devices, ClearRoot(e) \/ WrapRoot(e) PROVE Goal
    <2>1. CASE e # d
      BY <1>1, <1>8, <2>1, ClearIs, WrapIs
    <2>2. CASE e = d /\ ClearRoot(e)
      <3>1. acct'[d] = Forgotten(acct[d])
        BY <1>0, <2>2 DEF ClearRoot
      <3>2. acct'[d].index = 0
        BY <1>0, <3>1, RowsWritten
      <3> QED BY <1>2, <3>2
    <2>3. CASE e = d /\ WrapRoot(e) /\ Open(d)
      <3>1. acct'[d] = Wrapped(acct[d], op[d].root)
        BY <1>0, <2>3 DEF WrapRoot
      <3>2. acct'[d].index = 0
        BY <1>0, <3>1, RowsWritten
      <3> QED BY <1>2, <3>2
    <2>4. CASE e = d /\ WrapRoot(e) /\ ~Open(d)
      BY <1>1, <2>4 DEF WrapRoot
    <2> QED BY <1>8, <2>1, <2>2, <2>3, <2>4
  <1>9. ASSUME NEW e \in Devices, Lock(e) PROVE Goal
    <2>1. acct' = acct
      BY <1>9 DEF Lock
    <2> QED BY <1>1, <1>9, <2>1, LockIs
  <1>10. ASSUME NEW e \in Devices, Reload(e) PROVE Goal
    <2>1. acct' = acct
      BY <1>10 DEF Reload
    <2>2. CASE e # d
      BY <1>1, <1>10, <2>1, <2>2, ReloadIs
    <2>3. CASE e = d
      <3>1. ~(op[d].pc \in {"purge", "clear"} /\ op[d].old # NoRoot)
        BY <1>10, <2>3 DEF Reload, Expose
      <3>2. op[d].pc # "purge"
        BY <3>1 DEF TypeInv, DeviceOK, CallOK
      <3> QED BY <1>1, <2>1, <3>2
    <2> QED BY <2>2, <2>3
  <1>11. ASSUME NEW e \in Devices, CommitRotate(e) PROVE Goal
    <2>1. acct' = acct
      BY <1>11, RotateIs
    <2> QED BY <1>1, <1>11, <2>1 DEF CommitRotate
  <1>12. ASSUME NEW e \in Devices, Rebind(e) PROVE Goal
    <2>1. CASE e # d
      BY <1>1, <1>12, <2>1, RebindIs DEF Rebind
    <2>2. CASE e = d
      <3>1. acct' = [acct EXCEPT ![d].enrolled = FALSE, ![d].index = 0]
        BY <1>12, <2>2 DEF Rebind
      <3>2. acct'[d].index = 0
        BY <1>0, <3>1 DEF Account
      <3> QED BY <1>2, <3>2
    <2> QED BY <2>1, <2>2
  <1>13. ASSUME NEW e \in Devices, Adopt(e) PROVE Goal
    <2>1. CASE e # d
      BY <1>1, <1>13, <2>1, AdoptIs
    <2>2. CASE e = d
      <3>1. acct'[d] = Adopted(found[d])
        BY <1>0, <1>13, <2>2 DEF Adopt
      <3>2. acct'[d].index = 0
        BY <3>1 DEF Adopted, FirstAccount, NoAccount
      <3> QED BY <1>2, <3>2
    <2> QED BY <2>1, <2>2
  <1>14. ASSUME NextDay \/ UNCHANGED vars PROVE Goal
    BY <1>1, <1>14 DEF NextDay, vars
  <1> HIDE DEF Goal
  <1>15. ASSUME \A p \in Pushes : ~(MarkWritten(p) /\ push[p].device = d) PROVE Goal
    <2>1. ASSUME NEW e \in Devices, NEW p \in Pushes, BeginPush(e, p) \/ Publish(e, p)
          PROVE  Goal
      BY <1>6, <1>7, <2>1
    <2>2. ASSUME NEW p \in Pushes,
                 \/ Reserve(p) \/ Build(p) \/ PutRecord(p) \/ UploadFailed(p)
                 \/ MarkWritten(p)
          PROVE  Goal
      <3>1. CASE MarkWritten(p)
        BY <1>5, <1>15, <3>1
      <3> QED BY <1>3, <1>4, <2>2, <3>1
    <2>3. ASSUME NEW e \in Devices, NEW r \in Roots, BeginInstall(e, r) \/ Discover(e, r)
          PROVE  Goal
      BY <1>6, <1>7, <2>3
    <2>4. ASSUME NEW e \in Devices,
                 \/ BeginDisable(e) \/ PurgeOne(e) \/ ClearRoot(e)
                 \/ WrapRoot(e) \/ AssignRoot(e) \/ PublishFailed(e)
                 \/ ForgetRoot(e) \/ OpenVault(e) \/ Lock(e)
                 \/ Reload(e) \/ BeginRotate(e) \/ CommitRotate(e)
                 \/ Rebind(e) \/ Adopt(e)
          PROVE  Goal
      BY <1>6, <1>7, <1>8, <1>9, <1>10, <1>11, <1>12, <1>13, <2>4
    <2> QED BY <1>14, <2>1, <2>2, <2>3, <2>4 DEF Next
  <1> QED BY <1>15 DEF Goal

(* Who a push is of, and where it is in the chain.                         *)
LEMMA NumberStays ==
  ASSUME TypeInv, [Next]_vars, exposure' = {}, NEW d \in Devices, acct'[d].enrolled
  PROVE  \/ /\ acct[d].enrolled
            /\ \/ top'[d] = top[d]
               \/ \E p \in Pushes, force \in BOOLEAN : LandSave(d, p, force)
         \/ \A q \in Pushes : push'[q] = push[q] /\ push[q].device # d
  <1>0. TypeOK /\ acct \in [Devices -> Account] /\ top \in [Devices -> Index]
    BY DEF TypeInv, TypeOK
  <1>1. ASSUME acct'[d].enrolled = acct[d].enrolled, top'[d] = top[d]
        PROVE  acct[d].enrolled /\ top'[d] = top[d]
    BY <1>1
  <1>2. ASSUME NEW e \in Devices, NEW p \in Pushes, BeginPush(e, p) \/ Publish(e, p)
        PROVE  /\ acct[d].enrolled
               /\ top'[d] = top[d] \/ \E force \in BOOLEAN : LandSave(d, p, force)
    <2>1. acct' = acct /\ \E force \in BOOLEAN : LandSave(e, p, force)
      BY <1>2 DEF BeginPush, Publish
    <2>2. e # d => top'[d] = top[d]
      BY <1>0, <2>1 DEF LandSave
    <2> QED BY <2>1, <2>2
  <1>3. ASSUME NEW p \in Pushes,
               \/ Reserve(p) \/ Build(p) \/ PutRecord(p) \/ UploadFailed(p) \/ MarkWritten(p)
        PROVE  acct[d].enrolled /\ top'[d] = top[d]
    <2>1. top' = top
      BY <1>3 DEF Reserve, Build, PutRecord, UploadFailed, MarkWritten
    <2>2. CASE Reserve(p)
      <3>1. \/ acct'[d] = acct[d]
            \/ \E c : acct'[d] = Reserved(acct[d], c)
        BY <1>0, <2>2 DEF Reserve
      <3>2. acct'[d].enrolled = acct[d].enrolled
        <4>1. acct[d] \in Account
          BY <1>0
        <4>2. ASSUME NEW c, acct'[d] = Reserved(acct[d], c)
              PROVE  acct'[d].enrolled = acct[d].enrolled
          <5>1. Reserved(acct[d], c).enrolled = acct[d].enrolled
            BY <4>1, RowsWritten
          <5> QED BY <4>2, <5>1
        <4> QED BY <3>1, <4>2
      <3> QED BY <1>1, <2>1, <3>2
    <2>3. CASE MarkWritten(p)
      <3>1. acct'[d].enrolled = acct[d].enrolled
        BY <1>0, <2>3 DEF MarkWritten, Account
      <3> QED BY <1>1, <2>1, <3>1
    <2>4. CASE Build(p) \/ PutRecord(p) \/ UploadFailed(p)
      BY <1>1, <2>1, <2>4 DEF Build, PutRecord, UploadFailed
    <2> QED BY <1>3, <2>2, <2>3, <2>4
  <1>4. ASSUME NEW e \in Devices,
               \/ \E r \in Roots : BeginInstall(e, r) \/ Discover(e, r)
               \/ BeginDisable(e) \/ PurgeOne(e) \/ AssignRoot(e) \/ PublishFailed(e)
               \/ ForgetRoot(e) \/ OpenVault(e) \/ Lock(e) \/ Reload(e) \/ BeginRotate(e)
        PROVE  acct[d].enrolled /\ top'[d] = top[d]
    <2>1. acct' = acct /\ top' = top
      BY <1>4 DEF BeginInstall, Discover, BeginDisable, PurgeOne, AssignRoot, PublishFailed,
                  ForgetRoot, OpenVault, Lock, Reload, BeginRotate
    <2> QED BY <1>1, <2>1
  <1>5. ASSUME NEW e \in Devices, ClearRoot(e) \/ WrapRoot(e)
        PROVE  acct[d].enrolled /\ top'[d] = top[d]
    <2>1. top' = top
      BY <1>5 DEF ClearRoot, WrapRoot
    <2>2. \/ acct'[d] = acct[d] \/ acct'[d] = Forgotten(acct[d])
          \/ acct'[d] = Wrapped(acct[d], op[e].root)
      BY <1>0, <1>5 DEF ClearRoot, WrapRoot
    <2>3. acct'[d].enrolled = acct[d].enrolled
      <3>1. acct[d] \in Account
        BY <1>0
      <3>2. /\ Forgotten(acct[d]).enrolled = acct[d].enrolled
            /\ \A r : Wrapped(acct[d], r).enrolled = acct[d].enrolled
        BY <3>1, RowsWritten
      <3> QED BY <2>2, <3>2
    <2> QED BY <1>1, <2>1, <2>3
  <1>6. ASSUME NEW e \in Devices, CommitRotate(e)
        PROVE  acct[d].enrolled /\ top'[d] = top[d]
    <2>1. acct' = acct /\ top' = top
      BY <1>6, RotateIs DEF CommitRotate
    <2> QED BY <1>1, <2>1
  <1>7. ASSUME NEW e \in Devices, Rebind(e)
        PROVE  acct[d].enrolled /\ top'[d] = top[d]
    <2>1. /\ acct' = [acct EXCEPT ![e].enrolled = FALSE, ![e].index = 0]
          /\ top' = [top EXCEPT ![e] = 0]
      BY <1>7 DEF Rebind
    <2>2. e # d
      BY <1>0, <2>1 DEF Account
    <2> QED BY <1>0, <1>1, <2>1, <2>2
  <1>8. ASSUME NEW e \in Devices, Adopt(e)
        PROVE  \/ acct[d].enrolled /\ top'[d] = top[d]
               \/ \A q \in Pushes : push'[q] = push[q] /\ push[q].device # d
    <2>1. push' = push /\ top' = top
      BY <1>8 DEF Adopt
    <2>2. CASE e = d
      BY <1>8, <2>1, <2>2, AdoptIs DEF Absent
    <2>3. CASE e # d
      BY <1>1, <1>8, <2>1, <2>3, AdoptIs
    <2> QED BY <2>2, <2>3
  <1>9. CASE NextDay \/ UNCHANGED vars
    BY <1>1, <1>9 DEF NextDay, vars
  <1> QED BY <1>2, <1>3, <1>4, <1>5, <1>6, <1>7, <1>8, <1>9 DEF Next

LEMMA LandIndex ==
  ASSUME TypeInv, NEW d \in Devices, NEW p \in Pushes, NEW force, LandSave(d, p, force)
  PROVE  /\ top'[d] = top[d] + 1
         /\ \A e \in Devices \ {d} : top'[e] = top[e]
         /\ \/ push'[p].device = NoDevice
            \/ push'[p].device = d /\ push'[p].index = top[d] + 1
  <1>0. TypeOK
    BY DEF TypeInv
  <1>1. top'[d] = top[d] + 1 /\ \A e \in Devices \ {d} : top'[e] = top[e]
    BY <1>0 DEF LandSave, TypeOK
  <1> DEFINE j == [IdlePush EXCEPT !.pc = "reserve", !.device = d, !.index = top[d] + 1,
                                   !.day = day, !.slot = NextSlot(acct[d], day)]
  <1>2. j.device = d /\ j.index = top[d] + 1
    BY DEF IdlePush
  <1>3. push'[p] = UnsentPush \/ push'[p] = j
    BY <1>0 DEF LandSave, TypeOK
  <1> HIDE DEF j
  <1> QED BY <1>1, <1>2, <1>3, Nones

LEMMA PlaceStays ==
  ASSUME TypeInv, [Next]_vars, NEW q \in Pushes
  PROVE  \/ push'[q].device = NoDevice
         \/ push'[q].device = push[q].device /\ push'[q].index = push[q].index
         \/ \E force \in BOOLEAN : LandSave(push'[q].device, q, force)
  <1> DEFINE Goal == \/ push'[q].device = NoDevice
                     \/ push'[q].device = push[q].device /\ push'[q].index = push[q].index
                     \/ \E force \in BOOLEAN : LandSave(push'[q].device, q, force)
  <1>1. ASSUME push'[q] = push[q] PROVE Goal
    BY <1>1
  <1>2. ASSUME NEW d \in Devices, NEW p \in Pushes, BeginPush(d, p) \/ Publish(d, p)
        PROVE  Goal
    <2>1. PICK force \in BOOLEAN : LandSave(d, p, force)
      BY <1>2 DEF BeginPush, Publish
    <2>2. CASE q = p
      BY <2>1, <2>2, LandIndex
    <2>3. CASE q # p
      BY <1>1, <2>1, <2>3, LandIs DEF OthersStay
    <2> QED BY <2>2, <2>3
  <1>3. ASSUME NEW p \in Pushes,
               Reserve(p) \/ Build(p) \/ PutRecord(p) \/ UploadFailed(p) \/ MarkWritten(p)
        PROVE  Goal
    <2>1. OthersStay(p) /\ (SamePlace(p) \/ push'[p] = UnsentPush)
      BY <1>3, ReserveIs, BuildIs, ReplyIs
    <2> QED BY <1>1, <2>1, Nones DEF OthersStay, SamePlace
  <1>4. ASSUME NEW d \in Devices, Reload(d) PROVE Goal
    BY <1>1, <1>4, ReloadIs DEF SamePlace
  <1>5. ASSUME NEW d \in Devices,
               \/ \E r \in Roots : BeginInstall(d, r) \/ Discover(d, r)
               \/ BeginDisable(d) \/ PurgeOne(d) \/ ClearRoot(d) \/ WrapRoot(d)
               \/ AssignRoot(d) \/ PublishFailed(d) \/ ForgetRoot(d) \/ OpenVault(d)
               \/ Lock(d) \/ BeginRotate(d) \/ CommitRotate(d) \/ Rebind(d) \/ Adopt(d)
        PROVE  Goal
    <2>1. push' = push
      BY <1>5 DEF BeginInstall, Discover, BeginDisable, PurgeOne, ClearRoot, WrapRoot,
                  AssignRoot, PublishFailed, ForgetRoot, OpenVault, Lock, BeginRotate,
                  CommitRotate, Rebind, Adopt
    <2> QED BY <1>1, <2>1
  <1>6. ASSUME NextDay \/ UNCHANGED vars PROVE Goal
    BY <1>1, <1>6 DEF NextDay, vars
  <1> HIDE DEF Goal
  <1>7. Goal
    BY <1>2, <1>3, <1>4, <1>5, <1>6 DEF Next
  <1> QED BY <1>7 DEF Goal

LEMMA IndexNext ==
  ASSUME TypeInv, [Next]_vars, exposure' = {}, NEW d \in Devices, IndexOK(d)
  PROVE  IndexOK(d)'
  <1> SUFFICES ASSUME acct'[d].enrolled,
                      NEW p \in Pushes, push'[p].device = d
               PROVE  /\ push'[p].index <= top'[d]
                      /\ \A q \in Pushes :
                           push'[q].device = d /\ push'[q].index = push'[p].index => q = p
    BY DEF IndexOK
  <1>0. /\ TypeOK /\ top[d] \in Nat /\ d # NoDevice
        /\ \A q \in Pushes : push[q].index \in Nat
    <2>1. TypeOK /\ top[d] \in Nat
      BY DEF TypeInv, TypeOK, Index
    <2> QED BY <2>1, PushIs, RestoreAssumption
  <1>1. CASE \A q \in Pushes : push'[q] = push[q] /\ push[q].device # d
    BY <1>1
  <1>2. ASSUME acct[d].enrolled, top'[d] = top[d]
        PROVE  /\ push'[p].index <= top'[d]
               /\ \A q \in Pushes :
                    push'[q].device = d /\ push'[q].index = push'[p].index => q = p
    <2>1. \A q \in Pushes : push'[q].device = d =>
            push[q].device = d /\ push'[q].index = push[q].index
      <3> SUFFICES ASSUME NEW q \in Pushes, push'[q].device = d
                   PROVE  push[q].device = d /\ push'[q].index = push[q].index
        OBVIOUS
      <3>1. ASSUME NEW force \in BOOLEAN, LandSave(d, q, force) PROVE FALSE
        <4>1. top'[d] = top[d] + 1
          BY <3>1, LandIndex
        <4> QED BY <1>0, <1>2, <4>1
      <3> QED BY <1>0, <3>1, PlaceStays
    <2> QED BY <1>2, <2>1 DEF IndexOK
  <1>3. ASSUME acct[d].enrolled, NEW x \in Pushes, NEW force, LandSave(d, x, force)
        PROVE  /\ push'[p].index <= top'[d]
               /\ \A q \in Pushes :
                    push'[q].device = d /\ push'[q].index = push'[p].index => q = p
    <2>1. /\ top'[d] = top[d] + 1
          /\ push'[x].device = d => push'[x].index = top[d] + 1
          /\ \A q \in Pushes \ {x} : push'[q] = push[q]
      BY <1>0, <1>3, LandIndex, LandIs DEF OthersStay
    <2>2. \A q \in Pushes : push[q].device = d => push[q].index <= top[d]
      BY <1>3 DEF IndexOK
    <2>3. push'[p].index <= top'[d]
      BY <1>0, <2>1, <2>2
    <2>4. ASSUME NEW q \in Pushes, push'[q].device = d, push'[q].index = push'[p].index
          PROVE  q = p
      <3>1. CASE q # x /\ p # x
        BY <1>3, <2>1, <2>4, <3>1 DEF IndexOK
      <3>2. CASE q = x /\ p # x
        BY <1>0, <2>1, <2>2, <2>4, <3>2
      <3>3. CASE q # x /\ p = x
        BY <1>0, <2>1, <2>2, <2>4, <3>3
      <3> QED BY <3>1, <3>2, <3>3
    <2> QED BY <2>3, <2>4
  <1> QED BY <1>1, <1>2, <1>3, NumberStays

(* A record that a row stands for goes on being what the row says.         *)
LEMMA MarkStays ==
  ASSUME TypeInv, ReuseInv, CountOK, [Next]_vars, exposure' = {}, NEW d \in Devices,
         NEW m \in Pushes, IsMark(d, m), Says(d)' = Says(d),
         op[d].pc = "purge" => op'[d].pc = "purge"
  PROVE  IsMark(d, m)'
  <1>0. /\ TypeOK /\ \A q \in Pushes : PushOK(q) /\ push[q].at \in Nat
        /\ Cardinality(Written) \in Nat
    BY PushIs, WrittenIs DEF TypeInv
  <1>1. /\ push[m].device = d /\ push[m].index = acct[d].index /\ push[m].at > 0
        /\ Addr(m) = <<acct[d].root, acct[d].day, acct[d].slot>>
        /\ op[d].pc # "purge" => m \in stored
        /\ \A q \in Written :
             push[q].root = acct[d].root /\ Before(acct[d], push[q]) =>
               push[q].at > push[m].at
    BY DEF IsMark
  <1>2. /\ acct'[d].root = acct[d].root /\ acct'[d].day = acct[d].day
        /\ acct'[d].slot = acct[d].slot /\ acct'[d].index = acct[d].index
    BY DEF Says
  <1>3. /\ push'[m].at = push[m].at /\ push'[m].root = push[m].root /\ SamePlace(m)
    <2>1. ~Build(m)
      BY <1>0, <1>1, Zero DEF Build, PushOK
    <2> QED BY <1>1, <2>1, RecordStays, Zero
  <1>4. Addr(m)' = <<acct'[d].root, acct'[d].day, acct'[d].slot>>
    BY <1>1, <1>2, <1>3 DEF Addr, SamePlace
  <1>5. op'[d].pc # "purge" => m \in stored'
    BY <1>1, StoredStays
  <1>6. ASSUME NEW q \in Pushes, push'[q].at > 0, push'[q].root = acct'[d].root,
               Before(acct'[d], push'[q])
        PROVE  push'[q].at > push'[m].at
    <2>1. CASE Build(q)
      <3>1. push'[q].at = Cardinality(Written) + 1
        BY <1>6, <2>1, RecordNew, Zero
      <3>2. push[m].at <= Cardinality(Written)
        BY DEF CountOK
      <3> QED BY <1>0, <1>3, <3>1, <3>2
    <2>2. CASE ~Build(q)
      <3>1. push'[q].at = push[q].at /\ push[q].at # 0
        BY <1>6, <2>2, RecordStays, Zero
      <3>2. SamePlace(q) /\ push'[q].root = push[q].root
        BY <2>2, <3>1, RecordStays
      <3>3. q \in Written
        BY <1>6, <3>1 DEF Written
      <3>4. push[q].root = acct[d].root /\ Before(acct[d], push[q])
        BY <1>2, <1>6, <3>2 DEF SamePlace, Before
      <3> QED BY <1>1, <1>3, <3>1, <3>3, <3>4
    <2> QED BY <2>1, <2>2
  <1>7. /\ push'[m].device = d /\ push'[m].index = acct'[d].index /\ push'[m].at > 0
    BY <1>1, <1>2, <1>3 DEF SamePlace
  <1> QED BY <1>4, <1>5, <1>6, <1>7 DEF IsMark, Written

(* The mark that a reply sets is of a record that is what the row says, or *)
(* the reply came too late, and that is exposed.                           *)
LEMMA MarkSet ==
  ASSUME TypeInv, exposure' = {}, NEW d \in Devices,
         NEW p \in Pushes, MarkWritten(p), push[p].device = d
  PROVE  IsMark(d, p)'
  <1>0. TypeOK /\ acct[d] \in Account
    BY DEF TypeInv, TypeOK
  <1>1. /\ OthersStay(p) /\ SamePlace(p) /\ push[p].at > 0 /\ op' = op
        /\ push'[p].at = push[p].at /\ push'[p].root = push[p].root
    BY ReplyIs
  <1>2. /\ Addr(p) = <<acct[d].root, acct[d].day, acct[d].slot>>
        /\ p \in stored /\ stored' = stored
        /\ \A q \in Written : ~(push[q].root = acct[d].root /\ Before(push[p], push[q]))
    BY DEF MarkWritten, Expose
  <1>3. /\ acct'[d].root = acct[d].root /\ acct'[d].day = acct[d].day
        /\ acct'[d].slot = acct[d].slot
    BY MarkIs DEF SameRow
  <1>4. acct'[d].index = push[p].index
    BY <1>0 DEF MarkWritten, TypeOK, Account
  <1>5. Addr(p)' = <<acct'[d].root, acct'[d].day, acct'[d].slot>>
    BY <1>1, <1>2, <1>3 DEF Addr, SamePlace
  <1>6. acct[d].day = push[p].day /\ acct[d].slot = push[p].slot
    BY <1>2 DEF Addr
  <1>7. ASSUME NEW q \in Pushes, push'[q].at > 0, push'[q].root = acct'[d].root,
               Before(acct'[d], push'[q])
        PROVE  FALSE
    <2>1. /\ push'[q].at = push[q].at /\ push'[q].root = push[q].root
          /\ push'[q].day = push[q].day /\ push'[q].slot = push[q].slot
      BY <1>1 DEF OthersStay, SamePlace
    <2>2. q \in Written /\ push[q].root = acct[d].root
      BY <1>3, <1>7, <2>1 DEF Written
    <2>3. Before(push[p], push[q])
      BY <1>3, <1>6, <1>7, <2>1 DEF Before
    <2> QED BY <1>2, <2>2, <2>3
  <1>8. push'[p].device = d /\ push'[p].index = acct'[d].index /\ push'[p].at > 0
    BY <1>1, <1>4 DEF SamePlace
  <1> QED BY <1>2, <1>5, <1>7, <1>8 DEF IsMark, Written

LEMMA MarkNext ==
  ASSUME TypeInv, ReuseInv, MarkInv, [Next]_vars
  PROVE  MarkInv'
  <1>1. CountOK'
    BY CountNext DEF MarkInv
  <1>2. ASSUME exposure' = {}, NEW d \in Devices PROVE IndexOK(d)' /\ MarkOK(d)'
    <2>1. exposure = {}
      BY <1>2, Grows
    <2>2. IndexOK(d) /\ MarkOK(d) /\ CountOK
      BY <2>1 DEF MarkInv, MarkBody
    <2>3. IndexOK(d)'
      BY <1>2, <2>2, IndexNext
    <2>4. MarkOK(d)'
      <3> SUFFICES ASSUME Speaks(d)' PROVE \E m \in Pushes : IsMark(d, m)'
        BY DEF MarkOK, Speaks
      <3>1. CASE /\ Says(d)' = Says(d)
                 /\ op[d].pc = "purge" => op'[d].pc = "purge"
        <4>1. Speaks(d)
          BY <3>1 DEF Says, Speaks
        <4>2. PICK m \in Pushes : IsMark(d, m)
          BY <2>2, <4>1 DEF MarkOK, Speaks
        <4> QED BY <1>2, <2>2, <3>1, <4>2, MarkStays
      <3>2. ASSUME NEW p \in Pushes, MarkWritten(p), push[p].device = d
            PROVE  \E m \in Pushes : IsMark(d, m)'
        BY <1>2, <3>2, MarkSet
      <3> QED BY <1>2, <3>1, <3>2, RowStays
    <2> QED BY <2>3, <2>4
  <1> QED BY <1>1, <1>2 DEF MarkInv, MarkBody

LEMMA MarkInit ==
  ASSUME Init
  PROVE  MarkInv
  <1>1. \A q \in Pushes : push[q].at = 0 /\ push[q].device = NoDevice
    BY Nones DEF Init
  <1>2. CountOK
    <2>1. Written = {}
      BY <1>1, Zero DEF Written
    <2>2. Cardinality(Written) = 0
      BY <2>1, FS_EmptySet
    <2> QED BY <1>1, <2>2 DEF CountOK
  <1>3. ASSUME NEW d \in Devices PROVE IndexOK(d) /\ MarkOK(d)
    <2>1. d # NoDevice
      BY RestoreAssumption
    <2>2. acct[d].index = 0
      <3>1. PICK r \in StartRoots :
              acct = [e \in Devices |-> IF e = First THEN [FirstAccount EXCEPT !.root = r]
                                                     ELSE NoAccount]
        BY DEF Init
      <3> QED BY <3>1 DEF FirstAccount, NoAccount
    <2> QED BY <1>1, <2>1, <2>2, Zero DEF IndexOK, MarkOK
  <1> QED BY <1>2, <1>3 DEF MarkInv, MarkBody

(* The search that starts from the newest day ends at the record the row   *)
(* stands for, or at a newer one.                                          *)
LEMMA MarkedFound ==
  ASSUME TypeInv, CountOK, NEW d \in Devices, IndexOK(d), NEW m \in Pushes, IsMark(d, m),
         Marked(d), ~EmptySlotBelow(d)
  PROVE  MarkedRecordFound(d)
  <1> DEFINE r == acct[d].root
             H == HitDays(r)
             P(e) == DayPrefix(r, e)
  <1>0. /\ TypeOK /\ stored \subseteq Pushes /\ m \in stored
        /\ push[m].device = d /\ push[m].index = acct[d].index
        /\ push[m].root = r /\ push[m].day = acct[d].day /\ push[m].slot = acct[d].slot
    <2>1. TypeOK /\ stored \subseteq Pushes
      BY DEF TypeInv, TypeOK
    <2>2. op[d].pc # "purge"
      BY QuietIs DEF Marked
    <2> QED BY <2>1, <2>2 DEF IsMark, Addr
  <1>1. m \in P(acct[d].day)
    <2>1. push[m].slot < ScanSlots /\ push[m].slot \in Nat
      BY <1>0, PushIs DEF Marked
    <2>2. ASSUME NEW s \in 0 .. push[m].slot PROVE StoredAt(r, acct[d].day, s) # {}
      <3>1. CASE s = push[m].slot
        BY <1>0, <3>1 DEF StoredAt, Addr
      <3>2. CASE s # push[m].slot
        <4>1. s \in 0 .. acct[d].slot - 1
          BY <1>0, <2>1, <3>2
        <4> QED BY <4>1 DEF EmptySlotBelow
      <3> QED BY <3>1, <3>2
    <2> QED BY <1>0, <2>1, <2>2 DEF DayPrefix
  <1>2. acct[d].day \in H
    <2>1. acct[d].day \in Day /\ acct[d].day <= day /\ day \in Nat /\ acct[d].day \in Nat
      <3>1. push[m].day <= day
        BY DEF TypeInv, PushOK
      <3> QED BY <1>0, <3>1, PushIs, DayIs
    <2>2. day - ScanDays <= acct[d].day
      BY <2>1, RestoreAssumption DEF Marked
    <2>3. acct[d].day \in ScanWindow
      BY <2>1, <2>2 DEF ScanWindow
    <2> QED BY <1>1, <2>3 DEF HitDays
  <1>3. H \subseteq 0 .. MaxDay /\ MaxDay \in Nat
    BY RestoreAssumption DEF HitDays, ScanWindow, Day
  <1> DEFINE x == Max(H)
             q == Newest(P(x))
  <1>4. x \in H /\ x >= acct[d].day /\ x \in Nat /\ acct[d].day \in Nat
    BY <1>2, <1>3, MaxIs
  <1>5. P(x) # {} /\ P(x) \subseteq Pushes
    BY <1>0, <1>4 DEF HitDays, DayPrefix
  <1>6. q \in P(x) /\ IsNewest(q, P(x))
    <2> HIDE DEF P, x
    <2> QED BY <1>0, <1>5, NewestIs
  <1>7. Discovered(r) = q /\ q \in Pushes /\ q # NoPush
    <2>1. Discovered(r) = q
      BY <1>2 DEF Discovered
    <2> QED BY <1>5, <1>6, <2>1, RestoreAssumption
  <1>8. push[m].at <= push[q].at
    <2>1. CASE x = acct[d].day
      BY <1>1, <1>6, <2>1 DEF IsNewest
    <2>2. CASE x # acct[d].day
      <3>1. q \in stored /\ push[q].root = r /\ push[q].day = x
        BY <1>6 DEF DayPrefix
      <3>2. q \in Written
        BY <1>7, <3>1 DEF TypeInv, PushOK, Sealed, Written
      <3>3. Before(acct[d], push[q])
        BY <1>4, <2>2, <3>1 DEF Before
      <3>4. push[q].at > push[m].at
        BY <3>1, <3>2, <3>3 DEF IsMark
      <3> QED BY <1>0, <1>7, <3>4, PushIs
    <2> QED BY <2>1, <2>2
  <1>9. ASSUME NEW p \in Written, push[p].device = d, push[p].index = acct[d].index
        PROVE  p = m
    BY <1>0, <1>9 DEF Written, IndexOK, Marked
  <1> QED BY <1>7, <1>8, <1>9 DEF MarkedRecordFound

(* discoverRestoreRecord, unhindered, finds what a device that was told    *)
(* its record landed believes is there, or something newer, but for the    *)
(* causes named with the property.                                         *)
THEOREM MarkedRecordsAreFound == Spec => []MarkedIsFound
  <1>1. Init => IInv /\ MarkInv
    BY TypeInit, PurgeInit, ReuseInit, MarkInit DEF IInv
  <1>2. (IInv /\ MarkInv) /\ [Next]_vars => (IInv /\ MarkInv)'
    BY TypeNext, PurgeNext, ReuseNext, MarkNext DEF IInv
  <1>3. IInv /\ MarkInv => MarkedIsFound
    <2> SUFFICES ASSUME IInv, MarkInv, NEW d \in Devices, Marked(d), ~EmptySlotBelow(d),
                        exposure = {}
                 PROVE  MarkedRecordFound(d)
      BY DEF MarkedIsFound
    <2>1. TypeInv /\ CountOK /\ IndexOK(d) /\ MarkOK(d)
      BY DEF IInv, MarkInv, MarkBody
    <2>2. PICK m \in Pushes : IsMark(d, m)
      BY <2>1 DEF MarkOK, Marked
    <2> QED BY <2>1, <2>2, MarkedFound
  <1> QED BY <1>1, <1>2, <1>3, PTL DEF Spec
=============================================================================
