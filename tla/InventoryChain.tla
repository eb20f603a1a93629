--------------------------- MODULE InventoryChain ---------------------------
(***************************************************************************)
(* The save-and-push pipeline of one device: vault-session.ts              *)
(* (pushBlobToServer, saveItems, syncNow, openVault, rotateAuth,           *)
(* lockSession) on top of                                                  *)
(* inventory-session.ts (the in-memory position in the address chain) and  *)
(* the account row of storage.ts (its persisted position).                 *)
(*                                                                         *)
(* Every tab of the browser profile is a JavaScript realm with its own     *)
(* inventory session; all of them share the account row and the vault row  *)
(* in IndexedDB.  A push is an asynchronous function: it is cut here at    *)
(* each await, and a request it has sent may reach the server after the    *)
(* client has given up on it (timeout) or is gone (reload).                *)
(*                                                                         *)
(* Abstractions.  A vault is its save number.  A push is identified with   *)
(* the random blob id it draws.  The address derived from an index is the  *)
(* index: the chain key is fixed, since no operation of this module        *)
(* changes the data key or the device salt: the account is of format 2 or  *)
(* 3 (the first save of a format-1 account mints a data key and with it    *)
(* another chain).  Server garbage collection and restore records are left *)
(* to their own modules.                                                   *)
(***************************************************************************)
EXTENDS Integers, FiniteSets

CONSTANTS
  Tabs,       \* browser tabs of the profile
  Pushes,     \* push identities; each is one call of pushBlobToServer
  NoPush,     \* the address holds nothing
  NoTab,      \* a push that has not begun belongs to no tab
  MaxIndex,   \* bound: addresses of the chain
  MaxProbes,  \* MAX_PULL_PROBES
  MaxSaves,   \* bound: saves of the item list
  MaxStarts,  \* bound: unlock attempts
  MaxRotations \* bound: changes of the unlock factors

ASSUME BoundsAssumption ==
  /\ MaxIndex \in Nat \ {0}
  /\ MaxProbes \in Nat \ {0}
  /\ MaxSaves \in Nat
  /\ MaxStarts \in Nat
  /\ MaxRotations \in Nat
ASSUME NoPushAssumption == NoPush \notin Pushes
ASSUME NoTabAssumption == NoTab \notin Tabs

VARIABLES
  inventoryIndex,  \* account row: persisted position in the chain
  pushedRecently,  \* account row: inventoryPushedAt is within STALE_PUSH_MS
  lacks,           \* account row: what the next save has to bring up to date
  vault,           \* vault row: the save it holds
  saves,           \* number of the newest save
  save,            \* per save: where saveItems stands
  starts,          \* unlock attempts so far
  tab,             \* per tab: session state
  push,            \* per push: where the call stands
  pull,            \* per tab: where syncNow stands
  rotate,          \* per tab: where rotateAuth stands
  rotations,       \* changes of the unlock factors so far
  wire,            \* PUT requests sent and not yet executed by the server
  blobs,           \* server: blob ids stored
  inv,             \* server: what each inventory address holds
  landed,          \* history: pushes whose inventory PUT was executed
  exposure,        \* history: events after which an index can be drawn twice
  unrecorded       \* history: pushes whose index may not be on the row

vars == <<inventoryIndex, pushedRecently, lacks, vault, saves, save, starts,
          tab, push, pull, rotate, rotations, wire, blobs, inv, landed,
          exposure, unrecorded>>
rows == <<inventoryIndex, pushedRecently, lacks, vault>>
saving == <<saves, save>>
server == <<blobs, inv, landed>>
factors == <<rotate, rotations>>
history == <<exposure, unrecorded>>

Index == 0 .. MaxIndex
Save == 0 .. MaxSaves

Tab == [status: {"locked", "opening", "open"},
        token: BOOLEAN,       \* sessionToken # null
        latest: Index,        \* active.latestIndex
        seenIndex: Index,     \* what openVault read from the account row
        seenFresh: BOOLEAN,
        seenVault: Save]      \* and from the vault row

Push == [pc: {"idle", "blob", "inv", "acctOk", "acctFail", "done"},
         tab: Tabs \cup {NoTab},
         content: Save,
         index: Index]        \* the index it reserved, 0 before that

Pull == [pc: {"idle", "probe", "fetch", "acct", "promote", "repush"},
         live: BOOLEAN,       \* the session it captured is still the tab's
         step: 1 .. MaxProbes,
         at: Nat,             \* index of the probe in flight
         newest: Index,       \* newest index found present, 0 if none
         blob: Pushes \cup {NoPush}]  \* and the blob it points to

(* What saveItems brings up to date on an older account: the format        *)
(* version (2 before it, 3 after) and the account seed.                    *)
Outdated == {"format", "seed"}

(* A copy of the account row that a call holds and will write back whole.  *)
Row == [index: Index, fresh: BOOLEAN, lacks: SUBSET Outdated,
        missed: SUBSET Pushes] \* history: pushes recorded since it was read

SaveCall == [tab: Tabs \cup {NoTab},  \* NoTab: no such call in flight
             row: Row]                \* lacking nothing: it writes no row

Rotate == [pc: {"idle", "account", "vault"},
           row: Row,     \* what it read of the account row
           vault: Save]  \* and of the vault row

Request == [kind: {"blob", "inv"}, push: Pushes]

Exposure == {"second tab", "stale start", "pull rewind"}

(* A call in flight knows the tab it runs in; a pull past its fetch knows  *)
(* the blob it fetched.                                                    *)
CallsBound ==
  /\ \A p \in Pushes : push[p].pc \notin {"idle", "done"} => push[p].tab \in Tabs
  /\ \A t \in Tabs : pull[t].pc \in {"acct", "promote"} => pull[t].blob \in Pushes

TypeOK ==
  /\ inventoryIndex \in Index
  /\ pushedRecently \in BOOLEAN
  /\ lacks \in SUBSET Outdated
  /\ vault \in Save
  /\ saves \in Save
  /\ save \in [1 .. MaxSaves -> SaveCall]
  /\ starts \in 0 .. MaxStarts
  /\ tab \in [Tabs -> Tab]
  /\ push \in [Pushes -> Push]
  /\ pull \in [Tabs -> Pull]
  /\ rotate \in [Tabs -> Rotate]
  /\ rotations \in 0 .. MaxRotations
  /\ wire \in SUBSET Request
  /\ blobs \in SUBSET Pushes
  /\ inv \in [1 .. MaxIndex -> Pushes \cup {NoPush}]
  /\ landed \in SUBSET Pushes
  /\ exposure \in SUBSET Exposure
  /\ unrecorded \in SUBSET Pushes
  /\ CallsBound

LockedTab == [status |-> "locked", token |-> FALSE, latest |-> 0,
              seenIndex |-> 0, seenFresh |-> FALSE, seenVault |-> 0]
IdlePull == [pc |-> "idle", live |-> FALSE, step |-> 1, at |-> 0,
             newest |-> 0, blob |-> NoPush]
NoRow == [index |-> 0, fresh |-> FALSE, lacks |-> {}, missed |-> {}]
IdleSave == [tab |-> NoTab, row |-> NoRow]
IdleRotate == [pc |-> "idle", row |-> NoRow, vault |-> 0]
IdlePush == [pc |-> "idle", tab |-> NoTab, content |-> 0, index |-> 0]

Init ==
  /\ inventoryIndex = 0
  /\ pushedRecently = FALSE
  /\ lacks \in SUBSET Outdated
  /\ vault = 0
  /\ saves = 0
  /\ save = [n \in 1 .. MaxSaves |-> IdleSave]
  /\ starts = 0
  /\ tab = [t \in Tabs |-> LockedTab]
  /\ push = [p \in Pushes |-> IdlePush]
  /\ pull = [t \in Tabs |-> IdlePull]
  /\ rotate = [t \in Tabs |-> IdleRotate]
  /\ rotations = 0
  /\ wire = {}
  /\ blobs = {}
  /\ inv = [i \in 1 .. MaxIndex |-> NoPush]
  /\ landed = {}
  /\ exposure = {}
  /\ unrecorded = {}

-----------------------------------------------------------------------------
(* Indexes.                                                                *)

Reserved == {push[p].index : p \in Pushes} \ {0}

MoveForwardMutant(old, new) == new

(* updateAccountSyncState only ever raises the persisted index.            *)
MoveForward(old, new) == IF new > old THEN new ELSE old

Open(t) == tab[t].status = "open"

-----------------------------------------------------------------------------
(* The account row read and written back whole, by a save that brings it   *)
(* up to date and by a change of the factors.                              *)

ReadRow == [index |-> inventoryIndex, fresh |-> pushedRecently, lacks |-> lacks,
            missed |-> {}]

(* What was recorded since the row was read is lost.                       *)
WriteRow(row, still) ==
  /\ inventoryIndex' = row.index
  /\ pushedRecently' = row.fresh
  /\ lacks' = still
  /\ unrecorded' = unrecorded \cup row.missed

(* Push p records its index while these copies of the row are held.        *)
CopiesMiss(p) ==
  /\ save' = [n \in 1 .. MaxSaves |->
                IF save[n].row.lacks = {} THEN save[n]
                ELSE [save[n] EXCEPT !.row.missed = @ \cup {p}]]
  /\ rotate' = [t \in Tabs |->
                  IF rotate[t].pc = "idle" THEN rotate[t]
                  ELSE [rotate[t] EXCEPT !.row.missed = @ \cup {p}]]

-----------------------------------------------------------------------------
(* pushBlobToServer.                                                       *)

(* The synchronous head of the call: without a session it returns at once, *)
(* otherwise it draws a blob id and sends the blob.                        *)
BeginPush(t, content) ==
  IF ~tab[t].token
  THEN UNCHANGED <<push, wire>>
  ELSE \E p \in Pushes :
         /\ push[p].pc = "idle"
         /\ push' = [push EXCEPT ![p] = [pc |-> "blob", tab |-> t,
                                         content |-> content, index |-> 0]]
         /\ wire' = wire \cup {[kind |-> "blob", push |-> p]}

(* The blob upload failed or timed out: onPushFailure, nothing else.       *)
BlobFailed(p) ==
  /\ push[p].pc = "blob"
  /\ push' = [push EXCEPT ![p].pc = "done", ![p].tab = NoTab]
  /\ UNCHANGED <<rows, saving, starts, tab, pull, wire, server, factors,
                 history>>

(* A version that sends the inventory without waiting for the blob.        *)
ReserveMutantEarly(p) ==
  /\ push[p].pc = "blob"
  /\ LET t == push[p].tab IN
       /\ Open(t) /\ tab[t].token
       /\ tab[t].latest < MaxIndex
       /\ tab' = [tab EXCEPT ![t].latest = @ + 1]
       /\ push' = [push EXCEPT ![p].pc = "inv", ![p].index = tab[t].latest + 1]
       /\ wire' = wire \cup {[kind |-> "inv", push |-> p]}
  /\ UNCHANGED <<rows, saving, starts, pull, server, factors, history>>

(* A version that advances latestIndex only once the upload succeeded.     *)
ReserveMutantLate(p) ==
  /\ push[p].pc = "blob"
  /\ p \in blobs
  /\ LET t == push[p].tab IN
       /\ Open(t) /\ tab[t].token
       /\ tab[t].latest < MaxIndex
       /\ push' = [push EXCEPT ![p].pc = "inv", ![p].index = tab[t].latest + 1]
       /\ wire' = wire \cup {[kind |-> "inv", push |-> p]}
  /\ UNCHANGED <<rows, saving, starts, tab, pull, server, factors, history>>

(* The blob is stored; inventoryRecordVaultBlob runs in the same turn.  It *)
(* reserves the next index of whatever session the tab has now and sends   *)
(* the inventory, or gives up when there is no session.                    *)
Reserve(p) ==
  /\ push[p].pc = "blob"
  /\ p \in blobs
  /\ LET t == push[p].tab IN
       \/ /\ Open(t) /\ tab[t].token
          /\ tab[t].latest < MaxIndex
          /\ tab' = [tab EXCEPT ![t].latest = @ + 1]
          /\ push' = [push EXCEPT ![p].pc = "inv", ![p].index = tab[t].latest + 1]
          /\ wire' = wire \cup {[kind |-> "inv", push |-> p]}
       \/ /\ ~(Open(t) /\ tab[t].token)
          /\ push' = [push EXCEPT ![p].pc = "done", ![p].tab = NoTab]
          /\ UNCHANGED <<tab, wire>>
  /\ UNCHANGED <<rows, saving, starts, pull, server, factors, history>>

(* The inventory upload returned; a failure is possible whether or not the *)
(* server executed the request.                                            *)
InventoryReply(p) ==
  /\ push[p].pc = "inv"
  /\ \E ok \in BOOLEAN :
       /\ ok => p \in landed
       /\ push' = [push EXCEPT ![p].pc = IF ok THEN "acctOk" ELSE "acctFail"]
  /\ UNCHANGED <<rows, saving, starts, tab, pull, wire, server, factors,
                 history>>

(* updateAccountSyncState: the index even on failure, the push time only   *)
(* on success.  The row transaction may fail; the error is swallowed.      *)
PersistIndex(p) ==
  /\ push[p].pc \in {"acctOk", "acctFail"}
  /\ push' = [push EXCEPT ![p].pc = "done", ![p].tab = NoTab]
  /\ \/ /\ inventoryIndex' = MoveForward(inventoryIndex, push[p].index)
        /\ pushedRecently' = (pushedRecently \/ push[p].pc = "acctOk")
        /\ CopiesMiss(p)
        /\ UNCHANGED unrecorded
     \/ /\ unrecorded' = unrecorded \cup {p}
        /\ UNCHANGED <<inventoryIndex, pushedRecently, save, rotate>>
  /\ UNCHANGED <<lacks, vault, saves, starts, tab, pull, wire, server,
                 rotations, exposure>>

-----------------------------------------------------------------------------
(* The server executes PUT requests in any order.                          *)

PutBlob(p) ==
  /\ [kind |-> "blob", push |-> p] \in wire
  /\ wire' = wire \ {[kind |-> "blob", push |-> p]}
  /\ blobs' = blobs \cup {p}
  /\ UNCHANGED <<rows, saving, starts, tab, push, pull, inv, landed, factors,
                 history>>

(* The PUT handler does not look at what the address held.                 *)
PutInventory(p) ==
  /\ [kind |-> "inv", push |-> p] \in wire
  /\ push[p].index > 0
  /\ wire' = wire \ {[kind |-> "inv", push |-> p]}
  /\ inv' = [inv EXCEPT ![push[p].index] = p]
  /\ landed' = landed \cup {p}
  /\ UNCHANGED <<rows, saving, starts, tab, push, pull, blobs, factors,
                 history>>

-----------------------------------------------------------------------------
(* Saving, unlocking, locking.                                             *)

(* saveItems reads the account row.  An account of an older format or      *)
(* without a seed is going to be written back whole with the vault row;    *)
(* otherwise only the vault row is written.                                *)
BeginSave(t) ==
  /\ Open(t)
  /\ saves < MaxSaves
  /\ saves' = saves + 1
  /\ save' = [save EXCEPT ![saves + 1] =
                [tab |-> t, row |-> IF lacks = {} THEN NoRow ELSE ReadRow]]
  /\ UNCHANGED <<rows, starts, tab, push, pull, wire, server, factors, history>>

(* The row write commits, whether or not the vault was locked meanwhile,   *)
(* and the push begins (fire and forget).                                  *)
CommitSave(n) ==
  /\ save[n].tab \in Tabs
  /\ vault' = n
  /\ IF save[n].row.lacks = {}
     THEN UNCHANGED <<inventoryIndex, pushedRecently, lacks, unrecorded>>
     ELSE WriteRow(save[n].row, {})
  /\ BeginPush(save[n].tab, n)
  /\ save' = [save EXCEPT ![n] = IdleSave]
  /\ UNCHANGED <<saves, starts, tab, pull, server, factors, exposure>>

(* The vault was locked before the account row came back, or a row         *)
(* transaction failed: the save throws.                                    *)
SaveFailed(n) ==
  /\ save[n].tab \in Tabs
  /\ save' = [save EXCEPT ![n] = IdleSave]
  /\ UNCHANGED <<rows, saves, starts, tab, push, pull, wire, server, factors,
                 history>>

(* The unlock page logs in to the sync server (a token may or may not be   *)
(* minted), then openVault reads both rows and waits for the passkey.      *)
BeginOpen(t) ==
  /\ tab[t].status = "locked"
  /\ starts < MaxStarts
  /\ starts' = starts + 1
  /\ \E token \in BOOLEAN :
       tab' = [tab EXCEPT ![t] = [status |-> "opening", token |-> token,
                                  latest |-> 0, seenIndex |-> inventoryIndex,
                                  seenFresh |-> pushedRecently,
                                  seenVault |-> vault]]
  /\ UNCHANGED <<rows, saving, push, pull, wire, server, factors, history>>

OpenFailed(t) ==
  /\ tab[t].status = "opening"
  /\ tab' = [tab EXCEPT ![t] = [LockedTab EXCEPT !.token = tab[t].token]]
  /\ UNCHANGED <<rows, saving, starts, push, pull, wire, server, factors,
                 history>>

(* startInventoryChain at the index read before the passkey prompt, and a  *)
(* re-push of the vault row read then if the last push was stale.          *)
FinishOpen(t) ==
  /\ tab[t].status = "opening"
  /\ tab' = [tab EXCEPT ![t] = [LockedTab EXCEPT !.status = "open",
                                                 !.token = tab[t].token,
                                                 !.latest = tab[t].seenIndex]]
  /\ IF tab[t].seenFresh THEN UNCHANGED <<push, wire>>
     ELSE BeginPush(t, tab[t].seenVault)
  /\ exposure' = exposure
       \cup (IF \E u \in Tabs \ {t} : Open(u) THEN {"second tab"} ELSE {})
       \cup (IF \E i \in Reserved : i > tab[t].seenIndex THEN {"stale start"} ELSE {})
  /\ UNCHANGED <<rows, saving, starts, pull, server, factors, unrecorded>>

(* lockSession drops the token and the inventory session; calls in flight  *)
(* go on without them.                                                     *)
Lock(t) ==
  /\ Open(t)
  /\ tab' = [tab EXCEPT ![t] = LockedTab]
  /\ pull' = [pull EXCEPT ![t].live = FALSE]
  /\ UNCHANGED <<rows, saving, starts, push, wire, server, factors, history>>

(* The tab is reloaded, closed or crashes: its calls are gone, the         *)
(* requests they sent are not.                                             *)
Reload(t) ==
  /\ tab' = [tab EXCEPT ![t] = LockedTab]
  /\ pull' = [pull EXCEPT ![t] = IdlePull]
  /\ push' = [p \in Pushes |->
                IF push[p].tab = t
                THEN [push[p] EXCEPT !.pc = "done", !.tab = NoTab] ELSE push[p]]
  /\ save' = [n \in 1 .. MaxSaves |-> IF save[n].tab = t THEN IdleSave ELSE save[n]]
  /\ rotate' = [rotate EXCEPT ![t] = IdleRotate]
  /\ unrecorded' = unrecorded \cup {p \in Pushes : push[p].tab = t /\ push[p].index > 0}
  /\ UNCHANGED <<rows, saves, starts, wire, server, rotations, exposure>>

(* STALE_PUSH_MS goes by since the last successful push; a copy of the     *)
(* push time read earlier ages with the row.                               *)
PushAges ==
  /\ pushedRecently
  /\ pushedRecently' = FALSE
  /\ tab' = [t \in Tabs |-> [tab[t] EXCEPT !.seenFresh = FALSE]]
  /\ save' = [n \in 1 .. MaxSaves |-> [save[n] EXCEPT !.row.fresh = FALSE]]
  /\ rotate' = [t \in Tabs |-> [rotate[t] EXCEPT !.row.fresh = FALSE]]
  /\ UNCHANGED <<inventoryIndex, lacks, vault, saves, starts, push, pull,
                 rotations, wire, server, history>>

-----------------------------------------------------------------------------
(* rotateAuth: the account row is read first, the vault row in a second    *)
(* transaction, and both are written whole in a third.                     *)

BeginRotate(t) ==
  /\ Open(t)
  /\ rotate[t].pc = "idle"
  /\ rotations < MaxRotations
  /\ rotations' = rotations + 1
  /\ rotate' = [rotate EXCEPT ![t] = [pc |-> "account", row |-> ReadRow, vault |-> 0]]
  /\ UNCHANGED <<rows, saving, starts, tab, push, pull, wire, server,
                 history>>

(* Without a data key in memory (the vault was locked meanwhile) it throws.*)
RotateReadVault(t) ==
  /\ rotate[t].pc = "account"
  /\ rotate' = [rotate EXCEPT ![t] =
                  IF Open(t) THEN [@ EXCEPT !.pc = "vault", !.vault = vault]
                  ELSE IdleRotate]
  /\ UNCHANGED <<rows, saving, starts, tab, push, pull, rotations, wire,
                 server, history>>

(* The format version becomes the present one; the seed stays as it was.   *)
CommitRotate(t) ==
  /\ rotate[t].pc = "vault"
  /\ WriteRow(rotate[t].row, rotate[t].row.lacks \ {"format"})
  /\ vault' = rotate[t].vault
  /\ rotate' = [rotate EXCEPT ![t] = IdleRotate]
  /\ UNCHANGED <<saving, starts, tab, push, pull, rotations, wire, server,
                 exposure>>

-----------------------------------------------------------------------------
(* syncNow: pull before push.                                              *)

BeginPull(t) ==
  /\ Open(t) /\ tab[t].token
  /\ pull[t].pc = "idle"
  /\ pull' = [pull EXCEPT ![t] = [IdlePull EXCEPT !.pc = "probe", !.live = TRUE,
                                                  !.at = tab[t].latest + 1]]
  /\ UNCHANGED <<rows, saving, starts, tab, push, wire, server, factors,
                 history>>

(* The loop is over: adopt the newest index found as the session's         *)
(* position (an assignment, whatever the position is by now) and fetch its *)
(* blob; with nothing found the caller goes on to push.                    *)
Adopt(t, newest, blob) ==
  IF newest = 0
  THEN /\ pull' = [pull EXCEPT ![t].pc = "repush"]
       /\ UNCHANGED <<tab, exposure>>
  ELSE /\ pull' = [pull EXCEPT ![t].pc = "fetch", ![t].newest = newest,
                               ![t].blob = blob]
       /\ IF pull[t].live
          THEN /\ tab' = [tab EXCEPT ![t].latest = newest]
               /\ exposure' = IF \E i \in Reserved : i > newest
                              THEN exposure \cup {"pull rewind"} ELSE exposure
          ELSE UNCHANGED <<tab, exposure>>

(* step < maxProbes                                                        *)
ProbesLeft(t) == pull[t].step < MaxProbes

(* A probe found an inventory: note it and probe the next index after the  *)
(* session's present position, or stop at the probe limit.                 *)
ProbePresent(t) ==
  /\ pull[t].pc = "probe"
  /\ pull[t].live
  /\ pull[t].at \in 1 .. MaxIndex
  /\ inv[pull[t].at] # NoPush
  /\ IF ProbesLeft(t)
     THEN /\ pull' = [pull EXCEPT ![t].newest = pull[t].at,
                                  ![t].blob = inv[pull[t].at],
                                  ![t].step = pull[t].step + 1,
                                  ![t].at = tab[t].latest + pull[t].step + 1]
          /\ UNCHANGED <<tab, exposure>>
     ELSE Adopt(t, pull[t].at, inv[pull[t].at])
  /\ UNCHANGED <<rows, saving, starts, push, wire, server, factors,
                 unrecorded>>

(* A probe found nothing, or failed: both end the loop.                    *)
ProbeEnds(t) ==
  /\ pull[t].pc = "probe"
  /\ Adopt(t, pull[t].newest, pull[t].blob)
  /\ UNCHANGED <<rows, saving, starts, push, wire, server, factors,
                 unrecorded>>

(* The blob the inventory points to: fetched, or the pull counts as        *)
(* skipped and the caller pushes.                                          *)
FetchBlob(t) ==
  /\ pull[t].pc = "fetch"
  /\ \/ /\ pull[t].blob \in blobs
        /\ pull' = [pull EXCEPT ![t].pc = "acct"]
     \/ pull' = [pull EXCEPT ![t].pc = "repush"]
  /\ UNCHANGED <<rows, saving, starts, tab, push, wire, server, factors,
                 history>>

(* A version that persists the next index to use.                          *)
AdoptIndexMutant(t) ==
  /\ pull[t].pc = "acct"
  /\ inventoryIndex' = MoveForward(inventoryIndex, pull[t].newest + 1)
  /\ pull' = [pull EXCEPT ![t].pc = "promote"]
  /\ UNCHANGED <<pushedRecently, lacks, vault, saving, starts, tab, push, wire,
                 server, factors, history>>

(* The adopted index is persisted; a failure of the row is swallowed.      *)
AdoptIndex(t) ==
  /\ pull[t].pc = "acct"
  /\ \/ inventoryIndex' = MoveForward(inventoryIndex, pull[t].newest)
     \/ UNCHANGED inventoryIndex
  /\ pull' = [pull EXCEPT ![t].pc = "promote"]
  /\ UNCHANGED <<pushedRecently, lacks, vault, saving, starts, tab, push, wire,
                 server, factors, history>>

(* promoteRemoteBlob writes the fetched vault over the local row; it       *)
(* throws, and the local copy stays, when the vault has been locked.       *)
Promote(t) ==
  /\ pull[t].pc = "promote"
  /\ pull' = [pull EXCEPT ![t] = IdlePull]
  /\ vault' = IF Open(t) THEN push[pull[t].blob].content ELSE vault
  /\ UNCHANGED <<inventoryIndex, pushedRecently, lacks, saving, starts, tab, push,
                 wire, server, factors, history>>

(* Nothing newer was adopted: push the vault row as it is.                 *)
SyncPush(t) ==
  /\ pull[t].pc = "repush"
  /\ pull' = [pull EXCEPT ![t] = IdlePull]
  /\ BeginPush(t, vault)
  /\ UNCHANGED <<rows, saving, starts, tab, server, factors, history>>

-----------------------------------------------------------------------------

Next ==
  \/ \E p \in Pushes : BlobFailed(p)
  \/ \E p \in Pushes : Reserve(p)
  \/ \E p \in Pushes : InventoryReply(p)
  \/ \E p \in Pushes : PersistIndex(p)
  \/ \E p \in Pushes : PutBlob(p)
  \/ \E p \in Pushes : PutInventory(p)
  \/ \E t \in Tabs : BeginSave(t)
  \/ \E n \in 1 .. MaxSaves : CommitSave(n)
  \/ \E n \in 1 .. MaxSaves : SaveFailed(n)
  \/ \E t \in Tabs : BeginOpen(t)
  \/ \E t \in Tabs : OpenFailed(t)
  \/ \E t \in Tabs : FinishOpen(t)
  \/ \E t \in Tabs : Lock(t)
  \/ \E t \in Tabs : Reload(t)
  \/ \E t \in Tabs : BeginRotate(t)
  \/ \E t \in Tabs : RotateReadVault(t)
  \/ \E t \in Tabs : CommitRotate(t)
  \/ PushAges
  \/ \E t \in Tabs : BeginPull(t)
  \/ \E t \in Tabs : ProbePresent(t)
  \/ \E t \in Tabs : ProbeEnds(t)
  \/ \E t \in Tabs : FetchBlob(t)
  \/ \E t \in Tabs : AdoptIndex(t)
  \/ \E t \in Tabs : Promote(t)
  \/ \E t \in Tabs : SyncPush(t)

Spec == Init /\ [][Next]_vars

-----------------------------------------------------------------------------
(* Properties.                                                             *)

(* Whatever fails, times out or crashes, an inventory on the server never  *)
(* names a blob that is not there: pushBlobToServer writes the inventory   *)
(* only after the blob upload was acknowledged.                            *)
InventoryNamesStoredBlob ==
  \A i \in 1 .. MaxIndex : inv[i] # NoPush => inv[i] \in blobs

(* Two pushes that drew an address each drew different ones                *)
(* (inventory-session.ts: "two concurrent saves never share an address").  *)
IndexesDistinct ==
  \A p, q \in Pushes :
    push[p].index > 0 /\ push[p].index = push[q].index => p = q

(* Failed, ambiguous, reordered and abandoned uploads, out-of-order        *)
(* completions and stale re-pushes never make two pushes draw one address: *)
(* only a second open tab, a session started from a row that lags behind   *)
(* the indexes drawn, or a pull that steps the session back can.           *)
ReuseHasCause == exposure = {} => IndexesDistinct

(* The persisted position is 0 or an index some push drew, so no unlock    *)
(* ever skips an address and leaves a hole that ends a later forward walk. *)
PersistedIndexWasDrawn == inventoryIndex \in {0} \cup Reserved

(* Pushes and pulls completing in any order, in any tab, never rewind the  *)
(* persisted position behind a push that is over (updateAccountSyncState:  *)
(* "inventoryIndex only ever moves forward").  The row can be behind only  *)
(* a push whose own row write failed or whose tab went away, and one that  *)
(* recorded its index while a call was holding a copy of the row that it   *)
(* then wrote back whole (rotateAuth; saveItems when it upgrades the       *)
(* format or backfills the seed).                                          *)
IndexIsRecorded ==
  \A p \in Pushes :
    push[p].pc = "done" /\ push[p].index > inventoryIndex => p \in unrecorded

=============================================================================
