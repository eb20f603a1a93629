----------------------------- MODULE VaultStore -----------------------------
(***************************************************************************)
(* The unlocked vault of a tab: vault.svelte.ts (edits, the debounced      *)
(* persist, flush, manual sync, lock), tab-sync.ts (messages between the   *)
(* tabs of a profile), auto-lock.ts and the lock button of /vault.         *)
(*                                                                         *)
(* The code is cut at its awaits and at its timers.  Items are the set of  *)
(* edits they contain, so a row written by a tab that has not seen an edit *)
(* loses it.  A persist is named by the last edit that armed its timer.    *)
(*                                                                         *)
(* Abstractions.  Time is left out, with one exception: an unlock, with    *)
(* its passkey prompt, outlasts the 500 ms of a persist timer and the read *)
(* of a row issued before it.  VaultSession has what saveItems, openVault  *)
(* and a promoting pull do to the keys.                                    *)
(***************************************************************************)
EXTENDS Integers, FiniteSets

CONSTANTS
  Tabs,
  Edits,        \* edits users make, each once
  NoEdit,
  Remote,       \* an item that only the vault on the sync server has
  Stories,      \* bound: the tabs and edits that come together, and which of
                \* fail, wipe, hide, reload and sync happen, how often, with them
  MaxUnlocks,   \* bound: unlocks begun
  Copies        \* copies of a message a tab receives: by BroadcastChannel, or
                \* by a storage event, or both

ASSUME StoreAssumption ==
  /\ NoEdit \notin Edits
  /\ Remote \notin Edits
  /\ \A s \in Stories :
       /\ s.tabs \subseteq Tabs
       /\ s.edits \subseteq Edits
       /\ s.events \subseteq {"fail", "wipe", "hide", "reload", "sync"}
       /\ s.max \in Nat
  /\ MaxUnlocks \in Nat
  /\ Copies \in 1 .. 2

VARIABLES
  disk,      \* vault row: the items in it
  wiped,     \* clearAll has emptied the database
  tab,       \* per tab: page, store, and the timers of the controller
  by,        \* per edit: the tab that made it, if any
  persist,   \* per edit: the persist named by it
  lock,      \* per tab and caller: where VaultState.lock stands
  net,       \* per tab and type: copies of messages under way
  budget,    \* bounded happenings so far
  saved,     \* history: edits that have been in the vault row
  dropped,   \* history: edits a lock cleared before they ever were
  excused,   \* history: why an edit may get lost
  unwarned   \* history: why a tab may not know that it is stale

vars == <<disk, wiped, tab, by, persist, lock, net, budget, saved, dropped,
          excused, unwarned>>
history == <<saved, dropped, excused, unwarned>>

EditOrNone == Edits \cup {NoEdit}
Items == SUBSET (Edits \cup {Remote})
Caller == {"page", "peer"}
Message == {"locked", "persisted", "wiped"}

Tab ==
  [page : {"unlock", "vault"},
   unlocked : BOOLEAN,          \* status, and the session's vaultKey
   items : Items,
   reading : BOOLEAN,           \* openVault waits for the passkey
   row : Items,                 \* with the row it has read
   timer : EditOrNone,          \* persistTimer, by the edit that armed it
   inflight : EditOrNone,       \* inflightPersist
   sync : {"idle", "flush", "pull", "promoted"},
   awaited : EditOrNone,        \* the persist syncNow waits for
   banner : BOOLEAN,            \* otherTabActivity
   visible : BOOLEAN,           \* document.visibilityState
   idleTimer : BOOLEAN,
   hiddenTimer : BOOLEAN]

Persist == [pc : {"unused", "read", "size", "done"}, items : Items]

LockCall == [pc : {"idle", "frame", "flush", "clip"}, awaited : EditOrNone]

Reason == {"late", "failed", "untracked", "promoted", "gone", "wiped"}
Gap == {"read early", "sender gone", "cleared", "own save"}

TypeOK ==
  /\ disk \in Items
  /\ wiped \in BOOLEAN
  /\ tab \in [Tabs -> Tab]
  /\ by \in [Edits -> SUBSET Tabs]
  /\ persist \in [Edits -> Persist]
  /\ lock \in [Tabs -> [Caller -> LockCall]]
  /\ net \in [Tabs -> [Message -> 0 .. Copies]]
  /\ budget \in [story : Stories, events : Nat, unlocks : Nat]
  /\ saved \in SUBSET Edits
  /\ dropped \in SUBSET Edits
  /\ excused \in SUBSET (Reason \X Edits)
  /\ unwarned \in SUBSET (Gap \X Tabs)

ClosedTab == [page |-> "unlock", unlocked |-> FALSE, items |-> {},
              reading |-> FALSE, row |-> {}, timer |-> NoEdit,
              inflight |-> NoEdit, sync |-> "idle", awaited |-> NoEdit,
              banner |-> FALSE, visible |-> TRUE, idleTimer |-> FALSE,
              hiddenTimer |-> FALSE]
NoLock == [pc |-> "idle", awaited |-> NoEdit]

(* A provisioned profile, every tab on the unlock page. *)
Init ==
  /\ disk = {}
  /\ wiped = FALSE
  /\ tab = [t \in Tabs |-> ClosedTab]
  /\ by = [e \in Edits |-> {}]
  /\ persist = [e \in Edits |-> [pc |-> "unused", items |-> {}]]
  /\ lock = [t \in Tabs |-> [c \in Caller |-> NoLock]]
  /\ net = [t \in Tabs |-> [m \in Message |-> 0]]
  /\ \E s \in Stories : budget = [story |-> s, events |-> 0, unlocks |-> 0]
  /\ saved = {}
  /\ dropped = {}
  /\ excused = {}
  /\ unwarned = {}

-----------------------------------------------------------------------------
(* Helpers *)

Event(e) ==
  /\ e \in budget.story.events
  /\ budget.events < budget.story.max
  /\ budget' = [budget EXCEPT !.events = @ + 1]

(* The persists of a tab that have not ended. *)
Running(t) == {e \in Edits : t \in by[e] /\ persist[e].pc \in {"read", "size"}}

PageLocking(t) == lock[t]["page"].pc # "idle"
PeerLocking(t) == lock[t]["peer"].pc # "idle"

Excuse(reason, edits) == excused' = excused \cup ({reason} \X (edits \cap Edits))

(* The tabs in which the application is open, whatever page they show. *)
OpenTabs == budget.story.tabs

(* A message goes to the other tabs. *)
Post(t, m) ==
  net' = [u \in Tabs |-> IF u = t \/ u \notin OpenTabs THEN net[u]
                         ELSE [net[u] EXCEPT ![m] = Copies]]

(* The synchronous part of flushPersist: the queued persist is started now. *)
(* saveItems throws at once without a key or an account.                    *)
CanSave(t) == tab[t].unlocked /\ ~wiped
Started(t) == IF tab[t].timer # NoEdit /\ CanSave(t) THEN {tab[t].timer} ELSE {}
Flushed(t) ==
  [tab[t] EXCEPT !.timer = NoEdit,
                 !.inflight = IF tab[t].timer = NoEdit THEN @
                              ELSE IF Started(t) = {} THEN NoEdit
                              ELSE tab[t].timer]
StartPersist(t) ==
  /\ persist' = [e \in Edits |->
       IF e \in Started(t) THEN [pc |-> "read", items |-> tab[t].items]
       ELSE IF e = tab[t].timer THEN [pc |-> "done", items |-> {}]
       ELSE persist[e]]
  /\ IF wiped /\ tab[t].timer # NoEdit
     THEN Excuse("wiped", tab[t].items) ELSE UNCHANGED excused

(* The persist a flush waits for has ended. *)
Settled(e) == e \in Edits => persist[e].pc = "done"

-----------------------------------------------------------------------------
(* Unlocking *)

(* openVault reads the rows, then asks for the passkey. *)
OpenRead(t) ==
  /\ tab[t].page = "unlock"
  /\ ~tab[t].reading
  /\ ~wiped
  /\ budget.unlocks < MaxUnlocks
  /\ budget' = [budget EXCEPT !.unlocks = @ + 1]
  /\ tab' = [tab EXCEPT ![t].reading = TRUE, ![t].row = disk]
  /\ UNCHANGED <<disk, wiped, by, persist, lock, net, history>>

(* Mutant: mounting does not arm the timers. *)
OpenDoneMutant(t) ==
  /\ tab[t].reading
  /\ tab[t].timer = NoEdit
  /\ \A e \in Running(t) : persist[e].pc # "read"
  /\ tab' = [tab EXCEPT ![t] =
       [@ EXCEPT !.reading = FALSE, !.row = {}, !.page = "vault",
                 !.unlocked = TRUE, !.items = tab[t].row, !.banner = FALSE]]
  /\ unwarned' = {g \in unwarned : g[2] # t}
       \cup (IF disk \subseteq tab[t].row THEN {} ELSE {<<"read early", t>>})
  /\ UNCHANGED <<disk, wiped, by, persist, lock, net, budget, saved, dropped,
                 excused>>

(* loadFromDecrypted subscribes to messages, and /vault mounts with the    *)
(* auto-lock controller.                                                   *)
OpenDone(t) ==
  /\ tab[t].reading
  /\ tab[t].timer = NoEdit
  /\ \A e \in Running(t) : persist[e].pc # "read"
  /\ tab' = [tab EXCEPT ![t] =
       [@ EXCEPT !.reading = FALSE, !.row = {}, !.page = "vault",
                 !.unlocked = TRUE, !.items = tab[t].row, !.banner = FALSE,
                 !.idleTimer = TRUE, !.hiddenTimer = ~tab[t].visible]]
  /\ unwarned' = {g \in unwarned : g[2] # t}
       \cup (IF disk \subseteq tab[t].row THEN {} ELSE {<<"read early", t>>})
  /\ UNCHANGED <<disk, wiped, by, persist, lock, net, budget, saved, dropped,
                 excused>>

-----------------------------------------------------------------------------
(* Edits and their persistence *)

(* Mutant: the timer is not armed while a persist runs. *)
EditMutant(t, e) ==
  /\ tab[t].page = "vault"
  /\ ~PageLocking(t)
  /\ e \in budget.story.edits
  /\ by[e] = {}
  /\ by' = [by EXCEPT ![e] = {t}]
  /\ tab' = [tab EXCEPT ![t].items = @ \cup {e},
                        ![t].timer = IF tab[t].inflight = NoEdit THEN e ELSE @]
  /\ IF PeerLocking(t) \/ ~tab[t].unlocked
     THEN Excuse("late", {e}) ELSE UNCHANGED excused
  /\ UNCHANGED <<disk, wiped, persist, lock, net, budget, saved, dropped,
                 unwarned>>

(* add, update and remove work whatever the status is; only the splash     *)
(* screen of a lock from this page covers the editor.                      *)
Edit(t, e) ==
  /\ tab[t].page = "vault"
  /\ ~PageLocking(t)
  /\ e \in budget.story.edits
  /\ by[e] = {}
  /\ by' = [by EXCEPT ![e] = {t}]
  /\ tab' = [tab EXCEPT ![t].items = @ \cup {e}, ![t].timer = e]
  /\ IF PeerLocking(t) \/ ~tab[t].unlocked
     THEN Excuse("late", {e}) ELSE UNCHANGED excused
  /\ UNCHANGED <<disk, wiped, persist, lock, net, budget, saved, dropped,
                 unwarned>>

PersistTimer(t) ==
  /\ tab[t].timer # NoEdit
  /\ tab' = [tab EXCEPT ![t] = Flushed(t)]
  /\ StartPersist(t)
  /\ UNCHANGED <<disk, wiped, by, lock, net, budget, saved, dropped, unwarned>>

(* The finally of persist e: whatever is in flight is forgotten.  The      *)
(* edits of a persist that still runs then lack a flush that waits for it. *)
Forgets(t, e) ==
  LET others == Running(t) \ {e} IN
  {"untracked"} \X ((UNION {persist[x].items : x \in others}) \cap Edits)

(* saveItems goes on after reading the account row: without a key, it      *)
(* throws; otherwise the vault row is written.                             *)
PersistWrite(t, e) ==
  LET items == persist[e].items IN
  /\ t \in by[e]
  /\ persist[e].pc = "read"
  /\ tab[t].unlocked
  /\ disk' = items
  /\ saved' = saved \cup (items \cap Edits)
  /\ persist' = [persist EXCEPT ![e].pc = "size"]
  /\ unwarned' = unwarned \cup
       IF items \subseteq tab[t].items THEN {} ELSE {<<"own save", t>>}
  /\ UNCHANGED <<wiped, tab, by, lock, net, budget, dropped, excused>>

(* persist() swallows the error: it ends and nothing tries again. *)
PersistFailed(t, e) ==
  /\ t \in by[e]
  /\ persist[e].pc = "read"
  /\ \/ /\ ~tab[t].unlocked
        /\ excused' = excused \cup Forgets(t, e)
        /\ UNCHANGED budget
     \/ /\ Event("fail")
        /\ excused' = excused \cup Forgets(t, e)
             \cup ({"failed"} \X (persist[e].items \cap Edits))
  /\ persist' = [persist EXCEPT ![e].pc = "done"]
  /\ tab' = [tab EXCEPT ![t].inflight = NoEdit]
  /\ UNCHANGED <<disk, wiped, by, lock, net, saved, dropped, unwarned>>

(* Mutant: nobody is told. *)
PersistDoneMutant(t, e) ==
  /\ t \in by[e]
  /\ persist[e].pc = "size"
  /\ persist' = [persist EXCEPT ![e].pc = "done"]
  /\ tab' = [tab EXCEPT ![t].inflight = NoEdit]
  /\ excused' = excused \cup Forgets(t, e)
  /\ UNCHANGED <<disk, wiped, by, lock, net, budget, saved, dropped, unwarned>>

(* getVaultByteSize has answered: the other tabs are told. *)
PersistDone(t, e) ==
  /\ t \in by[e]
  /\ persist[e].pc = "size"
  /\ persist' = [persist EXCEPT ![e].pc = "done"]
  /\ tab' = [tab EXCEPT ![t].inflight = NoEdit]
  /\ Post(t, "persisted")
  /\ excused' = excused \cup Forgets(t, e)
  /\ UNCHANGED <<disk, wiped, by, lock, budget, saved, dropped, unwarned>>

-----------------------------------------------------------------------------
(* Manual sync *)

BeginSync(t) ==
  /\ tab[t].page = "vault"
  /\ ~PageLocking(t)
  /\ tab[t].sync = "idle"
  /\ Event("sync")
  /\ tab' = [tab EXCEPT ![t] =
       [Flushed(t) EXCEPT !.sync = "flush", !.awaited = Flushed(t).inflight]]
  /\ StartPersist(t)
  /\ UNCHANGED <<disk, wiped, by, lock, net, saved, dropped, unwarned>>

(* The session is asked to pull; it finds nothing, or refuses. *)
SyncFlushed(t) ==
  /\ tab[t].sync = "flush"
  /\ Settled(tab[t].awaited)
  /\ tab' = [tab EXCEPT ![t].awaited = NoEdit,
                        ![t].sync = IF tab[t].unlocked THEN "pull" ELSE "idle"]
  /\ UNCHANGED <<disk, wiped, by, persist, lock, net, budget, history>>

SyncNothing(t) ==
  /\ tab[t].sync = "pull"
  /\ tab' = [tab EXCEPT ![t].sync = "idle"]
  /\ UNCHANGED <<disk, wiped, by, persist, lock, net, budget, history>>

(* promoteRemoteBlob replaces the row; after a lock it cannot. *)
SyncPromote(t) ==
  /\ tab[t].sync = "pull"
  /\ tab[t].unlocked
  /\ disk' = {Remote}
  /\ tab' = [tab EXCEPT ![t].sync = "promoted"]
  /\ UNCHANGED <<wiped, by, persist, lock, net, budget, history>>

(* The store takes the promoted items, whatever happened meanwhile. *)
SyncAdopt(t) ==
  /\ tab[t].sync = "promoted"
  /\ tab' = [tab EXCEPT ![t].sync = "idle", ![t].items = {Remote},
                        ![t].banner = FALSE]
  /\ Post(t, "persisted")
  /\ Excuse("promoted", tab[t].items)
  /\ unwarned' = unwarned \cup
       IF disk \subseteq {Remote} THEN {} ELSE {<<"cleared", t>>}
  /\ UNCHANGED <<disk, wiped, by, persist, lock, budget, saved, dropped>>

-----------------------------------------------------------------------------
(* Locking *)

(* VaultState.lock up to its first await. *)
StartLock(t, caller, base) ==
  /\ tab' = [tab EXCEPT ![t] = [Flushed(t) EXCEPT
       !.idleTimer = base.idleTimer, !.hiddenTimer = base.hiddenTimer]]
  /\ lock' = [lock EXCEPT ![t][caller] =
       [pc |-> "flush", awaited |-> Flushed(t).inflight]]
  /\ StartPersist(t)

(* The lock button: lockVault waits for an animation frame first. *)
ManualLock(t) ==
  /\ tab[t].page = "vault"
  /\ ~PageLocking(t)
  /\ tab[t].visible
  /\ lock' = [lock EXCEPT ![t]["page"] = [NoLock EXCEPT !.pc = "frame"]]
  /\ UNCHANGED <<disk, wiped, tab, by, persist, net, budget, history>>

(* Animation frames are not run while the page is hidden. *)
AnimationFrame(t) ==
  /\ lock[t]["page"].pc = "frame"
  /\ tab[t].visible
  /\ StartLock(t, "page", tab[t])
  /\ UNCHANGED <<disk, wiped, by, net, budget, saved, dropped, unwarned>>

Unarmed(t) == [tab[t] EXCEPT !.idleTimer = FALSE, !.hiddenTimer = FALSE]

(* The controller's lock: nothing when the vault is not unlocked; timers   *)
(* cleared; and lockVault returns at once when the page is locking.        *)
AutoLock(t, base) ==
  IF ~tab[t].unlocked \/ PageLocking(t)
  THEN /\ tab' = [tab EXCEPT ![t] = IF tab[t].unlocked THEN Unarmed(t) ELSE base]
       /\ UNCHANGED <<lock, persist, excused>>
  ELSE StartLock(t, "page", Unarmed(t))

IdleFires(t) ==
  /\ tab[t].idleTimer
  /\ AutoLock(t, [tab[t] EXCEPT !.idleTimer = FALSE])
  /\ UNCHANGED <<disk, wiped, by, net, budget, saved, dropped, unwarned>>

HiddenFires(t) ==
  /\ tab[t].hiddenTimer
  /\ AutoLock(t, [tab[t] EXCEPT !.hiddenTimer = FALSE])
  /\ UNCHANGED <<disk, wiped, by, net, budget, saved, dropped, unwarned>>

(* pagehide and freeze. *)
PageHide(t) ==
  /\ tab[t].page = "vault"
  /\ tab[t].unlocked
  /\ Event("hide")
  /\ AutoLock(t, tab[t])
  /\ UNCHANGED <<disk, wiped, by, net, saved, dropped, unwarned>>

(* Mutant: the lock goes on without its flush. *)
TeardownMutant(t, caller) ==
  /\ lock[t][caller].pc = "flush"
  /\ lock' = [lock EXCEPT ![t][caller] = [NoLock EXCEPT !.pc = "clip"]]
  /\ tab' = [tab EXCEPT ![t].unlocked = FALSE, ![t].items = {},
                        ![t].banner = FALSE]
  /\ dropped' = dropped \cup ((tab[t].items \cap Edits) \ saved)
  /\ UNCHANGED <<disk, wiped, by, persist, net, budget, saved, excused,
                 unwarned>>

(* The flush has settled: items, session and subscription go. *)
Teardown(t, caller) ==
  /\ lock[t][caller].pc = "flush"
  /\ Settled(lock[t][caller].awaited)
  /\ lock' = [lock EXCEPT ![t][caller] = [NoLock EXCEPT !.pc = "clip"]]
  /\ tab' = [tab EXCEPT ![t].unlocked = FALSE, ![t].items = {},
                        ![t].banner = FALSE]
  /\ dropped' = dropped \cup ((tab[t].items \cap Edits) \ saved)
  /\ UNCHANGED <<disk, wiped, by, persist, net, budget, saved, excused,
                 unwarned>>

(* The clipboard is clear: tell the others.  The page that locked leaves   *)
(* for /unlock; one that was locked by another tab stays.                  *)
LockDone(t, caller) ==
  /\ lock[t][caller].pc = "clip"
  /\ lock' = [lock EXCEPT ![t][caller] = NoLock]
  /\ Post(t, "locked")
  /\ tab' = IF caller = "peer" THEN tab
            ELSE [tab EXCEPT ![t] = [Unarmed(t) EXCEPT !.page = "unlock"]]
  /\ UNCHANGED <<disk, wiped, by, persist, budget, history>>

-----------------------------------------------------------------------------
(* The controller's other events *)

Hide(t) ==
  /\ tab[t].visible
  /\ Event("hide")
  /\ tab' = [tab EXCEPT ![t].visible = FALSE,
       ![t].hiddenTimer = tab[t].page = "vault" /\ tab[t].unlocked]
  /\ UNCHANGED <<disk, wiped, by, persist, lock, net, history>>

Show(t) ==
  /\ ~tab[t].visible
  /\ tab' = [tab EXCEPT ![t].visible = TRUE, ![t].hiddenTimer = FALSE,
       ![t].idleTimer = tab[t].page = "vault" /\ tab[t].unlocked]
  /\ UNCHANGED <<disk, wiped, by, persist, lock, net, budget, history>>

Activity(t) ==
  /\ tab[t].page = "vault"
  /\ tab[t].visible
  /\ tab' = [tab EXCEPT ![t].idleTimer = tab[t].unlocked]
  /\ UNCHANGED <<disk, wiped, by, persist, lock, net, budget, history>>

-----------------------------------------------------------------------------
(* The other tabs *)

(* Mutant: a lock is not honoured while a persist runs. *)
DeliverMutant(t, m) ==
  /\ net[t][m] > 0
  /\ net' = [net EXCEPT ![t][m] = @ - 1]
  /\ \/ /\ ~tab[t].unlocked \/ Running(t) # {}
        /\ UNCHANGED <<tab, lock, persist, excused>>
     \/ /\ tab[t].unlocked
        /\ m = "persisted"
        /\ tab' = [tab EXCEPT ![t].banner = TRUE]
        /\ UNCHANGED <<lock, persist, excused>>
     \/ /\ tab[t].unlocked
        /\ m \in {"locked", "wiped"}
        /\ Running(t) = {}
        /\ ~PeerLocking(t)
        /\ StartLock(t, "peer", tab[t])
  /\ UNCHANGED <<disk, wiped, by, budget, saved, dropped, unwarned>>

(* Messages reach the store only while it is subscribed, that is unlocked. *)
Deliver(t, m) ==
  /\ net[t][m] > 0
  /\ net' = [net EXCEPT ![t][m] = @ - 1]
  /\ \/ /\ ~tab[t].unlocked
        /\ UNCHANGED <<tab, lock, persist, excused>>
     \/ /\ tab[t].unlocked
        /\ m = "persisted"
        /\ tab' = [tab EXCEPT ![t].banner = TRUE]
        /\ UNCHANGED <<lock, persist, excused>>
     \/ /\ tab[t].unlocked
        /\ m \in {"locked", "wiped"}
        /\ ~PeerLocking(t)
        /\ StartLock(t, "peer", tab[t])
  /\ UNCHANGED <<disk, wiped, by, budget, saved, dropped, unwarned>>

(* Starting over on /recover: clearAll, then the message. *)
Wipe(t) ==
  /\ tab[t].page = "unlock"
  /\ ~tab[t].reading
  /\ Event("wipe")
  /\ wiped' = TRUE
  /\ disk' = {}
  /\ Post(t, "wiped")
  /\ Excuse("wiped", Edits)
  /\ UNCHANGED <<tab, by, persist, lock, saved, dropped, unwarned>>

(* A reload or a crash ends every call of the tab. *)
Reload(t) ==
  LET ended == Running(t) IN
  /\ tab[t].page = "vault"
  /\ Event("reload")
  /\ tab' = [tab EXCEPT ![t] = [ClosedTab EXCEPT !.visible = tab[t].visible]]
  /\ lock' = [lock EXCEPT ![t] = [c \in Caller |-> NoLock]]
  /\ persist' = [e \in Edits |-> IF e \in ended
                                 THEN [persist[e] EXCEPT !.pc = "done"]
                                 ELSE persist[e]]
  /\ Excuse("gone", tab[t].items)
  /\ unwarned' = unwarned \cup
       IF tab[t].sync = "promoted" \/ \E e \in ended : persist[e].pc = "size"
       THEN {"sender gone"} \X (Tabs \ {t}) ELSE {}
  /\ UNCHANGED <<disk, wiped, by, net, saved, dropped>>

-----------------------------------------------------------------------------
(* What runs by itself: timers, answers of the database, frames, messages. *)
Runs(t) ==
  \/ \E e \in Edits : PersistWrite(t, e) \/ PersistDone(t, e)
  \/ \E c \in Caller : Teardown(t, c) \/ LockDone(t, c)
  \/ PersistTimer(t) \/ AnimationFrame(t)

Next ==
  \E t \in OpenTabs :
    \/ Runs(t)
    \/ \E e \in Edits : Edit(t, e) \/ PersistFailed(t, e)
    \/ \E m \in Message : Deliver(t, m)
    \/ OpenRead(t) \/ OpenDone(t)
    \/ BeginSync(t) \/ SyncFlushed(t) \/ SyncNothing(t) \/ SyncPromote(t)
    \/ SyncAdopt(t)
    \/ ManualLock(t) \/ IdleFires(t) \/ HiddenFires(t) \/ PageHide(t)
    \/ Hide(t) \/ Show(t) \/ Activity(t)
    \/ Wipe(t) \/ Reload(t)

(* The event loop runs callbacks, database answers and messages in the     *)
(* end, whatever the user does.                                            *)
EventLoop ==
  \A t \in Tabs :
    /\ WF_vars(PersistTimer(t))
    /\ \A e \in Edits : /\ WF_vars(PersistWrite(t, e) \/ PersistFailed(t, e))
                        /\ WF_vars(PersistDone(t, e))
    /\ \A c \in Caller : WF_vars(Teardown(t, c)) /\ WF_vars(LockDone(t, c))
    /\ \A m \in Message : WF_vars(Deliver(t, m))
    /\ WF_vars(AnimationFrame(t))

(* The user leaves: an idle or hidden timer that stays armed fires.        *)
LeftAlone ==
  \A t \in Tabs : WF_vars(IdleFires(t)) /\ WF_vars(HiddenFires(t))

Spec == Init /\ [][Next]_vars
FairSpec == Spec /\ EventLoop

-----------------------------------------------------------------------------
(* Properties *)

(* lock flushes "BEFORE we tear down the session key, otherwise [...]      *)
(* edits made within the debounce window vanish" (vault.svelte.ts): every  *)
(* edit a lock clears has been in the vault row, unless it was made while  *)
(* another tab's lock was honoured, its save failed, another persist made  *)
(* lock lose track of the one that held it, or the database was wiped.     *)
EditsSurviveLock ==
  \A e \in dropped : \E r \in {"late", "failed", "untracked", "wiped"} :
    <<r, e>> \in excused

(* "UI surfaces this [...] so the user is never surprised by a stale view" *)
(* (vault.svelte.ts): when the row holds an item that an unlocked tab does *)
(* not, the tab shows the banner, or a step is outstanding after which it  *)
(* will, except for a tab that read the row before its passkey prompt, an  *)
(* adopted pull that cleared the banner of a later save, a save of the tab *)
(* itself that crossed such a pull, and a sender that died.                *)
Announced(t) ==
  \/ tab[t].banner
  \/ net[t]["persisted"] > 0
  \/ tab[t].sync = "promoted"
  \/ \E u \in Tabs \ {t} :
       \/ tab[u].sync = "promoted"
       \/ \E e \in Running(u) : persist[e].pc = "size"

Stale(t) == tab[t].unlocked /\ ~(disk \subseteq tab[t].items)

StaleTabIsWarned ==
  \A t \in Tabs : Stale(t) =>
    Announced(t) \/ \E g \in Gap : <<g, t>> \in unwarned

(* The lock button was pressed and its animation frame cannot come.        *)
Stuck(t) == lock[t]["page"].pc = "frame" /\ ~tab[t].visible

(* A vault left alone ends locked, except while the lock button waits for  *)
(* an animation frame on a page that was hidden before it came.            *)
AbandonedTabLocks ==
  LeftAlone => \A t \in Tabs : tab[t].unlocked ~> (~tab[t].unlocked \/ Stuck(t))

(* "Another tab told everyone to lock. Honor it." (vault.svelte.ts): a     *)
(* tab that has the message under way gets locked, though its user is      *)
(* active, its lock button pressed, or saves of it are running.            *)
TabsLockTogether ==
  \A t \in Tabs : net[t]["locked"] > 0 ~> ~tab[t].unlocked

(* Every edit reaches the vault row, except those a lock, a pull, a failed *)
(* save, a reload or a wipe may lose as said above.                        *)
EditReachesDisk ==
  \A e \in Edits :
    by[e] # {} ~> (e \in saved \/ \E r \in Reason : <<r, e>> \in excused)
=============================================================================
