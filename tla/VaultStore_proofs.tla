-------------------------- MODULE VaultStore_proofs --------------------------
(* Theorems about the unlocked vault of the tabs of a profile, for any     *)
(* tabs, edits, happenings and copies of messages.                         *)
EXTENDS VaultStore, TLAPS

-----------------------------------------------------------------------------
(* The inductive invariant *)

(* Only open tabs do anything; an edit has one tab, and the persist named  *)
(* by it starts once, from the timer that the edit armed.                  *)
OwnOK(e) ==
  /\ \A t, u \in Tabs : t \in by[e] /\ u \in by[e] => t = u
  /\ by[e] = {} => persist[e].pc = "unused"
TimerOK(t) ==
  /\ tab[t].unlocked => t \in OpenTabs
  /\ tab[t].timer # NoEdit => t \in by[tab[t].timer]
                              /\ persist[tab[t].timer].pc = "unused"
TypeInv ==
  /\ TypeOK
  /\ \A e \in Edits : OwnOK(e)
  /\ \A t \in Tabs : TimerOK(t)

(* An edit that has been in the row, or that a lock is allowed to lose.    *)
Excused(e) == \E r \in {"late", "failed", "untracked", "wiped"} : <<r, e>> \in excused
Safe(e) == e \in saved \/ Excused(e)

(* Persist x of the tab is about to write e.                               *)
Carries(t, x, e) ==
  /\ x \in Edits /\ t \in by[x]
  /\ persist[x].pc = "read" /\ e \in persist[x].items

(* Any other edit of a tab is still to be persisted, by its timer or by    *)
(* the persist that a flush would wait for, and a lock that has flushed    *)
(* waits for a persist that holds it.                                      *)
HeldOK(t) ==
  \A e \in tab[t].items \cap Edits : ~Safe(e) =>
    /\ tab[t].unlocked
    /\ tab[t].timer # NoEdit \/ Carries(t, tab[t].inflight, e)
    /\ \A c \in Caller : lock[t][c].pc = "flush" => Carries(t, lock[t][c].awaited, e)
ReadOK ==
  /\ disk \cap Edits \subseteq saved
  /\ \A t \in Tabs : tab[t].row \cap Edits \subseteq saved
  /\ wiped => \A e \in Edits : Safe(e)
EditInv ==
  /\ ReadOK
  /\ \A t \in Tabs : HeldOK(t)
  /\ \A e \in dropped : Excused(e)

WarnedOK(t) ==
  Stale(t) => Announced(t) \/ \E g \in Gap : <<g, t>> \in unwarned

IInv ==
  /\ TypeInv
  /\ EditInv
  /\ \A t \in Tabs : WarnedOK(t)

-----------------------------------------------------------------------------
(* Fields and updates *)

LEMMA Nones == NoEdit \in EditOrNone /\ NoEdit \notin Edits /\ Remote \notin Edits
  BY StoreAssumption DEF EditOrNone

LEMMA TabIs ==
  ASSUME TypeOK, NEW t \in Tabs
  PROVE  /\ tab[t] \in Tab /\ tab[t].page \in {"unlock", "vault"}
         /\ tab[t].unlocked \in BOOLEAN /\ tab[t].items \in Items
         /\ tab[t].reading \in BOOLEAN /\ tab[t].row \in Items
         /\ tab[t].timer \in EditOrNone /\ tab[t].inflight \in EditOrNone
         /\ tab[t].sync \in {"idle", "flush", "pull", "promoted"}
         /\ tab[t].awaited \in EditOrNone /\ tab[t].banner \in BOOLEAN
         /\ tab[t].visible \in BOOLEAN /\ tab[t].idleTimer \in BOOLEAN
         /\ tab[t].hiddenTimer \in BOOLEAN
  <1>1. tab[t] \in Tab
    BY DEF TypeOK
  <1> QED BY <1>1 DEF Tab

LEMMA PersistIs ==
  ASSUME TypeOK, NEW x \in Edits
  PROVE  /\ persist[x] \in Persist /\ persist[x].items \in Items
         /\ persist[x].pc \in {"unused", "read", "size", "done"}
  <1>1. persist[x] \in Persist
    BY DEF TypeOK
  <1> QED BY <1>1 DEF Persist

LEMMA LockIs ==
  ASSUME TypeOK, NEW t \in Tabs, NEW c \in Caller
  PROVE  /\ lock[t] \in [Caller -> LockCall] /\ lock[t][c] \in LockCall
         /\ lock[t][c].pc \in {"idle", "frame", "flush", "clip"}
         /\ lock[t][c].awaited \in EditOrNone
  <1>1. lock[t] \in [Caller -> LockCall]
    BY DEF TypeOK
  <1>2. lock[t][c] \in LockCall
    BY <1>1
  <1> QED BY <1>1, <1>2 DEF LockCall

LEMMA NoLockIs ==
  /\ NoLock \in LockCall /\ NoLock.pc = "idle"
  /\ \A p \in {"idle", "frame", "flush", "clip"}, a \in EditOrNone :
       /\ [NoLock EXCEPT !.pc = p] \in LockCall
       /\ [NoLock EXCEPT !.pc = p].pc = p
       /\ [pc |-> p, awaited |-> a] \in LockCall
  BY Nones DEF NoLock, LockCall

(* Only this tab, this lock call, this persist change. *)
LEMMA PutTab ==
  ASSUME TypeOK, NEW t \in Tabs, NEW r \in Tab, tab' = [tab EXCEPT ![t] = r]
  PROVE  /\ tab' \in [Tabs -> Tab] /\ tab'[t] = r
         /\ \A u \in Tabs \ {t} : tab'[u] = tab[u]
  BY DEF TypeOK

LEMMA PutLock ==
  ASSUME TypeOK, NEW t \in Tabs, NEW c \in Caller, NEW k \in LockCall,
         lock' = [lock EXCEPT ![t][c] = k]
  PROVE  /\ lock' \in [Tabs -> [Caller -> LockCall]] /\ lock'[t][c] = k
         /\ \A d \in Caller \ {c} : lock'[t][d] = lock[t][d]
         /\ \A u \in Tabs \ {t} : lock'[u] = lock[u]
  <1>1. lock \in [Tabs -> [Caller -> LockCall]]
    BY DEF TypeOK
  <1>2. lock' = [lock EXCEPT ![t] = [lock[t] EXCEPT ![c] = k]]
    BY <1>1
  <1>3. lock'[t] = [lock[t] EXCEPT ![c] = k] /\ \A u \in Tabs \ {t} : lock'[u] = lock[u]
    BY <1>1, <1>2
  <1>4. lock'[t] \in [Caller -> LockCall] /\ lock'[t][c] = k
        /\ \A d \in Caller \ {c} : lock'[t][d] = lock[t][d]
    BY <1>1, <1>3
  <1> QED BY <1>1, <1>2, <1>3, <1>4

LEMMA PutPersist ==
  ASSUME TypeOK, NEW x \in Edits, NEW p \in {"unused", "read", "size", "done"},
         persist' = [persist EXCEPT ![x].pc = p]
  PROVE  /\ persist' \in [Edits -> Persist] /\ persist'[x].pc = p
         /\ persist'[x].items = persist[x].items
         /\ \A y \in Edits \ {x} : persist'[y] = persist[y]
  <1>1. persist \in [Edits -> Persist] /\ persist[x] \in Persist
    BY PersistIs DEF TypeOK
  <1>2. [persist[x] EXCEPT !.pc = p] \in Persist
        /\ [persist[x] EXCEPT !.pc = p].pc = p
        /\ [persist[x] EXCEPT !.pc = p].items = persist[x].items
    BY <1>1 DEF Persist
  <1>3. persist'[x] = [persist[x] EXCEPT !.pc = p]
        /\ persist' = [persist EXCEPT ![x] = [persist[x] EXCEPT !.pc = p]]
        /\ \A y \in Edits \ {x} : persist'[y] = persist[y]
    BY <1>1
  <1> QED BY <1>1, <1>2, <1>3

LEMMA ExcuseIs ==
  ASSUME TypeOK, NEW r \in Reason, NEW es, Excuse(r, es)
  PROVE  /\ excused' \in SUBSET (Reason \X Edits) /\ excused \subseteq excused'
         /\ \A e \in es \cap Edits : <<r, e>> \in excused'
  BY DEF Excuse, TypeOK

LEMMA EventIs ==
  ASSUME TypeOK, NEW k, Event(k)
  PROVE  /\ budget' \in [story : Stories, events : Nat, unlocks : Nat]
         /\ budget'.story = budget.story
  BY DEF Event, TypeOK

LEMMA PostIs ==
  ASSUME TypeOK, NEW t \in Tabs, NEW m \in Message, Post(t, m)
  PROVE  /\ net' \in [Tabs -> [Message -> 0 .. Copies]]
         /\ net'[t] = net[t]
         /\ \A u \in OpenTabs \ {t} : u \in Tabs => net'[u][m] > 0
         /\ \A u \in Tabs, n \in Message : net'[u][n] = net[u][n] \/ net'[u][n] > 0
  <1>1. net \in [Tabs -> [Message -> 0 .. Copies]] /\ Copies \in Nat /\ Copies > 0
    BY StoreAssumption DEF TypeOK
  <1>2. ASSUME NEW u \in Tabs
        PROVE  /\ [net[u] EXCEPT ![m] = Copies] \in [Message -> 0 .. Copies]
               /\ [net[u] EXCEPT ![m] = Copies][m] = Copies
               /\ \A n \in Message \ {m} : [net[u] EXCEPT ![m] = Copies][n] = net[u][n]
    BY <1>1
  <1>3. \A u \in Tabs : net'[u] = IF u = t \/ u \notin OpenTabs THEN net[u]
                                  ELSE [net[u] EXCEPT ![m] = Copies]
    BY DEF Post
  <1>4. net' \in [Tabs -> [Message -> 0 .. Copies]]
    BY <1>1, <1>2 DEF Post
  <1>5. \A u \in OpenTabs \ {t} : u \in Tabs => net'[u][m] > 0
    BY <1>1, <1>2, <1>3
  <1>6. \A u \in Tabs, n \in Message : net'[u][n] = net[u][n] \/ net'[u][n] > 0
    BY <1>1, <1>2, <1>3
  <1> QED BY <1>3, <1>4, <1>5, <1>6

-----------------------------------------------------------------------------
(* The synchronous part of a flush *)

LEMMA FlushedIs ==
  ASSUME TypeOK, NEW t \in Tabs
  PROVE  LET f == Flushed(t) IN
         /\ f \in Tab /\ f.page = tab[t].page /\ f.unlocked = tab[t].unlocked
         /\ f.items = tab[t].items /\ f.reading = tab[t].reading /\ f.row = tab[t].row
         /\ f.timer = NoEdit /\ f.inflight \in EditOrNone /\ f.sync = tab[t].sync
         /\ f.awaited = tab[t].awaited /\ f.banner = tab[t].banner
         /\ f.visible = tab[t].visible
         /\ tab[t].timer = NoEdit => f.inflight = tab[t].inflight
         /\ tab[t].timer # NoEdit /\ CanSave(t) => f.inflight = tab[t].timer
  <1>1. tab[t] \in Tab
    BY TabIs
  <1>2. PICK i \in EditOrNone :
          /\ Flushed(t) = [tab[t] EXCEPT !.timer = NoEdit, !.inflight = i]
          /\ tab[t].timer = NoEdit => i = tab[t].inflight
          /\ tab[t].timer # NoEdit /\ CanSave(t) => i = tab[t].timer
    <2>1. CASE tab[t].timer = NoEdit
      BY <2>1, TabIs DEF Flushed
    <2>2. CASE tab[t].timer # NoEdit /\ CanSave(t)
      BY <2>2, TabIs DEF Flushed, Started
    <2>3. CASE tab[t].timer # NoEdit /\ ~CanSave(t)
      BY <2>3, Nones DEF Flushed, Started
    <2> QED BY <2>1, <2>2, <2>3
  <1> QED BY <1>1, <1>2, Nones DEF Tab

LEMMA StartIs ==
  ASSUME TypeInv, NEW t \in Tabs, StartPersist(t)
  PROVE  /\ persist' \in [Edits -> Persist]
         /\ excused' \in SUBSET (Reason \X Edits) /\ excused \subseteq excused'
         /\ \A x \in Edits : x # tab[t].timer => persist'[x] = persist[x]
         /\ tab[t].timer # NoEdit =>
              /\ tab[t].timer \in Edits /\ t \in by[tab[t].timer]
              /\ persist[tab[t].timer].pc = "unused"
              /\ persist'[tab[t].timer].pc # "unused"
              /\ CanSave(t) => persist'[tab[t].timer].pc = "read"
                               /\ persist'[tab[t].timer].items = tab[t].items
              /\ wiped => \A e \in tab[t].items \cap Edits : <<"wiped", e>> \in excused'
  <1>0. TypeOK /\ TimerOK(t)
    BY DEF TypeInv
  <1>1. persist \in [Edits -> Persist] /\ tab[t].items \in Items /\ tab[t].timer \in EditOrNone
    BY <1>0, TabIs DEF TypeOK
  <1>2. [pc |-> "read", items |-> tab[t].items] \in Persist
        /\ [pc |-> "done", items |-> {}] \in Persist
    BY <1>1 DEF Persist, Items
  <1>3. \A x \in Edits : persist'[x] =
          IF x \in Started(t) THEN [pc |-> "read", items |-> tab[t].items]
          ELSE IF x = tab[t].timer THEN [pc |-> "done", items |-> {}]
          ELSE persist[x]
    BY DEF StartPersist
  <1>4. persist' \in [Edits -> Persist]
    BY <1>1, <1>2 DEF StartPersist
  <1>5. excused' \in SUBSET (Reason \X Edits) /\ excused \subseteq excused'
    <2>1. CASE wiped /\ tab[t].timer # NoEdit
      <3>1. Excuse("wiped", tab[t].items)
        BY <2>1 DEF StartPersist
      <3> QED BY <3>1, <1>0, ExcuseIs DEF Reason
    <2>2. CASE ~(wiped /\ tab[t].timer # NoEdit)
      BY <2>2, <1>0 DEF StartPersist, TypeOK
    <2> QED BY <2>1, <2>2
  <1>6. \A x \in Edits : x # tab[t].timer => persist'[x] = persist[x]
    BY <1>3 DEF Started
  <1>7. ASSUME tab[t].timer # NoEdit
        PROVE  /\ tab[t].timer \in Edits /\ t \in by[tab[t].timer]
               /\ persist[tab[t].timer].pc = "unused"
               /\ persist'[tab[t].timer].pc # "unused"
               /\ CanSave(t) => persist'[tab[t].timer].pc = "read"
                                /\ persist'[tab[t].timer].items = tab[t].items
               /\ wiped => \A e \in tab[t].items \cap Edits : <<"wiped", e>> \in excused'
    <2>1. tab[t].timer \in Edits
      BY <1>1, <1>7 DEF EditOrNone
    <2>2. t \in by[tab[t].timer] /\ persist[tab[t].timer].pc = "unused"
      BY <1>0, <1>7 DEF TimerOK
    <2>3. persist'[tab[t].timer].pc # "unused"
      BY <1>3, <2>1
    <2>4. CanSave(t) => persist'[tab[t].timer].pc = "read"
                        /\ persist'[tab[t].timer].items = tab[t].items
      BY <1>3, <1>7, <2>1 DEF Started
    <2>5. wiped => \A e \in tab[t].items \cap Edits : <<"wiped", e>> \in excused'
      BY <1>0, <1>7, ExcuseIs DEF StartPersist, Reason
    <2> QED BY <2>1, <2>2, <2>3, <2>4, <2>5
  <1> QED BY <1>4, <1>5, <1>6, <1>7

-----------------------------------------------------------------------------
(* The shapes of steps.  A calm step of a tab leaves alone what edits hold *)
(* on to; a flush starts the queued persist; a told step takes no warning  *)
(* away.                                                                   *)

Apart(t) == \A u \in Tabs \ {t} : tab'[u] = tab[u] /\ lock'[u] = lock[u]

Calm(t) ==
  /\ Apart(t)
  /\ tab'[t].unlocked = tab[t].unlocked /\ tab'[t].items = tab[t].items
  /\ tab'[t].timer = tab[t].timer /\ tab'[t].inflight = tab[t].inflight
  /\ tab'[t].row = tab[t].row \/ tab'[t].row = disk
  /\ \A c \in Caller : lock'[t][c].pc = "flush" => lock'[t][c] = lock[t][c]
  /\ by' = by /\ persist' = persist /\ saved' = saved /\ dropped' = dropped
  /\ excused \subseteq excused'
  /\ disk' = disk \/ disk' = {} \/ disk' = {Remote}
  /\ wiped' = wiped \/ \A e \in Edits : <<"wiped", e>> \in excused'
  /\ budget'.story = budget.story

Flushes(t) ==
  /\ Apart(t)
  /\ tab'[t].unlocked = tab[t].unlocked /\ tab'[t].items = tab[t].items
  /\ tab'[t].timer = NoEdit /\ tab'[t].inflight = Flushed(t).inflight
  /\ tab'[t].row = tab[t].row
  /\ StartPersist(t)
  /\ \A c \in Caller : lock'[t][c].pc = "flush" =>
       lock'[t][c] = lock[t][c] \/ lock'[t][c].awaited = Flushed(t).inflight
  /\ by' = by /\ saved' = saved /\ dropped' = dropped
  /\ disk' = disk /\ wiped' = wiped
  /\ budget'.story = budget.story

Told(t) ==
  /\ disk' \subseteq disk \/ tab'[t].sync = "promoted"
  /\ tab[t].sync = "promoted" => tab'[t].sync = "promoted"
  /\ tab[t].banner => tab'[t].banner
  /\ \A u \in Tabs : net[u]["persisted"] > 0 =>
       net'[u]["persisted"] > 0 \/ (u = t /\ (tab[t].unlocked => tab'[t].banner))
  /\ unwarned' = unwarned

(* What a step that only changes the page, a timer or the row read does.   *)
TabCalm(t) ==
  /\ tab' \in [Tabs -> Tab]
  /\ \A u \in Tabs \ {t} : tab'[u] = tab[u]
  /\ tab'[t].unlocked = tab[t].unlocked /\ tab'[t].items = tab[t].items
  /\ tab'[t].timer = tab[t].timer /\ tab'[t].inflight = tab[t].inflight
  /\ tab'[t].row = tab[t].row \/ tab'[t].row = disk
  /\ tab[t].sync = "promoted" => tab'[t].sync = "promoted"
  /\ tab'[t].banner = tab[t].banner

LEMMA TabCalmPut ==
  ASSUME TypeOK, NEW t \in Tabs, NEW r \in Tab, tab' = [tab EXCEPT ![t] = r],
         r.unlocked = tab[t].unlocked, r.items = tab[t].items,
         r.timer = tab[t].timer, r.inflight = tab[t].inflight,
         r.row = tab[t].row \/ r.row = disk,
         tab[t].sync = "promoted" => r.sync = "promoted",
         r.banner = tab[t].banner
  PROVE  TabCalm(t)
  BY PutTab DEF TabCalm

LEMMA OpenReadIs ==
  ASSUME TypeOK, NEW t \in Tabs, OpenRead(t)
  PROVE  TypeOK' /\ Calm(t) /\ Told(t)
  <1>1. tab' = [tab EXCEPT ![t] = [tab[t] EXCEPT !.reading = TRUE, !.row = disk]]
    BY DEF OpenRead, TypeOK
  <1>2. [tab[t] EXCEPT !.reading = TRUE, !.row = disk] \in Tab
    <2>1. disk \in Items
      BY DEF TypeOK
    <2> QED BY <2>1, TabIs DEF Tab
  <1>3. TabCalm(t)
    BY <1>1, <1>2, TabCalmPut, TabIs DEF Tab
  <1>4. /\ budget' \in [story : Stories, events : Nat, unlocks : Nat]
        /\ budget'.story = budget.story
    <2>1. budget \in [story : Stories, events : Nat, unlocks : Nat]
      BY DEF TypeOK
    <2>2. budget' = [budget EXCEPT !.unlocks = @ + 1]
      BY DEF OpenRead
    <2> QED BY <2>1, <2>2
  <1> QED BY <1>3, <1>4 DEF OpenRead, TypeOK, TabCalm, Calm, Apart, Told, history

LEMMA SyncFlushedIs ==
  ASSUME TypeOK, NEW t \in Tabs, SyncFlushed(t)
  PROVE  TypeOK' /\ Calm(t) /\ Told(t)
  <1> DEFINE s == IF tab[t].unlocked THEN "pull" ELSE "idle"
  <1>1. tab' = [tab EXCEPT ![t] = [tab[t] EXCEPT !.awaited = NoEdit, !.sync = s]]
    BY DEF SyncFlushed, TypeOK
  <1>2. [tab[t] EXCEPT !.awaited = NoEdit, !.sync = s] \in Tab
    BY TabIs, Nones DEF Tab
  <1>3. TabCalm(t)
    BY <1>1, <1>2, TabCalmPut, TabIs DEF Tab, SyncFlushed
  <1> QED BY <1>3 DEF SyncFlushed, TypeOK, TabCalm, Calm, Apart, Told, history

LEMMA SyncNothingIs ==
  ASSUME TypeOK, NEW t \in Tabs, SyncNothing(t)
  PROVE  TypeOK' /\ Calm(t) /\ Told(t)
  <1>1. tab' = [tab EXCEPT ![t] = [tab[t] EXCEPT !.sync = "idle"]]
    BY DEF SyncNothing, TypeOK
  <1>2. [tab[t] EXCEPT !.sync = "idle"] \in Tab
    BY TabIs DEF Tab
  <1>3. TabCalm(t)
    BY <1>1, <1>2, TabCalmPut, TabIs DEF Tab, SyncNothing
  <1> QED BY <1>3 DEF SyncNothing, TypeOK, TabCalm, Calm, Apart, Told, history

LEMMA SyncPromoteIs ==
  ASSUME TypeOK, NEW t \in Tabs, SyncPromote(t)
  PROVE  TypeOK' /\ Calm(t) /\ Told(t)
  <1>1. tab' = [tab EXCEPT ![t] = [tab[t] EXCEPT !.sync = "promoted"]]
    BY DEF SyncPromote, TypeOK
  <1>2. [tab[t] EXCEPT !.sync = "promoted"] \in Tab
    BY TabIs DEF Tab
  <1>3. TabCalm(t)
    BY <1>1, <1>2, TabCalmPut, TabIs DEF Tab, SyncPromote
  <1>4. tab'[t].sync = "promoted"
    BY <1>1, <1>2, PutTab, TabIs DEF Tab
  <1>5. disk' \in Items
    BY DEF SyncPromote, Items
  <1> QED BY <1>3, <1>4, <1>5 DEF SyncPromote, TypeOK, TabCalm, Calm, Apart, Told, history

LEMMA ManualLockIs ==
  ASSUME TypeOK, NEW t \in Tabs, ManualLock(t)
  PROVE  TypeOK' /\ Calm(t) /\ Told(t)
  <1> DEFINE k == [NoLock EXCEPT !.pc = "frame"]
  <1>1. k \in LockCall /\ k.pc = "frame" /\ "page" \in Caller
    BY NoLockIs, Nones DEF Caller
  <1>2. lock' = [lock EXCEPT ![t]["page"] = k]
    BY DEF ManualLock
  <1>3. /\ lock' \in [Tabs -> [Caller -> LockCall]] /\ lock'[t]["page"] = k
        /\ \A d \in Caller \ {"page"} : lock'[t][d] = lock[t][d]
        /\ \A u \in Tabs \ {t} : lock'[u] = lock[u]
    BY <1>1, <1>2, PutLock
  <1> HIDE DEF k
  <1> QED BY <1>1, <1>3 DEF ManualLock, TypeOK, Calm, Apart, Told, history

LEMMA HideIs ==
  ASSUME TypeOK, NEW t \in Tabs, Hide(t)
  PROVE  TypeOK' /\ Calm(t) /\ Told(t)
  <1> DEFINE h == tab[t].page = "vault" /\ tab[t].unlocked
  <1>1. tab' = [tab EXCEPT ![t] = [tab[t] EXCEPT !.visible = FALSE, !.hiddenTimer = h]]
    BY DEF Hide, TypeOK
  <1>0. h \in BOOLEAN
    BY TabIs
  <1> HIDE DEF h
  <1>2. [tab[t] EXCEPT !.visible = FALSE, !.hiddenTimer = h] \in Tab
    BY <1>0, TabIs DEF Tab
  <1>3. TabCalm(t)
    BY <1>1, <1>2, TabCalmPut, TabIs DEF Tab
  <1>4. /\ budget' \in [story : Stories, events : Nat, unlocks : Nat]
        /\ budget'.story = budget.story
    BY EventIs DEF Hide
  <1> QED BY <1>3, <1>4 DEF Hide, TypeOK, TabCalm, Calm, Apart, Told, history

LEMMA ShowIs ==
  ASSUME TypeOK, NEW t \in Tabs, Show(t)
  PROVE  TypeOK' /\ Calm(t) /\ Told(t)
  <1> DEFINE i == tab[t].page = "vault" /\ tab[t].unlocked
  <1>1. tab' = [tab EXCEPT ![t] = [tab[t] EXCEPT !.visible = TRUE,
                  !.hiddenTimer = FALSE, !.idleTimer = i]]
    BY DEF Show, TypeOK
  <1>0. i \in BOOLEAN
    BY TabIs
  <1> HIDE DEF i
  <1>2. [tab[t] EXCEPT !.visible = TRUE, !.hiddenTimer = FALSE, !.idleTimer = i] \in Tab
    BY <1>0, TabIs DEF Tab
  <1>3. TabCalm(t)
    BY <1>1, <1>2, TabCalmPut, TabIs DEF Tab
  <1> QED BY <1>3 DEF Show, TypeOK, TabCalm, Calm, Apart, Told, history

LEMMA ActivityIs ==
  ASSUME TypeOK, NEW t \in Tabs, Activity(t)
  PROVE  TypeOK' /\ Calm(t) /\ Told(t)
  <1>1. tab' = [tab EXCEPT ![t] = [tab[t] EXCEPT !.idleTimer = tab[t].unlocked]]
    BY DEF Activity, TypeOK
  <1>2. [tab[t] EXCEPT !.idleTimer = tab[t].unlocked] \in Tab
    BY TabIs DEF Tab
  <1>3. TabCalm(t)
    BY <1>1, <1>2, TabCalmPut, TabIs DEF Tab
  <1> QED BY <1>3 DEF Activity, TypeOK, TabCalm, Calm, Apart, Told, history

LEMMA WipeIs ==
  ASSUME TypeOK, NEW t \in Tabs, Wipe(t)
  PROVE  TypeOK' /\ Calm(t) /\ Told(t)
  <1>1. /\ net' \in [Tabs -> [Message -> 0 .. Copies]]
        /\ \A u \in Tabs : net'[u]["persisted"] = net[u]["persisted"]
                           \/ net'[u]["persisted"] > 0
    BY PostIs DEF Wipe, Message
  <1>2. /\ excused' \in SUBSET (Reason \X Edits) /\ excused \subseteq excused'
        /\ \A e \in Edits : <<"wiped", e>> \in excused'
    BY ExcuseIs DEF Wipe, Reason
  <1>3. /\ budget' \in [story : Stories, events : Nat, unlocks : Nat]
        /\ budget'.story = budget.story
    BY EventIs DEF Wipe
  <1>4. disk' \in Items /\ wiped' \in BOOLEAN
    BY DEF Wipe, Items
  <1> QED BY <1>1, <1>2, <1>3, <1>4 DEF Wipe, TypeOK, Calm, Apart, Told

LEMMA LockDoneIs ==
  ASSUME TypeOK, NEW t \in Tabs, NEW c \in Caller, LockDone(t, c)
  PROVE  TypeOK' /\ Calm(t) /\ Told(t)
  <1>1. NoLock \in LockCall /\ NoLock.pc = "idle"
    BY NoLockIs
  <1>2. /\ lock' \in [Tabs -> [Caller -> LockCall]] /\ lock'[t][c] = NoLock
        /\ \A d \in Caller \ {c} : lock'[t][d] = lock[t][d]
        /\ \A u \in Tabs \ {t} : lock'[u] = lock[u]
    BY <1>1, PutLock DEF LockDone
  <1>3. /\ net' \in [Tabs -> [Message -> 0 .. Copies]]
        /\ \A u \in Tabs : net'[u]["persisted"] = net[u]["persisted"]
                           \/ net'[u]["persisted"] > 0
    BY PostIs DEF LockDone, Message
  <1>4. TabCalm(t)
    <2>1. CASE c = "peer"
      <3>1. tab' = tab
        BY <2>1 DEF LockDone
      <3> QED BY <3>1 DEF TabCalm, TypeOK
    <2>2. CASE c # "peer"
      <3> DEFINE r == [tab[t] EXCEPT !.idleTimer = FALSE, !.hiddenTimer = FALSE,
                                     !.page = "unlock"]
      <3>1. tab' = [tab EXCEPT ![t] = r]
        BY <2>2 DEF LockDone, Unarmed
      <3>2. r \in Tab
        BY TabIs DEF Tab
      <3> QED BY <3>1, <3>2, TabCalmPut, TabIs DEF Tab
    <2> QED BY <2>1, <2>2
  <1> HIDE DEF NoLock
  <1> QED BY <1>1, <1>2, <1>3, <1>4
       DEF LockDone, TypeOK, TabCalm, Calm, Apart, Told, history

(* A flush of the tab, with its record as it becomes. *)
LEMMA FlushPut ==
  ASSUME TypeInv, NEW t \in Tabs, NEW r \in Tab, tab' = [tab EXCEPT ![t] = r],
         r.unlocked = tab[t].unlocked, r.items = tab[t].items,
         r.timer = NoEdit, r.inflight = Flushed(t).inflight, r.row = tab[t].row,
         r.sync = tab[t].sync \/ tab[t].sync # "promoted", r.banner = tab[t].banner,
         StartPersist(t),
         by' = by, saved' = saved, dropped' = dropped, disk' = disk, wiped' = wiped,
         unwarned' = unwarned,
         budget' \in [story : Stories, events : Nat, unlocks : Nat],
         budget'.story = budget.story,
         lock' \in [Tabs -> [Caller -> LockCall]],
         \A u \in Tabs \ {t} : lock'[u] = lock[u],
         \A c \in Caller : lock'[t][c].pc = "flush" =>
           lock'[t][c] = lock[t][c] \/ lock'[t][c].awaited = Flushed(t).inflight,
         net' \in [Tabs -> [Message -> 0 .. Copies]],
         \A u \in Tabs : net[u]["persisted"] > 0 => net'[u]["persisted"] > 0
  PROVE  TypeOK' /\ Flushes(t) /\ Told(t)
  <1>1. /\ tab' \in [Tabs -> Tab] /\ tab'[t] = r
        /\ \A u \in Tabs \ {t} : tab'[u] = tab[u]
    BY PutTab DEF TypeInv
  <1>2. /\ persist' \in [Edits -> Persist]
        /\ excused' \in SUBSET (Reason \X Edits)
    BY StartIs
  <1>3. TypeOK'
    BY <1>1, <1>2 DEF TypeInv, TypeOK
  <1>4. Flushes(t)
    BY <1>1 DEF Flushes, Apart
  <1>5. Told(t)
    BY <1>1 DEF Told
  <1> QED BY <1>3, <1>4, <1>5

LEMMA PersistTimerIs ==
  ASSUME TypeInv, NEW t \in Tabs, PersistTimer(t)
  PROVE  TypeOK' /\ Flushes(t) /\ Told(t)
  <1>1. TypeOK
    BY DEF TypeInv
  <1>2. PICK f : f = Flushed(t)
    OBVIOUS
  <1>3. /\ f \in Tab /\ f.unlocked = tab[t].unlocked /\ f.items = tab[t].items
        /\ f.row = tab[t].row /\ f.timer = NoEdit /\ f.sync = tab[t].sync
        /\ f.banner = tab[t].banner
    BY <1>1, <1>2, FlushedIs
  <1>4. /\ tab' = [tab EXCEPT ![t] = f] /\ StartPersist(t)
        /\ UNCHANGED <<disk, wiped, by, lock, net, budget, saved, dropped, unwarned>>
    BY <1>2 DEF PersistTimer
  <1>5. /\ budget \in [story : Stories, events : Nat, unlocks : Nat]
        /\ lock \in [Tabs -> [Caller -> LockCall]]
        /\ net \in [Tabs -> [Message -> 0 .. Copies]]
    BY <1>1 DEF TypeOK
  <1> QED BY <1>2, <1>3, <1>4, <1>5, FlushPut

LEMMA BeginSyncIs ==
  ASSUME TypeInv, NEW t \in Tabs, BeginSync(t)
  PROVE  TypeOK' /\ Flushes(t) /\ Told(t)
  <1>1. TypeOK
    BY DEF TypeInv
  <1>2. PICK f : f = Flushed(t)
    OBVIOUS
  <1>3. /\ f \in Tab /\ f.unlocked = tab[t].unlocked /\ f.items = tab[t].items
        /\ f.row = tab[t].row /\ f.timer = NoEdit /\ f.inflight \in EditOrNone
        /\ f.banner = tab[t].banner
    BY <1>1, <1>2, FlushedIs
  <1>4. PICK r : r = [f EXCEPT !.sync = "flush", !.awaited = f.inflight]
    OBVIOUS
  <1>5. /\ r \in Tab /\ r.unlocked = tab[t].unlocked /\ r.items = tab[t].items
        /\ r.row = tab[t].row /\ r.timer = NoEdit /\ r.inflight = f.inflight
        /\ r.banner = tab[t].banner
    BY <1>3, <1>4 DEF Tab
  <1>6. /\ tab' = [tab EXCEPT ![t] = r] /\ StartPersist(t)
        /\ tab[t].sync # "promoted" /\ Event("sync")
        /\ UNCHANGED <<disk, wiped, by, lock, net, saved, dropped, unwarned>>
    BY <1>2, <1>4 DEF BeginSync
  <1>7. /\ budget' \in [story : Stories, events : Nat, unlocks : Nat]
        /\ budget'.story = budget.story
    BY <1>1, <1>6, EventIs
  <1>8. /\ lock \in [Tabs -> [Caller -> LockCall]]
        /\ net \in [Tabs -> [Message -> 0 .. Copies]]
    BY <1>1 DEF TypeOK
  <1> QED BY <1>2, <1>5, <1>6, <1>7, <1>8, FlushPut

LEMMA StartLockIs ==
  ASSUME TypeInv, NEW t \in Tabs, NEW c \in Caller, NEW base \in Tab,
         StartLock(t, c, base),
         by' = by, saved' = saved, dropped' = dropped, disk' = disk, wiped' = wiped,
         unwarned' = unwarned,
         budget' \in [story : Stories, events : Nat, unlocks : Nat],
         budget'.story = budget.story,
         net' \in [Tabs -> [Message -> 0 .. Copies]],
         \A u \in Tabs : net[u]["persisted"] > 0 => net'[u]["persisted"] > 0
  PROVE  TypeOK' /\ Flushes(t) /\ Told(t)
  <1>1. TypeOK
    BY DEF TypeInv
  <1>2. PICK f : f = Flushed(t)
    OBVIOUS
  <1>3. /\ f \in Tab /\ f.unlocked = tab[t].unlocked /\ f.items = tab[t].items
        /\ f.row = tab[t].row /\ f.timer = NoEdit /\ f.inflight \in EditOrNone
        /\ f.sync = tab[t].sync /\ f.banner = tab[t].banner
    BY <1>1, <1>2, FlushedIs
  <1>4. PICK r : r = [f EXCEPT !.idleTimer = base.idleTimer,
                               !.hiddenTimer = base.hiddenTimer]
    OBVIOUS
  <1>5. /\ r \in Tab /\ r.unlocked = tab[t].unlocked /\ r.items = tab[t].items
        /\ r.row = tab[t].row /\ r.timer = NoEdit /\ r.inflight = f.inflight
        /\ r.sync = tab[t].sync /\ r.banner = tab[t].banner
    BY <1>3, <1>4 DEF Tab
  <1>6. PICK k : k = [pc |-> "flush", awaited |-> f.inflight]
    OBVIOUS
  <1>7. k \in LockCall /\ k.awaited = f.inflight
    BY <1>3, <1>6 DEF LockCall
  <1>8. /\ tab' = [tab EXCEPT ![t] = r] /\ StartPersist(t)
        /\ lock' = [lock EXCEPT ![t][c] = k]
    BY <1>2, <1>4, <1>6 DEF StartLock
  <1>9. /\ lock' \in [Tabs -> [Caller -> LockCall]] /\ lock'[t][c] = k
        /\ \A d \in Caller \ {c} : lock'[t][d] = lock[t][d]
        /\ \A u \in Tabs \ {t} : lock'[u] = lock[u]
    BY <1>1, <1>7, <1>8, PutLock
  <1>10. \A d \in Caller : lock'[t][d].pc = "flush" =>
           lock'[t][d] = lock[t][d] \/ lock'[t][d].awaited = Flushed(t).inflight
    BY <1>2, <1>7, <1>9
  <1> QED BY <1>2, <1>5, <1>8, <1>9, <1>10, FlushPut

LEMMA AnimationFrameIs ==
  ASSUME TypeInv, NEW t \in Tabs, AnimationFrame(t)
  PROVE  TypeOK' /\ Flushes(t) /\ Told(t)
  <1>1. /\ "page" \in Caller /\ tab[t] \in Tab
        /\ budget \in [story : Stories, events : Nat, unlocks : Nat]
        /\ net \in [Tabs -> [Message -> 0 .. Copies]]
    BY TabIs DEF TypeInv, TypeOK, Caller
  <1>2. /\ StartLock(t, "page", tab[t])
        /\ UNCHANGED <<disk, wiped, by, net, budget, saved, dropped, unwarned>>
    BY DEF AnimationFrame
  <1> QED BY <1>1, <1>2, StartLockIs

LEMMA AutoLockIs ==
  ASSUME TypeInv, NEW t \in Tabs, NEW base \in Tab, AutoLock(t, base),
         base.unlocked = tab[t].unlocked, base.items = tab[t].items,
         base.timer = tab[t].timer, base.inflight = tab[t].inflight,
         base.row = tab[t].row, base.sync = tab[t].sync, base.banner = tab[t].banner,
         budget' \in [story : Stories, events : Nat, unlocks : Nat],
         budget'.story = budget.story,
         UNCHANGED <<disk, wiped, by, net, saved, dropped, unwarned>>
  PROVE  TypeOK' /\ (Calm(t) \/ Flushes(t)) /\ Told(t)
  <1>1. TypeOK /\ "page" \in Caller /\ net \in [Tabs -> [Message -> 0 .. Copies]]
    BY DEF TypeInv, TypeOK, Caller
  <1>2. PICK a : a = Unarmed(t)
    OBVIOUS
  <1>3. /\ a \in Tab /\ a.unlocked = tab[t].unlocked /\ a.items = tab[t].items
        /\ a.timer = tab[t].timer /\ a.inflight = tab[t].inflight
        /\ a.row = tab[t].row /\ a.sync = tab[t].sync /\ a.banner = tab[t].banner
    BY <1>1, <1>2, TabIs DEF Unarmed, Tab
  <1>4. CASE ~tab[t].unlocked \/ PageLocking(t)
    <2>1. PICK r \in {a, base} : tab' = [tab EXCEPT ![t] = r]
      BY <1>2, <1>4 DEF AutoLock
    <2>2. lock' = lock /\ persist' = persist /\ excused' = excused
      BY <1>4 DEF AutoLock
    <2>3. TabCalm(t)
      BY <1>1, <1>3, <2>1, TabCalmPut
    <2> QED BY <1>1, <2>2, <2>3 DEF TypeOK, TabCalm, Calm, Apart, Told
  <1>5. CASE ~(~tab[t].unlocked \/ PageLocking(t))
    <2>1. StartLock(t, "page", a)
      BY <1>2, <1>5 DEF AutoLock
    <2> QED BY <1>1, <1>3, <2>1, StartLockIs
  <1> QED BY <1>4, <1>5

LEMMA IdleFiresIs ==
  ASSUME TypeInv, NEW t \in Tabs, IdleFires(t)
  PROVE  TypeOK' /\ (Calm(t) \/ Flushes(t)) /\ Told(t)
  <1>1. TypeOK /\ budget \in [story : Stories, events : Nat, unlocks : Nat]
    BY DEF TypeInv, TypeOK
  <1>2. PICK b : b = [tab[t] EXCEPT !.idleTimer = FALSE]
    OBVIOUS
  <1>3. /\ b \in Tab /\ b.unlocked = tab[t].unlocked /\ b.items = tab[t].items
        /\ b.timer = tab[t].timer /\ b.inflight = tab[t].inflight
        /\ b.row = tab[t].row /\ b.sync = tab[t].sync /\ b.banner = tab[t].banner
    BY <1>1, <1>2, TabIs DEF Tab
  <1>4. /\ AutoLock(t, b)
        /\ UNCHANGED <<disk, wiped, by, net, budget, saved, dropped, unwarned>>
    BY <1>2 DEF IdleFires
  <1> QED BY <1>1, <1>3, <1>4, AutoLockIs

LEMMA HiddenFiresIs ==
  ASSUME TypeInv, NEW t \in Tabs, HiddenFires(t)
  PROVE  TypeOK' /\ (Calm(t) \/ Flushes(t)) /\ Told(t)
  <1>1. TypeOK /\ budget \in [story : Stories, events : Nat, unlocks : Nat]
    BY DEF TypeInv, TypeOK
  <1>2. PICK b : b = [tab[t] EXCEPT !.hiddenTimer = FALSE]
    OBVIOUS
  <1>3. /\ b \in Tab /\ b.unlocked = tab[t].unlocked /\ b.items = tab[t].items
        /\ b.timer = tab[t].timer /\ b.inflight = tab[t].inflight
        /\ b.row = tab[t].row /\ b.sync = tab[t].sync /\ b.banner = tab[t].banner
    BY <1>1, <1>2, TabIs DEF Tab
  <1>4. /\ AutoLock(t, b)
        /\ UNCHANGED <<disk, wiped, by, net, budget, saved, dropped, unwarned>>
    BY <1>2 DEF HiddenFires
  <1> QED BY <1>1, <1>3, <1>4, AutoLockIs

LEMMA PageHideIs ==
  ASSUME TypeInv, NEW t \in Tabs, PageHide(t)
  PROVE  TypeOK' /\ (Calm(t) \/ Flushes(t)) /\ Told(t)
  <1>1. TypeOK /\ tab[t] \in Tab
    BY TabIs DEF TypeInv
  <1>2. /\ AutoLock(t, tab[t]) /\ Event("hide")
        /\ UNCHANGED <<disk, wiped, by, net, saved, dropped, unwarned>>
    BY DEF PageHide
  <1>3. /\ budget' \in [story : Stories, events : Nat, unlocks : Nat]
        /\ budget'.story = budget.story
    BY <1>1, <1>2, EventIs
  <1> QED BY <1>1, <1>2, <1>3, AutoLockIs

LEMMA DeliverIs ==
  ASSUME TypeInv, NEW t \in Tabs, NEW m \in Message, Deliver(t, m)
  PROVE  TypeOK' /\ (Calm(t) \/ Flushes(t)) /\ Told(t)
  <1>1. /\ TypeOK /\ "peer" \in Caller /\ tab[t] \in Tab
        /\ budget \in [story : Stories, events : Nat, unlocks : Nat]
        /\ net \in [Tabs -> [Message -> 0 .. Copies]] /\ Copies \in Nat
    BY TabIs, StoreAssumption DEF TypeInv, TypeOK, Caller
  <1>2. /\ net[t][m] \in 0 .. Copies /\ net[t][m] > 0
        /\ net' = [net EXCEPT ![t] = [net[t] EXCEPT ![m] = net[t][m] - 1]]
    BY <1>1 DEF Deliver
  <1>3. net[t][m] - 1 \in 0 .. Copies
    BY <1>1, <1>2
  <1>4. [net[t] EXCEPT ![m] = net[t][m] - 1] \in [Message -> 0 .. Copies]
    BY <1>1, <1>3
  <1>5. /\ net' \in [Tabs -> [Message -> 0 .. Copies]]
        /\ \A u \in Tabs \ {t} : net'[u] = net[u]
        /\ \A n \in Message \ {m} : net'[t][n] = net[t][n]
    BY <1>1, <1>2, <1>4
  <1>6. UNCHANGED <<disk, wiped, by, budget, saved, dropped, unwarned>>
    BY DEF Deliver
  <1>7. CASE ~tab[t].unlocked
    <2>1. UNCHANGED <<tab, lock, persist, excused>>
      BY <1>7 DEF Deliver
    <2> QED BY <1>1, <1>5, <1>6, <1>7, <2>1 DEF TypeOK, Calm, Apart, Told, Message
  <1>8. CASE tab[t].unlocked /\ m = "persisted"
    <2>1. /\ tab' = [tab EXCEPT ![t] = [tab[t] EXCEPT !.banner = TRUE]]
          /\ UNCHANGED <<lock, persist, excused>>
      BY <1>1, <1>8 DEF Deliver, TypeOK
    <2>2. [tab[t] EXCEPT !.banner = TRUE] \in Tab
      BY <1>1 DEF Tab
    <2>3. /\ tab' \in [Tabs -> Tab] /\ tab'[t] = [tab[t] EXCEPT !.banner = TRUE]
          /\ \A u \in Tabs \ {t} : tab'[u] = tab[u]
      BY <1>1, <2>1, <2>2, PutTab
    <2>4. /\ tab'[t].unlocked = tab[t].unlocked /\ tab'[t].items = tab[t].items
          /\ tab'[t].timer = tab[t].timer /\ tab'[t].inflight = tab[t].inflight
          /\ tab'[t].row = tab[t].row /\ tab'[t].sync = tab[t].sync
          /\ tab'[t].banner = TRUE
      BY <1>1, <2>3 DEF Tab
    <2>5. TypeOK'
      BY <1>1, <1>5, <1>6, <2>1, <2>3 DEF TypeOK
    <2>6. Calm(t)
      BY <1>6, <2>1, <2>3, <2>4 DEF Calm, Apart
    <2>7. Told(t)
      BY <1>5, <1>6, <1>8, <2>4 DEF Told, Message
    <2> QED BY <2>5, <2>6, <2>7
  <1>9. CASE tab[t].unlocked /\ m # "persisted"
    <2>1. StartLock(t, "peer", tab[t])
      BY <1>9 DEF Deliver
    <2>2. \A u \in Tabs : net[u]["persisted"] > 0 => net'[u]["persisted"] > 0
      BY <1>5, <1>9 DEF Message
    <2> QED BY <1>1, <1>5, <1>6, <2>1, <2>2, StartLockIs
  <1> QED BY <1>7, <1>8, <1>9

-----------------------------------------------------------------------------
(* What the shapes preserve *)

LEMMA SafeGrows ==
  ASSUME saved \subseteq saved', excused \subseteq excused', NEW e, Safe(e)
  PROVE  Safe(e)'
  BY DEF Safe, Excused

LEMMA ExcusedGrows ==
  ASSUME excused \subseteq excused', NEW e, Excused(e)
  PROVE  Excused(e)'
  BY DEF Excused

(* The persist of one tab is not the persist of another. *)
LEMMA OneOwner ==
  ASSUME TypeInv, NEW t \in Tabs, NEW u \in Tabs, NEW x \in Edits,
         t \in by[x], u \in by[x]
  PROVE  t = u
  BY DEF TypeInv, OwnOK

(* What a tab holds stays held when its persists, calls and fields stay.   *)
LEMMA HeldKept ==
  ASSUME NEW t \in Tabs, HeldOK(t),
         saved \subseteq saved', excused \subseteq excused',
         \A e \in tab'[t].items \cap Edits : ~Safe(e)' => e \in tab[t].items,
         tab'[t].unlocked = tab[t].unlocked,
         tab'[t].timer = tab[t].timer, tab'[t].inflight = tab[t].inflight,
         \A c \in Caller : lock'[t][c].pc = "flush" => lock'[t][c] = lock[t][c],
         \A x \in Edits : t \in by[x] /\ persist[x].pc = "read" =>
           t \in by'[x] /\ persist'[x] = persist[x]
  PROVE  HeldOK(t)'
  <1> SUFFICES ASSUME NEW e \in tab'[t].items \cap Edits, ~Safe(e)'
               PROVE  /\ tab'[t].unlocked
                      /\ tab'[t].timer # NoEdit \/ Carries(t, tab[t].inflight, e)'
                      /\ \A c \in Caller : lock'[t][c].pc = "flush" =>
                           Carries(t, lock[t][c].awaited, e)'
    BY DEF HeldOK, Carries
  <1>1. e \in tab[t].items \cap Edits /\ ~Safe(e)
    BY SafeGrows
  <1>2. /\ tab[t].unlocked
        /\ tab[t].timer # NoEdit \/ Carries(t, tab[t].inflight, e)
        /\ \A c \in Caller : lock[t][c].pc = "flush" => Carries(t, lock[t][c].awaited, e)
    BY <1>1 DEF HeldOK
  <1>3. ASSUME NEW x, Carries(t, x, e)
        PROVE  x \in Edits /\ t \in by'[x] /\ persist'[x].pc = "read" /\ e \in persist'[x].items
    BY <1>3 DEF Carries
  <1> QED BY <1>2, <1>3 DEF Carries

(* A step of another tab, that leaves its persists alone. *)
LEMMA OthersHeld ==
  ASSUME TypeInv, NEW t \in Tabs, NEW u \in Tabs \ {t}, HeldOK(u), Apart(t),
         saved \subseteq saved', excused \subseteq excused',
         \A x \in Edits : by[x] # {} => by'[x] = by[x],
         \A x \in Edits : t \notin by[x] => persist'[x] = persist[x]
  PROVE  HeldOK(u)'
  <1>1. tab'[u] = tab[u] /\ lock'[u] = lock[u]
    BY DEF Apart
  <1>2. ASSUME NEW x \in Edits, u \in by[x]
        PROVE  u \in by'[x] /\ persist'[x] = persist[x]
    BY <1>2, OneOwner
  <1> QED BY <1>1, <1>2, HeldKept

LEMMA OthersTimed ==
  ASSUME TypeInv, NEW t \in Tabs, NEW u \in Tabs \ {t}, Apart(t),
         budget'.story = budget.story,
         \A x \in Edits : by[x] # {} => by'[x] = by[x],
         \A x \in Edits : t \notin by[x] => persist'[x] = persist[x]
  PROVE  TimerOK(u)'
  <1>1. tab'[u] = tab[u] /\ OpenTabs' = OpenTabs
    BY DEF Apart, OpenTabs
  <1>2. TimerOK(u) /\ tab[u].timer \in EditOrNone
    BY TabIs DEF TypeInv
  <1>3. ASSUME tab[u].timer # NoEdit
        PROVE  u \in by'[tab[u].timer] /\ persist'[tab[u].timer].pc = "unused"
    <2>1. tab[u].timer \in Edits /\ u \in by[tab[u].timer]
          /\ persist[tab[u].timer].pc = "unused"
      BY <1>2, <1>3 DEF TimerOK, EditOrNone
    <2>2. t \notin by[tab[u].timer]
      BY <2>1, OneOwner
    <2> QED BY <2>1, <2>2
  <1> QED BY <1>1, <1>2, <1>3 DEF TimerOK

LEMMA CalmKeeps ==
  ASSUME TypeInv, EditInv, NEW t \in Tabs, TypeOK', Calm(t)
  PROVE  TypeInv' /\ EditInv'
  <1>1. /\ Apart(t) /\ budget'.story = budget.story
        /\ tab'[t].unlocked = tab[t].unlocked /\ tab'[t].items = tab[t].items
        /\ tab'[t].timer = tab[t].timer /\ tab'[t].inflight = tab[t].inflight
        /\ \A c \in Caller : lock'[t][c].pc = "flush" => lock'[t][c] = lock[t][c]
        /\ by' = by /\ persist' = persist /\ saved' = saved /\ dropped' = dropped
        /\ excused \subseteq excused'
    BY DEF Calm
  <1>2. \A e \in Edits : OwnOK(e)'
    BY <1>1 DEF TypeInv, OwnOK
  <1>3. ASSUME NEW u \in Tabs PROVE TimerOK(u)'
    <2>1. CASE u # t
      BY <1>1, <2>1, OthersTimed
    <2>2. CASE u = t
      BY <1>1, <2>2 DEF TypeInv, TimerOK, OpenTabs
    <2> QED BY <2>1, <2>2
  <1>4. ASSUME NEW u \in Tabs PROVE HeldOK(u)'
    <2>0. HeldOK(u)
      BY DEF EditInv
    <2>1. CASE u # t
      BY <1>1, <2>0, <2>1, OthersHeld
    <2>2. CASE u = t
      BY <1>1, <2>0, <2>2, HeldKept
    <2> QED BY <2>1, <2>2
  <1>5. ReadOK'
    <2>0. ReadOK
      BY DEF EditInv
    <2>1. disk' \cap Edits \subseteq saved'
      BY <1>1, <2>0, Nones DEF Calm, ReadOK
    <2>2. ASSUME NEW u \in Tabs PROVE tab'[u].row \cap Edits \subseteq saved'
      BY <1>1, <2>0 DEF Calm, ReadOK, Apart
    <2>3. wiped' => \A e \in Edits : Safe(e)'
      <3>1. wiped => \A e \in Edits : Safe(e)'
        BY <1>1, <2>0, SafeGrows DEF ReadOK
      <3>2. (\A e \in Edits : <<"wiped", e>> \in excused') => \A e \in Edits : Safe(e)'
        BY DEF Safe, Excused
      <3> QED BY <3>1, <3>2 DEF Calm
    <2> QED BY <2>1, <2>2, <2>3 DEF ReadOK
  <1>6. \A e \in dropped' : Excused(e)'
    BY <1>1, ExcusedGrows DEF EditInv
  <1> QED BY <1>2, <1>3, <1>4, <1>5, <1>6 DEF TypeInv, EditInv

LEMMA FlushKeeps ==
  ASSUME TypeInv, EditInv, NEW t \in Tabs, TypeOK', Flushes(t)
  PROVE  TypeInv' /\ EditInv'
  <1>1. /\ Apart(t) /\ budget'.story = budget.story /\ StartPersist(t)
        /\ tab'[t].unlocked = tab[t].unlocked /\ tab'[t].items = tab[t].items
        /\ tab'[t].timer = NoEdit /\ tab'[t].inflight = Flushed(t).inflight
        /\ by' = by /\ saved' = saved /\ dropped' = dropped
        /\ TypeOK
    BY DEF Flushes, TypeInv
  <1>2. /\ excused \subseteq excused'
        /\ \A x \in Edits : x # tab[t].timer => persist'[x] = persist[x]
        /\ tab[t].timer # NoEdit =>
             /\ tab[t].timer \in Edits /\ t \in by[tab[t].timer]
             /\ persist[tab[t].timer].pc = "unused"
             /\ persist'[tab[t].timer].pc # "unused"
             /\ CanSave(t) => persist'[tab[t].timer].pc = "read"
                              /\ persist'[tab[t].timer].items = tab[t].items
             /\ wiped => \A e \in tab[t].items \cap Edits : <<"wiped", e>> \in excused'
    BY <1>1, StartIs
  <1>3. \A x \in Edits : t \notin by[x] => persist'[x] = persist[x]
    BY <1>2, Nones
  <1>4. \A e \in Edits : OwnOK(e)'
    BY <1>1, <1>2, Nones DEF TypeInv, OwnOK
  <1>5. ASSUME NEW u \in Tabs PROVE TimerOK(u)'
    <2>1. CASE u # t
      BY <1>1, <1>3, <2>1, OthersTimed
    <2>2. CASE u = t
      BY <1>1, <2>2 DEF TypeInv, TimerOK, OpenTabs
    <2> QED BY <2>1, <2>2
  <1>6. HeldOK(t)'
    <2>0. PICK f : f = Flushed(t).inflight
      OBVIOUS
    <2> SUFFICES ASSUME NEW e \in tab[t].items \cap Edits, ~Safe(e)'
                 PROVE  /\ tab[t].unlocked
                        /\ Carries(t, f, e)'
                        /\ \A c \in Caller : (lock[t][c].pc = "flush" =>
                             Carries(t, lock[t][c].awaited, e))'
      BY <1>1, <2>0 DEF HeldOK, Carries
    <2>1. ~Safe(e) /\ ~(wiped /\ tab[t].timer # NoEdit)
      BY <1>1, <1>2, SafeGrows DEF Safe, Excused
    <2>2. /\ tab[t].unlocked
          /\ tab[t].timer # NoEdit \/ Carries(t, tab[t].inflight, e)
          /\ \A c \in Caller : lock[t][c].pc = "flush" => Carries(t, lock[t][c].awaited, e)
      BY <2>1 DEF EditInv, HeldOK
    <2>3. ASSUME NEW x, Carries(t, x, e)
          PROVE  Carries(t, x, e)'
      BY <1>1, <1>2, <2>3, Nones DEF Carries
    <2>4. Carries(t, f, e)'
      <3>1. CASE tab[t].timer = NoEdit
        <4>1. f = tab[t].inflight /\ Carries(t, tab[t].inflight, e)
          BY <1>1, <2>0, <2>2, <3>1, FlushedIs
        <4>2. Carries(t, f, e)
          BY <4>1
        <4> QED BY <2>3, <4>2
      <3>2. CASE tab[t].timer # NoEdit
        <4>1. CanSave(t)
          BY <2>1, <2>2, <3>2 DEF CanSave
        <4>2. f = tab[t].timer
          BY <1>1, <2>0, <3>2, <4>1, FlushedIs
        <4> QED BY <1>1, <1>2, <3>2, <4>1, <4>2 DEF Carries
      <3> QED BY <3>1, <3>2
    <2>5. ASSUME NEW c \in Caller, lock'[t][c].pc = "flush"
          PROVE  Carries(t, lock[t][c].awaited, e)'
      <3>1. lock'[t][c] = lock[t][c] \/ lock'[t][c].awaited = f
        BY <2>0, <2>5 DEF Flushes
      <3>2. CASE lock'[t][c] = lock[t][c]
        <4>1. PICK a : a = lock[t][c].awaited
          OBVIOUS
        <4>2. Carries(t, a, e)
          BY <2>2, <2>5, <3>2, <4>1
        <4>3. Carries(t, a, e)'
          BY <2>3, <4>2
        <4> QED BY <3>2, <4>1, <4>3 DEF Carries
      <3>3. CASE lock'[t][c].awaited = f
        BY <2>4, <3>3 DEF Carries
      <3> QED BY <3>1, <3>2, <3>3
    <2> QED BY <2>2, <2>4, <2>5
  <1>7. ASSUME NEW u \in Tabs PROVE HeldOK(u)'
    <2>1. CASE u # t
      BY <1>1, <1>2, <1>3, <2>1, OthersHeld DEF EditInv
    <2> QED BY <1>6, <2>1
  <1>8. ReadOK'
    <2>1. ReadOK /\ disk' = disk /\ wiped' = wiped /\ tab'[t].row = tab[t].row
      BY DEF EditInv, Flushes
    <2>2. ASSUME NEW u \in Tabs PROVE tab'[u].row \cap Edits \subseteq saved'
      BY <1>1, <2>1 DEF ReadOK, Apart
    <2>3. wiped' => \A e \in Edits : Safe(e)'
      BY <1>1, <1>2, <2>1, SafeGrows DEF ReadOK
    <2> QED BY <1>1, <2>1, <2>2, <2>3 DEF ReadOK
  <1>9. \A e \in dropped' : Excused(e)'
    BY <1>1, <1>2, ExcusedGrows DEF EditInv
  <1> QED BY <1>4, <1>5, <1>7, <1>8, <1>9 DEF TypeInv, EditInv

(* A tab knows what it knew, when no announcement of any tab is lost. *)
LEMMA AnnouncedKept ==
  ASSUME TypeInv, NEW u \in Tabs, Announced(u),
         \A x \in Edits : by[x] # {} => by'[x] = by[x],
         \A v \in Tabs : tab[v].sync = "promoted" => tab'[v].sync = "promoted",
         \A x \in Edits : u \notin by[x] /\ persist[x].pc = "size" =>
           persist'[x].pc = "size",
         tab[u].banner => tab'[u].banner,
         net[u]["persisted"] > 0 => net'[u]["persisted"] > 0 \/ tab'[u].banner
  PROVE  Announced(u)'
  <1>1. CASE tab[u].banner \/ net[u]["persisted"] > 0 \/ tab[u].sync = "promoted"
    BY <1>1 DEF Announced
  <1>2. CASE \E v \in Tabs \ {u} : tab[v].sync = "promoted"
    BY <1>2 DEF Announced
  <1>3. CASE \E v \in Tabs \ {u} : \E e \in Running(v) : persist[e].pc = "size"
    <2>1. PICK v \in Tabs \ {u}, e \in Edits : v \in by[e] /\ persist[e].pc = "size"
      BY <1>3 DEF Running
    <2>2. v \in by'[e] /\ persist'[e].pc = "size"
      BY <2>1, OneOwner
    <2> QED BY <2>1, <2>2 DEF Announced, Running
  <1> QED BY <1>1, <1>2, <1>3 DEF Announced

LEMMA ToldKeeps ==
  ASSUME TypeInv, NEW t \in Tabs, NEW u \in Tabs, WarnedOK(u), Told(t), Apart(t),
         by' = by,
         tab'[t].unlocked = tab[t].unlocked, tab'[t].items = tab[t].items,
         \A x \in Edits : persist[x].pc = "size" => persist'[x].pc = "size"
  PROVE  WarnedOK(u)'
  <1>1. CASE tab'[t].sync = "promoted"
    BY <1>1 DEF WarnedOK, Announced
  <1>2. CASE tab'[t].sync # "promoted"
    <2> SUFFICES ASSUME Stale(u)'
                 PROVE  Announced(u)' \/ \E g \in Gap : <<g, u>> \in unwarned'
      BY DEF WarnedOK
    <2>1. tab'[u].unlocked = tab[u].unlocked /\ tab'[u].items = tab[u].items
      BY DEF Apart
    <2>2. Stale(u)
      BY <1>2, <2>1 DEF Stale, Told
    <2>3. CASE Announced(u)
      <3>1. \A v \in Tabs : tab[v].sync = "promoted" => tab'[v].sync = "promoted"
        BY DEF Told, Apart
      <3>2. tab[u].banner => tab'[u].banner
        BY DEF Told, Apart
      <3>3. net[u]["persisted"] > 0 => net'[u]["persisted"] > 0 \/ tab'[u].banner
        BY <2>2 DEF Told, Stale
      <3> QED BY <2>3, <3>1, <3>2, <3>3, AnnouncedKept
    <2>4. CASE \E g \in Gap : <<g, u>> \in unwarned
      BY <2>4 DEF Told
    <2> QED BY <2>2, <2>3, <2>4 DEF WarnedOK
  <1> QED BY <1>1, <1>2

LEMMA CalmStep ==
  ASSUME IInv, NEW t \in Tabs, TypeOK', Calm(t), Told(t)
  PROVE  IInv'
  <1>1. TypeInv' /\ EditInv'
    BY CalmKeeps DEF IInv
  <1>2. \A u \in Tabs : WarnedOK(u)'
    BY ToldKeeps DEF IInv, Calm
  <1> QED BY <1>1, <1>2 DEF IInv

LEMMA FlushStep ==
  ASSUME IInv, NEW t \in Tabs, TypeOK', Flushes(t), Told(t)
  PROVE  IInv'
  <1>1. TypeInv' /\ EditInv'
    BY FlushKeeps DEF IInv
  <1>2. \A x \in Edits : persist[x].pc = "size" => persist'[x].pc = "size"
    BY StartIs, Nones DEF Flushes, IInv
  <1>3. \A u \in Tabs : WarnedOK(u)'
    BY <1>2, ToldKeeps DEF IInv, Flushes
  <1> QED BY <1>1, <1>3 DEF IInv

LEMMA WarnedKept ==
  ASSUME TypeInv, NEW u \in Tabs, WarnedOK(u),
         disk' \subseteq disk, tab'[u].unlocked = tab[u].unlocked,
         tab[u].items \subseteq tab'[u].items,
         \A x \in Edits : by[x] # {} => by'[x] = by[x],
         \A v \in Tabs : tab[v].sync = "promoted" => tab'[v].sync = "promoted",
         \A x \in Edits : u \notin by[x] /\ persist[x].pc = "size" =>
           persist'[x].pc = "size",
         tab[u].banner => tab'[u].banner, net'[u] = net[u],
         \A g \in Gap : <<g, u>> \in unwarned => <<g, u>> \in unwarned'
  PROVE  WarnedOK(u)'
  <1> SUFFICES ASSUME Stale(u)'
               PROVE  Announced(u)' \/ \E g \in Gap : <<g, u>> \in unwarned'
    BY DEF WarnedOK
  <1>1. Stale(u)
    BY DEF Stale
  <1>2. CASE Announced(u)
    BY <1>2, AnnouncedKept
  <1>3. CASE \E g \in Gap : <<g, u>> \in unwarned
    BY <1>3
  <1> QED BY <1>1, <1>2, <1>3 DEF WarnedOK

(* Everybody else is told when this tab posts. *)
LEMMA PostWarns ==
  ASSUME TypeInv, NEW t \in Tabs, NEW u \in Tabs \ {t}, Post(t, "persisted"), Apart(t)
  PROVE  WarnedOK(u)'
  <1>1. CASE u \in OpenTabs
    <2>1. net'[u]["persisted"] > 0
      BY <1>1, PostIs DEF TypeInv, Message
    <2> QED BY <2>1 DEF WarnedOK, Announced
  <1>2. CASE u \notin OpenTabs
    BY <1>2 DEF TypeInv, TimerOK, Apart, WarnedOK, Stale
  <1> QED BY <1>1, <1>2

-----------------------------------------------------------------------------
(* Unlocking and editing *)

LEMMA OpenDoneIs ==
  ASSUME TypeOK, NEW t \in Tabs, OpenDone(t)
  PROVE  /\ TypeOK' /\ Apart(t)
         /\ tab[t].timer = NoEdit /\ tab'[t].timer = NoEdit
         /\ tab'[t].unlocked = TRUE /\ tab'[t].items = tab[t].row
         /\ tab'[t].row = {} /\ tab'[t].sync = tab[t].sync
         /\ UNCHANGED <<disk, wiped, by, persist, lock, net, budget, saved, dropped,
                        excused>>
         /\ \A u \in Tabs \ {t} : \A g \in Gap : <<g, u>> \in unwarned =>
              <<g, u>> \in unwarned'
         /\ ~(disk \subseteq tab[t].row) => <<"read early", t>> \in unwarned'
  <1>1. tab[t] \in Tab /\ tab[t].row \in Items
    BY TabIs
  <1>a. PICK h \in BOOLEAN : h = ~tab[t].visible
    OBVIOUS
  <1>b. PICK o : o = tab[t].row
    OBVIOUS
  <1>2. PICK r : r = [tab[t] EXCEPT !.reading = FALSE, !.row = {}, !.page = "vault",
                        !.unlocked = TRUE, !.items = o, !.banner = FALSE,
                        !.idleTimer = TRUE, !.hiddenTimer = h]
    OBVIOUS
  <1>3. {} \in Items /\ o \in Items
    BY <1>1, <1>b DEF Items
  <1>4. r \in Tab
    <2>1. tab[t] \in Tab
      BY <1>1
    <2> QED BY <2>1, <1>2, <1>3 DEF Tab
  <1>5. /\ r.timer = tab[t].timer /\ r.unlocked = TRUE /\ r.items = tab[t].row
        /\ r.row = {} /\ r.sync = tab[t].sync
    BY <1>1, <1>b, <1>2 DEF Tab
  <1>6. /\ tab' = [tab EXCEPT ![t] = r] /\ tab[t].timer = NoEdit
        /\ UNCHANGED <<disk, wiped, by, persist, lock, net, budget, saved, dropped,
                       excused>>
    BY <1>a, <1>b, <1>2 DEF OpenDone
  <1>7. /\ tab' \in [Tabs -> Tab] /\ tab'[t] = r
        /\ \A u \in Tabs \ {t} : tab'[u] = tab[u]
    BY <1>4, <1>6, PutTab
  <1>8. unwarned' = {g \in unwarned : g[2] # t}
          \cup (IF disk \subseteq tab[t].row THEN {} ELSE {<<"read early", t>>})
    BY DEF OpenDone
  <1>9. unwarned' \in SUBSET (Gap \X Tabs)
    <2>1. unwarned \in SUBSET (Gap \X Tabs) /\ <<"read early", t>> \in Gap \X Tabs
      BY DEF TypeOK, Gap
    <2>2. {g \in unwarned : g[2] # t} \subseteq unwarned
      OBVIOUS
    <2> QED BY <1>8, <2>1, <2>2
  <1>10. TypeOK'
    BY <1>6, <1>7, <1>9 DEF TypeOK
  <1> QED BY <1>5, <1>6, <1>7, <1>8, <1>10 DEF Apart

LEMMA OpenDoneStep ==
  ASSUME IInv, NEW t \in Tabs, t \in OpenTabs, OpenDone(t)
  PROVE  IInv'
  <1>0. TypeOK /\ TypeInv /\ EditInv /\ ReadOK
    BY DEF IInv, TypeInv, EditInv
  <1>1. /\ TypeOK' /\ Apart(t)
        /\ tab[t].timer = NoEdit /\ tab'[t].timer = NoEdit
        /\ tab'[t].unlocked = TRUE /\ tab'[t].items = tab[t].row
        /\ tab'[t].row = {} /\ tab'[t].sync = tab[t].sync
        /\ disk' = disk /\ wiped' = wiped /\ by' = by /\ persist' = persist
        /\ lock' = lock /\ net' = net /\ budget' = budget /\ saved' = saved
        /\ dropped' = dropped /\ excused' = excused
        /\ \A u \in Tabs \ {t} : \A g \in Gap : <<g, u>> \in unwarned =>
             <<g, u>> \in unwarned'
        /\ ~(disk \subseteq tab[t].row) => <<"read early", t>> \in unwarned'
    BY <1>0, OpenDoneIs
  <1>2. \A e \in Edits : OwnOK(e)'
    BY <1>0, <1>1 DEF TypeInv, OwnOK
  <1>3. ASSUME NEW u \in Tabs PROVE TimerOK(u)'
    <2>1. CASE u # t
      BY <1>0, <1>1, <2>1, OthersTimed
    <2>2. CASE u = t
      BY <1>1, <2>2 DEF TimerOK, OpenTabs
    <2> QED BY <2>1, <2>2
  <1>4. ASSUME NEW u \in Tabs PROVE HeldOK(u)'
    <2>1. CASE u # t
      BY <1>0, <1>1, <2>1, OthersHeld DEF EditInv
    <2>2. CASE u = t
      <3>1. \A e \in tab'[t].items \cap Edits : Safe(e)'
        BY <1>0, <1>1 DEF ReadOK, Safe, Excused
      <3> QED BY <2>2, <3>1 DEF HeldOK
    <2> QED BY <2>1, <2>2
  <1>5. ReadOK'
    <2>1. ASSUME NEW u \in Tabs PROVE tab'[u].row \cap Edits \subseteq saved'
      BY <1>0, <1>1 DEF ReadOK, Apart
    <2>2. wiped' => \A e \in Edits : Safe(e)'
      BY <1>0, <1>1 DEF ReadOK, Safe, Excused
    <2> QED BY <1>0, <1>1, <2>1, <2>2 DEF ReadOK
  <1>6. \A e \in dropped' : Excused(e)'
    BY <1>0, <1>1 DEF EditInv, Excused
  <1>7. ASSUME NEW u \in Tabs PROVE WarnedOK(u)'
    <2>1. CASE u # t
      <3>1. /\ tab'[u] = tab[u] /\ WarnedOK(u)
            /\ \A v \in Tabs : tab[v].sync = "promoted" => tab'[v].sync = "promoted"
        BY <1>1, <2>1 DEF Apart, IInv
      <3> QED BY <1>0, <1>1, <2>1, <3>1, WarnedKept
    <2>2. CASE u = t
      BY <1>1, <2>2 DEF WarnedOK, Stale, Gap
    <2> QED BY <2>1, <2>2
  <1> QED BY <1>1, <1>2, <1>3, <1>4, <1>5, <1>6, <1>7 DEF IInv, TypeInv, EditInv

LEMMA EditIs ==
  ASSUME TypeOK, NEW t \in Tabs, NEW e \in Edits, Edit(t, e)
  PROVE  /\ TypeOK' /\ Apart(t)
         /\ by[e] = {} /\ by'[e] = {t} /\ \A x \in Edits \ {e} : by'[x] = by[x]
         /\ tab'[t].items = tab[t].items \cup {e} /\ tab'[t].timer = e
         /\ tab'[t].unlocked = tab[t].unlocked /\ tab'[t].inflight = tab[t].inflight
         /\ tab'[t].row = tab[t].row /\ tab'[t].sync = tab[t].sync
         /\ tab'[t].banner = tab[t].banner
         /\ ~PageLocking(t) /\ excused \subseteq excused'
         /\ PeerLocking(t) \/ ~tab[t].unlocked => <<"late", e>> \in excused'
         /\ UNCHANGED <<disk, wiped, persist, lock, net, budget, saved, dropped, unwarned>>
  <1>1. tab[t] \in Tab /\ tab[t].items \in Items
    BY TabIs
  <1>2. PICK r : r = [tab[t] EXCEPT !.items = tab[t].items \cup {e}, !.timer = e]
    OBVIOUS
  <1>3. tab[t].items \cup {e} \in Items /\ e \in EditOrNone
    BY <1>1 DEF Items, EditOrNone
  <1>4. /\ r \in Tab /\ r.items = tab[t].items \cup {e} /\ r.timer = e
        /\ r.unlocked = tab[t].unlocked /\ r.inflight = tab[t].inflight
        /\ r.row = tab[t].row /\ r.sync = tab[t].sync /\ r.banner = tab[t].banner
    BY <1>1, <1>2, <1>3 DEF Tab
  <1>5. tab' = [tab EXCEPT ![t] = r]
    BY <1>2 DEF Edit, TypeOK
  <1>6. /\ tab' \in [Tabs -> Tab] /\ tab'[t] = r
        /\ \A u \in Tabs \ {t} : tab'[u] = tab[u]
    BY <1>4, <1>5, PutTab
  <1>7. /\ by[e] = {} /\ ~PageLocking(t) /\ by' = [by EXCEPT ![e] = {t}]
        /\ UNCHANGED <<disk, wiped, persist, lock, net, budget, saved, dropped, unwarned>>
    BY DEF Edit
  <1>8. /\ by' \in [Edits -> SUBSET Tabs] /\ by'[e] = {t}
        /\ \A x \in Edits \ {e} : by'[x] = by[x]
    BY <1>7 DEF TypeOK
  <1>9. /\ excused' \in SUBSET (Reason \X Edits) /\ excused \subseteq excused'
        /\ PeerLocking(t) \/ ~tab[t].unlocked => <<"late", e>> \in excused'
    <2>1. CASE PeerLocking(t) \/ ~tab[t].unlocked
      <3>1. Excuse("late", {e})
        BY <2>1 DEF Edit
      <3> QED BY <3>1, ExcuseIs DEF Reason
    <2>2. CASE ~(PeerLocking(t) \/ ~tab[t].unlocked)
      BY <2>2 DEF Edit, TypeOK
    <2> QED BY <2>1, <2>2
  <1>10. TypeOK'
    BY <1>6, <1>7, <1>8, <1>9 DEF TypeOK
  <1> QED BY <1>4, <1>6, <1>7, <1>8, <1>9, <1>10 DEF Apart

LEMMA EditStep ==
  ASSUME IInv, NEW t \in Tabs, NEW e \in Edits, Edit(t, e)
  PROVE  IInv'
  <1>0. TypeOK /\ TypeInv /\ EditInv /\ ReadOK
    BY DEF IInv, TypeInv, EditInv
  <1>1. /\ TypeOK' /\ Apart(t)
        /\ by[e] = {} /\ by'[e] = {t} /\ \A x \in Edits \ {e} : by'[x] = by[x]
        /\ tab'[t].items = tab[t].items \cup {e} /\ tab'[t].timer = e
        /\ tab'[t].unlocked = tab[t].unlocked /\ tab'[t].inflight = tab[t].inflight
        /\ tab'[t].row = tab[t].row /\ tab'[t].sync = tab[t].sync
        /\ tab'[t].banner = tab[t].banner
        /\ ~PageLocking(t) /\ excused \subseteq excused'
        /\ PeerLocking(t) \/ ~tab[t].unlocked => <<"late", e>> \in excused'
        /\ disk' = disk /\ wiped' = wiped /\ persist' = persist
        /\ lock' = lock /\ net' = net /\ budget' = budget /\ saved' = saved
        /\ dropped' = dropped /\ unwarned' = unwarned
    BY <1>0, EditIs
  <1>2. \A x \in Edits : by[x] # {} => by'[x] = by[x]
    BY <1>1
  <1>3. \A x \in Edits : OwnOK(x)'
    BY <1>0, <1>1 DEF TypeInv, OwnOK
  <1>4. ASSUME NEW u \in Tabs PROVE TimerOK(u)'
    <2>1. CASE u # t
      BY <1>0, <1>1, <1>2, <2>1, OthersTimed
    <2>2. CASE u = t
      <3>1. persist[e].pc = "unused" /\ TimerOK(t)
        BY <1>0, <1>1 DEF TypeInv, OwnOK
      <3> QED BY <1>1, <2>2, <3>1 DEF TimerOK, OpenTabs
    <2> QED BY <2>1, <2>2
  <1>5. ASSUME NEW x \in Edits PROVE Safe(x) => Safe(x)'
    BY <1>1, SafeGrows
  <1>6. ASSUME NEW u \in Tabs PROVE HeldOK(u)'
    <2>0. HeldOK(u)
      BY <1>0 DEF EditInv
    <2>1. CASE u # t
      BY <1>0, <1>1, <1>2, <2>0, <2>1, OthersHeld
    <2>2. CASE u = t
      <3> SUFFICES ASSUME NEW x \in tab'[t].items \cap Edits, ~Safe(x)'
                   PROVE  /\ tab[t].unlocked
                          /\ \A c \in Caller : lock[t][c].pc = "flush" =>
                               Carries(t, lock[t][c].awaited, x)'
        BY <1>1, <2>2, Nones DEF HeldOK, Carries
      <3>1. CASE x = e
        <4>1. tab[t].unlocked /\ ~PeerLocking(t)
          BY <1>1, <3>1 DEF Safe, Excused
        <4>2. \A c \in Caller : lock[t][c].pc = "idle"
          BY <1>1, <4>1 DEF PeerLocking, PageLocking, Caller
        <4> QED BY <4>1, <4>2
      <3>2. CASE x # e
        <4>1. /\ tab[t].unlocked
              /\ \A c \in Caller : lock[t][c].pc = "flush" =>
                   Carries(t, lock[t][c].awaited, x)
          BY <1>1, <1>5, <2>0, <2>2, <3>2 DEF HeldOK
        <4> QED BY <1>1, <1>2, <4>1 DEF Carries
      <3> QED BY <3>1, <3>2
    <2> QED BY <2>1, <2>2
  <1>7. ReadOK'
    <2>1. ASSUME NEW u \in Tabs PROVE tab'[u].row \cap Edits \subseteq saved'
      BY <1>0, <1>1 DEF ReadOK, Apart
    <2>2. wiped' => \A x \in Edits : Safe(x)'
      BY <1>0, <1>1, <1>5 DEF ReadOK
    <2> QED BY <1>0, <1>1, <2>1, <2>2 DEF ReadOK
  <1>8. \A x \in dropped' : Excused(x)'
    BY <1>0, <1>1, ExcusedGrows DEF EditInv
  <1>9. ASSUME NEW u \in Tabs PROVE WarnedOK(u)'
    <2>1. /\ WarnedOK(u) /\ tab'[u].unlocked = tab[u].unlocked
          /\ tab[u].items \subseteq tab'[u].items
          /\ tab'[u].banner = tab[u].banner
          /\ \A v \in Tabs : tab[v].sync = "promoted" => tab'[v].sync = "promoted"
      BY <1>1 DEF Apart, IInv
    <2> QED BY <1>0, <1>1, <1>2, <2>1, WarnedKept
  <1> QED BY <1>1, <1>3, <1>4, <1>6, <1>7, <1>8, <1>9 DEF IInv, TypeInv, EditInv

-----------------------------------------------------------------------------
(* Persists *)

LEMMA PersistWriteStep ==
  ASSUME IInv, NEW t \in Tabs, NEW e \in Edits, PersistWrite(t, e)
  PROVE  IInv'
  <1>0. TypeOK /\ TypeInv /\ EditInv /\ ReadOK
    BY DEF IInv, TypeInv, EditInv
  <1>1. PICK items : items = persist[e].items
    OBVIOUS
  <1>2. /\ t \in by[e] /\ persist[e].pc = "read" /\ tab[t].unlocked
        /\ disk' = items /\ saved' = saved \cup (items \cap Edits)
        /\ persist' = [persist EXCEPT ![e].pc = "size"]
        /\ unwarned' = unwarned \cup
             (IF items \subseteq tab[t].items THEN {} ELSE {<<"own save", t>>})
        /\ wiped' = wiped /\ tab' = tab /\ by' = by /\ lock' = lock /\ net' = net
        /\ budget' = budget /\ dropped' = dropped /\ excused' = excused
    BY <1>1 DEF PersistWrite
  <1>3. /\ persist' \in [Edits -> Persist] /\ persist'[e].pc = "size"
        /\ \A x \in Edits \ {e} : persist'[x] = persist[x]
    BY <1>0, <1>2, PutPersist
  <1>4. /\ disk' \in Items /\ saved' \in SUBSET Edits
        /\ unwarned' \in SUBSET (Gap \X Tabs)
    <2>1. items \in Items
      BY <1>0, <1>1, PersistIs
    <2>2. saved \in SUBSET Edits /\ unwarned \in SUBSET (Gap \X Tabs)
          /\ <<"own save", t>> \in Gap \X Tabs
      BY <1>0 DEF TypeOK, Gap
    <2> QED BY <1>2, <2>1, <2>2
  <1>5. TypeOK'
    BY <1>0, <1>2, <1>3, <1>4 DEF TypeOK
  <1>6. /\ Apart(t) /\ saved \subseteq saved'
        /\ \A x \in Edits : t \notin by[x] => persist'[x] = persist[x]
    BY <1>2, <1>3 DEF Apart
  <1>7. \A x \in Edits : OwnOK(x)'
    BY <1>0, <1>2, <1>3 DEF TypeInv, OwnOK
  <1>8. ASSUME NEW u \in Tabs PROVE TimerOK(u)'
    <2>1. tab[u].timer \in EditOrNone /\ TimerOK(u)
      BY <1>0, TabIs DEF TypeInv
    <2> QED BY <1>2, <1>3, <2>1 DEF TimerOK, EditOrNone, OpenTabs
  <1>9. ASSUME NEW u \in Tabs PROVE HeldOK(u)'
    <2>1. CASE u # t
      BY <1>0, <1>2, <1>6, <2>1, OthersHeld DEF EditInv
    <2>2. CASE u = t
      <3> SUFFICES ASSUME NEW x \in tab[t].items \cap Edits, ~Safe(x)'
                   PROVE  /\ tab[t].unlocked
                          /\ tab[t].timer # NoEdit \/ Carries(t, tab[t].inflight, x)'
                          /\ \A c \in Caller : lock[t][c].pc = "flush" =>
                               Carries(t, lock[t][c].awaited, x)'
        <4>1. tab'[t] = tab[t] /\ lock'[t] = lock[t]
          BY <1>2
        <4> QED BY <4>1, <2>2 DEF HeldOK
      <3>1. ~Safe(x) /\ x \notin items
        BY <1>2, SafeGrows DEF Safe, Excused
      <3>2. /\ tab[t].timer # NoEdit \/ Carries(t, tab[t].inflight, x)
            /\ \A c \in Caller : lock[t][c].pc = "flush" =>
                 Carries(t, lock[t][c].awaited, x)
        BY <1>0, <3>1 DEF EditInv, HeldOK
      <3>3. ASSUME NEW y, Carries(t, y, x)
            PROVE  y \in Edits \ {e} /\ Carries(t, y, x)
        BY <1>1, <3>1, <3>3 DEF Carries
      <3> QED BY <1>2, <1>3, <3>2, <3>3 DEF Carries
    <2> QED BY <2>1, <2>2
  <1>10. ReadOK'
    <2>1. \A u \in Tabs : tab'[u].row \cap Edits \subseteq saved'
      BY <1>0, <1>2 DEF ReadOK
    <2>2. wiped' => \A x \in Edits : Safe(x)'
      BY <1>0, <1>2, <1>6, SafeGrows DEF ReadOK
    <2> QED BY <1>2, <2>1, <2>2 DEF ReadOK
  <1>11. \A x \in dropped' : Excused(x)'
    BY <1>0, <1>2, <1>6, ExcusedGrows DEF EditInv
  <1>12. ASSUME NEW u \in Tabs PROVE WarnedOK(u)'
    <2>1. CASE u # t
      <3>1. e \in Running(t)' /\ persist'[e].pc = "size"
        BY <1>2, <1>3 DEF Running
      <3> QED BY <2>1, <3>1 DEF WarnedOK, Announced
    <2>2. CASE u = t
      BY <1>2, <2>2 DEF WarnedOK, Stale, Gap
    <2> QED BY <2>1, <2>2
  <1> QED BY <1>5, <1>7, <1>8, <1>9, <1>10, <1>11, <1>12 DEF IInv, TypeInv, EditInv

LEMMA ForgetsIs ==
  ASSUME TypeOK, NEW t \in Tabs, NEW e \in Edits
  PROVE  /\ Forgets(t, e) \subseteq Reason \X Edits
         /\ \A x \in Running(t) \ {e} : \A y \in persist[x].items \cap Edits :
              <<"untracked", y>> \in Forgets(t, e)
  <1>1. ASSUME NEW x \in Running(t) \ {e}, NEW y \in persist[x].items \cap Edits
        PROVE  y \in (UNION {persist[z].items : z \in Running(t) \ {e}}) \cap Edits
    OBVIOUS
  <1>2. Forgets(t, e) = {"untracked"} \X
          ((UNION {persist[z].items : z \in Running(t) \ {e}}) \cap Edits)
    BY DEF Forgets
  <1>3. PICK es : es = (UNION {persist[z].items : z \in Running(t) \ {e}}) \cap Edits
    OBVIOUS
  <1>4. es \subseteq Edits /\ Forgets(t, e) = {"untracked"} \X es
        /\ \A x \in Running(t) \ {e} : \A y \in persist[x].items \cap Edits : y \in es
    BY <1>1, <1>2, <1>3
  <1> QED BY <1>4 DEF Reason

(* The end of a persist of the tab: what it still holds is what its timer  *)
(* will persist.                                                           *)
Ends(t, e) ==
  /\ tab' = [tab EXCEPT ![t].inflight = NoEdit]
  /\ persist' = [persist EXCEPT ![e].pc = "done"]
  /\ t \in by[e] /\ persist[e].pc # "unused"
  /\ excused \cup Forgets(t, e) \subseteq excused'
  /\ tab[t].unlocked /\ persist[e].pc = "read" =>
       \A x \in persist[e].items \cap Edits : <<"failed", x>> \in excused'
  /\ disk' = disk /\ wiped' = wiped /\ by' = by /\ lock' = lock
  /\ saved' = saved /\ dropped' = dropped /\ budget'.story = budget.story

LEMMA EndsTab ==
  ASSUME TypeOK, NEW t \in Tabs, tab' = [tab EXCEPT ![t].inflight = NoEdit]
  PROVE  /\ tab' \in [Tabs -> Tab] /\ \A u \in Tabs \ {t} : tab'[u] = tab[u]
         /\ tab'[t].unlocked = tab[t].unlocked /\ tab'[t].items = tab[t].items
         /\ tab'[t].timer = tab[t].timer /\ tab'[t].row = tab[t].row
         /\ tab'[t].sync = tab[t].sync /\ tab'[t].banner = tab[t].banner
  <1>1. PICK r : r = [tab[t] EXCEPT !.inflight = NoEdit]
    OBVIOUS
  <1>2. /\ r \in Tab
        /\ r.unlocked = tab[t].unlocked /\ r.items = tab[t].items
        /\ r.timer = tab[t].timer /\ r.row = tab[t].row
        /\ r.sync = tab[t].sync /\ r.banner = tab[t].banner
    BY <1>1, TabIs, Nones DEF Tab
  <1>3. tab' = [tab EXCEPT ![t] = r]
    BY <1>1 DEF TypeOK
  <1> QED BY <1>2, <1>3, PutTab

LEMMA EndsKeeps ==
  ASSUME TypeInv, EditInv, NEW t \in Tabs, NEW e \in Edits, Ends(t, e), TypeOK'
  PROVE  TypeInv' /\ EditInv'
  <1>0. TypeOK /\ ReadOK
    BY DEF TypeInv, EditInv
  <1>1. /\ \A u \in Tabs \ {t} : tab'[u] = tab[u]
        /\ tab'[t].unlocked = tab[t].unlocked /\ tab'[t].items = tab[t].items
        /\ tab'[t].timer = tab[t].timer /\ tab'[t].row = tab[t].row
    BY <1>0, EndsTab DEF Ends
  <1>2. /\ t \in by[e] /\ persist[e].pc # "unused"
        /\ excused \subseteq excused' /\ Forgets(t, e) \subseteq excused'
        /\ tab[t].unlocked /\ persist[e].pc = "read" =>
             \A x \in persist[e].items \cap Edits : <<"failed", x>> \in excused'
        /\ disk' = disk /\ wiped' = wiped /\ by' = by /\ lock' = lock
        /\ saved' = saved /\ dropped' = dropped /\ budget'.story = budget.story
    BY DEF Ends
  <1>3. /\ persist'[e].pc = "done" /\ \A x \in Edits \ {e} : persist'[x] = persist[x]
    BY <1>0, PutPersist DEF Ends
  <1>4. Apart(t) /\ \A x \in Edits : t \notin by[x] => persist'[x] = persist[x]
    BY <1>1, <1>2, <1>3 DEF Apart
  <1>5. \A x \in Edits : OwnOK(x)'
    BY <1>2, <1>3 DEF TypeInv, OwnOK
  <1>6. ASSUME NEW u \in Tabs PROVE TimerOK(u)'
    <2>1. CASE u # t
      BY <1>2, <1>4, <2>1, OthersTimed
    <2>2. CASE u = t
      <3>1. tab[t].timer \in EditOrNone /\ TimerOK(t)
        BY <1>0, TabIs DEF TypeInv
      <3> QED BY <1>1, <1>2, <1>3, <2>2, <3>1 DEF TimerOK, EditOrNone, OpenTabs
    <2> QED BY <2>1, <2>2
  <1>7. ASSUME NEW u \in Tabs PROVE HeldOK(u)'
    <2>1. CASE u # t
      BY <1>2, <1>4, <2>1, OthersHeld DEF EditInv
    <2>2. CASE u = t
      <3> SUFFICES ASSUME NEW x \in tab[t].items \cap Edits, ~Safe(x)'
                   PROVE  /\ tab[t].unlocked /\ tab[t].timer # NoEdit
                          /\ \A c \in Caller : lock[t][c].pc # "flush"
        BY <1>1, <1>2, <2>2 DEF HeldOK
      <3>1. ~Safe(x)
        BY <1>2, SafeGrows
      <3>2. /\ tab[t].unlocked
            /\ tab[t].timer # NoEdit \/ Carries(t, tab[t].inflight, x)
            /\ \A c \in Caller : lock[t][c].pc = "flush" =>
                 Carries(t, lock[t][c].awaited, x)
        BY <3>1 DEF EditInv, HeldOK
      <3>3. ASSUME NEW y, Carries(t, y, x)
            PROVE  FALSE
        <4>1. CASE y = e
          BY <1>2, <3>2, <3>3, <4>1 DEF Carries, Safe, Excused
        <4>2. CASE y # e
          <5>1. y \in Running(t) \ {e} /\ x \in persist[y].items \cap Edits
            BY <3>3, <4>2 DEF Carries, Running
          <5>2. <<"untracked", x>> \in excused'
            BY <1>0, <1>2, <5>1, ForgetsIs
          <5> QED BY <5>2 DEF Safe, Excused
        <4> QED BY <4>1, <4>2
      <3> QED BY <3>2, <3>3
    <2> QED BY <2>1, <2>2
  <1>8. ReadOK'
    <2>1. ASSUME NEW u \in Tabs PROVE tab'[u].row \cap Edits \subseteq saved'
      BY <1>0, <1>1, <1>2 DEF ReadOK
    <2>2. wiped' => \A x \in Edits : Safe(x)'
      BY <1>0, <1>2, SafeGrows DEF ReadOK
    <2> QED BY <1>0, <1>2, <2>1, <2>2 DEF ReadOK
  <1>9. \A x \in dropped' : Excused(x)'
    BY <1>2, ExcusedGrows DEF EditInv
  <1> QED BY <1>5, <1>6, <1>7, <1>8, <1>9 DEF TypeInv, EditInv

LEMMA PersistFailedStep ==
  ASSUME IInv, NEW t \in Tabs, NEW e \in Edits, PersistFailed(t, e)
  PROVE  IInv'
  <1>0. TypeOK /\ TypeInv /\ EditInv /\ budget \in [story : Stories, events : Nat, unlocks : Nat]
    BY DEF IInv, TypeInv, TypeOK
  <1>1. /\ t \in by[e] /\ persist[e].pc = "read"
        /\ persist' = [persist EXCEPT ![e].pc = "done"]
        /\ tab' = [tab EXCEPT ![t].inflight = NoEdit]
        /\ disk' = disk /\ wiped' = wiped /\ by' = by /\ lock' = lock /\ net' = net
        /\ saved' = saved /\ dropped' = dropped /\ unwarned' = unwarned
    BY DEF PersistFailed
  <1>2. /\ excused' \in SUBSET (Reason \X Edits)
        /\ excused \cup Forgets(t, e) \subseteq excused'
        /\ tab[t].unlocked =>
             \A x \in persist[e].items \cap Edits : <<"failed", x>> \in excused'
        /\ budget' \in [story : Stories, events : Nat, unlocks : Nat]
        /\ budget'.story = budget.story
    <2>1. excused \in SUBSET (Reason \X Edits) /\ Forgets(t, e) \subseteq Reason \X Edits
      BY <1>0, ForgetsIs DEF TypeOK
    <2>2. CASE ~tab[t].unlocked /\ excused' = excused \cup Forgets(t, e) /\ budget' = budget
      BY <1>0, <2>1, <2>2
    <2>3. CASE /\ Event("fail")
               /\ excused' = excused \cup Forgets(t, e)
                    \cup ({"failed"} \X (persist[e].items \cap Edits))
      <3>1. {"failed"} \X (persist[e].items \cap Edits) \subseteq Reason \X Edits
        BY DEF Reason
      <3> QED BY <1>0, <2>1, <2>3, <3>1, EventIs
    <2> QED BY <2>2, <2>3 DEF PersistFailed
  <1>3. /\ tab' \in [Tabs -> Tab] /\ \A u \in Tabs \ {t} : tab'[u] = tab[u]
        /\ tab'[t].unlocked = tab[t].unlocked /\ tab'[t].items = tab[t].items
        /\ tab'[t].sync = tab[t].sync /\ tab'[t].banner = tab[t].banner
    BY <1>0, <1>1, EndsTab
  <1>4. /\ persist' \in [Edits -> Persist]
        /\ \A x \in Edits \ {e} : persist'[x] = persist[x]
    BY <1>0, <1>1, PutPersist
  <1>5. TypeOK'
    BY <1>0, <1>1, <1>2, <1>3, <1>4 DEF TypeOK
  <1>6. Ends(t, e)
    BY <1>1, <1>2 DEF Ends
  <1>7. TypeInv' /\ EditInv'
    BY <1>0, <1>5, <1>6, EndsKeeps
  <1>8. ASSUME NEW u \in Tabs PROVE WarnedOK(u)'
    <2>1. /\ WarnedOK(u) /\ tab'[u].unlocked = tab[u].unlocked
          /\ tab'[u].items = tab[u].items /\ tab'[u].banner = tab[u].banner
          /\ \A v \in Tabs : tab[v].sync = "promoted" => tab'[v].sync = "promoted"
      BY <1>3 DEF IInv
    <2>2. \A x \in Edits : persist[x].pc = "size" => persist'[x].pc = "size"
      BY <1>1, <1>4
    <2> QED BY <1>0, <1>1, <2>1, <2>2, WarnedKept
  <1> QED BY <1>7, <1>8 DEF IInv

LEMMA PersistDoneStep ==
  ASSUME IInv, NEW t \in Tabs, NEW e \in Edits, PersistDone(t, e)
  PROVE  IInv'
  <1>0. TypeOK /\ TypeInv /\ EditInv
    BY DEF IInv, TypeInv
  <1>1. /\ t \in by[e] /\ persist[e].pc = "size" /\ Post(t, "persisted")
        /\ persist' = [persist EXCEPT ![e].pc = "done"]
        /\ tab' = [tab EXCEPT ![t].inflight = NoEdit]
        /\ excused' = excused \cup Forgets(t, e)
        /\ disk' = disk /\ wiped' = wiped /\ by' = by /\ lock' = lock
        /\ saved' = saved /\ dropped' = dropped /\ unwarned' = unwarned
        /\ budget' = budget
    BY DEF PersistDone
  <1>2. excused' \in SUBSET (Reason \X Edits)
    BY <1>0, <1>1, ForgetsIs DEF TypeOK
  <1>3. /\ tab' \in [Tabs -> Tab] /\ \A u \in Tabs \ {t} : tab'[u] = tab[u]
        /\ tab'[t].unlocked = tab[t].unlocked /\ tab'[t].items = tab[t].items
        /\ tab'[t].sync = tab[t].sync /\ tab'[t].banner = tab[t].banner
    BY <1>0, <1>1, EndsTab
  <1>4. /\ persist' \in [Edits -> Persist]
        /\ \A x \in Edits \ {e} : persist'[x] = persist[x]
    BY <1>0, <1>1, PutPersist
  <1>5. net' \in [Tabs -> [Message -> 0 .. Copies]] /\ net'[t] = net[t]
    BY <1>0, <1>1, PostIs DEF Message
  <1>6. TypeOK'
    BY <1>0, <1>1, <1>2, <1>3, <1>4, <1>5 DEF TypeOK
  <1>7. Ends(t, e) /\ Apart(t)
    BY <1>1, <1>3 DEF Ends, Apart
  <1>8. TypeInv' /\ EditInv'
    BY <1>0, <1>6, <1>7, EndsKeeps
  <1>9. ASSUME NEW u \in Tabs PROVE WarnedOK(u)'
    <2>1. CASE u # t
      BY <1>0, <1>1, <1>7, <2>1, PostWarns
    <2>2. CASE u = t
      <3>1. /\ WarnedOK(t)
            /\ \A v \in Tabs : tab[v].sync = "promoted" => tab'[v].sync = "promoted"
        BY <1>3 DEF IInv
      <3>2. \A x \in Edits : t \notin by[x] /\ persist[x].pc = "size" =>
              persist'[x].pc = "size"
        BY <1>1, <1>4
      <3> QED BY <1>0, <1>1, <1>3, <1>5, <2>2, <3>1, <3>2, WarnedKept
    <2> QED BY <2>1, <2>2
  <1> QED BY <1>8, <1>9 DEF IInv

-----------------------------------------------------------------------------
(* A pull adopted, a lock's teardown, a reload: the tab holds no edit      *)
(* after them.                                                             *)

LEMMA SyncAdoptStep ==
  ASSUME IInv, NEW t \in Tabs, SyncAdopt(t)
  PROVE  IInv'
  <1>0. TypeOK /\ TypeInv /\ EditInv /\ ReadOK
    BY DEF IInv, TypeInv, EditInv
  <1>1. PICK r : r = [tab[t] EXCEPT !.sync = "idle", !.items = {Remote}, !.banner = FALSE]
    OBVIOUS
  <1>2. /\ r \in Tab /\ r.unlocked = tab[t].unlocked /\ r.items = {Remote}
        /\ r.timer = tab[t].timer /\ r.row = tab[t].row
    <2>1. {Remote} \in Items
      BY DEF Items
    <2> QED BY <1>0, <1>1, <2>1, TabIs DEF Tab
  <1>3. /\ tab' = [tab EXCEPT ![t] = r]
        /\ Post(t, "persisted") /\ Excuse("promoted", tab[t].items)
        /\ unwarned' = unwarned \cup
             (IF disk \subseteq {Remote} THEN {} ELSE {<<"cleared", t>>})
        /\ disk' = disk /\ wiped' = wiped /\ by' = by /\ persist' = persist
        /\ lock' = lock /\ budget' = budget /\ saved' = saved /\ dropped' = dropped
    BY <1>0, <1>1 DEF SyncAdopt, TypeOK
  <1>4. /\ tab' \in [Tabs -> Tab] /\ tab'[t] = r
        /\ \A u \in Tabs \ {t} : tab'[u] = tab[u]
    BY <1>0, <1>2, <1>3, PutTab
  <1>5. excused' \in SUBSET (Reason \X Edits) /\ excused \subseteq excused'
    BY <1>0, <1>3, ExcuseIs DEF Reason
  <1>6. unwarned' \in SUBSET (Gap \X Tabs)
    <2>1. unwarned \in SUBSET (Gap \X Tabs) /\ <<"cleared", t>> \in Gap \X Tabs
      BY <1>0 DEF TypeOK, Gap
    <2> QED BY <1>3, <2>1
  <1>7. net' \in [Tabs -> [Message -> 0 .. Copies]]
    BY <1>0, <1>3, PostIs DEF Message
  <1>8. TypeOK' /\ Apart(t)
    BY <1>0, <1>3, <1>4, <1>5, <1>6, <1>7 DEF TypeOK, Apart
  <1>9. \A x \in Edits : OwnOK(x)'
    BY <1>0, <1>3 DEF TypeInv, OwnOK
  <1>10. ASSUME NEW u \in Tabs PROVE TimerOK(u)'
    BY <1>0, <1>2, <1>3, <1>4 DEF TypeInv, TimerOK, OpenTabs
  <1>11. ASSUME NEW u \in Tabs PROVE HeldOK(u)'
    <2>1. CASE u # t
      BY <1>0, <1>3, <1>5, <1>8, <2>1, OthersHeld DEF EditInv
    <2>2. CASE u = t
      BY <1>2, <1>4, <2>2, Nones DEF HeldOK
    <2> QED BY <2>1, <2>2
  <1>12. ReadOK'
    <2>1. ASSUME NEW u \in Tabs PROVE tab'[u].row \cap Edits \subseteq saved'
      BY <1>0, <1>2, <1>3, <1>4 DEF ReadOK
    <2>2. wiped' => \A x \in Edits : Safe(x)'
      BY <1>0, <1>3, <1>5, SafeGrows DEF ReadOK
    <2> QED BY <1>0, <1>3, <2>1, <2>2 DEF ReadOK
  <1>13. \A x \in dropped' : Excused(x)'
    BY <1>0, <1>3, <1>5, ExcusedGrows DEF EditInv
  <1>14. ASSUME NEW u \in Tabs PROVE WarnedOK(u)'
    <2>1. CASE u # t
      BY <1>0, <1>3, <1>8, <2>1, PostWarns
    <2>2. CASE u = t
      BY <1>2, <1>3, <1>4, <2>2 DEF WarnedOK, Stale, Gap
    <2> QED BY <2>1, <2>2
  <1> QED BY <1>8, <1>9, <1>10, <1>11, <1>12, <1>13, <1>14 DEF IInv, TypeInv, EditInv

LEMMA TeardownStep ==
  ASSUME IInv, NEW t \in Tabs, NEW c \in Caller, Teardown(t, c)
  PROVE  IInv'
  <1>0. TypeOK /\ TypeInv /\ EditInv /\ ReadOK
    BY DEF IInv, TypeInv, EditInv
  <1>1. PICK r : r = [tab[t] EXCEPT !.unlocked = FALSE, !.items = {}, !.banner = FALSE]
    OBVIOUS
  <1>2. /\ r \in Tab /\ r.unlocked = FALSE /\ r.items = {}
        /\ r.timer = tab[t].timer /\ r.row = tab[t].row /\ r.sync = tab[t].sync
    <2>1. {} \in Items
      BY DEF Items
    <2> QED BY <1>0, <1>1, <2>1, TabIs DEF Tab
  <1>3. PICK k \in LockCall : k = [NoLock EXCEPT !.pc = "clip"]
    BY NoLockIs, Nones
  <1>4. /\ tab' = [tab EXCEPT ![t] = r] /\ lock' = [lock EXCEPT ![t][c] = k]
        /\ lock[t][c].pc = "flush" /\ Settled(lock[t][c].awaited)
        /\ dropped' = dropped \cup ((tab[t].items \cap Edits) \ saved)
        /\ disk' = disk /\ wiped' = wiped /\ by' = by /\ persist' = persist
        /\ net' = net /\ budget' = budget /\ saved' = saved
        /\ excused' = excused /\ unwarned' = unwarned
    BY <1>0, <1>1, <1>3 DEF Teardown, TypeOK
  <1>5. /\ tab' \in [Tabs -> Tab] /\ tab'[t] = r
        /\ \A u \in Tabs \ {t} : tab'[u] = tab[u]
    BY <1>0, <1>2, <1>4, PutTab
  <1>6. /\ lock' \in [Tabs -> [Caller -> LockCall]]
        /\ \A u \in Tabs \ {t} : lock'[u] = lock[u]
    BY <1>0, <1>4, PutLock
  <1>7. TypeOK' /\ Apart(t)
    BY <1>0, <1>4, <1>5, <1>6 DEF TypeOK, Apart
  <1>8. \A x \in Edits : OwnOK(x)'
    BY <1>0, <1>4 DEF TypeInv, OwnOK
  <1>9. ASSUME NEW u \in Tabs PROVE TimerOK(u)'
    BY <1>0, <1>2, <1>4, <1>5 DEF TypeInv, TimerOK, OpenTabs
  <1>10. ASSUME NEW u \in Tabs PROVE HeldOK(u)'
    <2>1. CASE u # t
      BY <1>0, <1>4, <1>7, <2>1, OthersHeld DEF EditInv
    <2>2. CASE u = t
      BY <1>2, <1>5, <2>2 DEF HeldOK
    <2> QED BY <2>1, <2>2
  <1>11. ReadOK'
    <2>1. ASSUME NEW u \in Tabs PROVE tab'[u].row \cap Edits \subseteq saved'
      BY <1>0, <1>2, <1>4, <1>5 DEF ReadOK
    <2>2. wiped' => \A x \in Edits : Safe(x)'
      BY <1>0, <1>4 DEF ReadOK, Safe, Excused
    <2> QED BY <1>0, <1>4, <2>1, <2>2 DEF ReadOK
  <1>12. \A x \in dropped' : Excused(x)'
    <2>1. ASSUME NEW x \in (tab[t].items \cap Edits) \ saved PROVE Excused(x)
      <3>1. ASSUME ~Safe(x) PROVE Carries(t, lock[t][c].awaited, x)
        BY <1>0, <1>4, <3>1 DEF EditInv, HeldOK
      <3>2. ~Carries(t, lock[t][c].awaited, x)
        BY <1>4 DEF Settled, Carries
      <3> QED BY <3>1, <3>2 DEF Safe, Excused
    <2> QED BY <1>0, <1>4, <2>1 DEF EditInv, Excused
  <1>13. ASSUME NEW u \in Tabs PROVE WarnedOK(u)'
    <2>1. CASE u # t
      <3>1. /\ tab'[u] = tab[u] /\ WarnedOK(u)
            /\ \A v \in Tabs : tab[v].sync = "promoted" => tab'[v].sync = "promoted"
        BY <1>2, <1>5, <2>1 DEF IInv
      <3> QED BY <1>0, <1>4, <3>1, WarnedKept
    <2>2. CASE u = t
      BY <1>2, <1>5, <2>2 DEF WarnedOK, Stale
    <2> QED BY <2>1, <2>2
  <1> QED BY <1>7, <1>8, <1>9, <1>10, <1>11, <1>12, <1>13 DEF IInv, TypeInv, EditInv

LEMMA ReloadIs ==
  ASSUME TypeOK, NEW t \in Tabs, Reload(t)
  PROVE  /\ TypeOK' /\ Apart(t)
         /\ tab'[t].unlocked = FALSE /\ tab'[t].items = {} /\ tab'[t].row = {}
         /\ tab'[t].timer = NoEdit
         /\ \A x \in Edits : x \notin Running(t) => persist'[x] = persist[x]
         /\ \A x \in Edits : persist'[x].pc = "unused" => persist[x].pc = "unused"
         /\ excused \subseteq excused' /\ unwarned \subseteq unwarned'
         /\ tab[t].sync = "promoted" \/ (\E e \in Running(t) : persist[e].pc = "size") =>
              \A u \in Tabs \ {t} : <<"sender gone", u>> \in unwarned'
         /\ disk' = disk /\ wiped' = wiped /\ by' = by /\ net' = net
         /\ saved' = saved /\ dropped' = dropped /\ budget'.story = budget.story
  <1>1. PICK r : r = [ClosedTab EXCEPT !.visible = tab[t].visible]
    OBVIOUS
  <1>2. r \in Tab /\ r.unlocked = FALSE /\ r.items = {} /\ r.row = {} /\ r.timer = NoEdit
    <2>1. {} \in Items /\ tab[t].visible \in BOOLEAN
      BY TabIs DEF Items
    <2> QED BY <1>1, <2>1, Nones DEF ClosedTab, Tab
  <1>3. PICK k : k = [c \in Caller |-> NoLock]
    OBVIOUS
  <1>4. k \in [Caller -> LockCall]
    BY <1>3, NoLockIs
  <1>5. PICK ended : ended = Running(t)
    OBVIOUS
  <1>6. /\ tab' = [tab EXCEPT ![t] = r] /\ lock' = [lock EXCEPT ![t] = k]
        /\ persist' = [e \in Edits |-> IF e \in ended
                         THEN [persist[e] EXCEPT !.pc = "done"] ELSE persist[e]]
        /\ Event("reload") /\ Excuse("gone", tab[t].items)
        /\ unwarned' = unwarned \cup
             (IF tab[t].sync = "promoted" \/ \E e \in ended : persist[e].pc = "size"
              THEN {"sender gone"} \X (Tabs \ {t}) ELSE {})
        /\ disk' = disk /\ wiped' = wiped /\ by' = by /\ net' = net
        /\ saved' = saved /\ dropped' = dropped
    BY <1>1, <1>3, <1>5 DEF Reload
  <1>7. /\ tab' \in [Tabs -> Tab] /\ tab'[t] = r
        /\ \A u \in Tabs \ {t} : tab'[u] = tab[u]
    BY <1>2, <1>6, PutTab
  <1>8. lock' \in [Tabs -> [Caller -> LockCall]] /\ \A u \in Tabs \ {t} : lock'[u] = lock[u]
    BY <1>4, <1>6 DEF TypeOK
  <1>9. ASSUME NEW e \in Edits
        PROVE  /\ [persist[e] EXCEPT !.pc = "done"] \in Persist
               /\ [persist[e] EXCEPT !.pc = "done"].pc = "done"
               /\ persist[e] \in Persist
    BY PersistIs DEF Persist
  <1>10. /\ persist' \in [Edits -> Persist]
         /\ \A x \in Edits : x \notin Running(t) => persist'[x] = persist[x]
         /\ \A x \in Edits : persist'[x].pc = "unused" => persist[x].pc = "unused"
    BY <1>5, <1>6, <1>9
  <1>11. excused' \in SUBSET (Reason \X Edits) /\ excused \subseteq excused'
    BY <1>6, ExcuseIs DEF Reason
  <1>12. unwarned' \in SUBSET (Gap \X Tabs)
    <2>1. unwarned \in SUBSET (Gap \X Tabs) /\ {"sender gone"} \X (Tabs \ {t}) \subseteq Gap \X Tabs
      BY DEF TypeOK, Gap
    <2> QED BY <1>6, <2>1
  <1>13. /\ budget' \in [story : Stories, events : Nat, unlocks : Nat]
         /\ budget'.story = budget.story
    BY <1>6, EventIs
  <1>14. TypeOK'
    BY <1>6, <1>7, <1>8, <1>10, <1>11, <1>12, <1>13 DEF TypeOK
  <1>15. tab[t].sync = "promoted" \/ (\E e \in Running(t) : persist[e].pc = "size") =>
           \A u \in Tabs \ {t} : <<"sender gone", u>> \in unwarned'
    BY <1>5, <1>6
  <1> QED BY <1>2, <1>6, <1>7, <1>8, <1>10, <1>11, <1>13, <1>14, <1>15 DEF Apart

LEMMA ReloadStep ==
  ASSUME IInv, NEW t \in Tabs, Reload(t)
  PROVE  IInv'
  <1>0. TypeOK /\ TypeInv /\ EditInv /\ ReadOK
    BY DEF IInv, TypeInv, EditInv
  <1>1. /\ TypeOK' /\ Apart(t)
        /\ tab'[t].unlocked = FALSE /\ tab'[t].items = {} /\ tab'[t].row = {}
        /\ tab'[t].timer = NoEdit
        /\ \A x \in Edits : x \notin Running(t) => persist'[x] = persist[x]
        /\ \A x \in Edits : persist'[x].pc = "unused" => persist[x].pc = "unused"
        /\ excused \subseteq excused' /\ unwarned \subseteq unwarned'
        /\ tab[t].sync = "promoted" \/ (\E e \in Running(t) : persist[e].pc = "size") =>
             \A u \in Tabs \ {t} : <<"sender gone", u>> \in unwarned'
        /\ disk' = disk /\ wiped' = wiped /\ by' = by /\ net' = net
        /\ saved' = saved /\ dropped' = dropped /\ budget'.story = budget.story
    BY <1>0, ReloadIs
  <1>2. \A x \in Edits : t \notin by[x] => persist'[x] = persist[x]
    BY <1>1 DEF Running
  <1>3. \A x \in Edits : OwnOK(x)'
    <2>1. ASSUME NEW x \in Edits, by[x] = {} PROVE persist'[x].pc = "unused"
      BY <1>0, <1>2, <2>1 DEF TypeInv, OwnOK
    <2> QED BY <1>0, <1>1, <2>1 DEF TypeInv, OwnOK
  <1>4. ASSUME NEW u \in Tabs PROVE TimerOK(u)'
    <2>1. CASE u # t
      BY <1>0, <1>1, <1>2, <2>1, OthersTimed
    <2>2. CASE u = t
      BY <1>1, <2>2 DEF TimerOK
    <2> QED BY <2>1, <2>2
  <1>5. ASSUME NEW u \in Tabs PROVE HeldOK(u)'
    <2>1. CASE u # t
      BY <1>0, <1>1, <1>2, <2>1, OthersHeld DEF EditInv
    <2>2. CASE u = t
      BY <1>1, <2>2 DEF HeldOK
    <2> QED BY <2>1, <2>2
  <1>6. ReadOK'
    <2>1. ASSUME NEW u \in Tabs PROVE tab'[u].row \cap Edits \subseteq saved'
      BY <1>0, <1>1 DEF ReadOK, Apart
    <2>2. wiped' => \A x \in Edits : Safe(x)'
      BY <1>0, <1>1, SafeGrows DEF ReadOK
    <2> QED BY <1>0, <1>1, <2>1, <2>2 DEF ReadOK
  <1>7. \A x \in dropped' : Excused(x)'
    BY <1>0, <1>1, ExcusedGrows DEF EditInv
  <1>8. ASSUME NEW u \in Tabs PROVE WarnedOK(u)'
    <2>1. CASE u = t
      BY <1>1, <2>1 DEF WarnedOK, Stale
    <2>2. CASE u # t /\ (tab[t].sync = "promoted" \/ \E e \in Running(t) : persist[e].pc = "size")
      BY <1>1, <2>2 DEF WarnedOK, Gap
    <2>3. CASE u # t /\ ~(tab[t].sync = "promoted" \/ \E e \in Running(t) : persist[e].pc = "size")
      <3>1. /\ tab'[u] = tab[u] /\ WarnedOK(u)
            /\ \A v \in Tabs : tab[v].sync = "promoted" => tab'[v].sync = "promoted"
        BY <1>1, <2>3 DEF IInv, Apart
      <3>2. \A x \in Edits : persist[x].pc = "size" => persist'[x].pc = "size"
        BY <1>1, <2>3
      <3>3. \A g \in Gap : <<g, u>> \in unwarned => <<g, u>> \in unwarned'
        BY <1>1
      <3> QED BY <1>0, <1>1, <3>1, <3>2, <3>3, WarnedKept
    <2> QED BY <2>1, <2>2, <2>3
  <1> QED BY <1>1, <1>3, <1>4, <1>5, <1>6, <1>7, <1>8 DEF IInv, TypeInv, EditInv

-----------------------------------------------------------------------------
(* The theorems *)

LEMMA InitIInv ==
  ASSUME Init
  PROVE  IInv
  <1>1. PICK s \in Stories : budget = [story |-> s, events |-> 0, unlocks |-> 0]
    BY DEF Init
  <1>2. /\ disk = {} /\ wiped = FALSE /\ saved = {} /\ dropped = {}
        /\ excused = {} /\ unwarned = {}
        /\ tab = [t \in Tabs |-> ClosedTab] /\ by = [e \in Edits |-> {}]
        /\ persist = [e \in Edits |-> [pc |-> "unused", items |-> {}]]
        /\ lock = [t \in Tabs |-> [c \in Caller |-> NoLock]]
        /\ net = [t \in Tabs |-> [m \in Message |-> 0]]
    BY DEF Init
  <1>3. /\ ClosedTab \in Tab /\ ClosedTab.unlocked = FALSE /\ ClosedTab.items = {}
        /\ ClosedTab.row = {} /\ ClosedTab.timer = NoEdit
    <2>1. {} \in Items
      BY DEF Items
    <2> QED BY <2>1, Nones DEF ClosedTab, Tab
  <1>4. [pc |-> "unused", items |-> {}] \in Persist
    BY DEF Persist, Items
  <1>5. 0 \in 0 .. Copies /\ {} \in Items
    BY StoreAssumption DEF Items
  <1>6. TypeOK
    <2>1. tab \in [Tabs -> Tab] /\ persist \in [Edits -> Persist]
          /\ by \in [Edits -> SUBSET Tabs]
      BY <1>2, <1>3, <1>4
    <2>2. lock \in [Tabs -> [Caller -> LockCall]]
      BY <1>2, NoLockIs
    <2>3. net \in [Tabs -> [Message -> 0 .. Copies]]
      BY <1>2, <1>5
    <2>4. budget \in [story : Stories, events : Nat, unlocks : Nat]
      BY <1>1
    <2> QED BY <1>2, <1>5, <2>1, <2>2, <2>3, <2>4 DEF TypeOK
  <1>7. \A e \in Edits : OwnOK(e)
    BY <1>2 DEF OwnOK
  <1>8. \A t \in Tabs : TimerOK(t) /\ HeldOK(t) /\ WarnedOK(t)
    BY <1>2, <1>3 DEF TimerOK, HeldOK, WarnedOK, Stale
  <1>9. ReadOK /\ \A e \in dropped : Excused(e)
    BY <1>2, <1>3 DEF ReadOK
  <1> QED BY <1>6, <1>7, <1>8, <1>9 DEF IInv, TypeInv, EditInv

LEMMA StepIInv ==
  ASSUME IInv, Next
  PROVE  IInv'
  <1>0. TypeOK /\ TypeInv
    BY DEF IInv, TypeInv
  <1>1. PICK t \in OpenTabs :
          \/ Runs(t)
          \/ \E e \in Edits : Edit(t, e) \/ PersistFailed(t, e)
          \/ \E m \in Message : Deliver(t, m)
          \/ OpenRead(t) \/ OpenDone(t)
          \/ BeginSync(t) \/ SyncFlushed(t) \/ SyncNothing(t) \/ SyncPromote(t)
          \/ SyncAdopt(t)
          \/ ManualLock(t) \/ IdleFires(t) \/ HiddenFires(t) \/ PageHide(t)
          \/ Hide(t) \/ Show(t) \/ Activity(t)
          \/ Wipe(t) \/ Reload(t)
    BY DEF Next
  <1>2. t \in Tabs
    <2>1. budget.story \in Stories
      BY <1>0 DEF TypeOK
    <2> QED BY <1>1, <2>1, StoreAssumption DEF OpenTabs
  <1>3. CASE Runs(t)
    <2>1. ASSUME NEW e \in Edits, PersistWrite(t, e) PROVE IInv'
      BY <1>2, <2>1, PersistWriteStep
    <2>2. ASSUME NEW e \in Edits, PersistDone(t, e) PROVE IInv'
      BY <1>2, <2>2, PersistDoneStep
    <2>3. ASSUME NEW c \in Caller, Teardown(t, c) PROVE IInv'
      BY <1>2, <2>3, TeardownStep
    <2>4. ASSUME NEW c \in Caller, LockDone(t, c) PROVE IInv'
      BY <1>0, <1>2, <2>4, LockDoneIs, CalmStep
    <2>5. ASSUME PersistTimer(t) PROVE IInv'
      BY <1>0, <1>2, <2>5, PersistTimerIs, FlushStep
    <2>6. ASSUME AnimationFrame(t) PROVE IInv'
      BY <1>0, <1>2, <2>6, AnimationFrameIs, FlushStep
    <2> QED BY <1>3, <2>1, <2>2, <2>3, <2>4, <2>5, <2>6 DEF Runs
  <1>4. ASSUME NEW e \in Edits, Edit(t, e) PROVE IInv'
    BY <1>2, <1>4, EditStep
  <1>5. ASSUME NEW e \in Edits, PersistFailed(t, e) PROVE IInv'
    BY <1>2, <1>5, PersistFailedStep
  <1>6. ASSUME NEW m \in Message, Deliver(t, m) PROVE IInv'
    BY <1>0, <1>2, <1>6, DeliverIs, CalmStep, FlushStep
  <1>7. CASE OpenRead(t)
    BY <1>0, <1>2, <1>7, OpenReadIs, CalmStep
  <1>8. CASE OpenDone(t)
    BY <1>1, <1>2, <1>8, OpenDoneStep
  <1>9. CASE BeginSync(t)
    BY <1>0, <1>2, <1>9, BeginSyncIs, FlushStep
  <1>10. CASE SyncFlushed(t)
    BY <1>0, <1>2, <1>10, SyncFlushedIs, CalmStep
  <1>11. CASE SyncNothing(t)
    BY <1>0, <1>2, <1>11, SyncNothingIs, CalmStep
  <1>12. CASE SyncPromote(t)
    BY <1>0, <1>2, <1>12, SyncPromoteIs, CalmStep
  <1>13. CASE SyncAdopt(t)
    BY <1>2, <1>13, SyncAdoptStep
  <1>14. CASE ManualLock(t)
    BY <1>0, <1>2, <1>14, ManualLockIs, CalmStep
  <1>15. CASE IdleFires(t)
    BY <1>0, <1>2, <1>15, IdleFiresIs, CalmStep, FlushStep
  <1>16. CASE HiddenFires(t)
    BY <1>0, <1>2, <1>16, HiddenFiresIs, CalmStep, FlushStep
  <1>17. CASE PageHide(t)
    BY <1>0, <1>2, <1>17, PageHideIs, CalmStep, FlushStep
  <1>18. CASE Hide(t)
    BY <1>0, <1>2, <1>18, HideIs, CalmStep
  <1>19. CASE Show(t)
    BY <1>0, <1>2, <1>19, ShowIs, CalmStep
  <1>20. CASE Activity(t)
    BY <1>0, <1>2, <1>20, ActivityIs, CalmStep
  <1>21. CASE Wipe(t)
    BY <1>0, <1>2, <1>21, WipeIs, CalmStep
  <1>22. CASE Reload(t)
    BY <1>2, <1>22, ReloadStep
  <1> QED BY <1>1, <1>3, <1>4, <1>5, <1>6, <1>7, <1>8, <1>9, <1>10, <1>11, <1>12,
             <1>13, <1>14, <1>15, <1>16, <1>17, <1>18, <1>19, <1>20, <1>21, <1>22

LEMMA StutterIInv ==
  ASSUME IInv, UNCHANGED vars
  PROVE  IInv'
  <1>1. /\ disk' = disk /\ wiped' = wiped /\ tab' = tab /\ by' = by
        /\ persist' = persist /\ lock' = lock /\ net' = net /\ budget' = budget
        /\ saved' = saved /\ dropped' = dropped /\ excused' = excused
        /\ unwarned' = unwarned
    BY DEF vars
  <1>2. TypeOK'
    BY <1>1 DEF IInv, TypeInv, TypeOK
  <1>3. TypeInv'
    BY <1>1, <1>2 DEF IInv, TypeInv, OwnOK, TimerOK, OpenTabs
  <1>4. EditInv'
    BY <1>1 DEF IInv, EditInv, ReadOK, HeldOK, Safe, Excused, Carries
  <1>5. \A t \in Tabs : WarnedOK(t)'
    BY <1>1 DEF IInv, WarnedOK, Stale, Announced, Running
  <1> QED BY <1>3, <1>4, <1>5 DEF IInv

(* What edits hold on to and what warns a tab stays true whatever the tabs *)
(* do: unlock, edit, persist, sync, lock, deliver, wipe, reload.           *)
THEOREM Inductive == Spec => []IInv
  <1>1. Init => IInv
    BY InitIInv
  <1>2. IInv /\ [Next]_vars => IInv'
    BY StepIInv, StutterIInv
  <1> QED BY <1>1, <1>2, PTL DEF Spec

(* Every state has its type: a tab, its persists and its lock calls, the   *)
(* messages under way and the budget are what the module says.             *)
THEOREM TypeCorrect == Spec => []TypeOK
  <1>1. IInv => TypeOK
    BY DEF IInv, TypeInv
  <1> QED BY <1>1, Inductive, PTL

(* However many tabs, edits, copies of messages, pulls, reloads and locks  *)
(* interleave, and at whichever await a lock meets them: an edit that a    *)
(* lock cleared has been in the vault row, or one of the four reasons the  *)
(* code has for losing it applies to that very edit.                       *)
THEOREM NoEditLostByLock == Spec => []EditsSurviveLock
  <1>1. IInv => EditsSurviveLock
    <2> SUFFICES ASSUME IInv, NEW e \in dropped
                 PROVE  \E r \in {"late", "failed", "untracked", "wiped"} :
                          <<r, e>> \in excused
      BY DEF EditsSurviveLock
    <2> QED BY DEF IInv, EditInv, Excused
  <1> QED BY <1>1, Inductive, PTL

(* A tab that is unlocked and lacks an item of the row shows the banner,   *)
(* or will after a step that is already due, or one of the four gaps of    *)
(* the announcements applies to that very tab.                             *)
THEOREM StaleTabsAreWarned == Spec => []StaleTabIsWarned
  <1>1. IInv => StaleTabIsWarned
    BY DEF IInv, WarnedOK, StaleTabIsWarned
  <1> QED BY <1>1, Inductive, PTL
=============================================================================
