------------------------------ MODULE VaultPage ------------------------------
(***************************************************************************)
(* The page of the unlocked vault in one tab: vault/+page.svelte and its   *)
(* editor, detail pane, list, palette and generator, MobileShell on small  *)
(* screens, and what they do to VaultState, its health report and the      *)
(* clipboard while a sync answers and the vault is locked by the page or   *)
(* by another tab.                                                         *)
(*                                                                         *)
(* The code is cut at its awaits and timers.  The effects of the detail    *)
(* pane run in the step that wakes them.  A control can be used by click   *)
(* or by key; an overlay does not stop the keys of the page.               *)
(*                                                                         *)
(* Abstractions.  Persisting, the row and the other tabs are in            *)
(* VaultStore, the settings dialog in UnlockPages, the generator in        *)
(* Generators.  A callback of a detail pane that is gone can only clear    *)
(* revealedField, as the palette's own timer may at any time.              *)
(***************************************************************************)
EXTENDS ItemRules, Integers

CONSTANTS
  Ids,          \* ids items can have; each is given to one item
  NoId,
  ItemKinds,    \* kinds of the items in use
  ITEM_HARD_CAP,
  Uses,         \* bound: which happenings are bounded, and by MaxUses
  MaxUses

ASSUME PageAssumption ==
  /\ NoId \notin Ids /\ Ids # {}
  /\ "login" \in ItemKinds /\ ItemKinds \subseteq Kinds
  /\ ITEM_HARD_CAP \in Nat \ {0}
  /\ MaxUses \in [Uses -> Nat]

VARIABLES
  mobile,   \* viewport.isMobile
  mounted,  \* the page has not left for /unlock
  store,    \* VaultState
  detail,   \* VaultDetail
  editor,   \* ItemEditor, NoEditor when closed
  over,     \* the overlays of the page, and of MobileShell
  health,   \* VaultState.health and its computations
  sync,     \* VaultState.syncNow
  lock,     \* VaultState.lock, by the page and by another tab's message
  clip,     \* the clipboard and secure-clipboard.ts
  used,     \* ids given to items so far, and bounded happenings
  past      \* history: what excuses a lost draft, an item after lock, a
            \* secret left in the clipboard

pageVars == <<mobile, mounted, store, detail, editor, over, health, sync, lock,
              clip, used, past>>

IdOrNone == Ids \cup {NoId}
Item == [id : Ids, kind : ItemKinds, title : Title \ {""},
         body : Body \ {"bad"}, line : Line]
Form == [kind : ItemKinds \cup {"none"}, title : Title, body : Body, line : Line]
Report == [weak : SUBSET Ids, reused : SUBSET Ids]
Excuse == {"edited item gone", "saved after lock", "late sync", "clear rejected",
           "lost"}

NoForm == [kind |-> "none", title |-> "", body |-> "blank", line |-> "none"]
NoList == [open |-> FALSE, active |-> -1, blur |-> FALSE]
NoEditor == [open |-> FALSE, mode |-> "create", initial |-> NoId, form |-> NoForm,
             attempted |-> FALSE, error |-> FALSE, list |-> NoList]
NoDetail == [last |-> NoId, revealed |-> {}, timers |-> {}, asked |-> NoId]
NoOverlay == [palette |-> FALSE, quick |-> FALSE, tab |-> "vault",
              sheet |-> "none", detail |-> FALSE]

IdsOf(items) == {items[i].id : i \in DOMAIN items}
Place(items, id) == CHOOSE i \in DOMAIN items : items[i].id = id
ItemWith(items, id) == items[Place(items, id)]
FirstId(items) == IF items = <<>> THEN NoId ELSE items[1].id

(* The items without the one of this id; ids are distinct.                 *)
Without(items, id) ==
  IF id \in IdsOf(items) THEN RemoveAt(items, Place(items, id)) ELSE items

(* The institutions on offer under the title of a card. *)
instMatches(form) == IF form.kind = "card" THEN searchInstitutions(form.title) ELSE 0

PageTypeOK ==
  /\ mobile \in BOOLEAN /\ mounted \in BOOLEAN
  /\ store \in [status : {"unlocked", "locked"}, items : Seq(Item),
                selected : IdOrNone, flag : IdOrNone, filter : {"all", "weak"}]
  /\ \A i, j \in DOMAIN store.items :
       store.items[i].id = store.items[j].id => i = j
  /\ Len(store.items) <= ITEM_HARD_CAP
  /\ detail \in [last : IdOrNone, revealed : SUBSET RevealKeys,
                 timers : SUBSET RevealKeys, asked : IdOrNone]
  /\ editor \in [open : BOOLEAN, mode : {"create", "edit"}, initial : IdOrNone,
                 form : Form, attempted : BOOLEAN, error : BOOLEAN,
                 list : [open : BOOLEAN, active : Int, blur : BOOLEAN]]
  /\ editor.list.active \in -1 .. instMatches(editor.form) - 1
  /\ over \in [palette : BOOLEAN, quick : BOOLEAN,
               tab : {"vault", "watch", "gen", "set"},
               sheet : {"none", "types", "login"}, detail : BOOLEAN]
  /\ health.value \in Report /\ health.timer \in BOOLEAN
  /\ health.latest \subseteq Report /\ health.stale \subseteq Report
  /\ sync \in [pc : {"idle", "flush", "pull", "promoted"}, items : Seq(Item)]
  /\ lock \in [page : {"idle", "frame", "flush", "clip"},
               peer : {"idle", "flush", "clip"}]
  /\ clip.holds \in BOOLEAN /\ clip.timer \in BOOLEAN /\ clip.copying \in Nat
  /\ used \in [ids : SUBSET Ids, count : [Uses -> Nat]]
  /\ past \subseteq Excuse

InitialVaults ==
  {<<>>} \cup
  {<<[id |-> CHOOSE i \in Ids : TRUE, kind |-> k, title |-> "named",
      body |-> "strong", line |-> "none"]>> : k \in ItemKinds}

(* loadFromDecrypted. *)
PageInit ==
  /\ mobile \in BOOLEAN
  /\ mounted = TRUE
  /\ \E items \in InitialVaults :
       /\ store = [status |-> "unlocked", items |-> items,
                   selected |-> FirstId(items), flag |-> NoId, filter |-> "all"]
       /\ detail = [NoDetail EXCEPT !.last = IF mobile THEN NoId ELSE FirstId(items)]
       /\ used = [ids |-> IdsOf(items), count |-> [u \in Uses |-> 0]]
  /\ editor = NoEditor
  /\ over = NoOverlay
  /\ health = [value |-> NoHealth, timer |-> TRUE, latest |-> {}, stale |-> {}]
  /\ sync = [pc |-> "idle", items |-> <<>>]
  /\ lock = [page |-> "idle", peer |-> "idle"]
  /\ clip = [holds |-> FALSE, timer |-> FALSE, copying |-> 0]
  /\ past = {}

Counted(u) == [used EXCEPT !.count[u] = @ + 1]
Use(u) == u \in Uses /\ used.count[u] < MaxUses[u] /\ used' = Counted(u)

-----------------------------------------------------------------------------
(* What the page offers *)

Desktop == mounted /\ ~mobile
Mobile == mounted /\ mobile

(* VaultDetail is on the page. *)
DetailShown == IF mobile THEN over.detail ELSE TRUE
Selected == IF store.selected \in IdsOf(store.items) THEN store.selected ELSE NoId
SelectedItem == ItemWith(store.items, Selected)

(* The ids of the items on the list. *)
filtered ==
  {id \in IdsOf(store.items) : store.filter = "all" \/ id \in health.value.weak}

TopBar ==
  {"palette", "generate", "settings"} \cup
  (IF sync.pc = "idle" THEN {"sync"} ELSE {}) \cup
  (IF lock.page = "idle" THEN {"lock"} ELSE {})

SidebarControls == {"all", "weak"}
ListControls == {"add"} \cup filtered

DetailControls ==
  IF ~DetailShown \/ Selected = NoId THEN {}
  ELSE {"edit", "delete"} \cup RowsOf(SelectedItem.kind).reveal
DetailCopies ==
  IF ~DetailShown \/ Selected = NoId THEN {}
  ELSE RowsOf(SelectedItem.kind).copy
DeleteDialog == IF detail.asked = NoId THEN {} ELSE {"delete", "cancel"}

PaletteActions ==
  {"lock"} \cup
  (IF Selected # NoId THEN {"reveal"} ELSE {}) \cup
  (IF Selected # NoId /\ SelectedItem.kind = "login" THEN {"copy"} ELSE {})
PaletteRows == IdsOf(store.items) \cup PaletteActions
PaletteControls == IF over.palette THEN PaletteRows ELSE {}

QuickControls == IF over.quick THEN {"use", "copy", "close"} ELSE {}

EditorFields == IF editor.open THEN FieldsOf(editor.form.kind) ELSE {}
EditorFooter ==
  IF editor.form.kind = "none" THEN {"cancel"}
  ELSE {"cancel"} \cup
       (IF editor.form.title = "" \/ (editor.attempted /\ ~Valid(editor.form))
        THEN {} ELSE {"save"})

MobileTabBar == {"vault", "watch", "gen", "set", "add"}
VaultTab == {"lock"} \cup filtered
issues ==
  {id \in IdsOf(store.items) : id \in health.value.weak \cup health.value.reused}
WatchTab == issues
GeneratorTab == {"copy"}
SettingsTab == {"settings", "sync"}
MobileControls ==
  CASE over.tab = "vault" -> VaultTab   [] over.tab = "watch" -> WatchTab
    [] over.tab = "gen" -> GeneratorTab [] OTHER -> SettingsTab
MobileSheet ==
  CASE over.sheet = "types" -> {"login", "close"} \cup (ItemKinds \ {"login", "document"})
    [] over.sheet = "login" -> {"save", "back", "close"}
    [] OTHER -> {}

-----------------------------------------------------------------------------
(* Mutant: a change of item drops the timers and leaves the fields. *)
EffectsMutant(d, s) ==
  LET item == IF s.selected \in IdsOf(s.items) THEN s.selected ELSE NoId
  IN IF item = d.last THEN d ELSE [d EXCEPT !.last = item, !.timers = {}]

(* The effects of VaultDetail, woken by what the step changes: revealedField *)
(* naming the item on show reveals its primary secret and arms its timer;  *)
(* a store that locks hides all; another item hides what was in clear.     *)
Effects(d, s) ==
  LET item == IF s.selected \in IdsOf(s.items) THEN s.selected ELSE NoId
      key == primarySecretField(ItemWith(s.items, item).kind)
  IN IF item # d.last
     THEN [d EXCEPT !.last = item, !.revealed = {}, !.timers = {}]
     ELSE IF s.status # store.status
     THEN [d EXCEPT !.revealed = {}, !.timers = {}]
     ELSE IF item # NoId /\ s.flag = item /\ store.flag # item
     THEN [d EXCEPT !.revealed = @ \cup {key}, !.timers = @ \cup {key}]
     ELSE d

(* The step leaves the store at s and the pane at d, on show or not. *)
Show(d, s, shown) ==
  /\ detail' = IF shown THEN Effects(d, s) ELSE NoDetail
  /\ store' = IF shown /\ s.status # store.status THEN [s EXCEPT !.flag = NoId] ELSE s

(* The item under the editor is not among these. *)
Orphans(items) ==
  IF editor.open /\ editor.mode = "edit" /\ editor.initial \notin IdsOf(items)
  THEN {"edited item gone"} ELSE {}

-----------------------------------------------------------------------------
(* Health *)

scheduleHealthRecompute == [health EXCEPT !.timer = TRUE]

runHealthRecompute(items) ==
  [health EXCEPT !.timer = FALSE, !.latest = {computeVaultHealth(items)},
                 !.stale = @ \cup health.latest]

HealthTimer ==
  /\ health.timer
  /\ health' = runHealthRecompute(store.items)
  /\ UNCHANGED <<mobile, mounted, store, detail, editor, over, sync, lock, clip,
                 used, past>>

HealthDone ==
  /\ \E report \in health.latest :
       health' = [health EXCEPT !.value = report, !.latest = {}]
  /\ UNCHANGED <<mobile, mounted, store, detail, editor, over, sync, lock, clip,
                 used, past>>

(* The token has moved on: the answer is dropped. *)
StaleHealthDone ==
  /\ \E report \in health.stale : health' = [health EXCEPT !.stale = @ \ {report}]
  /\ UNCHANGED <<mobile, mounted, store, detail, editor, over, sync, lock, clip,
                 used, past>>

-----------------------------------------------------------------------------
(* The clipboard *)

(* clearClipboard drops the timer, and the browser may refuse the write. *)
clearClipboard(refused) ==
  clip' = [clip EXCEPT !.timer = FALSE, !.holds = @ /\ refused]
Refusal(refused) == IF refused /\ clip.holds THEN {"clear rejected"} ELSE {}

(* Mutant: the timer of the last copy is dropped before the write. *)
copySecretToClipboardMutant(refused) ==
  clip' = IF refused THEN [clip EXCEPT !.timer = FALSE]
          ELSE [clip EXCEPT !.holds = TRUE, !.timer = FALSE, !.copying = @ + 1]

(* Up to the await; a refused write ends it. *)
copySecretToClipboard(refused) ==
  clip' = IF refused THEN clip
          ELSE [clip EXCEPT !.holds = TRUE, !.copying = @ + 1]

Copied ==
  /\ clip.copying > 0
  /\ clip' = [clip EXCEPT !.copying = @ - 1, !.timer = TRUE]
  /\ UNCHANGED <<mobile, mounted, store, detail, editor, over, health, sync, lock,
                 used, past>>

ClipboardTimer ==
  /\ clip.timer
  /\ \E refused \in BOOLEAN :
       clearClipboard(refused) /\ past' = past \cup Refusal(refused)
  /\ UNCHANGED <<mobile, mounted, store, detail, editor, over, health, sync, lock,
                 used>>

(* A copy button of the detail pane or of a generator. *)
Copy ==
  /\ mounted
  /\ \/ DetailCopies # {}
     \/ "copy" \in QuickControls
     \/ mobile /\ "copy" \in MobileControls
  /\ Use("copy")
  /\ \E refused \in BOOLEAN : copySecretToClipboard(refused)
  /\ UNCHANGED <<mobile, mounted, store, detail, editor, over, health, sync, lock,
                 past>>

-----------------------------------------------------------------------------
(* The list and the detail pane *)

ChooseCategory ==
  /\ Desktop
  /\ \E filter \in SidebarControls \ {store.filter} :
       store' = [store EXCEPT !.filter = filter]
  /\ UNCHANGED <<mobile, mounted, detail, editor, over, health, sync, lock, clip,
                 used, past>>

select(id) == [store EXCEPT !.selected = id, !.flag = NoId]

SelectFromList(id) ==
  /\ Desktop
  /\ id \in ListControls
  /\ Show(detail, select(id), TRUE)
  /\ UNCHANGED <<mobile, mounted, editor, over, health, sync, lock, clip, used, past>>

(* The eye of a secret field: reveal arms its timer, hide drops it. *)
Toggle(key) ==
  /\ mounted
  /\ key \in DetailControls
  /\ LET hidden == key \in detail.revealed
         s == IF hidden /\ store.flag = Selected THEN [store EXCEPT !.flag = NoId]
              ELSE store
         keys(set) == IF hidden THEN set \ {key} ELSE set \cup {key}
     IN Show([detail EXCEPT !.revealed = keys(@), !.timers = keys(@)], s, TRUE)
  /\ UNCHANGED <<mobile, mounted, editor, over, health, sync, lock, clip, used, past>>

HideTimer(key) ==
  /\ key \in detail.timers
  /\ LET s == IF store.flag = Selected THEN [store EXCEPT !.flag = NoId] ELSE store
     IN Show([detail EXCEPT !.revealed = @ \ {key}, !.timers = @ \ {key}], s, TRUE)
  /\ UNCHANGED <<mobile, mounted, editor, over, health, sync, lock, clip, used, past>>

requestDelete ==
  /\ mounted
  /\ "delete" \in DetailControls
  /\ Use("delete")
  /\ detail' = [detail EXCEPT !.asked = Selected]
  /\ UNCHANGED <<mobile, mounted, store, editor, over, health, sync, lock, clip, past>>

cancelDelete ==
  /\ "cancel" \in DeleteDialog
  /\ detail' = [detail EXCEPT !.asked = NoId]
  /\ UNCHANGED <<mobile, mounted, store, editor, over, health, sync, lock, clip,
                 used, past>>

remove(id) ==
  [store EXCEPT !.items = Without(@, id),
                !.selected = IF @ = id THEN NoId ELSE @]

(* Mutant: what is removed is what is selected now. *)
confirmDeleteMutant ==
  /\ "delete" \in DeleteDialog
  /\ Show([detail EXCEPT !.asked = NoId], remove(store.selected), TRUE)
  /\ health' = scheduleHealthRecompute
  /\ past' = past \cup Orphans(remove(store.selected).items)
  /\ UNCHANGED <<mobile, mounted, editor, over, sync, lock, clip, used>>

confirmDelete ==
  /\ "delete" \in DeleteDialog
  /\ Show([detail EXCEPT !.asked = NoId], remove(detail.asked), TRUE)
  /\ health' = scheduleHealthRecompute
  /\ past' = past \cup Orphans(remove(detail.asked).items)
  /\ UNCHANGED <<mobile, mounted, editor, over, sync, lock, clip, used>>

-----------------------------------------------------------------------------
(* The palette and the quick generator *)

OpenPalette ==
  /\ mounted
  /\ ~over.palette
  /\ Use("palette")
  /\ over' = [over EXCEPT !.palette = TRUE]
  /\ UNCHANGED <<mobile, mounted, store, detail, editor, health, sync, lock, clip,
                 past>>

ClosePalette ==
  /\ over.palette
  /\ over' = [over EXCEPT !.palette = FALSE]
  /\ UNCHANGED <<mobile, mounted, store, detail, editor, health, sync, lock, clip,
                 used, past>>

PaletteItem(id) ==
  /\ id \in PaletteControls
  /\ over' = [over EXCEPT !.palette = FALSE]
  /\ Show(detail, select(id), DetailShown)
  /\ UNCHANGED <<mobile, mounted, editor, health, sync, lock, clip, used, past>>

PaletteReveal ==
  /\ "reveal" \in PaletteControls
  /\ over' = [over EXCEPT !.palette = FALSE]
  /\ Show(detail, [store EXCEPT !.flag = Selected], DetailShown)
  /\ UNCHANGED <<mobile, mounted, editor, health, sync, lock, clip, used, past>>

(* Thirty seconds after a reveal by palette. *)
PaletteTimer ==
  /\ store.flag # NoId
  /\ Show(detail, [store EXCEPT !.flag = NoId], mounted /\ DetailShown)
  /\ UNCHANGED <<mobile, mounted, editor, over, health, sync, lock, clip, used, past>>

PaletteCopy ==
  /\ "copy" \in PaletteControls
  /\ Use("copy")
  /\ \E refused \in BOOLEAN : copySecretToClipboard(refused)
  /\ over' = [over EXCEPT !.palette = FALSE]
  /\ UNCHANGED <<mobile, mounted, store, detail, editor, health, sync, lock, past>>

toggleQuickGenerator ==
  /\ Desktop
  /\ "generate" \in TopBar
  /\ Use("palette")
  /\ over' = [over EXCEPT !.quick = ~@]
  /\ UNCHANGED <<mobile, mounted, store, detail, editor, health, sync, lock, clip,
                 past>>

(* Its own close, or 900 ms after "Use this password" has copied it. *)
CloseQuick ==
  /\ "close" \in QuickControls
  /\ over' = [over EXCEPT !.quick = FALSE]
  /\ UNCHANGED <<mobile, mounted, store, detail, editor, health, sync, lock, clip,
                 used, past>>

-----------------------------------------------------------------------------
(* The editor *)

Opened(mode, initial, form) ==
  editor' = [NoEditor EXCEPT !.open = TRUE, !.mode = mode, !.initial = initial,
                             !.form = form]

openCreateEditor ==
  /\ Desktop
  /\ "add" \in ListControls
  /\ Use("editor")
  /\ Opened("create", NoId, NoForm)
  /\ UNCHANGED <<mobile, mounted, store, detail, over, health, sync, lock, clip, past>>

hydrateFromInitial(item) ==
  [kind |-> item.kind, title |-> item.title, body |-> item.body,
   line |-> joinAddressLine(item.line)]

openEditEditor ==
  /\ mounted
  /\ "edit" \in DetailControls
  /\ Use("editor")
  /\ Opened("edit", Selected, hydrateFromInitial(SelectedItem))
  /\ UNCHANGED <<mobile, mounted, store, detail, over, health, sync, lock, clip, past>>

pickKind(kind) ==
  /\ editor.open
  /\ editor.form.kind = "none"
  /\ editor' = [editor EXCEPT !.form.kind = kind, !.attempted = FALSE]
  /\ UNCHANGED <<mobile, mounted, store, detail, over, health, sync, lock, clip,
                 used, past>>

(* Typing in the title; on a card it opens the institutions' list. *)
TypeTitle ==
  /\ editor.open /\ editor.form.kind # "none"
  /\ \E title \in Title \ {editor.form.title} :
       editor' = [editor EXCEPT !.form.title = title,
                    !.list = IF editor.form.kind = "card"
                             THEN [@ EXCEPT !.open = TRUE, !.active = -1] ELSE @]
  /\ UNCHANGED <<mobile, mounted, store, detail, over, health, sync, lock, clip,
                 used, past>>

TypeField ==
  /\ EditorFields # {}
  /\ \/ \E body \in Body \ {editor.form.body} :
          editor' = [editor EXCEPT !.form.body = body]
     \/ /\ "billingLine" \in EditorFields
        /\ \E line \in {"none", "full", "no city"} \ {editor.form.line} :
             editor' = [editor EXCEPT !.form.line = line]
  /\ UNCHANGED <<mobile, mounted, store, detail, over, health, sync, lock, clip,
                 used, past>>

(* The keys of the title of a card, its focus and its late blur. *)
onTitleKeydown(key) ==
  /\ editor.open /\ editor.form.kind = "card"
  /\ LET n == instMatches(editor.form)
         at == editor.list.active
         move(i) == [editor.list EXCEPT !.active = i]
         shut == [editor.list EXCEPT !.open = FALSE, !.active = -1]
     IN CASE key = "focus" -> editor' = [editor EXCEPT !.list.open = TRUE]
          [] key = "blur" -> editor' = [editor EXCEPT !.list.blur = TRUE]
          [] key \in {"down", "up"} /\ ~editor.list.open ->
               editor' = [editor EXCEPT !.list.open = TRUE]
          [] key = "down" /\ editor.list.open ->
               editor' = [editor EXCEPT !.list = move((at + 1) % n)]
          [] key = "up" /\ editor.list.open ->
               editor' = [editor EXCEPT !.list = move(IF at <= 0 THEN n - 1 ELSE at - 1)]
          [] key = "enter" /\ editor.list.open /\ at >= 0 ->
               editor' = [editor EXCEPT !.form.title = "named", !.list = shut]
          [] key \in {"escape", "tab"} /\ editor.list.open ->
               editor' = [editor EXCEPT !.list = shut]
          [] OTHER -> FALSE
  /\ UNCHANGED <<mobile, mounted, store, detail, over, health, sync, lock, clip,
                 used, past>>

(* 120 ms after a blur, whether or not the focus has come back. *)
BlurTimer ==
  /\ editor.list.blur
  /\ editor' = [editor EXCEPT !.list.open = FALSE, !.list.blur = FALSE]
  /\ UNCHANGED <<mobile, mounted, store, detail, over, health, sync, lock, clip,
                 used, past>>

Close ==
  /\ editor.open
  /\ "cancel" \in EditorFooter
  /\ editor' = NoEditor
  /\ UNCHANGED <<mobile, mounted, store, detail, over, health, sync, lock, clip,
                 used, past>>

(* The save button, Enter in the form, or Shift+S anywhere else. *)
SaveRefused ==
  /\ editor.open
  /\ \/ ~Valid(editor.form)
     \/ editor.mode = "create" /\ Len(store.items) >= ITEM_HARD_CAP
  /\ editor' = [editor EXCEPT !.attempted = TRUE, !.error = Valid(editor.form)]
  /\ UNCHANGED <<mobile, mounted, store, detail, over, health, sync, lock, clip,
                 used, past>>

(* buildPayload over the item it replaces: a cleared billing line says     *)
(* nothing of the stored address.                                          *)
buildPayload(id, form, line) ==
  [id |-> id, kind |-> form.kind, title |-> form.title, body |-> form.body,
   line |-> IF form.line = "none" THEN line ELSE form.line]

(* VaultState.add and update, whatever the status of the store. *)
add(item) == [store EXCEPT !.items = <<item>> \o @]
update(id, form) ==
  [store EXCEPT !.items =
     [i \in DOMAIN @ |-> IF @[i].id = id THEN buildPayload(id, form, @[i].line)
                         ELSE @[i]]]

AfterSave(s, id, form) ==
  past' = past \cup
    (IF store.status = "locked" THEN {"saved after lock"} ELSE {}) \cup
    (IF \E i \in DOMAIN s.items :
          /\ s.items[i].id = id
          /\ s.items[i].kind = form.kind /\ s.items[i].title = form.title
          /\ s.items[i].body = form.body
     THEN {} ELSE {"lost"})

SaveNew ==
  /\ editor.open /\ editor.mode = "create"
  /\ Valid(editor.form)
  /\ Len(store.items) < ITEM_HARD_CAP
  /\ \E id \in Ids \ used.ids :
       LET s == add(buildPayload(id, editor.form, "none")) IN
         /\ Show(detail, s, DetailShown)
         /\ AfterSave(s, id, editor.form)
         /\ used' = [used EXCEPT !.ids = @ \cup {id}]
  /\ editor' = NoEditor
  /\ health' = scheduleHealthRecompute
  /\ UNCHANGED <<mobile, mounted, over, sync, lock, clip>>

(* Mutant: the edit goes to the item selected now. *)
SaveEditMutant ==
  /\ editor.open /\ editor.mode = "edit"
  /\ Valid(editor.form)
  /\ LET s == update(store.selected, editor.form) IN
       /\ Show(detail, s, DetailShown)
       /\ AfterSave(s, editor.initial, editor.form)
  /\ editor' = NoEditor
  /\ health' = scheduleHealthRecompute
  /\ UNCHANGED <<mobile, mounted, over, sync, lock, clip, used>>

SaveEdit ==
  /\ editor.open /\ editor.mode = "edit"
  /\ Valid(editor.form)
  /\ LET s == update(editor.initial, editor.form) IN
       /\ Show(detail, s, DetailShown)
       /\ AfterSave(s, editor.initial, editor.form)
  /\ editor' = NoEditor
  /\ health' = scheduleHealthRecompute
  /\ UNCHANGED <<mobile, mounted, over, sync, lock, clip, used>>

-----------------------------------------------------------------------------
(* Sync *)

(* From the top bar, or the settings of a small screen. *)
BeginSync ==
  /\ mounted
  /\ sync.pc = "idle"
  /\ mobile => "sync" \in MobileControls
  /\ Use("sync")
  /\ sync' = [sync EXCEPT !.pc = "flush"]
  /\ UNCHANGED <<mobile, mounted, store, detail, editor, over, health, lock, clip,
                 past>>

(* The queued write is done; a locked session has nothing to sync with. *)
SyncFlushed ==
  /\ sync.pc = "flush"
  /\ sync' = [sync EXCEPT !.pc = IF store.status = "unlocked" THEN "pull" ELSE "idle"]
  /\ UNCHANGED <<mobile, mounted, store, detail, editor, over, health, lock, clip,
                 used, past>>

(* Nothing newer on the server, or the call failed. *)
SyncNothing ==
  /\ sync.pc = "pull"
  /\ sync' = [sync EXCEPT !.pc = "idle"]
  /\ UNCHANGED <<mobile, mounted, store, detail, editor, over, health, lock, clip,
                 used, past>>

(* What another device may have pushed: one item fewer, or one rewritten. *)
RemoteVaults ==
  {Without(store.items, id) : id \in IdsOf(store.items)} \cup
  {[i \in DOMAIN store.items |->
      IF store.items[i].id = id THEN [store.items[i] EXCEPT !.body = "weak"]
      ELSE store.items[i]] : id \in IdsOf(store.items)}

(* The remote vault is decrypted, and its promotion still being written.   *)
SyncPromoted ==
  /\ sync.pc = "pull"
  /\ store.status = "unlocked"
  /\ \E items \in RemoteVaults : sync' = [pc |-> "promoted", items |-> items]
  /\ UNCHANGED <<mobile, mounted, store, detail, editor, over, health, lock, clip,
                 used, past>>

(* The items are replaced, whatever was done to them or to the store since. *)
Adopt ==
  /\ sync.pc = "promoted"
  /\ LET kept == store.selected \in IdsOf(sync.items)
         s == [store EXCEPT !.items = sync.items,
                            !.selected = IF kept THEN @ ELSE FirstId(sync.items)]
     IN Show(detail, s, mounted /\ DetailShown)
  /\ health' = runHealthRecompute(sync.items)
  /\ sync' = [pc |-> "idle", items |-> <<>>]
  /\ past' = past \cup Orphans(sync.items) \cup
       (IF store.status = "locked" THEN {"late sync"} ELSE {})
  /\ UNCHANGED <<mobile, mounted, editor, over, lock, clip, used>>

-----------------------------------------------------------------------------
(* Lock *)

LockPage ==
  /\ mounted
  /\ lock.page = "idle"
  /\ mobile => "lock" \in MobileControls \cup PaletteControls
  /\ lock' = [lock EXCEPT !.page = "frame"]
  /\ UNCHANGED <<mobile, mounted, store, detail, editor, over, health, sync, clip,
                 used, past>>

(* A manual lock shows the splash screen first. *)
Frame ==
  /\ lock.page = "frame"
  /\ lock' = [lock EXCEPT !.page = "flush"]
  /\ UNCHANGED <<mobile, mounted, store, detail, editor, over, health, sync, clip,
                 used, past>>

AutoLock ==
  /\ mounted
  /\ store.status = "unlocked"
  /\ lock.page = "idle"
  /\ lock' = [lock EXCEPT !.page = "flush"]
  /\ UNCHANGED <<mobile, mounted, store, detail, editor, over, health, sync, clip,
                 used, past>>

PeerLock ==
  /\ store.status = "unlocked"
  /\ lock.peer = "idle"
  /\ Use("peer")
  /\ lock' = [lock EXCEPT !.peer = "flush"]
  /\ UNCHANGED <<mobile, mounted, store, detail, editor, over, health, sync, clip,
                 past>>

LockedStore ==
  [status |-> "locked", items |-> <<>>, selected |-> NoId, flag |-> NoId,
   filter |-> "all"]

forgetHealth ==
  [value |-> NoHealth, timer |-> FALSE, latest |-> {},
   stale |-> health.stale \cup health.latest]

(* VaultState.lock after its flush, up to the wait for the clipboard. *)
Teardown(caller) ==
  /\ lock[caller] = "flush"
  /\ Show(detail, LockedStore, mounted /\ DetailShown)
  /\ health' = forgetHealth
  /\ \E refused \in BOOLEAN :
       /\ clearClipboard(refused)
       /\ past' = past \cup Refusal(refused) \cup Orphans(<<>>)
  /\ lock' = [lock EXCEPT ![caller] = "clip"]
  /\ UNCHANGED <<mobile, mounted, editor, over, sync, used>>

(* Another tab's lock leaves the page where it is. *)
PeerLocked ==
  /\ lock.peer = "clip"
  /\ lock' = [lock EXCEPT !.peer = "idle"]
  /\ UNCHANGED <<mobile, mounted, store, detail, editor, over, health, sync, clip,
                 used, past>>

(* The page's own lock ends at /unlock. *)
lockVault ==
  /\ lock.page = "clip"
  /\ lock' = [lock EXCEPT !.page = "idle"]
  /\ mounted' = FALSE
  /\ editor' = NoEditor
  /\ over' = NoOverlay
  /\ detail' = NoDetail
  /\ UNCHANGED <<mobile, store, health, sync, clip, used, past>>

-----------------------------------------------------------------------------
(* The small screen *)

go(tab) ==
  /\ Mobile
  /\ tab \in MobileTabBar \ {"add", over.tab}
  /\ over' = [over EXCEPT !.tab = tab]
  /\ store' = [store EXCEPT !.filter = "all"]
  /\ UNCHANGED <<mobile, mounted, detail, editor, health, sync, lock, clip, used, past>>

(* The sheet of the add button; the login of its own, the other kinds in   *)
(* the editor.                                                             *)
Sheet ==
  /\ Mobile
  /\ \E next \in {"none", "types", "login"} \ {over.sheet} :
       /\ next = "types" => over.sheet = "none" \/ "back" \in MobileSheet
       /\ next = "login" => "login" \in MobileSheet
       /\ over' = [over EXCEPT !.sheet = next]
  /\ UNCHANGED <<mobile, mounted, store, detail, editor, health, sync, lock, clip,
                 used, past>>

openEditorForKind(kind) ==
  /\ Mobile
  /\ over.sheet = "types"
  /\ kind \in MobileSheet \ {"login"}
  /\ Use("editor")
  /\ over' = [over EXCEPT !.sheet = "none"]
  /\ Opened("create", NoId, [NoForm EXCEPT !.kind = kind])
  /\ UNCHANGED <<mobile, mounted, store, detail, health, sync, lock, clip, past>>

(* No check of the fields; a full vault throws and leaves the sheet open. *)
saveLogin ==
  /\ Mobile
  /\ "save" \in MobileSheet
  /\ Len(store.items) < ITEM_HARD_CAP
  /\ \E id \in Ids \ used.ids, body \in Body \ {"bad"} :
       /\ used' = [used EXCEPT !.ids = @ \cup {id}]
       /\ Show(detail, add([id |-> id, kind |-> "login", title |-> "named",
                            body |-> body, line |-> "none"]), DetailShown)
  /\ over' = [over EXCEPT !.sheet = "none"]
  /\ health' = scheduleHealthRecompute
  /\ past' = past \cup (IF store.status = "locked" THEN {"saved after lock"} ELSE {})
  /\ UNCHANGED <<mobile, mounted, editor, sync, lock, clip>>

(* The detail pane slides over the tabs. *)
openItem(id) ==
  /\ Mobile
  /\ id \in MobileControls
  /\ over' = [over EXCEPT !.detail = TRUE]
  /\ Show(detail, select(id), TRUE)
  /\ UNCHANGED <<mobile, mounted, editor, health, sync, lock, clip, used, past>>

Back ==
  /\ Mobile
  /\ over.detail
  /\ over' = [over EXCEPT !.detail = FALSE]
  /\ detail' = NoDetail
  /\ UNCHANGED <<mobile, mounted, store, editor, health, sync, lock, clip, used, past>>

(* The layout changes: what belonged to the other one is gone. *)
Resize ==
  /\ mounted
  /\ Use("resize")
  /\ mobile' = ~mobile
  /\ over' = [over EXCEPT !.tab = "vault", !.sheet = "none", !.detail = FALSE]
  /\ detail' = IF mobile THEN [NoDetail EXCEPT !.last = Selected] ELSE NoDetail
  /\ store' = IF mobile /\ store.status = "locked" THEN [store EXCEPT !.flag = NoId]
              ELSE store
  /\ UNCHANGED <<mounted, editor, health, sync, lock, clip, past>>

-----------------------------------------------------------------------------
Browse ==
  \/ ChooseCategory \/ \E id \in Ids : SelectFromList(id)
  \/ \E key \in RevealKeys : Toggle(key) \/ HideTimer(key)
  \/ requestDelete \/ cancelDelete \/ confirmDelete
  \/ OpenPalette \/ ClosePalette \/ \E id \in Ids : PaletteItem(id)
  \/ PaletteReveal \/ PaletteTimer \/ PaletteCopy
  \/ toggleQuickGenerator \/ CloseQuick
  \/ Copy \/ Copied \/ ClipboardTimer

Edit ==
  \/ openCreateEditor \/ openEditEditor \/ \E kind \in ItemKinds : pickKind(kind)
  \/ TypeTitle \/ TypeField \/ BlurTimer
  \/ \E key \in {"focus", "blur", "down", "up", "enter", "escape", "tab"} :
       onTitleKeydown(key)
  \/ Close \/ SaveRefused \/ SaveNew \/ SaveEdit

Background ==
  \/ HealthTimer \/ HealthDone \/ StaleHealthDone
  \/ BeginSync \/ SyncFlushed \/ SyncNothing \/ SyncPromoted \/ Adopt
  \/ LockPage \/ Frame \/ AutoLock \/ PeerLock
  \/ \E caller \in {"page", "peer"} : Teardown(caller)
  \/ PeerLocked \/ lockVault

SmallScreen ==
  \/ \E tab \in MobileTabBar : go(tab)
  \/ Sheet \/ \E kind \in ItemKinds : openEditorForKind(kind)
  \/ saveLogin \/ \E id \in Ids : openItem(id) \/ Back
  \/ Resize

PageNext == Browse \/ Edit \/ Background \/ SmallScreen

PageSpec == PageInit /\ [][PageNext]_pageVars

-----------------------------------------------------------------------------
(* A field shown in clear has a timer that will hide it, and a copied      *)
(* secret one that will clear it, unless the browser has refused to clear  *)
(* the clipboard, which is not tried again (VaultDetail reveal,            *)
(* secure-clipboard.ts).                                                   *)
SecretsAreTimed ==
  /\ detail.revealed \subseteq detail.timers
  /\ clip.holds => clip.timer \/ clip.copying > 0 \/ "clear rejected" \in past

(* A locked store holds no item and shows no secret, unless a sync that    *)
(* was being promoted, or an editor left open by another tab's lock, has   *)
(* put items back (VaultState.lock, syncNow, add).                         *)
LockedIsEmpty ==
  store.status = "locked" /\ {"late sync", "saved after lock"} \cap past = {} =>
    store.items = <<>> /\ detail.revealed = {}

(* No secret outlives the moment it was shown for.                         *)
SecretsDoNotStay == SecretsAreTimed /\ LockedIsEmpty

(* A draft that was saved is in the vault, whatever was selected, synced   *)
(* or resized under the editor, unless its item had gone (ItemEditor save, *)
(* VaultState.update).                                                     *)
SavedDraftIsKept == "lost" \in past => "edited item gone" \in past

(* Only what the user was asked about goes: an item leaves or changes by   *)
(* the deletion of that item, the save of the editor opened on it, the     *)
(* adoption of a remote vault, or a lock.                                  *)
Keeps(items, item) == \E i \in DOMAIN items : items[i] = item
ItemsChangeAsAsked ==
  [][\A i \in DOMAIN store.items :
       LET item == store.items[i] IN
       Keeps(store.items', item) \/
         \/ detail.asked = item.id /\ item.id \notin IdsOf(store.items')
         \/ editor.open /\ editor.mode = "edit" /\ editor.initial = item.id
         \/ sync.pc = "promoted"
         \/ store'.status = "locked"]_pageVars

=============================================================================
