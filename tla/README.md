# VuVault: specifications, model checking and proofs

This directory holds a TLA+ development of VuVault, an offline-first password
vault with an end-to-end encrypted sync server. It models the parts of the code
whose correctness depends on the order in which asynchronous steps happen: the
saves, pushes and pulls of a vault, the keys that open it, the restore records
that lead a new device to it, the token economy, the accounts and the object
store of the sync server, the pages a user goes through, and what one part writes
for another to read. Source paths below are relative to `src/src/`.

`PROJECT.json` lists the components, the TLC runs, the mutants that show each
property can fail, the source lines every definition translates, the findings,
the hazards, and the theorems.

## 1. Inventory of the system

A browser profile holds one vault. Its rows (account, vault, recovery envelope,
quick-unlock) live in IndexedDB and are shared by every tab; the keys live in
module variables of `lib/services/vault-session.ts`, once per tab. A tab can log
in to a sync server (SvelteKit routes over D1 and R2) that stores opaque blobs at
addresses it cannot link to an account.

| component | state | operations | interacts with |
|---|---|---|---|
| **Vault session** `services/vault-session.ts`, `utils/storage.ts` | account row, vault row, envelope row; per tab `vaultKey`, `aesKey`, format, restore root | `provisionVault`, `openVault`, `saveItems`, `syncNow`, `rotateAuth`, `openVaultWithRecoveryEnvelope`, `rebindRecoveredVault`, `adoptRestoredVault`, `lockSession`, `clearAll` | called by the store and the pages; starts pushes; shares rows with other tabs |
| **Inventory chain** `services/inventory-session.ts`, `blob-inventory.ts` | per tab `latestIndex`, `version`, chain key; account row's `inventoryIndex`, `inventoryPushedAt` | `initInventorySession`, `inventoryRecordVaultBlob`, `inventoryPullNewer` | reads and writes server addresses derived from the index |
| **Restore records** `services/vault-session.ts`, `server-restore.ts`, `crypto/restore-record.ts` | restore root, day/slot reservation, written index | `writeRestoreRecord`, `installRestoreRoot`, `disableServerRestore`, `discoverRestoreRecord` | after every push; a new device with the two secrets |
| **Vault store** `stores/vault.svelte.ts`, `services/tab-sync.ts`, `auto-lock.ts` | items, persist timer, persist in flight, status, banner | edits, `persist`, `flushPersist`, `syncNow`, `lock`, tab messages, idle and hidden timers | calls the session; broadcasts to the other tabs |
| **Sync client** `services/sync-client.ts` | session token, token pool, pinned key, generation, refill in flight | `call` (adopts `next-token`), `issueTokenBatch`, `takeToken`, `tokenCall`, `opaqueLogout` | every request of the session to the server |
| **Anonymous tokens** `server/api/anon-tokens.ts` | spent tokens, key window | `issueTokens`, `redeemToken`, `sweepSpentTokens` | guard of every v2 route |
| **OPAQUE server and sessions** `server/api/server-opaque.ts`, `d1-storage.ts`, `auth-token.ts`, `cleanup.ts` | accounts, pending registrations and logins, sessions | `registerRequest/Record`, `loginKE1/KE3`, `authenticate`, `rotateToken`, logout, sweeps | onboarding, unlock, token issuance |
| **Object store** `routes/api/v2/*`, `server/api/r2-gc.ts` | R2 objects, reference rows with `last_seen_at` | PUT, GET, DELETE of blobs, inventories and records; `gcV2Now` | all v2 clients |
| **Rate limiter** `server/api/rate-limit-d1.ts` | counters per bucket and window | `applyRateLimit` | guard of every route |
| **Key directory** `server/api/akd-server.ts`, `crypto/akd-merkle.ts` | epochs, leaves | `mintEpoch`, `proofFor`, Merkle root and proofs | administrators, auditors |
| **Offline snapshot** `service-worker.ts`, `pwa/pwa.svelte.ts` | caches, waiting and active worker | install, activate, repair, consent, reload | every page load |
| **Pages** `routes/onboarding`, `unlock`, `recover`, `restore`, `vault` | the onboarding store and its steps; per page a copy of the account row, attempts, calls in flight; the editor's draft, selection, overlays | steps and their async work; unlock forms, recovery, restore, settings; editing, deleting, copying, palette | call the session, the store and the server; share rows with other tabs |
| **Quick unlock** `services/quick-unlock.ts` | the cached, sealed Secret Key | seal, open, drop, clear | onboarding, unlock page, settings, wipe |
| **Formats** `crypto/padding.ts`, `envelope.ts`, `vault-envelope.ts`, `blob-inventory.ts`, `restore-record.ts`, `recovery-envelope.ts`, `voprf.ts`, text codes | none | seal and open, encode and decode, choose | everything that stores or sends |

What is hard here, component by component, and what correctness means:

* **Vault session.** Nothing holds a lock across an await: a save, a rotation, a
  pull and a lock interleave at every row transaction, in one tab and across
  tabs. Correct means that after any of this the factors the account row asks
  for open the vault row; that the data key never changes, since recovery
  envelopes, the restore root and the address chain hang off it; and that a
  session never holds keys of another vault than the one in the database.
* **Inventory chain.** Uploads fail, time out ambiguously and land late. Correct
  means that an address is used once, that an inventory never names a blob that
  is not stored, that the persisted position neither goes back nor skips, and
  that a vault is pushed again before the server collects its last copy.
* **Restore records.** A record address is a function of the day and a slot.
  Correct means no address is rewritten, and discovery finds the newest record
  that leads to a live chain.
* **Vault store.** Debounce timers, flushes and locks overlap. Correct means
  that an edit made before a lock is on disk after it, that no tab overwrites
  what it was not warned about, and that an idle session ends up locked.
* **Sync client and tokens.** Correct means that tokens of one session never
  serve another, a token is redeemed once, and a stale pool heals itself.
* **OPAQUE server.** Correct means one record per client, one finish per
  request, no session after a logout, and no account locked out half-enrolled.
* **Object store.** Correct means that the sweep deletes nothing that was read
  or written within its window, and forgets no object for good.
* **Pages.** Work started by a page goes on when the page is gone, on rows another
  tab may have changed and buffers another step may have zeroed. Correct means
  that the vault which results opens with what the user was told to keep, that a
  draft which was saved is in the vault, and that no secret stays on screen.
* **Formats.** What one part writes another reads back, and nothing else passes
  for it; sizes and random choices show no more than they must.
* **Key directory, snapshot.** One tree per epoch, verifiable proofs; one build
  per snapshot, and no update without consent.

The hazards behind these sentences are listed in `PROJECT.json` at the line
where each one bites.

## 2. Modules

| module | content |
|---|---|
| `InventoryChain` | the save-and-push pipeline: pushes, pulls, unlocks, rotations and locks over the address chain |
| `VaultSession` | the keys: what opens the vault row, in memory and in the database |
| `RestoreRecords` | the records of new-device restore, from reservation to discovery and adoption |
| `VaultStore` | the unlocked vault of a tab: edits, debounced saves, manual sync, locks, timers, messages between tabs |
| `AnonTokens` | the token pool of the client and the issuance, redemption and sweep of the server |
| `OpaqueServer`, `AccountRegistry` | registration, login and bearer sessions at both ends, and the abstract registry they implement |
| `ObjectStore` | the object routes, their reference rows, the sweep and the rate limiter |
| `Onboarding` | the setup wizard with the asynchronous work of its steps |
| `UnlockPages` | the unlock, recovery, restore and settings pages in several tabs |
| `VaultPage`, `ItemRules` | the page of the unlocked vault, and what it knows of each kind of item |
| `SealedRecords`, `TextCodes`, `Voprf` | the formats as operators: envelopes, padding, codecs, codes, fields, tokens |
| `KeyDirectory` | publication of epochs, the Merkle tree, proofs |
| `Formats` | the trips from a writer of one of these formats to a reader |
| `OfflineSnapshot` | the service worker, its caches, the update consent and the reloads of a tab |
| `MC...` | symmetry, bounds and values for TLC |
| `..._proofs` | the theorems |

The modules cut the same code along different data. `InventoryChain` keeps
the index of every push and forgets the keys; `VaultSession` keeps the keys and
forgets the indexes. They meet in the vault row (a save number in one, a sealed
row in the other) and in what a pull may find: `VaultSession` lets it find the
last row pushed or nothing, and `InventoryChain` says which. `RestoreRecords`
takes a push over where `InventoryChain` leaves it, when its inventory has
landed and `writeRestoreRecord` is called. `VaultStore` is the caller of all of
them: its persist is a `saveItems`, its unlock an `openVault`, its sync a pull.

### InventoryChain

*State and code.* `inventoryIndex` and `pushedRecently` are the account row's
`inventoryIndex` and whether `inventoryPushedAt` is within `STALE_PUSH_MS`;
`vault` is the vault row, named by the number of the save it holds; `tab[t]` is
the session token, `latestIndex` and what `openVault` read from the rows;
`lacks` is what the next save has to bring up to date on the account row, its
format version or its seed. `push[p]`, `save[n]`, `pull[t]` and `rotate[t]` are
the stack frames of `pushBlobToServer`, `saveItems`, `syncNow` and `rotateAuth`;
`save[n].row` and `rotate[t].row` are the copy of the account row a call has read
and is going to write back whole. `wire` holds the requests sent
and not yet executed, so a request may land after its sender gave up on it or is
gone; `blobs` and `inv` are the server. `landed`, `exposure` and `unrecorded` are
history variables: which inventories were written, which events have happened after
which an index can be drawn twice, and which pushes may have an index that is not
on the row.

*Actions.* One per stretch of code between two awaits. `Reserve` is the
synchronous head of `inventoryRecordVaultBlob` that draws the next index of
whatever session the tab has by then; `InventoryReply` may report failure of a
request that was executed; `PersistIndex` writes the index even on failure and
the push time only on success. `BeginSave` reads the account row and `CommitSave`
writes: the vault row alone, or both rows whole (`WriteRow`) when the account
lacked something at the read, which is what `saveExistingAccountAndVault` and the
transaction of `rotateAuth` do; `SaveFailed` is every way in which it throws.
`ProbePresent`, `ProbeEnds` and `Adopt` are the loop
of `inventoryPullNewer`, whose bound is `MaxProbes` (16 in the code). `Reload`
ends a tab at any point.

*Abstractions.* The address of an index is the index (the chain key is fixed
here); the random blob id a push draws is the push. The version number inside an
inventory is left out, since nothing decides on it. So is an account of format 1,
whose first save mints a data key and starts another chain; accounts of format 2
and accounts without a seed are in.

### VaultSession

*State and code.* `account` is the account row's device salt, enabled factors and
format; `vault` is what opens the vault row: the vault key its header is wrapped
under, the salt and format its additional data binds (`makeAad`), and its data
key. `tab[t]` holds `vaultKey` and `aesKey`. A device salt stands for the salt
and the passkey bound to it, a factor for the change that set it. `call[c]` is
the frame of an asynchronous call, with the rows it has read. Buffers matter:
`shared` says that the data key a call holds is the very buffer of the tab, so
that filling it with zeros (a lock, an adopted pull) zeroes the call's key too.

*Actions.* Each exported function is cut at its awaits: read of the account row,
read of the vault row, the transaction, the continuation that installs keys. A
read or write of a row takes effect when it is issued, since IndexedDB orders
overlapping transactions by the time they were created. `Fail` ends any call
that has not written: dismissed passkey, failed decryption, aborted transaction.

*Abstractions.* The items are left out, and so are the recovery password, the
restore root and the server, of which `remote` keeps one row a pull can find.

### RestoreRecords

*State and code.* `acct[d]` is the part of device `d`'s account row that restore
uses: whether it exists and is enrolled, the wrapped root, `restorePointerDay`,
`-Slot`, `-Index` and `restorePointers`. `root[d]` is `restoreRoot` in memory,
`session[d]` whether the vault is open and has a sync token, `top[d]` the newest
index of the device's chain. `push[p]` is the frame of `writeRestoreRecord`,
`op[d]` that of `installRestoreRoot` or `disableServerRestore`, `rotate[d]` the
account row `rotateAuth` has read and will write back whole, `found[d]` what a
restoring device found. The server is `stored`: the records at their addresses.

*Actions.* `BeginPush` is the read of the account row and the choice of day and
slot; `Reserve` the transaction; `Build` the sealing under whatever root is in
memory by then, or nothing after a lock; `PutRecord` the server's handler, which
replaces what the address held; `UploadFailed` the client's side of a request
that may still arrive; `MarkWritten` the success marker. `BeginInstall`,
`BeginDisable`, `PurgeOne`, `ClearRoot`, `WrapRoot`, `AssignRoot`, `Publish`,
`PublishFailed`, `ForgetRoot` are the steps of the two calls between awaits;
`Lock` and `Reload` may come at any of them. `Discover` covers every outcome of
the scan in which at most two requests fail; `Discovered` is the outcome in
which none does. `Adopt` writes the seeded account and goes on, as the restore
page does, to install the same root.

*Abstractions.* A root is the number of its Recovery Password, an address the
triple it is derived from, `writtenAt` the order in which records were built. An
await that only reads is merged with the step that asked for it. The walk from a
record to the chain's newest save has no limit here (1024 in the code), nor has
the list of pointers (256). All devices share one clock, so the scan's extra day
ahead finds nothing. `Quiet` stands for the settings page's busy flag. A DELETE
that arrives after its client gave up, and the server's garbage collection of
old records, are left out. `Rebind` is one step, since its own steps are in
`VaultSession`, and leaves the session without a token, as the code does until
until the next unlock; its forced record is then never written. The account is of
the present build: on an older one the first save writes back the whole row it has
read, restore pointers included (`vault-session.ts` 1397), with the effect that
`"rewound"` records of a rotation.

### VaultStore

*State and code.* `disk` is the vault row, as the set of edits it contains;
`tab[t]` the store of a tab (`items`, `persistTimer`, `inflightPersist`,
`otherTabActivity`, `unlocked` for its status), the page it is on, whether it is
visible, and the two timers of `auto-lock.ts`. `persist[e]` is the frame of a
`persist()`, named by the last edit that armed its timer; `lock[t][c]` that of
`VaultState.lock`, called by the page (`lockVault`, from the button or the
controller) or by a message of a peer; `net[t][m]` the messages under way.

*Actions.* `Edit` is `add`, `update` or `remove` with its `schedulePersist`;
`PersistTimer` its callback; `PersistWrite`, `PersistFailed` and `PersistDone` the
rest of `persist` with its `finally`, which forgets whatever is in flight.
`BeginSync` to `SyncAdopt` are `syncNow`. `ManualLock`, `AnimationFrame`,
`IdleFires`, `HiddenFires` and `PageHide` are the ways into a lock from the page;
`Deliver` the subscription of `subscribeTabSync`, with a lock of its own;
`Teardown` and `LockDone` the two halves of `lock` after its flush. `Hide`, `Show`
and `Activity` are the controller's listeners, `Wipe` is `startFresh` of the
recovery page, `Reload` the end of a tab at any point.

*Abstractions.* Items are sets of edits, so that a row written by a tab that has
not seen an edit loses it. An unlock, with its passkey prompt, outlasts a persist
timer of 500 ms and a read issued before it. A second sync during the first, a
second lock message while one is honoured, and the dismissal of the banner are
left out. The clipboard is an await of `lock` and nothing more;
`getVaultByteSize` does not fail. `Copies` is how often a message arrives, by
channel, by storage event, or by both.

### AnonTokens

*State and code.* `session`, `pool`, `gen`, `pin` and `refill` are `sessionToken`,
`tokenPool`, `tokenGeneration`, `pinnedTokenKey` and the frame of
`issueTokenBatch`; `call[c]` is a `tokenCall` with its one retry; `rows` are the
sessions that authenticate, `spent` is `anon_tokens_spent`, `wire` the requests
that carry a token and how far their handler is, `day` the key window.

*Actions.* The client is cut at its awaits: `Settled` says that what is queued in
one microtask queue runs before anything else. The server is cut at its
statements: the key is looked up (`Verify`), the spent row is inserted (`Spend`),
the sweep comes between. Requests are lost, refused, copied and stalled.

*Abstractions.* A token is its batch, its place in it and the window of its key;
that an evaluation verifies is `Voprf`.

### OpaqueServer and AccountRegistry

*State and code.* `account`, `pendReg`, `pendLog` and `sessions` are the tables of
`d1-storage.ts` for one client id; `requests[i]` is a request with what was asked
(`kind`, `ref`, `right`), where its handler stands (`pc`), what it has read
(`record`) and its answer; `dev` is the device: what it waits for, what it has
stored, its token. A random id is the number of the request whose handler drew it.

*Actions.* Each handler is cut at its database statements, and every statement is
an action: `RegisterRead`, `RegisterDelete`, `RegisterInsert`; `GetAccount`,
`PutPendingLogin`; `LoginRead`, `LoginDelete`, `InsertSession`; `Authenticate`,
`RotateRead`, `RotateBatch`; `Logout`. `Refuse` is the rate limiter, `Break` a
failing statement, `Copy` a request delivered twice, `Stall` a body that never
arrives, `GiveUp` the client's timeout. `Sweep` is `cleanup.ts`. The device runs
`register`, `rotateAuth`, `loginWithRetry`, introspection and logout.

*Abstractions.* A key exchange verifies exactly when the password is that of the
record. `raced` and `ended` are history: the logins two of whose requests
overlapped, and those whose token was logged out. `AccountRegistry` is the
promise: one account, written once, and tokens that are issued once.

### ObjectStore

*State and code.* `stored` is the bucket, `seen` the `last_seen_at` of each
reference row, `jobs` the handlers in flight, `sweep` the run of `gcV2Now`, `counts`
the counters of `rate-limit-d1.ts`, `owner` a device that pushes its vault again
within the refresh interval. A tick of `day` is that interval; `MaxAge` follows
from the retention of the code. Handlers and the sweep are cut at every R2 and D1
call, each of which may fail. `exposed` names the keys a sweep or a delete
overlapped, or a fault left behind.

### Onboarding

*State and code.* `ob` is the onboarding store; `secret`, `touch` and `runs` are the
`generate()` calls, the passkey registration and the `runProvision` calls, which go
on when their step is left; `wiped` holds the buffers filled with zeros, and a
reader takes a buffer's contents when it reads it. `disk` is the row, the envelope
and the cached key; `kept` the keys the user confirmed having saved.

### UnlockPages

*State and code.* `account`, `cache` and `envelope` are the rows all tabs share;
`page[t]` is the mounted component with its copy of the row, `tab[t]` the session's
keys and what is shown, `call[t]` the call in flight, which outlives the page. The
actions are the forms of `/unlock`, `/recover`, `/restore` and of the security
settings, cut at the passkey prompt, the chunk that is loaded, the login, and the
transactions. `exposure` records that a row changed under a call, or that a call
used the key of a vault that was gone by then, that a key nobody checked was
confirmed, and that a tab wiped the database with keys in memory.

### VaultPage and ItemRules

*State and code.* `store` is `VaultState` with its items, selection and filter;
`detail`, `editor` and `over` are the detail pane, the editor with its draft, and the
overlays; `health` and `sync` the computations and the pull in flight; `clip` the
clipboard with its timer. Controls act by click or by key, and an overlay does not
stop the keys of the page. `ItemRules` has the fields and checks of each kind.

### SealedRecords, TextCodes, Voprf and Formats

Operators. A byte string is what it stands for and its length; a derived key the
label and inputs of its derivation; a box opens under the key, nonce and
associated data it was made with. A base-32 character is its digit and how it is
written. The VOPRF runs in a cyclic group of prime order. In `Formats` a `job` is
one trip: a record sealed, kept by a store that may return parts of two, and
opened in a context at most one field away; a vault encoded and decoded; a key
printed and pasted; a field typed; a token blinded, evaluated and finalized.

### KeyDirectory

`publisher[p]` is an administrator's call, cut at its reads (latest epoch, highest
id, accounts) and its batch, `proof` a lookup cut between the epoch's row and its
leaves. The tree is recursive operators, the hash a constructor; where the
verifiable function puts an account in an epoch is drawn once per epoch.

### OfflineSnapshot

`origin` is the release deployed, `registration` the three workers, `cache` their
snapshots, `tab[t]` a page with the release it runs and the toast it shows. A page
awaits `register()` before it looks at its controller or listens to anything:
`listening` is where that stands, `changed` the changes of its controller it has not
been told of, `wasControlled` what it sampled when it began to listen (`Registered`),
and `missed` that a change was delivered before that, or to a page whose registration
failed (`UnheardChange`). What a
URL holds is a release. Install, activation, claims, fetches, eviction, repair,
verification, consent and the reloads are actions; `exposure` records a torn
snapshot, a claim of an older page and a worker replaced under a toast.

## 3. Runs and what they show

| run | instance and bounds | holds |
|---|---|---|
| `chain` | two tabs, two pushes, two saves, two unlocks, two addresses, two probes, one change of the factors, accounts up to date or not (`RotationsAlone`, `OldAccounts`, `PullsAlone`) | `InventoryNamesStoredBlob`, `ReuseHasCause`, `IndexIsRecorded` |
| `session` | two tabs from no account, or one tab over a vault of an old format whose factors change; two calls at a time, two salts, changes and data keys | `UnlockAlwaysWorks`, `KeyKeptUnlessOverlap`, `EnvelopeRecovers` |
| `restore` | two devices, three pushes, two roots, two changes of the root, two days, one other event (`OneStory`, `EnablesFirst`) | `AddressReuseHasCause`, `MarkedIsFound`, `PurgedUnlessRaced` |
| `store` | one tab with two edits and two of failed save, wipe, hiding, reload, sync; two tabs with one edit and one of wipe, reload, sync; two unlocks | `EditsSurviveLock`, `StaleTabIsWarned`; live: `AbandonedTabLocks`, `TabsLockTogether`, `EditReachesDisk` |
| `tokens` | two calls, two logins, batches of two, three key windows, one fault | `TokenWorksOnce`, `PoolIsOfThisSession`, `FailuresHaveReasons` |
| `accounts` | a device new or enrolled, six requests, two clock ticks, one retry, one fault | `EnrolledMatchesServer`, `OneSessionPerLogin`, `LogoutEndsLogin`; live: `DeviceSettles`; refines `AccountRegistry` (`ImplementsRegistry`) |
| `objects` | three tables, two ids, two handlers at a time, three days, one fault | `KeptWhileUsed`, `OrphanHasCause`, `LiveVaultKept`, `OverrunNeedsSweep` |
| `onboarding` | three keys, two passkeys, two salts, two provisionings, two departures, one fault | `OpensUnlessDisturbed`, `DoneMeansRecoverable` |
| `unlock` | two tabs, two vaults, two passkeys and a third of a restore (`ThirdPasskey`), one master password, two calls at a time, two attempts, one fault | `KitOpensVault`, `CacheIsUsersChoice`, `ShownIsStored`, `RightFactorsNeverBurn` |
| `page` | two items, two kinds; pairs of an editor, a copy, a deletion, the palette, a sync, a lock elsewhere, a resize (`Together`) | `SecretsDoNotStay`, `SavedDraftIsKept`, `ItemsChangeAsAsked` |
| `formats` | sizes, codes, keys and prefixes at their edges; two publishers and two epochs; two tabs and three releases (`SnapshotBound`) | `WhatIsWrittenIsRead`, `NothingShows`, `EpochsProve`, `NoTabLeftBehind`, `PinnedUntilConsent` |
| `save_rotate` | one tab, a save and a rotation | `RowAlwaysOpens` is *violated* |

Type invariants are stated in the modules; those of the eleven components of
section 4 are theorems.

The passing properties say what the code does guarantee. Where it does so only
in the absence of some overlap, that overlap is a named element of a history
variable (`exposure`, `excused`, `unwarned`, `raced`, `straddled`, `exposed`,
`past`), recorded by the action that makes it happen, and the property names the
exposures that matter. So a property also lists every way in which the promise
can fail, and a new one would be a counterexample.

*The finding.* `save_rotate`: a save between a rotation's transaction and its swap
of `vaultKey` seals the row under the old vault key, and the factors stored in
the account row no longer open the vault.

*Exposures of `InventoryChain`.* An index is drawn twice only after a second tab
wrote, a session started from a row another one had moved on (`"stale start"`), or
a pull took `latestIndex` back: it finds index 1, misses index 2 which another push
had already reserved, and assigns 1. The comments in `vault-session.ts` and
`blob-inventory.ts` say an address is never written twice. The row is behind a push
that is over (`unrecorded`) when the push could not write the row, when its tab went
away first, or when a rotation or an upgrading save wrote back a copy of the row
it had read before the push recorded its index.

*Of `VaultSession`.* `"change overlap"` marks a change of the factors that
overlapped a save, a pull or another change; `session` does not explore beyond it,
since every invariant of the run is conditional on its absence, and `save_rotate`
shows what lies there.

*Of `RestoreRecords`.* `"stale read"`, two pushes read the row before either
reserved; `"root changed"`, the root changed between a reservation and its upload;
`"re-enabled"`, a root was installed again on a day it had written, after its
reservation was forgotten; `"rewound"`, a rotation wrote back a row it had read
before a reservation or a change of root; `"overlooked"` and `"old device"`, a
restore did not see the last address used, or the old device wrote on;
`"crossed mark"`, the reply to an upload set the marker of a later reservation, of a
purged record, or of one that the root has a later record of; `"torn purge"`, a reload
stopped a purge half way; `"purged elsewhere"`, a purge deleted another device's
record. The last three excuse `MarkedIsFound` alone. The last is how a device loses its
only record without a race: the old device reserves an address and locks before it
builds the record, a device restored since takes that very address, and when the old
device gives the Recovery Password up its purge deletes what is there, since all devices of an account derive the same
addresses and `restorePointers` lists what was reserved and not what was written. `PurgedUnlessRaced` is excused by a rewound row, record
by record by a push in flight (`raced`) or a DELETE that failed (`missed`), and for
days older than `RetainDays`, whose coordinates `reserveRestorePointer` drops from
the row, so that no purge knows them.

*Of `VaultStore`.* An edit that a lock clears may be missing from the row because
it was made while another tab's lock was honoured (`"late"`: the page of a peer
lock shows no splash screen), its save failed and nothing tries again
(`"failed"`), an overlapping persist ended first and cleared `inflightPersist`, so
that the lock did not wait (`"untracked"`), or the database was wiped; one that
never reaches it may also have been replaced by an adopted pull (`"promoted"`) or
have gone with its tab (`"gone"`). A tab may be stale without a banner because it
read the row before its passkey prompt and subscribed after it (`"read early"`),
an adopted pull cleared the banner (`"cleared"`), a save of its own crossed such a
pull (`"own save"`), or the sender died after its write or its promoted pull and
before its message (`"sender gone"`).
`AbandonedTabLocks` excepts a tab whose lock button was pressed just before the
page was hidden (`Stuck`): no animation frame comes, and the timers call
`lockVault`, which returns because `locking` is set.

*Of the server.* `straddled` tokens were checked in one key window and spent in a
later one, after the sweep of spent rows. `raced` logins had two KE3 requests, two
rotations, or a rotation and a logout past their reads at once. `exposed` objects
were swept or deleted while a request for them was between its two statements, or
lost a statement to a fault. `crossed` windows of the limiter were cleaned up under
a request: the counter goes one second after its window ends.

*Of the pages.* In `Onboarding`, a confirmed key that was generated again, a step
left while it ran, a passkey that answered late. In `UnlockPages`, a row that
changed between the read of a call and its write, or a call that went on with the
keys of a vault deleted since, a key nobody checked that was
confirmed (the first master password of an account asks for the Secret Key and
compares it with nothing), a tab that wiped the database and kept its keys. In
`VaultPage`, an item put back by a promotion or a save that ended after the lock.
In `OfflineSnapshot`, a torn snapshot, a page older than the first worker that
claimed it, a worker replaced under its toast, a change of controllers that reached a
page before it listened (`missed`).

*Seen while modelling, without a run of its own.* The comment of
`updateAccountSyncState` says "`inventoryIndex` only ever moves forward"; that holds
of the function and not of the row, which `rotateAuth` and a save that upgrades the
format or backfills the seed put back as they read it. `pwa.svelte.ts` says that on a
takeover "every previously controlled tab must reload"; a tab that is awaiting its
registration while another tab applies an update is not told, samples
`wasControlled` afterwards, and stays on its old chunks until the next update. The
other way round, a first claim delivered to a page that sampled `wasControlled` after
it reloads the page, although it "must NOT reload". Disabling restore and enabling
it again with the same password on the same day writes slot 0 a second time,
although `restore-record.ts` says "without ever rewriting an address". When the
upload of a day's first record fails, the next one lands in slot 1 and is marked as
written, and discovery stops at the empty slot 0. A lock between the transaction
and the assignment of `installRestoreRoot` leaves the root in the memory of a
locked session until the next unlock replaces it. A pull that starts before the
session's own push has landed can find it and write it over a newer save, although
`promoteRemoteBlob` takes the remote for strictly newer. A lock during a rotation
leaves a session with a vault key and no data key, and the next save would mint a
second one. The banner a wipe sets is cleared by the lock the same message starts.
Leaving the wizard while it provisions zeroes the salt the run still needs. The
comment of `rotateAuth` says it "generates a fresh AES key"; the code keeps the
data key, as its later comments say, and `KeyKeptUnlessOverlap` and
`EnvelopeRecovers` state what the code does.

*Bounds.* Each is a constant declared as a bound in its module, or a constraint in
the MC module. Two pushes are enough for two of them to meet at an address, a third
lets an old device go on after the new one has published; two tabs for a session to
be stale; two probes for the loop to go round and to stop at its limit; two salts,
changes, keys, vaults or passkeys for the old one to be told from the new one; two
calls or handlers for every pairwise overlap; six requests for a registration of
two round trips, a login of two and its retry, or a login, an introspection with a
copy, and a logout; three windows or days for one to be past. `ScanDays`,
`ScanSlots`, `RetainDays`, `Every`, `Batch`, `LowWater`, `Limit`, `MAX_ATTEMPTS`
and `AKD_EPOCH_CADENCE` are constants of the code, made small; of these the scan
of restore records and its retention are not reached by `restore`; its three
properties are proved for any of them.
`RotationsAlone`, `OldAccounts`, `PullsAlone`,
`OneStory`, `EnablesFirst`, `ChangesOfOldAccounts`, `SecondVault`, `ThirdPasskey`,
`Together` and `SnapshotBound` keep apart happenings whose product is too large; each is stated where it is
defined. `MCStories` does the same for `VaultStore` from the initial state, since
a constraint would cut fair behaviours. Symmetry is used only in runs without
liveness.

*Deadlock.* All runs but `formats` set `CHECK_DEADLOCK FALSE`: the counters are
bounded, and a device or a user who stops is a legal end. `formats` is checked for
deadlock: its trips return to idle.

*Fairness.* `VaultStore` has `EventLoop`: weak fairness of the persist timer, of the
answers of the database, of the continuations of `lock`, of the delivery of a
message and of an animation frame, which is enabled only while the page is
visible. The event loop gives these as long as the tab is open; a tab that is
closed takes `Reload`. Nothing is assumed of the user, nor of the server: a pull
may stay without an answer. `AbandonedTabLocks` assumes `LeftAlone` besides, weak
fairness of the idle and hidden timers, and with it that the user ends up leaving:
activity puts the idle timer off and leaves no trace in the state. `OpaqueServer`
has weak fairness of every handler, which runs to its end, and of the device's
going on with an answer it has and with a rotation it has begun; nothing is assumed
of a body that stalls or of a request that is lost.

## 4. Proofs

`InventoryChain_proofs` proves, for every number of tabs and pushes and every
value of the bounds:

| theorem | statement |
|---|---|
| `TypeCorrect` | `Spec => []TypeOK` |
| `IndexesAreRecorded` | `Spec => []IndexIsRecorded` |
| `InventoriesReadable` | `Spec => []InventoryNamesStoredBlob` |
| `ReuseNeedsExposure` | `Spec => []ReuseHasCause` |
| `PersistedIndexDrawn` | `Spec => []PersistedIndexWasDrawn` |

The assumptions are those of the module: the bounds are naturals, with at least
one address and one probe, and `NoPush` and `NoTab` are not a push and not a tab.

The argument. `TypeOK` includes `CallsBound` (a call in flight knows its tab and
a pull past its fetch knows its blob), without which the continuation of a push
would not be well typed. `InventoryNamesStoredBlob` is not inductive: the
strengthening says that a push past its blob upload has its blob stored, and that
an inventory request on the wire belongs to such a push. `ReuseHasCause` needs an
invariant that bounds every reserved index by the position of the one open
session while no exposure has happened; `PersistedIndexWasDrawn` one that follows
the index through every variable it is copied to (sessions, frames of pulls, saves and
rotations). `IndexIsRecorded` speaks of the row, and a row can be written from a copy:
`RecordInv` says the same of every copy that will be written back, with the pushes
recorded since it was read (`missed`) excused as well, which the write makes
`unrecorded`. That a call in flight has not drawn its index before its blob was stored
comes from the invariant of `ReuseNeedsExposure`.

`OpaqueServer_proofs` proves, for any number of requests, retries, clock ticks and
faults, any lifetime of a session and any of the faults:

| theorem | statement |
|---|---|
| `TypeCorrect` | `Spec => []TypeOK` |
| `EnrolledMatches` | `Spec => []EnrolledMatchesServer` |
| `OneSession` | `Spec => []OneSessionPerLogin` |
| `LogoutEnds` | `Spec => []LogoutEndsLogin` |
| `Implements` | `Spec => ImplementsRegistry`: the tables implement `AccountRegistry` |
| `SweepInvisible` | `Spec => SweepIsInvisible` |

The only assumption is `OpaqueAssumption`: the bounds are naturals, and the faults
and starts are among those the module names.

The argument. Every step is one of three shapes: a handler moves one request that
is not yet served (`Handled`), the device appends requests after the last one
(`Appended`), or the clock and the sweep leave requests and device alone
(`HouseStep`). Each invariant is proved against these shapes, and the lemma
`Steps` says that there are no others. The inductive invariant comes in layers:

* `TypeInv`: `TypeOK`, and that the device waits for a request that was sent, of
  the kind its state needs. Without it the answer the device reads is not one of
  its own.
* `EnrolInv`: the server's record is that of a registration whose request was
  answered `"ok"` (`RegistrationStands`), and what the device holds of it is what
  the server has (`DeviceMatches`), from the answer on and not only when it is
  written to disk.
* `TokenInv`: handlers and rows refer only to tokens that were drawn.
* `LoginInv`: two places that stand for one login (a pending row, a handler past
  its read, a session) are the same place unless the login is `raced`
  (`LoginsApart`, `InOnePlace`). `OneSessionPerLogin` speaks of sessions only, and
  is lost as soon as a handler carries the login between two rows.

`Implements` maps `issued` to the tokens whose insert has been made and `account`
to itself; each statement of a handler is a step of the registry or a stutter
(`StepRegistry`), by `IssuedMoves` and `AccountWrites`.

A second part of the module shares nothing with the first and proves of `Onboarding`,
for any keys, passkeys, salts, provisionings, leaves and failures:

| theorem | statement |
|---|---|
| `SetupTyped` | `SetupSpec => []SetupTypeOK` |
| `SetupOpens` | `SetupSpec => []OpensUnlessDisturbed` |
| `DoneIsRecoverable` | `SetupSpec => []DoneMeansRecoverable` |

The only assumption is `OnboardingAssumption`: the bounds are naturals, and there is a
setting of the sync switch to begin with.

The argument follows a run of `runProvision` through its awaits. A step is taken
beside every run and edits the store (`EditKeeps`) or does not (`AsideKeeps`), leaves
the step of a run (`TurnKeeps`), or is one stretch of a run (`OnwardKeeps`):

* `SetupTypeInv`: well typed, and `WipedOK`: no buffer that was filled with zeros is in
  the store. A buffer is wiped when its place in the store is taken by another, and
  the runs that still hold it read zeros from then on.
* `GoingInv`, `ConfirmedInv`: one provisioning is under way at a time, on its own step,
  and a confirmed key is one the user keeps, unless a step was left while it ran or a
  confirmed key was generated again.
* `KeyInv`, `PasskeyInv`: at each await, what a run has gathered is what the store
  holds, and what it has written is that too. Both properties speak of the end of a
  run, and its pieces are read at different awaits.
* `BoundInv`: while a vault is still to be made, the passkey in the store was
  evaluated at the salt in the store, unless a passkey answered late.

`AnonTokens_proofs` proves, for any calls, batches, logins, key windows and faults:

| theorem | statement |
|---|---|
| `TypeCorrect` | `Spec => []TypeOK` |
| `TokenOnce` | `Spec => []TokenWorksOnce` |
| `PoolOfSession` | `Spec => []PoolIsOfThisSession` |
| `FailuresExplained` | `Spec => []FailuresHaveReasons` |

The only assumption is `TokenAssumption`: the bounds are naturals, a batch is not
empty, and the calls are finitely many (each may cost one batch more than
`MaxBatches`, which `TypeInv` counts).

The argument. The client's actions are few shapes (a call takes, waits, sends, ends,
or all who wait are woken), and each layer is proved against those:

* `RedeemInv`: a token that was let through is spent until its key window has
  closed (`PassedIsSpent`), and a redemption past its check had a window that was
  open when it made it (`Checked`). `TokenWorksOnce` alone is lost when a row is
  swept between the check and the insert of another request.
* `PoolInv`: a batch asked for in the present generation has its session, so that
  what it adds is of this session (`PoolMoves`).
* `CallInv`: a refused token was let through before or is out of its window
  (`RefusalHasCause`); a call waits for the request it sent last, with the token it
  took (`WireMatches`); a retry takes no token of a batch older than the pool it
  dropped (`RetriesAfresh`); a call that is ready has a token, a reason or no
  session, and no other is ready beside it (`GoesOn`).

`ObjectStore_proofs` proves, for any handlers at a time, requests, faults, limits,
batch of victims, days and windows:

| theorem | statement |
|---|---|
| `TypeCorrect` | `Spec => []TypeOK` |
| `UsedIsKept` | `Spec => []KeptWhileUsed` |
| `OrphansExplained` | `Spec => []OrphanHasCause` |
| `VaultKept` | `Spec => []LiveVaultKept` |
| `LimitHolds` | `Spec => []OverrunNeedsSweep` |

The only assumption is `StoreAssumption`: the bounds are naturals, the handlers in
flight are finitely many and at least one, the routes of blobs and inventories exist, and there is a
name for every push there is time for (one every two ticks, `IdsInv`).

The argument, in four parts that are inductive together (`IInv`):

* `TypeInv`: the owner's push is the only request of its name and goes on while
  `owner.pc` says so (`MineInv`); the sweep has victims exactly while it deletes,
  which a `CHOOSE` of the first needs to be one of them (`SweepInv`).
* `CountInv`: as long as the cleanup has not crossed a window, what was admitted and
  what is about to check together do not exceed the counter, or the window is over
  for every request. `OverrunNeedsSweep` is not inductive without the requests
  that are between their two statements.
* `KeysInv`, for every key that is not exposed: a request between its object and its
  row found or wrote the object, and is alone there; a delete has taken it; a
  victim of the sweep was last used more than `MaxAge` ago (`Old`), because its row
  is never older than its last use; what is not `Old` is stored. `KeptWhileUsed`
  and `OrphanHasCause` follow.
* `PushInv`: the vault was used on the day its push landed, the owner is never more
  than one tick from the last unlock, and that never more than one from the last
  push. So the vault is not `Old`, and `LiveVaultKept` follows from `KeysInv`.

A second part of the module shares nothing with the first and proves of
`OfflineSnapshot`, for any tabs, releases and evictions:

| theorem | statement |
|---|---|
| `SnapshotTyped` | `SnapshotSpec => []SnapshotInv`, the typing and the invariants below |
| `TabsFollowTheirWorker` | `SnapshotSpec => []NoTabLeftBehind` |
| `TabsChangeByConsent` | `SnapshotSpec => PinnedUntilConsent` |

The only assumption is `ReleaseAssumption`: there is a release, and the bound on the
evictions is a natural.

The argument. Of all the files of a snapshot only the shell's URL matters: a page is of
the release of the shell its worker answers with. `ControlInv` says which tabs know
of a change of controllers; `ShellInv` that a cache that was not torn holds the
shell of its own worker; `FollowInv` that a controlled tab whose reload is not due, and that missed no
change, has the page of the active worker, where a tab that listened before its first
claim is not to reload for it and any other is to reload for each change
(`NotOwed`); `ConsentInv` that what was consented to is what a
toast named; `AgreedInv` that a controlled tab has the active worker's page or the
active worker was agreed to. The last is what makes `PinnedUntilConsent` hold: the step
that loads a page is not the one that activated its worker. Most steps
leave every page as it is or load it anew (`Steady`); an activation, and a tab that
begins to listen, gives up or hears of a change without a reload (`Watches`), have
lemmas of their own. The caches are merged with `PutAll`,
written out since the prover has no definition of the `@@` of module `TLC`.

`VaultSession_proofs` proves, for any tabs, calls in flight, formats found at the
start, salts, changes of the factors and data keys:

| theorem | statement |
|---|---|
| `TypeCorrect` | `Spec => []TypeOK` |
| `UnlockWorks` | `Spec => []UnlockAlwaysWorks` |
| `SessionsWork` | `Spec => []SessionsOpenRow`: an unlocked tab holds the vault key of the row |
| `KeyKept` | `Spec => []KeyKeptUnlessOverlap` |
| `EnvelopeOpens` | `Spec => []EnvelopeRecovers` |

The assumptions are those of the module: the bounds are naturals, with a salt and a
data key at least, the formats found are formats, and `NoTab` is not a tab. The
run's constraints (`Bounded`, `ChangesOfOldAccounts`) are not assumed: the theorems
hold for accounts of every format and with the factors of any of them changing.

The argument. `UnlockAlwaysWorks` speaks of two rows, but a write is made of what a
call read and derived before, so the invariant follows the keys through the tabs and
the frames of the calls. A step begins a call (`Begun`), ends one (`Ended`), moves one
and leaves the account as it is (`Stepped`), rewrites the account (`Rewrites`), or
ends a session, a tab or an account; the invariant has three layers, each proved
against those shapes:

* `TypeInv`: `TypeOK`, and that only a save or a rebind that waits for its row shares
  the buffer of its tab's data key.
* `KekInv`, while no change has overlapped: the account row's factors open the vault
  row; an unlocked tab has their vault key, or a rotation of that tab has written and
  not yet swapped it (`Rotating`); a call that has not written has read the present
  account row; without an account no tab has keys and no call but a provisioning is in
  flight. The last is what keeps a provisioning from meeting a session of the account
  before.
* `DataInv`, while nothing has overlapped: tabs, rows and frames hold the account's
  data key or none. A tab may lack it only while an upgrading save mints it
  (`Minting`); a row under the present salt, the server's copy and one a call read
  included, holds it (`Known`); and every salt in a row or an envelope has been drawn,
  so that a rebind makes all of them old.

`Alone` is what the history variable is for: a rotation, a rebind or an upgrading
save without `"change overlap"` is the only call in flight and its tab the only one
with keys.

`RestoreRecords_proofs` proves, for any devices, roots, finitely many pushes, days,
scan and retention windows, slots, calls and events:

| theorem | statement |
|---|---|
| `TypeCorrect` | `Spec => []TypeOK` |
| `OldRecordsPurged` | `Spec => []PurgedUnlessRaced` |
| `AddressesTakenOnce` | `Spec => []AddressReuseHasCause` |
| `MarkedRecordsAreFound` | `Spec => []MarkedIsFound` |

The only assumption is `RestoreAssumption`: the bounds are naturals, the pushes are
finitely many (`writtenAt` counts them), the first device is one of the devices, and
the three names for nothing name nothing. The run's constraints (`OneStory`,
`EnablesFirst`) are not assumed, so changes of the password may cross adoptions and
each other on every device.

The argument. Each action has a lemma that says what it leaves of the row, the push
and the call it is about (`ReserveIs`, `WrapIs`, ...), and the invariant has four
layers, each proved against those:

* `TypeInv`: a device without an account row has nothing running (`Absent`), a call
  holds the roots its step needs (`CallOK`), and a record that is built or can arrive
  has a root and a device (`PushOK`).
* `PurgeInv`: a push that no change of root overlapped flies only while its device's
  call is idle or at its last await (`FlightOK`); while no rotation rewound the row,
  root, row and call agree on the root at every step of a change (`RootOK`), and a
  record that can be stored is under the account's root, at a coordinate the row
  tracks and a purge still has to delete (`TrackedOK`). `PurgedUnlessRaced` speaks of
  stored records and roots, and is lost without the requests that are still to arrive
  and the coordinates that are still to be deleted.
* `ReuseInv`, while none of the causes happened: whatever slot a device can take next
  (today, or for a push that has read the row) lies above every slot taken under the
  row's root, by itself and, while only it can write, by any device (`FreshOK`); the
  device that has just adopted starts from a coordinate above all it did not overlook
  (`AdoptedOK`); and two records of one address are of two devices (`ApartOK`). It
  rests on `RootOK`: a root is wrapped over itself or over none.
* `MarkInv`: a row that says its last record landed stands for one record (`IsMark`):
  at the row's address, stored unless its own device is deleting it, and older than
  every record of that root at a later coordinate; a device numbers its pushes once
  until a rebind, which ends its enrolment (`IndexOK`); and records are numbered as
  they are built (`CountOK`), so that one built later is newer. It rests on `ReuseInv`:
  what would replace a stored record is a record of the same address. The search takes
  the last day with a record and its newest record by `CHOOSE`; that both exist is
  `Maximum`, a bounded set of naturals has one, which is proved from the library's
  pigeonhole principle since induction over the bound is out of reach.

`MarkedIsFound` was false beyond the bounds of its run: the attempt to prove it found
the purge of another device's record described in section 3, and a reply that marks a
row behind a later record of its root (a push stalled while restore was disabled and
enabled again). Both are exposures now; the model's steps are what they were.

`VaultStore_proofs` proves, for any tabs, edits, stories of any happenings, unlocks
and one or two copies of a message:

| theorem | statement |
|---|---|
| `TypeCorrect` | `Spec => []TypeOK` |
| `NoEditLostByLock` | `Spec => []EditsSurviveLock` |
| `StaleTabsAreWarned` | `Spec => []StaleTabIsWarned` |

The only assumption is `StoreAssumption`: stories are of tabs, edits and happenings
that exist, the bounds are naturals, and `NoEdit` and `Remote` are not edits.

The argument. Most actions have one of two shapes: a *calm* step leaves alone what
edits hold on to (`Calm`), a *flush* starts the queued persist and nothing else
(`Flushes`: the timer, a manual sync, every way into a lock); both take no warning
away (`Told`). The others (an unlock, an edit, the steps of a persist, an adopted
pull, a teardown, a reload) have a lemma each. The invariant has three parts:

* `TypeInv`: `TypeOK`; an edit is of one tab, so that a step of one tab leaves the
  persists of the others alone (`OwnOK`), and a timer names a persist that has not
  started (`TimerOK`).
* `EditInv`: an edit of a tab that has not been in the row, and that nothing excuses,
  is to be written: by the timer, or by the persist a flush would wait for; and a lock
  that has flushed waits for a persist that carries it (`HeldOK`). `EditsSurviveLock`
  speaks of edits that are gone already. When `inflightPersist` is cleared by the end
  of one persist, the edits of the others are excused at that very step, which is
  what the reason `"untracked"` is for. Rows, read by an unlock that is still at its
  prompt included, hold only edits that have been saved (`ReadOK`).
* `WarnedOK` is `StaleTabIsWarned` for one tab. It is inductive over `TypeInv`: a
  write is announced by the frame of its own persist until its message is posted, a
  promoted pull by the sync that has to adopt it, and a message posted reaches every
  open tab.

`UnlockPages_proofs` proves, for any tabs, vaults, passkeys, master passwords, attempts,
calls and faults:

| theorem | statement |
|---|---|
| `TypeCorrect` | `Spec => []TypeOK` |
| `RowsOpenWithTheKit` | `Spec => []KitOpensVault` |
| `TabsShowTheVaultThereIs` | `Spec => []ShownIsStored` |
| `QuickUnlockIsWanted` | `Spec => []CacheIsUsersChoice` |
| `RightFactorsAreFree` | `Spec => RightFactorsNeverBurn` |

The only assumption is `BoundsAssumption`: the bounds are naturals, with a vault, a
passkey and an attempt at least. The run's `SecondVault` and `ThirdPasskey` are not
assumed.

The argument, in three parts:

* `TypeInv`: `TypeOK`; what a call has gathered by the time it is where it is
  (`CallOK`); and a call that is still answered to belongs to the page that made it,
  which waits for it with attempts left (`LiveOK`). `RightFactorsNeverBurn` follows
  step by step: a call at its opening has the stretched password and the login of the
  row its page copied, so with the right key and passkey it derives the key of that
  row.
* `CacheInv`: a cached key is wanted, and there is an account to go with it. The second
  half is what makes the first inductive, since a restore begins with `wish.quick`
  off and leaves the cache as it is.
* `CleanInv`, while no coincidence has happened: the rows are of the kit's vault, and an
  envelope that names the row's passkey holds its key (`Kit`). A recovery or a restore
  in flight brings a binding that no row, envelope or other call has (`Fresh`), because
  a passkey is registered once (`Known`). So when a recovery writes and the row still
  names the binding it began with, the row has not changed hands, and neither have the
  keys of its tab (`Rewire`): a check of one field by the code stands for the whole
  row. A tab with items on the screen has the keys of the vault there is, or the news
  of a wipe is on its way (`Shown`); a master password set while its tab locks leaves
  that tab keys without items, so the keys alone would not do.

The proof changed the model in one place. A recovery or a restore that re-seals the
envelope after its vault was wiped and another one made used a key of a vault gone,
which takes more passkeys than the run registers; the history records it now
(`Recovered`, `Settled`), as a row that changed under a call.

The second part of `UnlockPages_proofs`, which shares no state with the first, is about
the page of the unlocked vault, for any items, kinds of item and happenings:

| theorem | statement |
|---|---|
| `PageTyped` | `PageSpec => []PageTypeOK` |
| `SecretsAreGone` | `PageSpec => []SecretsDoNotStay` |
| `DraftsLand` | `PageSpec => []SavedDraftIsKept` |
| `ItemsAreKept` | `PageSpec => ItemsChangeAsAsked` |

The only assumption is `PageAssumption`: there is an id, logins are among the kinds in
use (the small screen offers them first), and the cap holds one item. The run's
`Together` and `Bounded`, which keep most happenings apart, are not assumed.

The argument. Every step is one of seven kinds (`PageStep`), of which `ItemsStep` alone
writes the items, and every change of the detail pane goes through `Show`: lemma
`ShowIs` says once what its effects hide. The invariant `PageInv` has a part for each
piece of state. Two of them say more than the properties:

* `ItemsInv`: no two items have one id, neither in the store nor in what a sync has
  found and not yet adopted. Without the second half a promotion breaks the first, and
  with two items of one id a deletion would take both.
* `DraftInv`: the item an open editor was opened on is in the store, or it has gone
  under the editor. `SavedDraftIsKept` speaks only of the moment after a save; this is
  what makes that save find its item.

The model lost a filter for it: `Without` takes an item out by its place, which is the
same while ids are distinct, and `SelectSeq` is recursive.

*Only model-checked.* `EpochsProve` of `KeyDirectory`, whose tree is recursive, and the
trips of `Formats`, whose codes and buckets are.

*Out of the prover's reach.* Liveness under fairness (`DeviceSettles`,
`AbandonedTabLocks`, `TabsLockTogether`, `EditReachesDisk`) and `ENABLED`. What a
recursive definition computes for every input: the tree of `KeyDirectory`, the codes
and buckets of `TextCodes` and `SealedRecords`, the group of `Voprf`, which TLC
checks over bounded inputs through `formats`.

## 5. Plan

Every part of the system that carries state is modelled, and every safety property
whose definitions are not recursive is proved. What is left: a run with more than two
days and a record beyond the scan for `RestoreRecords`. The theorems cover it; a
missing exposure would be cheaper to find there.

## 6. Not modelled, and why

Cryptographic primitives (Argon2, WebAuthn PRF, AES-GCM, the group and hashes of
OPAQUE, the VRF) are opaque: a key opens what was sealed under it and nothing else.
Password generation beyond its unbiased choices, the strength estimate, the scoring
of searches and of health, presentation, landing pages, themes and the mobile shell's
layout carry no protocol state. Build scripts, migrations and workflows are not part
of the running system.

## 7. Running

    tlc -workers 2 -config chain.cfg MCInventoryChain
    tlc -workers 2 -config session.cfg MCVaultSession
    tlc -workers 2 -config save_rotate.cfg MCVaultSession
    tlc -workers 2 -config restore.cfg MCRestoreRecords
    tlc -workers 2 -config store.cfg MCVaultStore
    tlc -workers 2 -config tokens.cfg AnonTokens
    tlc -workers 2 -config accounts.cfg OpaqueServer
    tlc -workers 2 -config objects.cfg ObjectStore
    tlc -workers 2 -config onboarding.cfg Onboarding
    tlc -workers 2 -config unlock.cfg MCUnlockPages
    tlc -workers 2 -config page.cfg MCVaultPage
    tlc -workers 2 -config formats.cfg MCFormats
    tlapm InventoryChain_proofs.tla
    tlapm OpaqueServer_proofs.tla
    tlapm AnonTokens_proofs.tla
    tlapm ObjectStore_proofs.tla
    tlapm VaultSession_proofs.tla
    tlapm RestoreRecords_proofs.tla
    tlapm VaultStore_proofs.tla
    tlapm UnlockPages_proofs.tla
