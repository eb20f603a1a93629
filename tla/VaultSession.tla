---------------------------- MODULE VaultSession ----------------------------
(***************************************************************************)
(* The keys of a vault: vault-session.ts over the account and vault rows   *)
(* of storage.ts.                                                          *)
(*                                                                         *)
(* A vault key (KEK) is derived from the device salt and passkey, and from *)
(* the master password and OPAQUE factors if enabled; it wraps a random    *)
(* data key, kept in the header of the vault row, that seals the items.    *)
(* The row also authenticates the account's salt and format version.  Each *)
(* tab keeps its vault key and its data key in module variables; the rows  *)
(* are shared by all tabs, and every exported function is asynchronous and *)
(* is cut here at its awaits.                                              *)
(*                                                                         *)
(* Abstractions.  A device salt stands for the salt and the passkey bound  *)
(* to it; a factor is the number of the change that set it, 0 if disabled. *)
(* IndexedDB runs overlapping transactions in the order they were issued,  *)
(* so a read or write of a row takes effect when it is issued and only the *)
(* continuation is later.  The items themselves are left out (a row is     *)
(* what can be opened, and with which keys), and so is the missing account *)
(* seed, which saveItems repairs by the path of a format upgrade.          *)
(***************************************************************************)
EXTENDS Integers

CONSTANTS
  Tabs,        \* browser tabs of the profile
  NoTab,       \* the tab of a call that is not in use
  Calls,       \* identities of the asynchronous calls in flight
  OldFormats,  \* formats of the accounts found at the start, 0 for none
  MaxSalts,    \* bound: device salts drawn (provisioning and rebinding)
  MaxChanges,  \* bound: changes of the master password and OPAQUE factors
  MaxKeys      \* bound: data keys minted

ASSUME BoundsAssumption ==
  /\ OldFormats \subseteq 0 .. 3
  /\ MaxSalts \in Nat \ {0}
  /\ MaxChanges \in Nat
  /\ MaxKeys \in Nat \ {0}

ASSUME NoTabAssumption == NoTab \notin Tabs

VARIABLES
  account,   \* account row: salt, factors, format
  vault,     \* vault row
  envelope,  \* recovery envelope row
  remote,    \* a vault row on the sync server that a pull can find
  tab,       \* per tab: vaultKey and aesKey
  call,      \* the calls in flight
  salts,     \* device salts drawn so far
  changes,   \* factor changes so far
  keys,      \* data keys minted so far
  dataKey,   \* history: the data key the present account was given
  exposure   \* history: kinds of overlap that have happened

vars == <<account, vault, envelope, remote, tab, call, salts, changes, keys,
          dataKey, exposure>>
counters == <<salts, changes, keys>>

Salt == 0 .. MaxSalts        \* 0 for none
Factor == 0 .. MaxChanges    \* 0 for disabled
Format == 0 .. 3             \* 0 for no row
Zeroed == -1                 \* a data key whose buffer was filled with zeros
DataKey == Zeroed .. MaxKeys \* 0 for null

CurrentFormat == 3           \* PROVISION_FORMAT_VERSION

Exposures == {"change overlap", "lock during a change", "zeroed under a save"}

Kek == [salt: Salt, mp: Factor, op: Factor]
Account == [salt: Salt, mp: Factor, op: Factor, format: Format]
Row == [kek: Kek, salt: Salt, format: Format, dk: DataKey]
Envelope == [salt: Salt, dk: DataKey]
Tab == [vk: Kek, dk: DataKey]

NoKek == [salt |-> 0, mp |-> 0, op |-> 0]
NoAccount == [salt |-> 0, mp |-> 0, op |-> 0, format |-> 0]
NoRow == [kek |-> NoKek, salt |-> 0, format |-> 0, dk |-> 0]
NoEnvelope == [salt |-> 0, dk |-> 0]
LockedTab == [vk |-> NoKek, dk |-> 0]

Call == [kind: {"none", "open", "recover", "save", "sync", "rotate", "rebind",
                "provision", "envelope"},
         pc: {"account", "row", "after"},
         tab: Tabs \cup {NoTab},
         acct: Account,     \* the account row it read
         row: Row,          \* the vault row it read or wrote
         env: Envelope,     \* the recovery envelope it was given
         next: Account,     \* the account row it will write
         kek: Kek,          \* the vault key it derived
         dk: DataKey,       \* the data key it holds a reference to
         shared: BOOLEAN]   \* that reference is the tab's aesKey buffer

TypeOK ==
  /\ account \in Account
  /\ vault \in Row
  /\ envelope \in Envelope
  /\ remote \in Row
  /\ tab \in [Tabs -> Tab]
  /\ call \in [Calls -> Call]
  /\ salts \in Salt
  /\ changes \in Factor
  /\ keys \in 0 .. MaxKeys
  /\ dataKey \in 0 .. MaxKeys
  /\ exposure \in SUBSET Exposures
  /\ \A c \in Calls : call[c].shared => call[c].dk = tab[call[c].tab].dk

-----------------------------------------------------------------------------
(* Keys and rows.                                                          *)

KekOf(a) == [salt |-> a.salt, mp |-> a.mp, op |-> a.op]

(* makeAad binds the salt and the format version of the account.           *)
AadMatches(a, row) == row.salt = a.salt /\ row.format = a.format

(* deserializeWrappedKey, unwrapAesKey and openBlob, under a vault key.    *)
OpensWith(a, kek, row) == row.format # 0 /\ row.kek = kek /\ AadMatches(a, row)

(* openBlob under a data key already at hand.                              *)
OpensWithData(a, dk, row) == row.format # 0 /\ row.dk = dk /\ AadMatches(a, row)

Sealed(kek, a, dk) == [kek |-> kek, salt |-> a.salt, format |-> CurrentFormat, dk |-> dk]

Unlocked(t) == tab[t].vk # NoKek
Active(c) == call[c].kind # "none"

FreeCall == [kind |-> "none", pc |-> "account", tab |-> NoTab,
             acct |-> NoAccount, row |-> NoRow, env |-> NoEnvelope,
             next |-> NoAccount, kek |-> NoKek, dk |-> 0, shared |-> FALSE]

(* A call that reads the account row first.                                *)
Begin(c, t, kind) ==
  /\ ~Active(c)
  /\ call' = [call EXCEPT ![c] = [FreeCall EXCEPT !.kind = kind, !.tab = t,
                                                !.acct = account]]

End(c) == call' = [call EXCEPT ![c] = FreeCall]

(* zeroize the buffer of tab t's data key: the calls of the tab that hold  *)
(* it now hold zeros.                                                      *)
ZeroShared(calls, t) ==
  [c \in Calls |-> IF calls[c].tab = t /\ calls[c].shared
                   THEN [calls[c] EXCEPT !.dk = Zeroed, !.shared = FALSE]
                   ELSE calls[c]]

(* Tab t gets another buffer for its data key and leaves the old one as it *)
(* is: the calls that hold the old one keep their key.                     *)
Released(calls, t) ==
  [c \in Calls |-> IF calls[c].tab = t THEN [calls[c] EXCEPT !.shared = FALSE] ELSE calls[c]]

-----------------------------------------------------------------------------
(* Overlaps.                                                               *)

(* Calls that change what opens the vault row of an account: the factors,  *)
(* the salt or the format.                                                 *)
Changes(c) ==
  \/ call[c].kind \in {"rotate", "rebind"}
  \/ call[c].kind = "save" /\ call[c].acct.format < CurrentFormat

(* Such a call runs while another call does, or while another tab has keys.*)
ChangeOverlap ==
  \E c \in Calls :
    /\ Changes(c)
    /\ \/ \E d \in Calls \ {c} : Active(d)
       \/ \E t \in Tabs \ {call[c].tab} : tab[t] # LockedTab

(* A save waits for its row while its data key has been filled with zeros, *)
(* by a lock or by the adoption of a pulled vault.                         *)
ZeroedSave == \E c \in Calls : call[c].kind = "save" /\ call[c].pc = "after" /\ call[c].dk = Zeroed

(* A tab is locked while a change of its own waits for its row: the change *)
(* goes on to install its vault key in the locked tab.                     *)
LockDuringChange(t) == \E c \in Calls : call[c].tab = t /\ Changes(c)

Note(seen) ==
  exposure' = exposure \cup seen
                       \cup (IF ChangeOverlap' THEN {"change overlap"} ELSE {})
                       \cup (IF ZeroedSave' THEN {"zeroed under a save"} ELSE {})

(* An account of an earlier build of the application, with its vault.  A   *)
(* factor may have been enabled since format 2.                            *)
FoundAccount(format, mp) == [NoAccount EXCEPT !.salt = 1, !.mp = mp, !.format = format]
FoundFactors(format) == IF format = 1 THEN {0} ELSE {0, 1} \cap Factor
FoundRow(a) == [kek |-> KekOf(a), salt |-> 1, format |-> a.format,
                dk |-> IF a.format = 1 THEN 0 ELSE 1]

Init ==
  /\ \/ /\ 0 \in OldFormats
        /\ account = NoAccount /\ vault = NoRow
        /\ salts = 0 /\ changes = 0 /\ dataKey = 0
     \/ /\ \E format \in OldFormats \ {0} : \E mp \in FoundFactors(format) :
             account = FoundAccount(format, mp)
        /\ vault = FoundRow(account)
        /\ salts = 1
        /\ changes = IF MaxChanges = 0 THEN 0 ELSE 1
        /\ dataKey = vault.dk
  /\ keys = dataKey
  /\ envelope = NoEnvelope
  /\ remote \in {NoRow, vault}
  /\ tab = [t \in Tabs |-> LockedTab]
  /\ call = [c \in Calls |-> FreeCall]
  /\ exposure = {}

-----------------------------------------------------------------------------
(* Calls that read the rows and end without a write: the row is missing,   *)
(* the keys are gone, a decryption fails, a transaction aborts, the user   *)
(* dismisses the passkey prompt.                                           *)
Fail(c) ==
  /\ Active(c)
  /\ call[c].pc # "after"
  /\ End(c)
  /\ UNCHANGED <<account, vault, envelope, remote, tab, counters, dataKey>>
  /\ Note({})

(* getVault, after getAccount: openVault, openVaultWithRecoveryEnvelope    *)
(* and rebindRecoveredVault.                                               *)
ReadRow(c) ==
  /\ call[c].kind \in {"open", "recover", "rebind"}
  /\ call[c].pc = "account"
  /\ vault # NoRow
  /\ call' = [call EXCEPT ![c].pc = "row", ![c].row = vault]
  /\ UNCHANGED <<account, vault, envelope, remote, tab, counters, dataKey>>
  /\ Note({})

-----------------------------------------------------------------------------
(* openVault.                                                              *)

(* The unlock page runs it in a locked tab.                                *)
BeginOpen(c, t) ==
  /\ tab[t] = LockedTab
  /\ account # NoAccount
  /\ Begin(c, t, "open")
  /\ UNCHANGED <<account, vault, envelope, remote, tab, counters, dataKey>>
  /\ Note({})

(* With the passkey's output the vault key of the account row read is      *)
(* derived; the keys are installed if it opens the vault row read.  A      *)
(* version 1 vault is sealed under the vault key itself.  A row whose last *)
(* push is old is pushed again.                                            *)
FinishOpen(c) ==
  /\ call[c].kind = "open"
  /\ call[c].pc = "row"
  /\ OpensWith(call[c].acct, KekOf(call[c].acct), call[c].row)
  /\ tab' = [tab EXCEPT ![call[c].tab] =
               [vk |-> KekOf(call[c].acct),
                dk |-> IF call[c].acct.format = 1 THEN 0 ELSE call[c].row.dk]]
  /\ call' = Released([call EXCEPT ![c] = FreeCall], call[c].tab)
  /\ \/ UNCHANGED remote
     \/ call[c].acct.format >= 2 /\ remote' = call[c].row
  /\ UNCHANGED <<account, vault, envelope, counters, dataKey>>
  /\ Note({})

-----------------------------------------------------------------------------
(* provisionVault.                                                         *)

(* The onboarding guard (hasAccount) has seen no account.                  *)
BeginProvision(c, t) ==
  /\ account = NoAccount
  /\ salts < MaxSalts
  /\ keys < MaxKeys
  /\ Begin(c, t, "provision")
  /\ UNCHANGED <<account, vault, envelope, remote, tab, counters, dataKey>>
  /\ Note({})

(* A version whose check for an account is made before the transaction.    *)
CommitProvisionMutant(c) ==
  /\ call[c].kind = "provision"
  /\ call[c].pc = "account"
  /\ call[c].acct = NoAccount
  /\ salts < MaxSalts
  /\ keys < MaxKeys
  /\ LET a == [NoAccount EXCEPT !.salt = salts + 1, !.format = CurrentFormat] IN
       /\ account' = a
       /\ vault' = Sealed(KekOf(a), a, keys + 1)
       /\ call' = [call EXCEPT ![c].pc = "after", ![c].kek = KekOf(a), ![c].dk = keys + 1]
  /\ salts' = salts + 1
  /\ keys' = keys + 1
  /\ dataKey' = keys + 1
  /\ UNCHANGED <<envelope, remote, tab, changes>>
  /\ Note({})

(* saveAccountAndVault checks for an account inside its transaction.       *)
CommitProvision(c) ==
  /\ call[c].kind = "provision"
  /\ call[c].pc = "account"
  /\ account = NoAccount
  /\ salts < MaxSalts
  /\ keys < MaxKeys
  /\ LET a == [NoAccount EXCEPT !.salt = salts + 1, !.format = CurrentFormat] IN
       /\ account' = a
       /\ vault' = Sealed(KekOf(a), a, keys + 1)
       /\ call' = [call EXCEPT ![c].pc = "after", ![c].kek = KekOf(a), ![c].dk = keys + 1]
  /\ salts' = salts + 1
  /\ keys' = keys + 1
  /\ dataKey' = keys + 1
  /\ UNCHANGED <<envelope, remote, tab, changes>>
  /\ Note({})

(* The keys become the tab's; a rebind also pushes the row it wrote.       *)
InstallKeys(c) ==
  /\ call[c].kind \in {"provision", "rebind"}
  /\ call[c].pc = "after"
  /\ tab' = [tab EXCEPT ![call[c].tab] = [vk |-> call[c].kek, dk |-> call[c].dk]]
  /\ \/ UNCHANGED remote
     \/ call[c].kind = "rebind" /\ remote' = call[c].row
  /\ call' = LET calls == [call EXCEPT ![c] = FreeCall] IN
             IF call[c].shared THEN calls ELSE Released(calls, call[c].tab)
  /\ UNCHANGED <<account, vault, envelope, counters, dataKey>>
  /\ Note({})

-----------------------------------------------------------------------------
(* saveItems.                                                              *)

BeginSave(c, t) ==
  /\ Unlocked(t)
  /\ account # NoAccount
  /\ Begin(c, t, "save")
  /\ UNCHANGED <<account, vault, envelope, remote, tab, counters, dataKey>>
  /\ Note({})

(* A version that mints a fresh data key with every format upgrade.        *)
SaveKeyMutant(c) ==
  IF tab[call[c].tab].dk = 0 \/ call[c].acct.format < CurrentFormat
  THEN keys + 1 ELSE tab[call[c].tab].dk

(* The data key in memory, or a fresh one when the vault has none yet.     *)
SaveKey(c) == IF tab[call[c].tab].dk = 0 THEN keys + 1 ELSE tab[call[c].tab].dk

(* The items are sealed with the keys the tab has by now and the account   *)
(* row read before; a format upgrade writes that row back.                 *)
CommitSave(c) ==
  LET t == call[c].tab
      a == call[c].acct
      dk == SaveKey(c)
      mint == dk > keys
  IN
  /\ call[c].kind = "save"
  /\ call[c].pc = "account"
  /\ Unlocked(t)
  /\ mint => keys < MaxKeys
  /\ vault' = Sealed(tab[t].vk, a, dk)
  /\ account' = IF a.format # CurrentFormat
                THEN [a EXCEPT !.format = CurrentFormat] ELSE account
  /\ keys' = IF mint THEN keys + 1 ELSE keys
  /\ dataKey' = IF mint /\ dataKey = 0 THEN dk ELSE dataKey
  /\ call' = [call EXCEPT ![c].pc = "after", ![c].dk = dk, ![c].shared = ~mint,
                          ![c].row = vault']
  /\ UNCHANGED <<envelope, remote, tab, salts, changes>>
  /\ Note({})

(* The row is written: aesKey is set to the key the save used, and the row *)
(* is pushed to the server if there is a session.                          *)
FinishSave(c) ==
  /\ call[c].kind = "save"
  /\ call[c].pc = "after"
  /\ tab' = [tab EXCEPT ![call[c].tab].dk = call[c].dk]
  /\ remote' \in {remote, call[c].row}
  /\ call' = LET calls == [call EXCEPT ![c] = FreeCall] IN
             IF call[c].shared THEN calls ELSE Released(calls, call[c].tab)
  /\ UNCHANGED <<account, vault, envelope, counters, dataKey>>
  /\ Note({})

-----------------------------------------------------------------------------
(* syncNow, with promoteRemoteBlob.  Which saves a pull can see is the     *)
(* matter of InventoryChain: here a pull finds the remote row or nothing.  *)

BeginSync(c, t) ==
  /\ Unlocked(t)
  /\ tab[t].dk # 0
  /\ account.format >= 2
  /\ Begin(c, t, "sync")
  /\ UNCHANGED <<account, vault, envelope, remote, tab, counters, dataKey>>
  /\ Note({})

(* The pulled row is opened with the tab's vault key and the account row   *)
(* read at the start; one that does not open is not adopted (Fail).        *)
CommitSync(c) ==
  /\ call[c].kind = "sync"
  /\ call[c].pc = "account"
  /\ OpensWith(call[c].acct, tab[call[c].tab].vk, remote)
  /\ vault' = remote
  /\ call' = [call EXCEPT ![c].pc = "after", ![c].dk = remote.dk]
  /\ UNCHANGED <<account, envelope, remote, tab, counters, dataKey>>
  /\ Note({})

(* Nothing newer on the server: the local row is pushed.                   *)
PushLocal(c) ==
  /\ call[c].kind = "sync"
  /\ call[c].pc = "account"
  /\ vault # NoRow
  /\ remote' = vault
  /\ End(c)
  /\ UNCHANGED <<account, vault, envelope, tab, counters, dataKey>>
  /\ Note({})

(* aesKey becomes the key of the adopted row; the buffer it had is zeroed. *)
FinishSync(c) ==
  /\ call[c].kind = "sync"
  /\ call[c].pc = "after"
  /\ tab' = [tab EXCEPT ![call[c].tab].dk = call[c].dk]
  /\ call' = ZeroShared([call EXCEPT ![c] = FreeCall], call[c].tab)
  /\ UNCHANGED <<account, vault, envelope, remote, counters, dataKey>>
  /\ Note({})

-----------------------------------------------------------------------------
(* rotateAuth.                                                             *)

BeginRotate(c, t) ==
  /\ Unlocked(t)
  /\ account # NoAccount
  /\ Begin(c, t, "rotate")
  /\ UNCHANGED <<account, vault, envelope, remote, tab, counters, dataKey>>
  /\ Note({})

(* Each factor is kept, switched off, or set anew.                         *)
Choice == {"keep", "off", "on"}

NextFactor(current, choice) ==
  IF choice = "keep" THEN current ELSE IF choice = "off" THEN 0 ELSE changes + 1

(* A version that does not insist on an enabled factor being supplied.     *)
RotationAllowedMutant(a, mp, op) == TRUE

(* An enabled factor must be given anew or switched off, since the vault   *)
(* key is derived from the factors supplied with this call.                *)
RotationAllowed(a, mp, op) ==
  /\ a.mp # 0 => mp # "keep"
  /\ a.op # 0 => op # "keep"

(* Changing an enabled factor takes the present ones, checked against the  *)
(* vault key in memory.                                                    *)
CurrentFactorsVerify(a, t) == (a.mp # 0 \/ a.op # 0) => tab[t].vk = KekOf(a)

DeriveRotation(c) ==
  LET t == call[c].tab
      a == call[c].acct
  IN
  /\ call[c].kind = "rotate"
  /\ call[c].pc = "account"
  /\ changes < MaxChanges
  /\ CurrentFactorsVerify(a, t)
  /\ vault # NoRow
  /\ \E mp, op \in Choice :
       /\ RotationAllowed(a, mp, op)
       /\ call' = [call EXCEPT
            ![c].pc = "row",
            ![c].row = vault,
            ![c].kek = [salt |-> a.salt,
                        mp |-> IF mp = "on" THEN changes + 1 ELSE 0,
                        op |-> IF op = "on" THEN changes + 1 ELSE 0],
            ![c].next = [salt |-> a.salt, mp |-> NextFactor(a.mp, mp),
                         op |-> NextFactor(a.op, op), format |-> CurrentFormat]]
  /\ changes' = changes + 1
  /\ UNCHANGED <<account, vault, envelope, remote, tab, salts, keys, dataKey>>
  /\ Note({})

(* A version that seals the rotated vault under a fresh data key.          *)
CommitRotationMutant(c) ==
  LET t == call[c].tab IN
  /\ call[c].kind = "rotate"
  /\ call[c].pc = "row"
  /\ tab[t].dk # 0
  /\ keys < MaxKeys
  /\ OpensWithData(call[c].acct, tab[t].dk, call[c].row)
  /\ account' = call[c].next
  /\ vault' = Sealed(call[c].kek, call[c].next, keys + 1)
  /\ keys' = keys + 1
  /\ call' = [call EXCEPT ![c].pc = "after"]
  /\ UNCHANGED <<envelope, remote, tab, salts, changes, dataKey>>
  /\ Note({})

(* The row read is opened with the data key in memory, wrapped and sealed  *)
(* anew under the new vault key, and written with the new account row.     *)
CommitRotation(c) ==
  LET t == call[c].tab IN
  /\ call[c].kind = "rotate"
  /\ call[c].pc = "row"
  /\ tab[t].dk # 0
  /\ OpensWithData(call[c].acct, tab[t].dk, call[c].row)
  /\ account' = call[c].next
  /\ vault' = Sealed(call[c].kek, call[c].next, tab[t].dk)
  /\ call' = [call EXCEPT ![c].pc = "after"]
  /\ UNCHANGED <<envelope, remote, tab, counters, dataKey>>
  /\ Note({})

(* The tab's vault key is replaced, whether or not the tab still has one.  *)
FinishRotation(c) ==
  /\ call[c].kind = "rotate"
  /\ call[c].pc = "after"
  /\ tab' = [tab EXCEPT ![call[c].tab].vk = call[c].kek]
  /\ End(c)
  /\ UNCHANGED <<account, vault, envelope, remote, counters, dataKey>>
  /\ Note({})

-----------------------------------------------------------------------------
(* Recovery: sealActiveRecoveryEnvelope with saveRecoveryEnvelope,         *)
(* openVaultWithRecoveryEnvelope, rebindRecoveredVault.                    *)

BeginEnvelope(c, t) ==
  /\ tab[t].dk # 0
  /\ account # NoAccount
  /\ Begin(c, t, "envelope")
  /\ UNCHANGED <<account, vault, envelope, remote, tab, counters, dataKey>>
  /\ Note({})

CommitEnvelope(c) ==
  /\ call[c].kind = "envelope"
  /\ tab[call[c].tab].dk # 0
  /\ envelope' = [salt |-> call[c].acct.salt, dk |-> tab[call[c].tab].dk]
  /\ End(c)
  /\ UNCHANGED <<account, vault, remote, tab, counters, dataKey>>
  /\ Note({})

BeginRecover(c, t) ==
  /\ tab[t] = LockedTab
  /\ account.format >= 2
  /\ envelope # NoEnvelope
  /\ ~Active(c)
  /\ call' = [call EXCEPT ![c] = [FreeCall EXCEPT !.kind = "recover", !.tab = t,
                                                !.acct = account, !.env = envelope]]
  /\ UNCHANGED <<account, vault, envelope, remote, tab, counters, dataKey>>
  /\ Note({})

(* The envelope opens in the context it was sealed in, and yields the data *)
(* key; there is no vault key until the rebind.                            *)
FinishRecover(c) ==
  LET t == call[c].tab
      env == call[c].env
  IN
  /\ call[c].kind = "recover"
  /\ call[c].pc = "row"
  /\ env.salt = call[c].acct.salt
  /\ OpensWithData(call[c].acct, env.dk, call[c].row)
  /\ tab' = [tab EXCEPT ![t] = [vk |-> NoKek, dk |-> env.dk]]
  /\ call' = ZeroShared([call EXCEPT ![c] = FreeCall], t)
  /\ UNCHANGED <<account, vault, envelope, remote, counters, dataKey>>
  /\ Note({})

(* The recovery page binds the recovered vault to a fresh passkey.         *)
BeginRebind(c, t) ==
  /\ tab[t].dk # 0
  /\ ~Unlocked(t)
  /\ account # NoAccount
  /\ Begin(c, t, "rebind")
  /\ UNCHANGED <<account, vault, envelope, remote, tab, counters, dataKey>>
  /\ Note({})

CommitRebind(c) ==
  LET t == call[c].tab
      a == [NoAccount EXCEPT !.salt = salts + 1, !.format = CurrentFormat]
  IN
  /\ call[c].kind = "rebind"
  /\ call[c].pc = "row"
  /\ tab[t].dk # 0
  /\ OpensWithData(call[c].acct, tab[t].dk, call[c].row)
  /\ salts < MaxSalts
  /\ account' = a
  /\ vault' = Sealed(KekOf(a), a, tab[t].dk)
  /\ salts' = salts + 1
  /\ call' = [call EXCEPT ![c].pc = "after", ![c].kek = KekOf(a), ![c].row = vault',
                          ![c].dk = tab[t].dk, ![c].shared = TRUE]
  /\ UNCHANGED <<envelope, remote, tab, changes, keys, dataKey>>
  /\ Note({})

-----------------------------------------------------------------------------
(* The end of a session, of a tab, of an account.                          *)

(* lockSession fills the key buffers with zeros and drops them.            *)
Lock(t) ==
  /\ tab[t] # LockedTab
  /\ tab' = [tab EXCEPT ![t] = LockedTab]
  /\ call' = ZeroShared(call, t)
  /\ UNCHANGED <<account, vault, envelope, remote, counters, dataKey>>
  /\ Note(IF LockDuringChange(t) THEN {"lock during a change"} ELSE {})

(* The tab is reloaded, closed or crashes.                                 *)
Reload(t) ==
  /\ tab' = [tab EXCEPT ![t] = LockedTab]
  /\ call' = [c \in Calls |-> IF call[c].tab = t THEN FreeCall ELSE call[c]]
  /\ UNCHANGED <<account, vault, envelope, remote, counters, dataKey>>
  /\ Note({})

(* clearAll: "start fresh" on the recovery page.                           *)
Wipe(t) ==
  /\ account # NoAccount
  /\ account' = NoAccount
  /\ vault' = NoRow
  /\ envelope' = NoEnvelope
  /\ dataKey' = 0
  /\ UNCHANGED <<remote, tab, call, counters>>
  /\ Note(IF \/ \E c \in Calls : Active(c)
             \/ \E u \in Tabs : tab[u] # LockedTab
          THEN {"change overlap"} ELSE {})

-----------------------------------------------------------------------------

Next ==
  \/ \E c \in Calls, t \in Tabs :
       \/ BeginOpen(c, t)
       \/ BeginProvision(c, t)
       \/ BeginSave(c, t)
       \/ BeginSync(c, t)
       \/ BeginRotate(c, t)
       \/ BeginEnvelope(c, t)
       \/ BeginRecover(c, t)
       \/ BeginRebind(c, t)
  \/ \E c \in Calls :
       \/ Fail(c)
       \/ ReadRow(c)
       \/ FinishOpen(c)
       \/ CommitProvision(c)
       \/ InstallKeys(c)
       \/ CommitSave(c)
       \/ FinishSave(c)
       \/ CommitSync(c)
       \/ PushLocal(c)
       \/ FinishSync(c)
       \/ DeriveRotation(c)
       \/ CommitRotation(c)
       \/ FinishRotation(c)
       \/ CommitEnvelope(c)
       \/ FinishRecover(c)
       \/ CommitRebind(c)
  \/ \E t \in Tabs : Lock(t) \/ Reload(t) \/ Wipe(t)

Spec == Init /\ [][Next]_vars

-----------------------------------------------------------------------------
(* Properties.                                                             *)

(* The factors the account row asks for open the vault row: after every    *)
(* crash, failure, save, pull, upgrade, rotation, rebind or wipe, unlock   *)
(* works, unless a change of the factors, salt or format overlapped        *)
(* another call or another tab's session.                                  *)
RowOpens == account # NoAccount => OpensWith(account, KekOf(account), vault)
UnlockAlwaysWorks == exposure \cap {"change overlap"} = {} => RowOpens

(* The data key an account was given is the one its row is sealed with     *)
(* (vault-session.ts: "the data key never rotates"), unless a save went on *)
(* with a zeroed buffer or a change overlapped.                            *)
DataKeyKept == account.format >= 2 => vault.dk = dataKey
KeyKeptUnlessOverlap == exposure = {} => DataKeyKept

(* A recovery envelope bound to the account's present salt recovers the    *)
(* vault row, through saves, upgrades and rotations made after it.         *)
EnvelopeRecovers ==
  exposure = {} /\ envelope # NoEnvelope /\ envelope.salt = account.salt
    => OpensWithData(account, envelope.dk, vault)

(* rotateAuth: "The module-scope keys are swapped so subsequent saveItems  *)
(* calls use the new factors": the vault row always opens under the        *)
(* factors of the account row, whatever a rotation overlaps with.          *)
RowAlwaysOpens == RowOpens

=============================================================================
