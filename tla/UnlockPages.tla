----------------------------- MODULE UnlockPages -----------------------------
(***************************************************************************)
(* The ways into a vault that exists: the pages /unlock, /recover and      *)
(* /restore, the security settings dialog, and the quick-unlock cache, in  *)
(* tabs that share the rows of storage.ts.                                 *)
(*                                                                         *)
(* A page copies the account row into its own state when it is opened; the *)
(* services it calls read the row again, after a passkey prompt, a login   *)
(* or a download during which another tab may have changed it.  A call     *)
(* outlives the page that made it: it then answers to a component that is  *)
(* gone, but what it writes and where it navigates still happens.          *)
(*                                                                         *)
(* Abstractions.  A vault stands for its Secret Key, a binding for a       *)
(* passkey with its device salt, a number for the master password of each  *)
(* rotation together with its Argon2 salt.  Accounts are production ones   *)
(* (a demo account only skips the prompt and the login).  Reading a row    *)
(* and the reads that follow it at once are one step; loading the vault's  *)
(* items is left out, and the sync server is reachable but for a failure.  *)
(***************************************************************************)
EXTENDS Integers

CONSTANTS
  Tabs,       \* browser tabs of the profile
  MaxVaults,  \* bound: vaults made, the first included
  MaxBinds,   \* bound: passkeys registered, the first included
  MaxMp,      \* bound: master passwords set
  MaxFaults,  \* bound: prompts dismissed, chunks not loaded, calls failed
  MaxCalls,   \* bound: submissions of a form
  MAX_ATTEMPTS  \* attempts the unlock page gives, 3 in the code

ASSUME BoundsAssumption ==
  /\ {MaxVaults, MaxBinds, MAX_ATTEMPTS} \subseteq Nat \ {0}
  /\ {MaxMp, MaxFaults, MaxCalls} \subseteq Nat

VARIABLES
  account,   \* the account and vault rows: what they are sealed under
  cache,     \* the quick-unlock row
  envelope,  \* the recovery envelope row
  tab,       \* per tab: the session's keys and the vault store
  page,      \* per tab: the mounted component
  call,      \* per tab: the call in flight
  spent,     \* bounded counters
  wish,      \* history: the vault the user made or restored last, and whether
             \* quick unlock was left on
  exposure   \* history: the coincidences that have happened

vars == <<account, cache, envelope, tab, page, call, spent, wish, exposure>>
rows == <<account, cache, envelope>>

Vault == 1 .. MaxVaults
Underivable == -1     \* a master password stretched with another salt

Mixed == -1           \* the answer of one passkey with the salt of another

(* What the rows are sealed under: the passkey they name is bind, the one  *)
(* whose answer sealed them prf.                                           *)
Row == [vault: 0 .. MaxVaults, key: 0 .. MaxVaults, bind: 0 .. MaxBinds,
        prf: 0 .. MaxBinds, mp: 0 .. MaxMp, opq: BOOLEAN]
NoRow == [vault |-> 0, key |-> 0, bind |-> 0, prf |-> 0, mp |-> 0, opq |-> FALSE]
Cache == [key: 0 .. MaxVaults, bind: Mixed .. MaxBinds]
NoCache == [key |-> 0, bind |-> 0]

(* deriveVaultKey: the factors a key is made of.                           *)
Kek == [key: 0 .. MaxVaults, bind: 0 .. MaxBinds, mp: Underivable .. MaxMp,
        opq: 0 .. MaxVaults]
NoKek == [key |-> 0, bind |-> 0, mp |-> 0, opq |-> 0]
KekOf(a) == [key |-> a.key, bind |-> a.prf, mp |-> a.mp,
             opq |-> IF a.opq THEN a.vault ELSE 0]

Locked == [kek |-> NoKek, data |-> 0, shown |-> FALSE, told |-> FALSE]
Elsewhere == [at |-> "elsewhere", snap |-> NoRow, salted |-> TRUE,
              quick |-> FALSE, emergency |-> TRUE, attempts |-> 0,
              busy |-> FALSE, stage |-> "input", pend |-> 0]
(* A call, with the factors of OpenInput it has gathered so far.           *)
NoCall == [kind |-> "none", pc |-> "done", live |-> FALSE, key |-> 0, pw |-> 0,
           prf |-> 0, mp |-> 0, opq |-> 0, form |-> NoRow, snap |-> NoRow,
           rec |-> NoCache]

Exposures == {"row changed under a call", "other key confirmed",
              "wiped with keys in memory"}

TypeOK ==
  /\ account \in Row
  /\ cache \in Cache
  /\ envelope \in Cache
  /\ tab \in [Tabs -> [kek: Kek, data: 0 .. MaxVaults, shown: BOOLEAN,
                       told: BOOLEAN]]
  /\ page \in [Tabs -> [at: {"elsewhere", "unlock", "recover", "restore",
                             "vault"},
                        snap: Row, salted: BOOLEAN, quick: BOOLEAN,
                        emergency: BOOLEAN, attempts: 0 .. MAX_ATTEMPTS,
                        busy: BOOLEAN, pend: 0 .. MaxVaults,
                        stage: {"input", "ready", "passkey", "adopting"}]]
  /\ call \in [Tabs -> [kind: {"none", "quick", "emergency", "rewire", "search",
                               "finish", "rotate", "recreate"},
                        pc: {"done", "prompt", "load", "open", "read",
                             "commit", "reseal"},
                        live: BOOLEAN, key: 0 .. MaxVaults, pw: 0 .. MaxMp,
                        prf: 0 .. MaxBinds, mp: Underivable .. MaxMp,
                        opq: 0 .. MaxVaults, form: Row, snap: Row, rec: Cache]]
  /\ spent \in [vaults: 1 .. MaxVaults, binds: 1 .. MaxBinds, mps: 0 .. MaxMp,
                faults: 0 .. MaxFaults, calls: 0 .. MaxCalls]
  /\ wish \in [vault: 0 .. MaxVaults, quick: BOOLEAN]
  /\ exposure \in SUBSET Exposures
  /\ \A t \in Tabs : tab[t].kek # NoKek => tab[t].data # 0

SealedRow(v, k, b, opq) ==
  [vault |-> v, key |-> k, bind |-> b, prf |-> b, mp |-> 0, opq |-> opq]
Kept(k, b) == [key |-> k, bind |-> b]

(* One tab is unlocked, an enrolment may have been dropped since, and the  *)
(* sync server holds a restore record of every vault.                      *)
Init ==
  /\ \E opq, quick \in BOOLEAN, open \in Tabs :
       /\ account = SealedRow(1, 1, 1, opq)
       /\ cache = IF quick THEN Kept(1, 1) ELSE NoCache
       /\ wish = [vault |-> 1, quick |-> quick]
       /\ tab = [t \in Tabs |-> IF t # open THEN Locked
                  ELSE [Locked EXCEPT !.kek = KekOf(account), !.data = 1, !.shown = TRUE]]
  /\ spent = [vaults |-> 1, binds |-> 1, mps |-> 0, faults |-> 0, calls |-> 0]
  /\ envelope = Kept(1, 1)
  /\ page = [t \in Tabs |-> Elsewhere]
  /\ call = [t \in Tabs |-> NoCall]
  /\ exposure = {}

Expose(cond, what) == exposure' = IF cond THEN exposure \cup {what} ELSE exposure
Spend(what) == spent' = [spent EXCEPT ![what] = @ + 1]

-----------------------------------------------------------------------------
(* Opening a page: the route's load function and the component's onMount.  *)
(* A call in flight is no longer answered to.                              *)

SessionActive(t) == tab[t].kek # NoKek

hasAccount == account.vault # 0

CanShow(t, at) ==
  /\ at = "unlock" => hasAccount /\ ~(SessionActive(t) /\ tab[t].shown)
  /\ at = "vault" => hasAccount /\ SessionActive(t) /\ tab[t].shown
  /\ at = "restore" => ~hasAccount

(* hasQuickUnlock decides between the Touch ID and the Secret Key form.    *)
Mounted(at) ==
  [Elsewhere EXCEPT !.at = at,
     !.snap = IF at \in {"unlock", "vault"} THEN account ELSE NoRow,
     !.quick = (at = "unlock" /\ cache # NoCache /\ account.vault # 0),
     !.emergency = ~(at = "unlock" /\ cache # NoCache /\ account.vault # 0)]

Abandon(t) == call' = [call EXCEPT ![t].live = FALSE]

Visit(t, at) ==
  /\ page[t].at # at
  /\ CanShow(t, at)
  /\ page' = [page EXCEPT ![t] = Mounted(at)]
  /\ Abandon(t)
  /\ UNCHANGED <<rows, tab, spent, wish, exposure>>

(* goto() at the end of a call, from wherever the user is by now.          *)
Goto(t, at) == page' = [page EXCEPT ![t] = IF page[t].at = at THEN @ ELSE Mounted(at)]

(* A reload ends the module state, the session and the attempts with it.   *)
Reload(t) ==
  /\ page[t].at # "elsewhere"
  /\ page' = [page EXCEPT ![t] = Elsewhere]
  /\ tab' = [tab EXCEPT ![t] = Locked]
  /\ call' = [call EXCEPT ![t] = NoCall]
  /\ UNCHANGED <<rows, spent, wish, exposure>>

-----------------------------------------------------------------------------
(* What a call does to the page that is waiting for it, if it still is.    *)

Answers(t) == call[t].live
Tell(t, p) == page' = [page EXCEPT ![t] = IF Answers(t) THEN p ELSE @]
Ends(t) == call' = [call EXCEPT ![t] = NoCall]
Idle(t) == [page[t] EXCEPT !.busy = FALSE]
Ready(t, kind, pc) == call[t].kind = kind /\ call[t].pc = pc
Fault == spent.faults < MaxFaults /\ Spend("faults")

Submit(t, c) ==
  /\ call[t] = NoCall
  /\ ~page[t].busy
  /\ spent.calls < MaxCalls
  /\ Spend("calls")
  /\ call' = [call EXCEPT ![t] = [c EXCEPT !.live = TRUE]]

-----------------------------------------------------------------------------
(* The unlock page.                                                        *)

lockedOut(p) == p.attempts >= MAX_ATTEMPTS
quickUnlockMode(p) == p.quick /\ ~p.emergency
masterPasswordRequired(p) == p.snap.mp # 0

(* What the page offers: nothing but recovery once locked out.             *)
UnlockControls(p) ==
  IF lockedOut(p) THEN {"recover"}
  ELSE {"unlock"} \cup (IF quickUnlockMode(p) THEN {"emergency"} ELSE {})
                 \cup (IF p.quick /\ p.emergency THEN {"quick"} ELSE {})

(* unlock(), with a valid Secret Key in the form or through the cache; the *)
(* cache and the account row are read as openQuickUnlock starts.           *)
unlock(t) ==
  /\ page[t].at = "unlock" /\ "unlock" \in UnlockControls(page[t])
  /\ \E pw \in 0 .. MaxMp :
       LET c == [NoCall EXCEPT !.pw = pw, !.form = page[t].snap] IN
       /\ (pw # 0) = masterPasswordRequired(page[t])
       /\ IF quickUnlockMode(page[t])
          THEN Submit(t, [c EXCEPT !.kind = "quick", !.pc = "prompt",
                                   !.snap = account, !.rec = cache])
          ELSE \E key \in Vault :
                 Submit(t, [c EXCEPT !.kind = "emergency", !.pc = "load", !.key = key])
  /\ page' = [page EXCEPT ![t].busy = TRUE]
  /\ UNCHANGED <<rows, tab, wish, exposure>>

showEmergencyKey(t) ==
  /\ page[t].at = "unlock" /\ "emergency" \in UnlockControls(page[t])
  /\ page' = [page EXCEPT ![t].emergency = TRUE]
  /\ UNCHANGED <<rows, tab, call, spent, wish, exposure>>

showQuickUnlock(t) ==
  /\ page[t].at = "unlock" /\ "quick" \in UnlockControls(page[t])
  /\ page' = [page EXCEPT ![t].emergency = FALSE]
  /\ UNCHANGED <<rows, tab, call, spent, wish, exposure>>

(* Falling back to the Secret Key form for good.                           *)
WithoutQuick(p) == [p EXCEPT !.quick = FALSE, !.emergency = TRUE]

(* openQuickUnlock without a cache, or the prompt dismissed or timed out:  *)
(* nothing is deleted and quick unlock stays on offer.                     *)
QuickUnlockFails(t) ==
  /\ Ready(t, "quick", "prompt")
  /\ call[t].snap.vault # 0 /\ call[t].rec # NoCache => spent.faults < MaxFaults
  /\ spent' = IF call[t].snap.vault # 0 /\ call[t].rec # NoCache
              THEN [spent EXCEPT !.faults = @ + 1] ELSE spent
  /\ Tell(t, Idle(t))
  /\ Ends(t)
  /\ UNCHANGED <<rows, tab, wish, exposure>>

(* The passkey of the account row that was read answers.  A cache sealed   *)
(* for another passkey does not open and is deleted; otherwise it is put   *)
(* back, with its last use, as it was read before the prompt.              *)
openQuickUnlock(t) ==
  LET c == call[t] IN
  /\ Ready(t, "quick", "prompt") /\ c.snap.vault # 0 /\ c.rec # NoCache
  /\ IF c.rec.bind = c.snap.bind
     THEN /\ cache' = c.rec
          /\ call' = [call EXCEPT ![t].pc = "load", ![t].key = c.rec.key,
                                  ![t].prf = c.snap.bind]
          /\ page' = page
     ELSE /\ cache' = NoCache
          /\ Tell(t, WithoutQuick(Idle(t)))
          /\ Ends(t)
  /\ Expose(cache # c.rec \/ account # c.snap, "row changed under a call")
  /\ UNCHANGED <<account, envelope, tab, spent, wish>>

(* unlockWithSecretKey loads its modules outside any try block: the quick  *)
(* form's caller catches a chunk that does not load, the other's does not  *)
(* and the form stays busy.                                                *)
ChunkNotLoaded(t) ==
  /\ call[t].kind \in {"quick", "emergency"} /\ call[t].pc = "load"
  /\ Fault
  /\ Tell(t, IF call[t].kind = "quick" THEN Idle(t) ELSE page[t])
  /\ Ends(t)
  /\ UNCHANGED <<rows, tab, wish, exposure>>

(* The password typed now, stretched with the salt the page read.          *)
StretchedWith(pw, salt) == IF pw = 0 THEN 0 ELSE IF pw = salt THEN pw ELSE Underivable

(* deriveMasterPasswordKey and, for an enrolled account, loginWithRetry:   *)
(* the server knows the Secret Key the account was registered with.        *)
LoginRefusal(c) == c.form.opq /\ c.key # c.form.vault

loginWithRetry(t) ==
  LET c == call[t] IN
  /\ c.kind \in {"quick", "emergency"} /\ c.pc = "load" /\ ~LoginRefusal(c)
  /\ call' = [call EXCEPT ![t].mp = StretchedWith(c.pw, c.form.mp),
                          ![t].opq = IF c.form.opq THEN c.form.vault ELSE 0,
                          ![t].pc = "open"]
  /\ UNCHANGED <<rows, tab, page, spent, wish, exposure>>

Burnt(p) == [p EXCEPT !.attempts = @ + 1]

LoginRefused(t) ==
  /\ call[t].pc = "load" /\ LoginRefusal(call[t])
  /\ Tell(t, Burnt(Idle(t)))
  /\ Ends(t)
  /\ UNCHANGED <<rows, tab, spent, wish, exposure>>

(* A server that is down or limits the rate costs no attempt.              *)
LoginUnavailable(t) ==
  /\ call[t].pc = "load" /\ call[t].form.opq /\ Fault
  /\ Tell(t, Idle(t))
  /\ Ends(t)
  /\ UNCHANGED <<rows, tab, wish, exposure>>

(* openVault reads the rows again; the emergency form prompts only now.    *)
resolvePrfOutput == account.bind
PrfOf(t) == IF call[t].kind = "quick" THEN call[t].prf ELSE resolvePrfOutput
Derived(t) == [key |-> call[t].key, bind |-> PrfOf(t), mp |-> call[t].mp,
               opq |-> call[t].opq]
Opens(t) == account.vault # 0 /\ Derived(t) = KekOf(account)
Opening(t) == call[t].kind \in {"quick", "emergency"} /\ call[t].pc = "open"

openVault(t) ==
  /\ Opening(t) /\ Opens(t)
  /\ tab' = [tab EXCEPT ![t] = [Locked EXCEPT !.kek = Derived(t),
                                 !.data = account.vault, !.shown = TRUE]]
  /\ Goto(t, "vault")
  /\ Ends(t)
  /\ UNCHANGED <<rows, spent, wish, exposure>>

(* Whatever else went wrong costs an attempt, and quick unlock its offer.  *)
openVaultFails(t) ==
  /\ Opening(t) /\ ~Opens(t)
  /\ Tell(t, LET p == Burnt(Idle(t)) IN
             IF call[t].kind = "quick" THEN WithoutQuick(p) ELSE p)
  /\ Ends(t)
  /\ UNCHANGED <<rows, tab, spent, wish, exposure>>

(* Mutant: a dismissed prompt of the emergency form costs an attempt.       *)
isMissingPrfOutputMutant(t) ==
  /\ Ready(t, "emergency", "open") /\ account.vault # 0
  /\ Fault
  /\ Tell(t, Burnt(Idle(t)))
  /\ Ends(t)
  /\ UNCHANGED <<rows, tab, wish, exposure>>

isMissingPrfOutput(t) ==
  /\ Ready(t, "emergency", "open") /\ account.vault # 0
  /\ Fault
  /\ Tell(t, Idle(t))
  /\ Ends(t)
  /\ UNCHANGED <<rows, tab, wish, exposure>>

-----------------------------------------------------------------------------
(* The recovery page: a lost passkey, or a fresh start.                    *)

(* openWithRecovery: the envelope is bound to the account's passkey.  It   *)
(* leaves the tab with the data key, the items shown and no vault key.     *)
EnvelopeOpens(key) ==
  account.vault # 0 /\ envelope = Kept(key, account.bind)

RecoverControls(p) == {"rewire"} \cup (IF p.busy THEN {} ELSE {"fresh"})

rewirePasskey(t) ==
  /\ page[t].at = "recover" /\ "rewire" \in RecoverControls(page[t])
  /\ \E key \in Vault, password \in BOOLEAN :
       IF password /\ EnvelopeOpens(key)
       THEN /\ Submit(t, [NoCall EXCEPT !.kind = "rewire", !.pc = "prompt", !.key = key,
                                      !.form = account])
            /\ page' = [page EXCEPT ![t].busy = TRUE, ![t].stage = "passkey"]
            /\ tab' = [tab EXCEPT ![t] = [Locked EXCEPT !.data = account.vault,
                                                        !.shown = TRUE]]
       ELSE UNCHANGED <<tab, page, call, spent>>
  /\ UNCHANGED <<rows, wish, exposure>>

(* Any failure from here on, also after the rows were replaced.            *)
Missing(t) == account.vault = 0 \/ tab[t].data # account.vault

RecoveryFailed(t) ==
  /\ call[t].kind = "rewire" /\ call[t].pc # "commit"
  /\ IF call[t].pc # "prompt" /\ Missing(t) THEN spent' = spent ELSE Fault
  /\ Tell(t, [Idle(t) EXCEPT !.stage = "input"])
  /\ Ends(t)
  /\ UNCHANGED <<rows, tab, wish, exposure>>

(* registerPasskey, for /recover and for /restore.                         *)
registerPasskey(t) ==
  /\ call[t].kind \in {"rewire", "finish"} /\ call[t].pc = "prompt"
  /\ spent.binds < MaxBinds
  /\ Spend("binds")
  /\ call' = [call EXCEPT ![t].prf = spent.binds + 1, ![t].pc = "read"]
  /\ Tell(t, [page[t] EXCEPT !.stage = IF call[t].kind = "finish" THEN "adopting" ELSE @])
  /\ UNCHANGED <<rows, tab, wish, exposure>>

(* rebindRecoveredVault reads the rows, re-seals, and replaces them: the   *)
(* master password and the OPAQUE enrolment are dropped.                   *)
RebindReads(t) ==
  /\ Ready(t, "rewire", "read") /\ ~Missing(t)
  /\ call' = [call EXCEPT ![t].snap = account, ![t].pc = "commit"]
  /\ UNCHANGED <<rows, tab, page, spent, wish, exposure>>

(* Mutant: sealed under the answer of the passkey that was lost.           *)
ReboundMutant(c) ==
  [SealedRow(c.snap.vault, c.key, c.prf, FALSE) EXCEPT !.prf = c.snap.bind]

Rebound(c) == SealedRow(c.snap.vault, c.key, c.prf, FALSE)

rebindRecoveredVault(t) ==
  LET c == call[t] IN
  /\ Ready(t, "rewire", "commit")
  /\ account' = Rebound(c)
  /\ tab' = [tab EXCEPT ![t].kek = KekOf(Rebound(c)), ![t].data = c.snap.vault]
  /\ call' = [call EXCEPT ![t].pc = "reseal"]
  /\ Expose(account # c.form, "row changed under a call")
  /\ UNCHANGED <<cache, envelope, page, spent, wish>>

(* enableRecoveryEnvelope for the new binding, and on to the vault.  It    *)
(* takes the data key in memory, which is another vault's if this tab has  *)
(* made one since.                                                         *)
Recovered(t) ==
  /\ Ready(t, "rewire", "reseal") /\ ~Missing(t)
  /\ envelope' = Kept(call[t].key, account.bind)
  /\ Expose(account.vault # call[t].key, "row changed under a call")
  /\ IF CanShow(t, "vault") THEN Goto(t, "vault") ELSE page' = page
  /\ Ends(t)
  /\ UNCHANGED <<account, cache, tab, spent, wish>>

(* clearAll, and the news for the other tabs.                              *)
(* Mutant: clearAll without the quick-unlock table.                        *)
ClearedMutant == account' = NoRow /\ envelope' = NoCache /\ cache' = cache

Cleared ==
  /\ account' = NoRow
  /\ cache' = NoCache
  /\ envelope' = NoCache

startFresh(t) ==
  /\ page[t].at = "recover" /\ "fresh" \in RecoverControls(page[t])
  /\ Cleared
  /\ wish' = [vault |-> 0, quick |-> FALSE]
  /\ tab' = [u \in Tabs |-> [tab[u] EXCEPT !.told = (u # t /\ tab[u].shown)]]
  /\ page' = [page EXCEPT ![t] = Elsewhere]
  /\ Abandon(t)
  /\ Expose(tab[t] # Locked, "wiped with keys in memory")
  /\ UNCHANGED spent

(* The vault store of another tab hears of it and locks.                   *)
(* Mutant: the news is only noted, as that of an edit is.                  *)
WipedElsewhereMutant(t) ==
  /\ tab[t].told
  /\ tab' = [tab EXCEPT ![t].told = FALSE]
  /\ UNCHANGED <<rows, page, call, spent, wish, exposure>>

WipedElsewhere(t) ==
  /\ tab[t].told
  /\ tab' = [tab EXCEPT ![t] = Locked]
  /\ page' = [page EXCEPT ![t] = IF @.at = "vault" THEN Elsewhere ELSE @]
  /\ Abandon(t)
  /\ UNCHANGED <<rows, spent, wish, exposure>>

(* Another vault is made on this device, by the onboarding pages.          *)
Provision(t) ==
  /\ account.vault = 0 /\ page[t].at = "elsewhere"
  /\ spent.vaults < MaxVaults /\ spent.binds < MaxBinds
  /\ spent' = [spent EXCEPT !.vaults = @ + 1, !.binds = @ + 1]
  /\ LET v == spent.vaults + 1
         b == spent.binds + 1
         row == SealedRow(v, v, b, TRUE) IN
     \E quick \in BOOLEAN :
       /\ account' = row
       /\ cache' = IF quick THEN Kept(v, b) ELSE cache
       /\ envelope' = Kept(v, b)
       /\ wish' = [vault |-> v, quick |-> quick]
       /\ tab' = [tab EXCEPT ![t] = [Locked EXCEPT !.kek = KekOf(row), !.data = v,
                                                   !.shown = TRUE]]
  /\ UNCHANGED <<page, call, exposure>>

-----------------------------------------------------------------------------
(* The restore page, on a device without a vault.                          *)

(* The search form, then the form that binds this device.                  *)
RestoreControls(p) ==
  IF p.busy THEN {} ELSE IF p.stage = "input" THEN {"find"} ELSE {"finish", "over"}

(* findVault: the record is found under the Secret Key and the Recovery    *)
(* Password, and the login with that key succeeds.                         *)
findVault(t) ==
  /\ page[t].at = "restore" /\ "find" \in RestoreControls(page[t])
  /\ \E key \in 1 .. spent.vaults :
       Submit(t, [NoCall EXCEPT !.kind = "search", !.pc = "load", !.key = key,
                                !.form = [NoRow EXCEPT !.vault = key, !.opq = TRUE]])
  /\ page' = [page EXCEPT ![t].busy = TRUE, ![t].pend = 0]
  /\ UNCHANGED <<rows, tab, wish, exposure>>

VaultFound(t) ==
  /\ Ready(t, "search", "load")
  /\ Tell(t, [Idle(t) EXCEPT !.stage = "ready", !.pend = call[t].key])
  /\ Ends(t)
  /\ UNCHANGED <<rows, tab, spent, wish, exposure>>

finish(t) ==
  /\ page[t].at = "restore" /\ "finish" \in RestoreControls(page[t])
  /\ Submit(t, [NoCall EXCEPT !.kind = "finish", !.pc = "prompt", !.key = page[t].pend])
  /\ page' = [page EXCEPT ![t].busy = TRUE, ![t].stage = "passkey"]
  /\ UNCHANGED <<rows, tab, wish, exposure>>

(* No passkey: what was found is kept for another try.                     *)
passkeyFailed(t) ==
  /\ Ready(t, "finish", "prompt") /\ Fault
  /\ Tell(t, [Idle(t) EXCEPT !.stage = "ready"])
  /\ Ends(t)
  /\ UNCHANGED <<rows, tab, wish, exposure>>

(* adoptRestoredVault: refused if a vault exists by now, which is checked  *)
(* again inside the transaction.                                           *)
Adopted(c) == SealedRow(c.key, c.key, c.prf, TRUE)

adoptRestoredVault(t) ==
  LET c == call[t] IN
  /\ Ready(t, "finish", "read") /\ account.vault = 0
  /\ account' = Adopted(c)
  /\ wish' = [vault |-> c.key, quick |-> FALSE]
  /\ tab' = [tab EXCEPT ![t] = [Locked EXCEPT !.kek = KekOf(Adopted(c)),
                                              !.data = c.key, !.shown = TRUE]]
  /\ call' = [call EXCEPT ![t].pc = "reseal"]
  /\ UNCHANGED <<cache, envelope, page, spent, exposure>>

(* enableQuickUnlock: the answer of a passkey, with the account as it is.  *)
SealedCache(key, prf) == Kept(key, IF prf = account.bind THEN prf ELSE Mixed)

(* enableRecovery and enableQuickUnlock, either of which may fail.         *)
Settled(t) ==
  LET c == call[t] IN
  /\ Ready(t, "finish", "reseal")
  /\ \E quick, recovery \in IF Missing(t) THEN {FALSE} ELSE BOOLEAN :
       /\ cache' = IF quick THEN SealedCache(c.key, c.prf) ELSE cache
       /\ envelope' = IF recovery THEN Kept(c.key, account.bind) ELSE envelope
       /\ wish' = IF quick THEN [wish EXCEPT !.quick = TRUE] ELSE wish
       /\ Expose(recovery /\ account.vault # c.key, "row changed under a call")
  /\ IF CanShow(t, "vault") THEN Goto(t, "vault") ELSE page' = page
  /\ Ends(t)
  /\ UNCHANGED <<account, tab, spent>>

RestoreFailed(t) ==
  /\ Ready(t, "finish", "read") /\ account.vault # 0
  /\ Tell(t, [Idle(t) EXCEPT !.stage = "input", !.pend = 0])
  /\ Ends(t)
  /\ UNCHANGED <<rows, tab, spent, wish, exposure>>

startOver(t) ==
  /\ page[t].at = "restore" /\ "over" \in RestoreControls(page[t])
  /\ page' = [page EXCEPT ![t].stage = "input", ![t].pend = 0]
  /\ UNCHANGED <<rows, tab, call, spent, wish, exposure>>

-----------------------------------------------------------------------------
(* The security settings of an open vault.                                 *)

(* The dialog opened again reads the row again.                            *)
OpenSettings(t) ==
  /\ page[t].at = "vault" /\ ~page[t].busy
  /\ page' = [page EXCEPT ![t].snap = account, ![t].salted = TRUE]
  /\ UNCHANGED <<rows, tab, call, spent, wish, exposure>>

(* submit(): the dialog's summary of the row decides what the button does. *)
SettingsControls(p) ==
  {"trusted device"}
    \cup (IF p.snap.mp = 0 THEN {"enable"} ELSE IF p.salted THEN {"disable"} ELSE {})

submit(t) ==
  /\ page[t].at = "vault" /\ {"enable", "disable"} \cap SettingsControls(page[t]) # {}
  /\ \E key \in Vault, pw \in 0 .. MaxMp :
       /\ (pw # 0) = (page[t].snap.mp # 0)
       /\ Submit(t, [NoCall EXCEPT !.kind = "rotate", !.pc = "prompt", !.key = key,
                                   !.pw = pw, !.snap = page[t].snap])
  /\ page' = [page EXCEPT ![t].busy = TRUE]
  /\ UNCHANGED <<rows, tab, wish, exposure>>

(* rotateAuth's checks.  A factor that is removed or replaced must verify  *)
(* under the live vault key; a first master password verifies nothing.     *)
Enabling(c) == c.snap.mp = 0
RotationAllowed(t) ==
  LET c == call[t] IN
  /\ SessionActive(t) /\ ~Missing(t) /\ ~account.opq
  /\ account.mp # 0 =>
       /\ ~Enabling(c)
       /\ [key |-> c.key, bind |-> c.snap.bind, opq |-> 0,
           mp |-> StretchedWith(c.pw, c.snap.mp)] = tab[t].kek
  /\ Enabling(c) => spent.mps < MaxMp

RotateReads(t) ==
  /\ Ready(t, "rotate", "prompt") /\ RotationAllowed(t)
  /\ call' = [call EXCEPT ![t].snap = account, ![t].prf = call[t].snap.bind,
                          ![t].pc = "commit",
                          ![t].mp = IF Enabling(call[t]) THEN spent.mps + 1 ELSE 0]
  /\ spent' = IF Enabling(call[t]) THEN [spent EXCEPT !.mps = @ + 1] ELSE spent
  /\ UNCHANGED <<rows, tab, page, wish, exposure>>

RotationFails(t) ==
  /\ Ready(t, "rotate", "prompt") /\ ~RotationAllowed(t)
  /\ Tell(t, Idle(t))
  /\ Ends(t)
  /\ UNCHANGED <<rows, tab, spent, wish, exposure>>

(* The row is sealed for the Secret Key typed into the dialog.  After      *)
(* enabling, the summary says so but still lacks the new salt.             *)
Rotated(c) == [c.snap EXCEPT !.key = c.key, !.prf = c.prf, !.mp = c.mp]

rotateAuth(t) ==
  LET c == call[t] IN
  /\ Ready(t, "rotate", "commit")
  /\ account' = Rotated(c)
  /\ tab' = [tab EXCEPT ![t].kek = KekOf(Rotated(c)), ![t].data = c.snap.vault]
  /\ Tell(t, [Idle(t) EXCEPT !.snap.mp = c.mp, !.salted = (c.mp = 0)])
  /\ Ends(t)
  /\ exposure' = exposure
       \cup (IF account # c.snap \/ c.prf # c.snap.bind
             THEN {"row changed under a call"} ELSE {})
       \cup (IF c.key # c.snap.key THEN {"other key confirmed"} ELSE {})
  /\ UNCHANGED <<cache, envelope, spent, wish>>

disableTrustedDevice(t) ==
  /\ page[t].at = "vault" /\ "trusted device" \in SettingsControls(page[t])
  /\ cache # NoCache
  /\ cache' = NoCache
  /\ wish' = [wish EXCEPT !.quick = FALSE]
  /\ UNCHANGED <<account, envelope, tab, page, call, spent, exposure>>

(* recreateTrustedDevice prompts the passkey of the dialog's summary and   *)
(* seals the key typed, whichever it is, for the account as it is then.    *)
recreateTrustedDevice(t) ==
  /\ page[t].at = "vault"
  /\ \E key \in Vault :
       Submit(t, [NoCall EXCEPT !.kind = "recreate", !.pc = "prompt", !.key = key,
                                !.snap = page[t].snap])
  /\ page' = [page EXCEPT ![t].busy = TRUE]
  /\ UNCHANGED <<rows, tab, wish, exposure>>

enableQuickUnlock(t) ==
  LET c == call[t] IN
  /\ Ready(t, "recreate", "prompt")
  /\ IF account.vault # 0
     THEN /\ cache' = SealedCache(c.key, c.snap.bind)
          /\ wish' = [wish EXCEPT !.quick = TRUE]
     ELSE UNCHANGED <<cache, wish>>
  /\ Expose(account # c.snap, "row changed under a call")
  /\ Tell(t, Idle(t))
  /\ Ends(t)
  /\ UNCHANGED <<account, envelope, tab, spent>>

-----------------------------------------------------------------------------
(* The whole.                                                              *)

UnlockStep(t) ==
  \/ unlock(t) \/ showEmergencyKey(t) \/ showQuickUnlock(t)
  \/ QuickUnlockFails(t) \/ openQuickUnlock(t) \/ ChunkNotLoaded(t)
  \/ loginWithRetry(t) \/ LoginRefused(t) \/ LoginUnavailable(t)
  \/ openVault(t) \/ openVaultFails(t) \/ isMissingPrfOutput(t)

RecoverStep(t) ==
  \/ rewirePasskey(t) \/ RecoveryFailed(t) \/ registerPasskey(t)
  \/ RebindReads(t) \/ rebindRecoveredVault(t) \/ Recovered(t)
  \/ startFresh(t) \/ WipedElsewhere(t) \/ Provision(t)

RestoreStep(t) ==
  \/ findVault(t) \/ VaultFound(t) \/ finish(t) \/ passkeyFailed(t)
  \/ adoptRestoredVault(t) \/ Settled(t) \/ RestoreFailed(t) \/ startOver(t)

SettingsStep(t) ==
  \/ OpenSettings(t) \/ submit(t) \/ RotateReads(t) \/ RotationFails(t) \/ rotateAuth(t)
  \/ disableTrustedDevice(t) \/ recreateTrustedDevice(t) \/ enableQuickUnlock(t)

Next ==
  \E t \in Tabs :
    \/ \E at \in {"unlock", "recover", "restore", "vault"} : Visit(t, at)
    \/ Reload(t)
    \/ UnlockStep(t) \/ RecoverStep(t) \/ RestoreStep(t) \/ SettingsStep(t)

Spec == Init /\ [][Next]_vars

-----------------------------------------------------------------------------
(* Properties.                                                             *)

(* The rows are of the vault the user made or restored last, and open with *)
(* the Secret Key of its Emergency Kit and the passkey the row names:      *)
(* a call that writes rows it read earlier, or under a key of a vault gone *)
(* since, or a dialog that re-seals them for a key nobody checked          *)
(* (rotateAuth with no factor to verify), is the only way out.             *)
SealedForTheKit ==
  /\ account.vault = wish.vault
  /\ account.key = account.vault
  /\ account.prf = account.bind
KitOpensVault == SealedForTheKit \/ exposure # {}

(* A quick-unlock cache exists only while the user wants one, for the      *)
(* vault there is: one switched off, or wiped, in another tab while a      *)
(* prompt is up comes back when openQuickUnlock saves what it had read.    *)
CacheIsUsersChoice ==
  cache # NoCache => wish.quick \/ "row changed under a call" \in exposure

(* What a tab shows on /vault is the vault the rows hold, until the news   *)
(* of a wipe reaches it; the tab that wiped is not told, and keeps its     *)
(* keys.                                                                   *)
ShownIsStored ==
  \A t \in Tabs : page[t].at = "vault" =>
     \/ tab[t].data = account.vault
     \/ tab[t].told
     \/ exposure # {}

(* An attempt is not charged to a user whose key, master password and      *)
(* passkey are those of the row, on a page that is not out of date: a      *)
(* dismissed prompt and a server that is down cost nothing.                *)
HadRightFactors(t) ==
  LET c == call[t] IN
  /\ c.form = account /\ c.key = account.key /\ c.key = account.vault
  /\ c.pw = account.mp /\ PrfOf(t) = account.prf
RightFactorsNeverBurn ==
  [][\A t \in Tabs : page'[t].attempts > page[t].attempts => ~HadRightFactors(t)]_vars

=============================================================================
