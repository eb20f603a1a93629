------------------------- MODULE UnlockPages_proofs -------------------------
(***************************************************************************)
(* Proofs about the pages, for every value of the constants, in two parts  *)
(* that share no state.                                                    *)
(*                                                                         *)
(* UnlockPages, for every number of tabs and every bound.                  *)
(* The rows stay those of the user's vault because a passkey is registered *)
(* once: a call that re-seals the rows brings a binding no row, envelope   *)
(* or other call has seen, so a row that still names the binding a call    *)
(* began with is the row it began with.                                    *)
(*                                                                         *)
(* VaultPage, for any items, kinds and happenings.  Each step is one of    *)
(* seven kinds, of which one writes the items; whatever a step does to the *)
(* pane it does through Show, whose effects hide what they must.           *)
(***************************************************************************)
EXTENDS UnlockPages, VaultPage, SequenceTheorems, TLAPS

-----------------------------------------------------------------------------
(* What holds whatever happened.                                           *)

Waiting(kind) ==
  CASE kind \in {"quick", "emergency"} -> "unlock"
    [] kind = "rewire" -> "recover"
    [] kind \in {"search", "finish"} -> "restore"
    [] OTHER -> "vault"

(* What a call has gathered by the time it is where it is.                 *)
CallOK(c) ==
  /\ c.kind \in {"quick", "emergency"} => c.form.vault # 0
  /\ c.kind \in {"search", "finish"} => c.key # 0
  /\ c.kind = "search" => c.key = c.form.vault
  /\ c.pc = "load" => c.kind \in {"quick", "emergency", "search"}
  /\ c.pc = "open" => /\ c.mp = StretchedWith(c.pw, c.form.mp)
                      /\ c.opq = IF c.form.opq THEN c.form.vault ELSE 0
  /\ c.pc = "commit" => c.snap.vault # 0
  /\ c.kind = "rotate" /\ c.pc = "commit" => c.mp \in Nat

PageOK(p) ==
  /\ p.at = "unlock" => p.snap.vault # 0
  /\ p.at = "restore" /\ p.stage # "input" => p.pend # 0

(* The page a call answers to is the one that made it, and waits.          *)
LiveOK(t) ==
  call[t].live =>
    /\ page[t].busy
    /\ page[t].at = Waiting(call[t].kind)
    /\ page[t].at = "unlock" => page[t].attempts < MAX_ATTEMPTS
    /\ call[t].kind = "finish" => page[t].stage # "input"

TypeInv ==
  /\ TypeOK
  /\ \A t \in Tabs : CallOK(call[t]) /\ PageOK(page[t]) /\ LiveOK(t)

-----------------------------------------------------------------------------
(* The cache: with no row changed under a call.                            *)

CacheInv ==
  \/ "row changed under a call" \in exposure
  \/ cache # NoCache => wish.quick /\ account.vault # 0

-----------------------------------------------------------------------------
(* The rows and the tabs: with no coincidence at all.                      *)

Kit ==
  /\ SealedForTheKit
  /\ account.vault # 0 => account.bind # 0
  /\ account.vault # 0 /\ envelope.bind = account.bind => envelope.key = account.vault

(* A binding registered by a call and not yet in the rows.                 *)
Pending(c) == c.kind \in {"rewire", "finish"} /\ c.pc \in {"read", "commit"}

Known == account.bind <= spent.binds /\ envelope.bind <= spent.binds

FreshFrom(t, u) ==
  /\ call[u].kind = "rewire" => call[t].prf # call[u].form.bind
  /\ Pending(call[u]) /\ u # t => call[t].prf # call[u].prf

Fresh(t) ==
  /\ call[t].kind = "rewire" => call[t].form.bind <= spent.binds
  /\ Pending(call[t]) =>
       /\ call[t].prf \in 1 .. spent.binds
       /\ call[t].prf # account.bind
       /\ call[t].prf # envelope.bind
       /\ \A u \in Tabs : FreshFrom(t, u)

(* A row that names the binding a rewire began with has not changed hands. *)
Rewire(t) ==
  call[t].kind = "rewire" =>
    /\ call[t].key = call[t].form.vault
    /\ call[t].key # 0
    /\ call[t].form.bind # 0
    /\ account.bind = call[t].form.bind =>
         /\ account.vault = call[t].form.vault
         /\ tab[t].data = call[t].form.vault
         /\ ~tab[t].told
         /\ call[t].pc = "commit" => call[t].snap.vault = call[t].form.vault

(* A tab shows the vault there is, or is about to hear that it went.  A    *)
(* master password set as the tab locks leaves it the keys, not the items. *)
Shown(t) ==
  /\ tab[t].shown /\ tab[t].data # 0 => tab[t].data = account.vault \/ tab[t].told
  /\ page[t].at = "vault" => tab[t].shown /\ tab[t].data # 0

Clean ==
  /\ Kit
  /\ Known
  /\ \A t \in Tabs : Fresh(t) /\ Rewire(t) /\ Shown(t)

CleanInv == exposure = {} => Clean

-----------------------------------------------------------------------------
(* The records, and one step of one tab.                                   *)

TabRec == [kek: Kek, data: 0 .. MaxVaults, shown: BOOLEAN, told: BOOLEAN]
PageRec == [at: {"elsewhere", "unlock", "recover", "restore", "vault"},
            snap: Row, salted: BOOLEAN, quick: BOOLEAN, emergency: BOOLEAN,
            attempts: 0 .. MAX_ATTEMPTS, busy: BOOLEAN, pend: 0 .. MaxVaults,
            stage: {"input", "ready", "passkey", "adopting"}]
CallRec == [kind: {"none", "quick", "emergency", "rewire", "search", "finish",
                   "rotate", "recreate"},
            pc: {"done", "prompt", "load", "open", "read", "commit", "reseal"},
            live: BOOLEAN, key: 0 .. MaxVaults, pw: 0 .. MaxMp,
            prf: 0 .. MaxBinds, mp: Underivable .. MaxMp,
            opq: 0 .. MaxVaults, form: Row, snap: Row, rec: Cache]
Links(c, p) ==
  c.live =>
    /\ p.busy
    /\ p.at = Waiting(c.kind)
    /\ p.at = "unlock" => p.attempts < MAX_ATTEMPTS
    /\ c.kind = "finish" => p.stage # "input"
Keyed(k) == k.kek # NoKek => k.data # 0

RowsOK ==
  /\ account \in Row
  /\ cache \in Cache
  /\ envelope \in Cache
  /\ spent \in [vaults: 1 .. MaxVaults, binds: 1 .. MaxBinds, mps: 0 .. MaxMp,
                faults: 0 .. MaxFaults, calls: 0 .. MaxCalls]
  /\ wish \in [vault: 0 .. MaxVaults, quick: BOOLEAN]
  /\ exposure \in SUBSET Exposures

(* The type invariant, tab by tab.                                         *)
LEMMA TypeInvShape ==
  TypeInv <=> /\ RowsOK
              /\ tab \in [Tabs -> TabRec]
              /\ page \in [Tabs -> PageRec]
              /\ call \in [Tabs -> CallRec]
              /\ \A t \in Tabs : /\ Keyed(tab[t]) /\ CallOK(call[t])
                                 /\ PageOK(page[t]) /\ Links(call[t], page[t])
BY DEF TypeInv, TypeOK, RowsOK, TabRec, PageRec, CallRec, Keyed, LiveOK, Links

(* A step of one page and its call keeps it if what it leaves is right.    *)
LEMMA OnePage ==
  ASSUME TypeInv, NEW t \in Tabs, RowsOK',
         NEW p \in PageRec, NEW c \in CallRec,
         tab' \in [Tabs -> TabRec], \A u \in Tabs : Keyed(tab'[u]),
         page' = [page EXCEPT ![t] = p],
         call' = [call EXCEPT ![t] = c],
         CallOK(c), PageOK(p), Links(c, p)
  PROVE  TypeInv'
<1>1. page \in [Tabs -> PageRec] /\ call \in [Tabs -> CallRec]
  BY TypeInvShape
<1>2. page' \in [Tabs -> PageRec] /\ call' \in [Tabs -> CallRec]
  BY <1>1
<1>3. ASSUME NEW u \in Tabs
      PROVE  CallOK(call'[u]) /\ PageOK(page'[u]) /\ Links(call'[u], page'[u])
  <2>1. CASE u = t
    BY <1>1, <2>1
  <2>2. CASE u # t
    <3>1. page'[u] = page[u] /\ call'[u] = call[u]
      BY <1>1, <2>2
    <3> QED BY <3>1, TypeInvShape
  <2> QED BY <2>1, <2>2
<1>4. TypeOK'
  BY <1>2 DEF RowsOK, TypeOK, TabRec, PageRec, CallRec, Keyed
<1>5. ASSUME NEW u \in Tabs
      PROVE  CallOK(call[u])' /\ PageOK(page[u])' /\ LiveOK(u)'
  BY <1>3 DEF CallOK, PageOK, LiveOK, Links, Waiting, StretchedWith
<1> QED BY <1>4, <1>5 DEF TypeInv

LEMMA OneTab ==
  ASSUME TypeInv, NEW t \in Tabs, RowsOK',
         NEW k \in TabRec, NEW p \in PageRec, NEW c \in CallRec,
         tab' = [tab EXCEPT ![t] = k],
         page' = [page EXCEPT ![t] = p],
         call' = [call EXCEPT ![t] = c],
         Keyed(k), CallOK(c), PageOK(p), Links(c, p)
  PROVE  TypeInv'
<1>1. tab \in [Tabs -> TabRec] /\ \A u \in Tabs : Keyed(tab[u])
  BY TypeInvShape
<1>2. tab' \in [Tabs -> TabRec] /\ \A u \in Tabs : Keyed(tab'[u])
  BY <1>1
<1> QED BY <1>2, OnePage

LEMMA Zero == 0 \in 0 .. MaxVaults /\ 0 \in 0 .. MAX_ATTEMPTS
BY BoundsAssumption

(* The records of one tab, as a step finds them.                           *)
LEMMA Found ==
  ASSUME TypeInv, NEW t \in Tabs
  PROVE  /\ RowsOK
         /\ tab \in [Tabs -> TabRec] /\ tab[t] \in TabRec /\ Keyed(tab[t])
         /\ page \in [Tabs -> PageRec] /\ page[t] \in PageRec /\ PageOK(page[t])
         /\ call \in [Tabs -> CallRec] /\ call[t] \in CallRec /\ CallOK(call[t])
         /\ Links(call[t], page[t])
         /\ tab = [tab EXCEPT ![t] = tab[t]]
         /\ page = [page EXCEPT ![t] = page[t]]
         /\ call = [call EXCEPT ![t] = call[t]]
BY TypeInvShape

LEMMA Resting ==
  /\ NoRow \in Row /\ NoCache \in Cache
  /\ NoCall \in CallRec /\ CallOK(NoCall)
  /\ Locked \in TabRec /\ Keyed(Locked)
  /\ Elsewhere \in PageRec /\ PageOK(Elsewhere)
  /\ \A p \in PageRec : Links(NoCall, p)
BY BoundsAssumption
   DEF NoRow, Row, NoCache, Cache, Mixed, NoCall, CallRec, CallOK, Locked, TabRec,
       Kek, NoKek, Underivable, Keyed, Elsewhere, PageRec, PageOK, Links

(* A page as it opens.                                                     *)
LEMMA VaultMounted ==
  ASSUME TypeInv, NEW t \in Tabs, NEW p, p = Mounted("vault")
  PROVE  p \in PageRec /\ PageOK(p)
<1>1. account \in Row
  BY Found DEF RowsOK
<1>2. p = [Elsewhere EXCEPT !.at = "vault", !.snap = account,
                            !.quick = FALSE, !.emergency = TRUE]
  BY DEF Mounted, Elsewhere
<1>3. p \in PageRec
  BY <1>1, <1>2, Resting DEF PageRec
<1>4. p.at = "vault"
  BY <1>2 DEF Elsewhere
<1> QED BY <1>3, <1>4 DEF PageOK

(* A call that ends tells the page that waits for it.                      *)
LEMMA CallEnds ==
  ASSUME TypeInv, NEW t \in Tabs, RowsOK', tab' = tab, Ends(t),
         NEW p, Answers(t) => p \in PageRec /\ PageOK(p),
         Tell(t, p)
  PROVE  TypeInv'
<1> DEFINE q == IF Answers(t) THEN p ELSE page[t]
<1>1. q \in PageRec /\ PageOK(q) /\ page' = [page EXCEPT ![t] = q]
  BY Found DEF Tell
<1>2. Links(NoCall, q)
  BY <1>1, Resting
<1> HIDE DEF q
<1> QED BY <1>1, <1>2, OneTab, Found, Resting DEF Ends

LEMMA KekTyped ==
  ASSUME NEW r \in Row
  PROVE  KekOf(r) \in Kek
BY BoundsAssumption DEF KekOf, Row, Kek, Underivable

(* A fault or a submission leaves the rows, and counts itself.             *)
LEMMA RowsKept ==
  ASSUME TypeInv, UNCHANGED <<rows, wish, exposure>>,
         \/ UNCHANGED spent
         \/ Fault
         \/ \E t, c : Submit(t, c)
  PROVE  RowsOK'
<1> DEFINE Spent == [vaults: 1 .. MaxVaults, binds: 1 .. MaxBinds, mps: 0 .. MaxMp,
                     faults: 0 .. MaxFaults, calls: 0 .. MaxCalls]
<1>1. RowsOK
  BY TypeInvShape
<1>2. \/ UNCHANGED spent
      \/ spent.faults < MaxFaults /\ spent' = [spent EXCEPT !.faults = @ + 1]
      \/ spent.calls < MaxCalls /\ spent' = [spent EXCEPT !.calls = @ + 1]
  BY DEF Fault, Submit, Spend
<1>3. spent' \in Spent
  BY <1>1, <1>2, BoundsAssumption DEF RowsOK
<1> QED BY <1>1, <1>3 DEF RowsOK, rows

(* The forms of the unlock page and the calls they make.                   *)
LEMMA TypeUnlock ==
  ASSUME TypeInv, NEW t \in Tabs, UnlockStep(t)
  PROVE  TypeInv'
<1>1. /\ RowsOK
      /\ tab[t] \in TabRec /\ Keyed(tab[t]) /\ tab = [tab EXCEPT ![t] = tab[t]]
      /\ page[t] \in PageRec /\ PageOK(page[t]) /\ page = [page EXCEPT ![t] = page[t]]
      /\ call[t] \in CallRec /\ CallOK(call[t]) /\ call = [call EXCEPT ![t] = call[t]]
      /\ Links(call[t], page[t])
  BY Found
<1>2. /\ Idle(t) \in PageRec /\ PageOK(Idle(t))
      /\ WithoutQuick(Idle(t)) \in PageRec /\ PageOK(WithoutQuick(Idle(t)))
  BY <1>1 DEF Idle, WithoutQuick, PageRec, PageOK
<1>3. ASSUME call[t].kind \in {"quick", "emergency"}, Answers(t)
      PROVE  /\ Burnt(Idle(t)) \in PageRec /\ PageOK(Burnt(Idle(t)))
             /\ WithoutQuick(Burnt(Idle(t))) \in PageRec
             /\ PageOK(WithoutQuick(Burnt(Idle(t))))
  <2>1. page[t].attempts + 1 \in 0 .. MAX_ATTEMPTS
    BY <1>1, <1>3, BoundsAssumption DEF Links, Answers, Waiting, PageRec
  <2> QED BY <1>1, <2>1 DEF Idle, Burnt, WithoutQuick, PageRec, PageOK
<1>4. CASE unlock(t)
  <2>1. PICK pw \in 0 .. MaxMp, key \in Vault :
          LET c == [NoCall EXCEPT !.pw = pw, !.form = page[t].snap]
              q == [c EXCEPT !.kind = "quick", !.pc = "prompt",
                             !.snap = account, !.rec = cache]
              e == [c EXCEPT !.kind = "emergency", !.pc = "load", !.key = key] IN
          Submit(t, q) \/ Submit(t, e)
    <3>1. 1 \in Vault
      BY BoundsAssumption DEF Vault
    <3> QED BY <1>4, <3>1 DEF unlock
  <2> DEFINE c0 == [NoCall EXCEPT !.pw = pw, !.form = page[t].snap, !.live = TRUE]
             q0 == [c0 EXCEPT !.kind = "quick", !.pc = "prompt",
                              !.snap = account, !.rec = cache]
             e0 == [c0 EXCEPT !.kind = "emergency", !.pc = "load", !.key = key]
             p0 == [page[t] EXCEPT !.busy = TRUE]
  <2>2. PICK c \in {q0, e0} : call' = [call EXCEPT ![t] = c]
    <3> DEFINE q1 == [[NoCall EXCEPT !.pw = pw, !.form = page[t].snap]
                      EXCEPT !.kind = "quick", !.pc = "prompt",
                             !.snap = account, !.rec = cache]
               e1 == [[NoCall EXCEPT !.pw = pw, !.form = page[t].snap]
                      EXCEPT !.kind = "emergency", !.pc = "load", !.key = key]
    <3>1. \/ call' = [call EXCEPT ![t] = [q1 EXCEPT !.live = TRUE]]
          \/ call' = [call EXCEPT ![t] = [e1 EXCEPT !.live = TRUE]]
      BY <2>1 DEF Submit
    <3>2. [q1 EXCEPT !.live = TRUE] = q0 /\ [e1 EXCEPT !.live = TRUE] = e0
      BY DEF NoCall
    <3> HIDE DEF q0, e0, q1, e1
    <3> QED BY <3>1, <3>2
  <2>3. page[t].at = "unlock" /\ page[t].attempts < MAX_ATTEMPTS
    <3>1. page[t].at = "unlock" /\ ~(page[t].attempts >= MAX_ATTEMPTS)
      BY <1>4 DEF unlock, UnlockControls, lockedOut
    <3>2. page[t].attempts \in Int /\ MAX_ATTEMPTS \in Int
      BY <1>1, BoundsAssumption DEF PageRec
    <3> QED BY <3>1, <3>2
  <2>4. c \in CallRec /\ CallOK(c) /\ c.kind \in {"quick", "emergency"}
    <3>1. /\ page[t].snap \in Row /\ account \in Row /\ cache \in Cache
          /\ NoRow \in Row /\ NoCache \in Cache /\ key \in 0 .. MaxVaults
          /\ page[t].snap.vault # 0
      BY <1>1, <2>3, Resting DEF RowsOK, PageRec, PageOK, Vault
    <3>2. c0 \in CallRec
      BY <3>1, Resting DEF NoCall, CallRec
    <3>3. q0 \in CallRec /\ e0 \in CallRec
      BY <3>1, <3>2 DEF CallRec
    <3>4. CallOK(q0) /\ CallOK(e0)
      BY <3>1 DEF NoCall, CallOK
    <3>5. q0.kind = "quick" /\ e0.kind = "emergency"
      BY DEF NoCall
    <3> HIDE DEF q0, e0
    <3> QED BY <2>2, <3>3, <3>4, <3>5
  <2>5. p0 \in PageRec /\ PageOK(p0)
    BY <1>1 DEF PageRec, PageOK
  <2>6. Links(c, p0)
    BY <1>1, <2>3, <2>4 DEF Links, Waiting, PageRec
  <2>7. tab' = [tab EXCEPT ![t] = tab[t]] /\ page' = [page EXCEPT ![t] = p0]
    BY <1>1, <1>4 DEF unlock
  <2>8. RowsOK'
    <3>1. \E c1 : Submit(t, c1)
      BY <2>1
    <3> QED BY <1>4, <3>1, RowsKept DEF unlock
  <2> HIDE DEF p0, q0, e0
  <2> QED BY <1>1, <2>2, <2>4, <2>5, <2>6, <2>7, <2>8, OneTab
<1>5. CASE showEmergencyKey(t) \/ showQuickUnlock(t)
  <2>1. PICK e \in BOOLEAN : page' = [page EXCEPT ![t].emergency = e]
    BY <1>5 DEF showEmergencyKey, showQuickUnlock
  <2> DEFINE p0 == [page[t] EXCEPT !.emergency = e]
  <2>2. p0 \in PageRec /\ PageOK(p0) /\ Links(call[t], p0)
    BY <1>1 DEF PageRec, PageOK, Links
  <2>3. /\ tab' = [tab EXCEPT ![t] = tab[t]] /\ call' = [call EXCEPT ![t] = call[t]]
        /\ page' = [page EXCEPT ![t] = p0] /\ RowsOK'
    BY <1>1, RowsKept, <1>5, <2>1 DEF showEmergencyKey, showQuickUnlock
  <2> HIDE DEF p0
  <2> QED BY <1>1, <2>2, <2>3, OneTab
<1>6. CASE QuickUnlockFails(t)
  <2>1. RowsOK'
    BY <1>1, <1>6, BoundsAssumption DEF QuickUnlockFails, RowsOK, rows
  <2> QED BY <1>2, <1>6, <2>1, CallEnds DEF QuickUnlockFails
<1>7. CASE openQuickUnlock(t)
  <2>1. RowsOK'
    BY <1>1, <1>7, Resting DEF openQuickUnlock, RowsOK, CallRec, Expose, Exposures
  <2>2. CASE call[t].rec.bind = call[t].snap.bind
    <3> DEFINE c0 == [call[t] EXCEPT !.pc = "load", !.key = call[t].rec.key,
                                     !.prf = call[t].snap.bind]
    <3>1. c0 \in CallRec
      BY <1>1 DEF CallRec, Row, Cache
    <3>2. CallOK(c0) /\ Links(c0, page[t])
      BY <1>1, <1>7 DEF openQuickUnlock, Ready, CallRec, CallOK, Links
    <3>3. /\ tab' = [tab EXCEPT ![t] = tab[t]] /\ call' = [call EXCEPT ![t] = c0]
          /\ page' = [page EXCEPT ![t] = page[t]]
      BY <1>1, <1>7, <2>2 DEF openQuickUnlock
    <3> HIDE DEF c0
    <3> QED BY <1>1, <2>1, <3>1, <3>2, <3>3, OneTab
  <2>3. CASE call[t].rec.bind # call[t].snap.bind
    BY <1>2, <1>7, <2>1, <2>3, CallEnds DEF openQuickUnlock
  <2> QED BY <2>2, <2>3
<1>8. CASE ChunkNotLoaded(t)
  <2>1. RowsOK'
    BY RowsKept, <1>8 DEF ChunkNotLoaded
  <2> QED BY <1>1, <1>2, <1>8, <2>1, CallEnds DEF ChunkNotLoaded
<1>9. CASE loginWithRetry(t)
  <2> DEFINE c0 == [call[t] EXCEPT !.mp = StretchedWith(call[t].pw, call[t].form.mp),
                                   !.opq = IF call[t].form.opq THEN call[t].form.vault ELSE 0,
                                   !.pc = "open"]
  <2>1. StretchedWith(call[t].pw, call[t].form.mp) \in Underivable .. MaxMp
    BY <1>1, BoundsAssumption DEF StretchedWith, CallRec, Underivable
  <2>2. c0 \in CallRec
    <3>1. call[t].form.vault \in 0 .. MaxVaults /\ 0 \in 0 .. MaxVaults
      BY <1>1, BoundsAssumption DEF CallRec, Row
    <3> QED BY <1>1, <2>1, <3>1 DEF CallRec
  <2>3. CallOK(c0) /\ Links(c0, page[t])
    BY <1>1, <1>9 DEF loginWithRetry, CallRec, CallOK, Links
  <2>4. /\ tab' = [tab EXCEPT ![t] = tab[t]] /\ call' = [call EXCEPT ![t] = c0]
        /\ page' = [page EXCEPT ![t] = page[t]] /\ RowsOK'
    BY <1>1, RowsKept, <1>9 DEF loginWithRetry
  <2> HIDE DEF c0
  <2> QED BY <1>1, <2>2, <2>3, <2>4, OneTab
<1>10. CASE LoginRefused(t)
  <2>1. call[t].kind \in {"quick", "emergency"}
    BY <1>1, <1>10 DEF LoginRefused, LoginRefusal, CallOK
  <2>2. RowsOK'
    BY RowsKept, <1>10 DEF LoginRefused
  <2> QED BY <1>3, <1>10, <2>1, <2>2, CallEnds DEF LoginRefused
<1>11. CASE LoginUnavailable(t)
  <2>1. RowsOK'
    BY RowsKept, <1>11 DEF LoginUnavailable
  <2> QED BY <1>2, <1>11, <2>1, CallEnds DEF LoginUnavailable
<1>12. CASE openVault(t)
  <2> DEFINE k0 == [Locked EXCEPT !.kek = Derived(t), !.data = account.vault, !.shown = TRUE]
             p0 == IF page[t].at = "vault" THEN page[t] ELSE Mounted("vault")
  <2>1. Derived(t) \in Kek
    BY <1>1, <1>12, BoundsAssumption
       DEF openVault, Opens, KekOf, RowsOK, Row, Kek, Underivable
  <2>2. k0 \in TabRec /\ Keyed(k0)
    BY <1>1, <1>12, <2>1, Resting DEF openVault, Opens, TabRec, Keyed, RowsOK, Row, Locked
  <2>3. p0 \in PageRec /\ PageOK(p0)
    <3>1. p0 = page[t] \/ p0 = Mounted("vault")
      OBVIOUS
    <3> HIDE DEF p0
    <3>2. CASE p0 = page[t]
      BY <1>1, <3>2 DEF PageOK
    <3>3. CASE p0 = Mounted("vault")
      BY <3>3, VaultMounted
    <3> QED BY <3>1, <3>2, <3>3
  <2>4. /\ tab' = [tab EXCEPT ![t] = k0] /\ call' = [call EXCEPT ![t] = NoCall]
        /\ page' = [page EXCEPT ![t] = p0] /\ RowsOK'
    BY <1>1, RowsKept, <1>12 DEF openVault, Goto, Ends
  <2> HIDE DEF p0, k0
  <2> QED BY <2>2, <2>3, <2>4, Resting, OneTab
<1>13. CASE openVaultFails(t)
  <2>1. call[t].kind \in {"quick", "emergency"}
    BY <1>13 DEF openVaultFails, Opening
  <2>2. RowsOK'
    BY RowsKept, <1>13 DEF openVaultFails
  <2> DEFINE p0 == IF call[t].kind = "quick" THEN WithoutQuick(Burnt(Idle(t)))
                   ELSE Burnt(Idle(t))
  <2>3. Answers(t) => p0 \in PageRec /\ PageOK(p0)
    BY <1>3, <2>1
  <2>4. Tell(t, p0) /\ Ends(t) /\ tab' = tab
    BY <1>13 DEF openVaultFails
  <2> HIDE DEF p0
  <2> QED BY <2>2, <2>3, <2>4, CallEnds
<1>14. CASE isMissingPrfOutput(t)
  <2>1. RowsOK'
    BY RowsKept, <1>14 DEF isMissingPrfOutput
  <2> QED BY <1>2, <1>14, <2>1, CallEnds DEF isMissingPrfOutput
<1> QED BY <1>4, <1>5, <1>6, <1>7, <1>8, <1>9, <1>10, <1>11, <1>12, <1>13, <1>14
        DEF UnlockStep

(* The recovery page, the wipe and the vault made after it.                *)
LEMMA TypeRecover ==
  ASSUME TypeInv, NEW t \in Tabs, RecoverStep(t)
  PROVE  TypeInv'
<1>1. /\ RowsOK
      /\ tab[t] \in TabRec /\ Keyed(tab[t]) /\ tab = [tab EXCEPT ![t] = tab[t]]
      /\ page[t] \in PageRec /\ PageOK(page[t]) /\ page = [page EXCEPT ![t] = page[t]]
      /\ call[t] \in CallRec /\ CallOK(call[t]) /\ call = [call EXCEPT ![t] = call[t]]
      /\ Links(call[t], page[t])
  BY Found
<1> DEFINE dead == [call[t] EXCEPT !.live = FALSE]
<1>3. dead \in CallRec /\ CallOK(dead) /\ \A p \in PageRec : Links(dead, p)
  BY <1>1 DEF CallRec, CallOK, Links
<1>4. CASE rewirePasskey(t)
  <2>1. PICK key \in Vault :
          \/ /\ Submit(t, [NoCall EXCEPT !.kind = "rewire", !.pc = "prompt", !.key = key,
                                         !.form = account])
             /\ page' = [page EXCEPT ![t].busy = TRUE, ![t].stage = "passkey"]
             /\ tab' = [tab EXCEPT ![t] = [Locked EXCEPT !.data = account.vault,
                                                         !.shown = TRUE]]
          \/ UNCHANGED <<tab, page, call, spent>>
    BY <1>4 DEF rewirePasskey
  <2>2. page[t].at = "recover" /\ UNCHANGED <<rows, wish, exposure>>
    BY <1>4 DEF rewirePasskey
  <2>3. CASE UNCHANGED <<tab, page, call, spent>>
    BY <1>1, <2>2, <2>3, OneTab, RowsKept
  <2>4. CASE ~UNCHANGED <<tab, page, call, spent>>
    <3> DEFINE k0 == [Locked EXCEPT !.data = account.vault, !.shown = TRUE]
               p0 == [page[t] EXCEPT !.busy = TRUE, !.stage = "passkey"]
               c0 == [NoCall EXCEPT !.kind = "rewire", !.pc = "prompt", !.key = key,
                                    !.form = account, !.live = TRUE]
    <3>1. k0 \in TabRec /\ Keyed(k0)
      BY <1>1, Resting DEF TabRec, Keyed, RowsOK, Row, Locked
    <3>2. p0 \in PageRec /\ PageOK(p0)
      BY <1>1, <2>2 DEF PageRec, PageOK
    <3>3. c0 \in CallRec /\ CallOK(c0)
      <4>1. account \in Row /\ key \in 0 .. MaxVaults
        BY <1>1 DEF RowsOK, Vault
      <4>2. c0 \in CallRec
        BY <4>1, Resting DEF CallRec
      <4> QED BY <4>2 DEF NoCall, CallOK
    <3>4. Links(c0, p0)
      BY <1>1, <2>2 DEF NoCall, Links, Waiting, PageRec
    <3>5. /\ tab' = [tab EXCEPT ![t] = k0] /\ page' = [page EXCEPT ![t] = p0]
          /\ call' = [call EXCEPT ![t] = c0]
      <4> DEFINE c1 == [NoCall EXCEPT !.kind = "rewire", !.pc = "prompt", !.key = key,
                                      !.form = account]
      <4>1. call' = [call EXCEPT ![t] = [c1 EXCEPT !.live = TRUE]]
        BY <2>1, <2>4 DEF Submit
      <4>2. [c1 EXCEPT !.live = TRUE] = c0
        BY DEF NoCall
      <4>3. /\ page' = [page EXCEPT ![t].busy = TRUE, ![t].stage = "passkey"]
            /\ tab' = [tab EXCEPT ![t] = k0]
        BY <2>1, <2>4
      <4> HIDE DEF c0, c1, k0
      <4> QED BY <1>1, <4>1, <4>2, <4>3
    <3>6. RowsOK'
      <4>1. \E c1 : Submit(t, c1)
        BY <2>1, <2>4
      <4> QED BY <2>2, <4>1, RowsKept
    <3> HIDE DEF k0, p0, c0
    <3> QED BY <3>1, <3>2, <3>3, <3>4, <3>5, <3>6, OneTab
  <2> QED BY <2>3, <2>4
<1>5. CASE RecoveryFailed(t)
  <2>1. RowsOK'
    BY <1>5, RowsKept DEF RecoveryFailed
  <2> DEFINE p0 == [Idle(t) EXCEPT !.stage = "input"]
  <2>2. p0 \in PageRec /\ PageOK(p0)
    BY <1>1 DEF Idle, PageRec, PageOK
  <2>3. Tell(t, p0) /\ Ends(t) /\ tab' = tab
    BY <1>5 DEF RecoveryFailed
  <2> HIDE DEF p0
  <2> QED BY <2>1, <2>2, <2>3, CallEnds
<1>6. CASE registerPasskey(t)
  <2> DEFINE p0 == IF Answers(t) /\ call[t].kind = "finish"
                   THEN [page[t] EXCEPT !.stage = "adopting"] ELSE page[t]
             c0 == [call[t] EXCEPT !.prf = spent.binds + 1, !.pc = "read"]
  <2>1. /\ call[t].kind \in {"rewire", "finish"} /\ call[t].pc = "prompt"
        /\ spent.binds < MaxBinds /\ spent' = [spent EXCEPT !.binds = @ + 1]
        /\ UNCHANGED <<rows, tab, wish, exposure>> /\ call' = [call EXCEPT ![t] = c0]
    BY <1>6 DEF registerPasskey, Spend
  <2>2. spent.binds + 1 \in 1 .. MaxBinds /\ spent.binds + 1 \in 0 .. MaxBinds
    BY <1>1, <2>1, BoundsAssumption DEF RowsOK
  <2>3. RowsOK'
    BY <1>1, <2>1, <2>2 DEF RowsOK, rows
  <2>4. c0 \in CallRec
    BY <1>1, <2>2 DEF CallRec
  <2>5. CallOK(c0)
    BY <1>1, <2>1 DEF CallRec, CallOK
  <2>6. p0 \in PageRec /\ PageOK(p0) /\ Links(c0, p0)
    BY <1>1, <2>1 DEF PageRec, CallRec, PageOK, Links, Answers, Waiting
  <2>7. page' = [page EXCEPT ![t] = p0]
    <3>1. Tell(t, [page[t] EXCEPT !.stage = IF call[t].kind = "finish" THEN "adopting" ELSE @])
      BY <1>6 DEF registerPasskey
    <3> QED BY <1>1, <3>1 DEF Tell, PageRec
  <2>8. tab' = [tab EXCEPT ![t] = tab[t]]
    BY <1>1, <2>1
  <2> HIDE DEF p0, c0
  <2> QED BY <1>1, <2>1, <2>3, <2>4, <2>5, <2>6, <2>7, <2>8, OneTab
<1>7. CASE RebindReads(t)
  <2> DEFINE c0 == [call[t] EXCEPT !.snap = account, !.pc = "commit"]
  <2>1. c0 \in CallRec /\ CallOK(c0) /\ Links(c0, page[t])
    BY <1>1, <1>7 DEF RebindReads, Ready, Missing, RowsOK, CallRec, CallOK, Links
  <2>2. /\ tab' = [tab EXCEPT ![t] = tab[t]] /\ page' = [page EXCEPT ![t] = page[t]]
        /\ call' = [call EXCEPT ![t] = c0] /\ RowsOK'
    BY <1>1, <1>7, RowsKept DEF RebindReads
  <2> HIDE DEF c0
  <2> QED BY <1>1, <2>1, <2>2, OneTab
<1>8. CASE rebindRecoveredVault(t)
  <2> DEFINE r0 == Rebound(call[t])
             k0 == [tab[t] EXCEPT !.kek = KekOf(r0), !.data = call[t].snap.vault]
             c0 == [call[t] EXCEPT !.pc = "reseal"]
  <2>1. r0 \in Row
    BY <1>1, BoundsAssumption DEF Rebound, SealedRow, CallRec, Row
  <2>2. KekOf(r0) \in Kek
    BY <2>1, KekTyped
  <2>3. k0 \in TabRec /\ Keyed(k0)
    <3>1. call[t].snap.vault \in 0 .. MaxVaults /\ call[t].snap.vault # 0
      BY <1>1, <1>8 DEF rebindRecoveredVault, Ready, CallRec, CallOK, Row
    <3> QED BY <1>1, <2>2, <3>1 DEF TabRec, Keyed
  <2>4. c0 \in CallRec /\ CallOK(c0) /\ Links(c0, page[t])
    BY <1>1, <1>8 DEF rebindRecoveredVault, Ready, CallRec, CallOK, Links
  <2>5. /\ tab' = [tab EXCEPT ![t] = k0] /\ page' = [page EXCEPT ![t] = page[t]]
        /\ call' = [call EXCEPT ![t] = c0] /\ account' = r0
    BY <1>1, <1>8 DEF rebindRecoveredVault
  <2>6. RowsOK'
    BY <1>1, <1>8, <2>1, <2>5 DEF rebindRecoveredVault, RowsOK, Expose, Exposures
  <2> HIDE DEF r0, k0, c0
  <2> QED BY <1>1, <2>3, <2>4, <2>5, <2>6, OneTab
<1>9. CASE Recovered(t)
  <2> DEFINE p0 == IF CanShow(t, "vault") /\ page[t].at # "vault"
                   THEN Mounted("vault") ELSE page[t]
  <2>1. RowsOK'
    <3>1. Kept(call[t].key, account.bind) \in Cache
      <4>1. call[t].key \in 0 .. MaxVaults /\ account.bind \in 0 .. MaxBinds
        BY <1>1 DEF RowsOK, Row, CallRec
      <4> QED BY <4>1, BoundsAssumption DEF Cache, Mixed, Kept
    <3>2. exposure' \in SUBSET Exposures
      BY <1>1, <1>9 DEF Recovered, RowsOK, Expose, Exposures
    <3> QED BY <1>1, <1>9, <3>1, <3>2 DEF Recovered, RowsOK
  <2>2. p0 \in PageRec /\ PageOK(p0)
    <3>1. p0 = page[t] \/ p0 = Mounted("vault")
      OBVIOUS
    <3> HIDE DEF p0
    <3>2. CASE p0 = page[t]
      BY <1>1, <3>2 DEF PageOK
    <3>3. CASE p0 = Mounted("vault")
      BY <3>3, VaultMounted
    <3> QED BY <3>1, <3>2, <3>3
  <2>3. /\ tab' = [tab EXCEPT ![t] = tab[t]] /\ page' = [page EXCEPT ![t] = p0]
        /\ call' = [call EXCEPT ![t] = NoCall]
    BY <1>1, <1>9 DEF Recovered, Goto, Ends
  <2> HIDE DEF p0
  <2> QED BY <1>1, <2>1, <2>2, <2>3, Resting, OneTab
<1>10. CASE startFresh(t)
  <2>1. RowsOK'
    <3>1. exposure' \in SUBSET Exposures
      BY <1>1, <1>10 DEF startFresh, RowsOK, Expose, Exposures
    <3>2. [vault |-> 0, quick |-> FALSE] \in [vault: 0 .. MaxVaults, quick: BOOLEAN]
      BY BoundsAssumption
    <3> QED BY <1>1, <1>10, <3>1, <3>2, Resting DEF startFresh, Cleared, RowsOK
  <2>2. tab' \in [Tabs -> TabRec] /\ \A u \in Tabs : Keyed(tab'[u])
    BY <1>10, TypeInvShape DEF startFresh, TabRec, Keyed
  <2>3. page' = [page EXCEPT ![t] = Elsewhere] /\ call' = [call EXCEPT ![t] = dead]
    BY <1>10 DEF startFresh, Abandon
  <2>4. Links(dead, Elsewhere)
    BY <1>3, Resting
  <2> HIDE DEF dead
  <2> QED BY <1>3, <2>1, <2>2, <2>3, <2>4, Resting, OnePage
<1>11. CASE WipedElsewhere(t)
  <2> DEFINE p0 == IF page[t].at = "vault" THEN Elsewhere ELSE page[t]
  <2>1. p0 \in PageRec /\ PageOK(p0)
    BY <1>1, Resting
  <2>2. /\ tab' = [tab EXCEPT ![t] = Locked] /\ page' = [page EXCEPT ![t] = p0]
        /\ call' = [call EXCEPT ![t] = dead] /\ RowsOK'
    BY <1>11, RowsKept DEF WipedElsewhere, Abandon
  <2> HIDE DEF p0, dead
  <2> QED BY <1>3, <2>1, <2>2, Resting, OneTab
<1>12. CASE Provision(t)
  <2> DEFINE v == spent.vaults + 1
             b == spent.binds + 1
             r0 == SealedRow(v, v, b, TRUE)
             k0 == [Locked EXCEPT !.kek = KekOf(r0), !.data = v, !.shown = TRUE]
  <2>1. v \in 1 .. MaxVaults /\ b \in 1 .. MaxBinds
    BY <1>1, <1>12, BoundsAssumption DEF Provision, RowsOK
  <2>2. r0 \in Row
    BY <2>1, BoundsAssumption DEF SealedRow, Row
  <2>3. KekOf(r0) \in Kek
    BY <2>2, KekTyped
  <2>4. k0 \in TabRec /\ Keyed(k0)
    <3>1. v \in 0 .. MaxVaults /\ v # 0
      BY <2>1, BoundsAssumption
    <3> HIDE DEF r0, v, b
    <3> QED BY <2>3, <3>1, Resting DEF TabRec, Keyed, Locked
  <2>5. PICK quick \in BOOLEAN :
          /\ account' = r0
          /\ cache' = IF quick THEN Kept(v, b) ELSE cache
          /\ envelope' = Kept(v, b)
          /\ wish' = [vault |-> v, quick |-> quick]
          /\ tab' = [tab EXCEPT ![t] = k0]
    BY <1>12 DEF Provision
  <2>6. /\ page' = [page EXCEPT ![t] = page[t]] /\ call' = [call EXCEPT ![t] = call[t]]
        /\ exposure' = exposure
        /\ spent' = [spent EXCEPT !.vaults = v, !.binds = b]
    BY <1>1, <1>12 DEF Provision
  <2>7. RowsOK'
    <3>1. Kept(v, b) \in Cache
      BY <2>1 DEF Kept, Cache, Mixed
    <3>2. wish' \in [vault: 0 .. MaxVaults, quick: BOOLEAN]
      BY <2>1, <2>5
    <3>3. spent' \in [vaults: 1 .. MaxVaults, binds: 1 .. MaxBinds, mps: 0 .. MaxMp,
                      faults: 0 .. MaxFaults, calls: 0 .. MaxCalls]
      BY <1>1, <2>1, <2>6 DEF RowsOK
    <3> HIDE DEF r0, v, b
    <3> QED BY <1>1, <2>2, <2>5, <2>6, <3>1, <3>2, <3>3 DEF RowsOK
  <2> HIDE DEF k0, r0, v, b
  <2> QED BY <1>1, <2>4, <2>5, <2>6, <2>7, OneTab
<1> QED BY <1>4, <1>5, <1>6, <1>7, <1>8, <1>9, <1>10, <1>11, <1>12 DEF RecoverStep

(* The restore page.                                                       *)
LEMMA TypeRestore ==
  ASSUME TypeInv, NEW t \in Tabs, RestoreStep(t)
  PROVE  TypeInv'
<1>1. /\ RowsOK
      /\ tab[t] \in TabRec /\ Keyed(tab[t]) /\ tab = [tab EXCEPT ![t] = tab[t]]
      /\ page[t] \in PageRec /\ PageOK(page[t]) /\ page = [page EXCEPT ![t] = page[t]]
      /\ call[t] \in CallRec /\ CallOK(call[t]) /\ call = [call EXCEPT ![t] = call[t]]
      /\ Links(call[t], page[t])
  BY Found
<1>2. CASE findVault(t)
  <2>1. PICK key \in 1 .. spent.vaults :
          Submit(t, [NoCall EXCEPT !.kind = "search", !.pc = "load", !.key = key,
                                   !.form = [NoRow EXCEPT !.vault = key, !.opq = TRUE]])
    BY <1>2 DEF findVault
  <2>2. page[t].at = "restore" /\ page[t].stage = "input" /\ tab' = tab
        /\ UNCHANGED <<rows, wish, exposure>>
    BY <1>2 DEF findVault, RestoreControls
  <2> DEFINE f0 == [NoRow EXCEPT !.vault = key, !.opq = TRUE]
             c0 == [NoCall EXCEPT !.kind = "search", !.pc = "load", !.key = key,
                                  !.form = f0, !.live = TRUE]
             p0 == [page[t] EXCEPT !.busy = TRUE, !.pend = 0]
  <2>3. key \in 0 .. MaxVaults /\ key # 0
    BY <1>1, <2>1, BoundsAssumption DEF RowsOK
  <2>4. f0 \in Row
    BY <2>3, Resting DEF Row
  <2>5. c0 \in CallRec
    <3> HIDE DEF f0
    <3> QED BY <2>3, <2>4, Resting DEF CallRec
  <2>6. CallOK(c0)
    BY <2>3 DEF NoCall, NoRow, CallOK
  <2>7. p0 \in PageRec /\ PageOK(p0) /\ Links(c0, p0)
    BY <1>1, <2>2, Zero DEF PageRec, PageOK, Links, NoCall, Waiting
  <2>8. /\ tab' = [tab EXCEPT ![t] = tab[t]] /\ call' = [call EXCEPT ![t] = c0]
        /\ page' = [page EXCEPT ![t] = p0]
    <3> DEFINE c1 == [NoCall EXCEPT !.kind = "search", !.pc = "load", !.key = key,
                                    !.form = f0]
    <3>1. call' = [call EXCEPT ![t] = [c1 EXCEPT !.live = TRUE]]
      BY <2>1 DEF Submit
    <3>2. [c1 EXCEPT !.live = TRUE] = c0
      BY DEF NoCall
    <3>3. tab' = tab /\ page' = [page EXCEPT ![t].busy = TRUE, ![t].pend = 0]
      BY <1>2, <2>2 DEF findVault
    <3> HIDE DEF c0, c1
    <3> QED BY <1>1, <3>1, <3>2, <3>3
  <2>9. RowsOK'
    <3>1. \E c1 : Submit(t, c1)
      BY <2>1
    <3> QED BY <2>2, <3>1, RowsKept
  <2> HIDE DEF p0, c0
  <2> QED BY <1>1, <2>5, <2>6, <2>7, <2>8, <2>9, OneTab
<1>3. CASE VaultFound(t)
  <2>1. RowsOK'
    BY <1>3, RowsKept DEF VaultFound
  <2> DEFINE p0 == [Idle(t) EXCEPT !.stage = "ready", !.pend = call[t].key]
  <2>2. call[t].key \in 0 .. MaxVaults /\ call[t].key # 0
    BY <1>1, <1>3 DEF VaultFound, Ready, CallOK, CallRec
  <2>3. p0 \in PageRec /\ PageOK(p0)
    BY <1>1, <2>2 DEF Idle, PageRec, PageOK
  <2>4. Tell(t, p0) /\ Ends(t) /\ tab' = tab
    BY <1>3 DEF VaultFound
  <2> HIDE DEF p0
  <2> QED BY <2>1, <2>3, <2>4, CallEnds
<1>4. CASE finish(t)
  <2>1. /\ page[t].at = "restore" /\ page[t].stage # "input" /\ tab' = tab
        /\ UNCHANGED <<rows, wish, exposure>>
        /\ Submit(t, [NoCall EXCEPT !.kind = "finish", !.pc = "prompt", !.key = page[t].pend])
    BY <1>4 DEF finish, RestoreControls
  <2> DEFINE c0 == [NoCall EXCEPT !.kind = "finish", !.pc = "prompt",
                                  !.key = page[t].pend, !.live = TRUE]
             p0 == [page[t] EXCEPT !.busy = TRUE, !.stage = "passkey"]
  <2>2. page[t].pend \in 0 .. MaxVaults /\ page[t].pend # 0
    BY <1>1, <2>1 DEF PageRec, PageOK
  <2>3. c0 \in CallRec /\ CallOK(c0)
    BY <2>2, Resting DEF CallRec, CallOK, NoCall
  <2>4. p0 \in PageRec /\ PageOK(p0) /\ Links(c0, p0)
    BY <1>1, <2>1 DEF PageRec, PageOK, Links, NoCall, Waiting
  <2>5. /\ tab' = [tab EXCEPT ![t] = tab[t]] /\ call' = [call EXCEPT ![t] = c0]
        /\ page' = [page EXCEPT ![t] = p0]
    BY <1>1, <1>4, <2>1 DEF finish, Submit, NoCall
  <2>6. RowsOK'
    <3>1. \E c1 : Submit(t, c1)
      BY <2>1
    <3> QED BY <2>1, <3>1, RowsKept
  <2> HIDE DEF p0, c0
  <2> QED BY <1>1, <2>3, <2>4, <2>5, <2>6, OneTab
<1>5. CASE passkeyFailed(t)
  <2>1. RowsOK'
    BY <1>5, RowsKept DEF passkeyFailed
  <2> DEFINE p0 == [Idle(t) EXCEPT !.stage = "ready"]
  <2>2. Answers(t) => p0 \in PageRec /\ PageOK(p0)
    BY <1>1, <1>5 DEF passkeyFailed, Ready, Idle, PageRec, PageOK, Links, Answers, Waiting
  <2>3. Tell(t, p0) /\ Ends(t) /\ tab' = tab
    BY <1>5 DEF passkeyFailed
  <2> HIDE DEF p0
  <2> QED BY <2>1, <2>2, <2>3, CallEnds
<1>6. CASE adoptRestoredVault(t)
  <2> DEFINE r0 == Adopted(call[t])
             k0 == [Locked EXCEPT !.kek = KekOf(r0), !.data = call[t].key, !.shown = TRUE]
             c0 == [call[t] EXCEPT !.pc = "reseal"]
  <2>1. call[t].key \in 0 .. MaxVaults /\ call[t].key # 0
    BY <1>1, <1>6 DEF adoptRestoredVault, Ready, CallOK, CallRec
  <2>2. r0 \in Row /\ KekOf(r0) \in Kek
    <3>1. r0 \in Row
      BY <1>1, BoundsAssumption DEF Adopted, SealedRow, CallRec, Row
    <3> HIDE DEF r0
    <3> QED BY <3>1, KekTyped
  <2>3. k0 \in TabRec /\ Keyed(k0)
    <3> HIDE DEF r0
    <3> QED BY <2>1, <2>2, Resting DEF TabRec, Keyed, Locked
  <2>4. c0 \in CallRec /\ CallOK(c0) /\ Links(c0, page[t])
    BY <1>1, <1>6 DEF adoptRestoredVault, Ready, CallRec, CallOK, Links
  <2>5. /\ tab' = [tab EXCEPT ![t] = k0] /\ page' = [page EXCEPT ![t] = page[t]]
        /\ call' = [call EXCEPT ![t] = c0] /\ account' = r0
    BY <1>1, <1>6 DEF adoptRestoredVault
  <2>6. RowsOK'
    <3>1. wish' \in [vault: 0 .. MaxVaults, quick: BOOLEAN]
      BY <1>6, <2>1 DEF adoptRestoredVault
    <3> HIDE DEF r0
    <3> QED BY <1>1, <1>6, <2>2, <2>5, <3>1 DEF adoptRestoredVault, RowsOK
  <2> HIDE DEF r0, k0, c0
  <2> QED BY <1>1, <2>3, <2>4, <2>5, <2>6, OneTab
<1>7. CASE Settled(t)
  <2> DEFINE p0 == IF CanShow(t, "vault") /\ page[t].at # "vault"
                   THEN Mounted("vault") ELSE page[t]
  <2>1. PICK quick \in BOOLEAN, recovery \in BOOLEAN :
          /\ cache' = IF quick THEN SealedCache(call[t].key, call[t].prf) ELSE cache
          /\ envelope' = IF recovery THEN Kept(call[t].key, account.bind) ELSE envelope
          /\ wish' = IF quick THEN [wish EXCEPT !.quick = TRUE] ELSE wish
          /\ Expose(recovery /\ account.vault # call[t].key, "row changed under a call")
    BY <1>7 DEF Settled
  <2>2. RowsOK'
    <3>1. /\ Kept(call[t].key, account.bind) \in Cache
          /\ SealedCache(call[t].key, call[t].prf) \in Cache
      <4>1. /\ call[t].key \in 0 .. MaxVaults /\ account.bind \in 0 .. MaxBinds
            /\ call[t].prf \in 0 .. MaxBinds
        BY <1>1 DEF RowsOK, Row, CallRec
      <4> QED BY <4>1, BoundsAssumption DEF Cache, Mixed, Kept, SealedCache
    <3>2. exposure' \in SUBSET Exposures
      BY <1>1, <2>1 DEF RowsOK, Expose, Exposures
    <3>3. account' = account /\ spent' = spent
      BY <1>7 DEF Settled
    <3> QED BY <1>1, <2>1, <3>1, <3>2, <3>3 DEF RowsOK
  <2>3. p0 \in PageRec /\ PageOK(p0)
    <3>1. p0 = page[t] \/ p0 = Mounted("vault")
      OBVIOUS
    <3> HIDE DEF p0
    <3>2. CASE p0 = page[t]
      BY <1>1, <3>2 DEF PageOK
    <3>3. CASE p0 = Mounted("vault")
      BY <3>3, VaultMounted
    <3> QED BY <3>1, <3>2, <3>3
  <2>4. /\ tab' = [tab EXCEPT ![t] = tab[t]] /\ page' = [page EXCEPT ![t] = p0]
        /\ call' = [call EXCEPT ![t] = NoCall]
    BY <1>1, <1>7 DEF Settled, Goto, Ends
  <2> HIDE DEF p0
  <2> QED BY <1>1, <2>2, <2>3, <2>4, Resting, OneTab
<1>8. CASE RestoreFailed(t)
  <2>1. RowsOK'
    BY <1>8, RowsKept DEF RestoreFailed
  <2> DEFINE p0 == [Idle(t) EXCEPT !.stage = "input", !.pend = 0]
  <2>2. p0 \in PageRec /\ PageOK(p0)
    BY <1>1, Zero DEF Idle, PageRec, PageOK
  <2>3. Tell(t, p0) /\ Ends(t) /\ tab' = tab
    BY <1>8 DEF RestoreFailed
  <2> HIDE DEF p0
  <2> QED BY <2>1, <2>2, <2>3, CallEnds
<1>9. CASE startOver(t)
  <2> DEFINE p0 == [page[t] EXCEPT !.stage = "input", !.pend = 0]
  <2>1. ~page[t].busy
    BY <1>9 DEF startOver, RestoreControls
  <2>2. p0 \in PageRec /\ PageOK(p0) /\ Links(call[t], p0)
    BY <1>1, <2>1, Zero DEF PageRec, PageOK, Links
  <2>3. /\ tab' = [tab EXCEPT ![t] = tab[t]] /\ page' = [page EXCEPT ![t] = p0]
        /\ call' = [call EXCEPT ![t] = call[t]] /\ RowsOK'
    BY <1>1, <1>9, RowsKept DEF startOver
  <2> HIDE DEF p0
  <2> QED BY <1>1, <2>2, <2>3, OneTab
<1> QED BY <1>2, <1>3, <1>4, <1>5, <1>6, <1>7, <1>8, <1>9 DEF RestoreStep

(* The security settings.                                                  *)
LEMMA TypeSettings ==
  ASSUME TypeInv, NEW t \in Tabs, SettingsStep(t)
  PROVE  TypeInv'
<1>1. /\ RowsOK
      /\ tab[t] \in TabRec /\ Keyed(tab[t]) /\ tab = [tab EXCEPT ![t] = tab[t]]
      /\ page[t] \in PageRec /\ PageOK(page[t]) /\ page = [page EXCEPT ![t] = page[t]]
      /\ call[t] \in CallRec /\ CallOK(call[t]) /\ call = [call EXCEPT ![t] = call[t]]
      /\ Links(call[t], page[t])
  BY Found
<1>2. Idle(t) \in PageRec /\ PageOK(Idle(t))
  BY <1>1 DEF Idle, PageRec, PageOK
<1>3. CASE OpenSettings(t)
  <2> DEFINE p0 == [page[t] EXCEPT !.snap = account, !.salted = TRUE]
  <2>1. page[t].at = "vault" /\ ~page[t].busy
    BY <1>3 DEF OpenSettings
  <2>2. p0 \in PageRec /\ PageOK(p0) /\ Links(call[t], p0)
    BY <1>1, <2>1 DEF PageRec, PageOK, Links, RowsOK
  <2>3. /\ tab' = [tab EXCEPT ![t] = tab[t]] /\ page' = [page EXCEPT ![t] = p0]
        /\ call' = [call EXCEPT ![t] = call[t]] /\ RowsOK'
    BY <1>1, <1>3, RowsKept DEF OpenSettings
  <2> HIDE DEF p0
  <2> QED BY <1>1, <2>2, <2>3, OneTab
<1>4. CASE submit(t) \/ recreateTrustedDevice(t)
  <2> DEFINE p0 == [page[t] EXCEPT !.busy = TRUE]
  <2>1. PICK c \in CallRec :
          Submit(t, c) /\ CallOK(c) /\ c.kind \in {"rotate", "recreate"}
    <3>1. page[t].snap \in Row /\ Vault \subseteq 0 .. MaxVaults
      BY <1>1 DEF PageRec, Vault
    <3>2. CASE submit(t)
      <4>1. PICK key \in Vault, pw \in 0 .. MaxMp :
              Submit(t, [NoCall EXCEPT !.kind = "rotate", !.pc = "prompt", !.key = key,
                                       !.pw = pw, !.snap = page[t].snap])
        BY <3>2 DEF submit
      <4> DEFINE c == [NoCall EXCEPT !.kind = "rotate", !.pc = "prompt", !.key = key,
                                     !.pw = pw, !.snap = page[t].snap]
      <4>2. c \in CallRec
        BY <3>1, Resting DEF CallRec
      <4>3. CallOK(c) /\ c.kind = "rotate"
        BY DEF NoCall, CallOK
      <4> QED BY <4>1, <4>2, <4>3
    <3>3. CASE recreateTrustedDevice(t)
      <4>1. PICK key \in Vault :
              Submit(t, [NoCall EXCEPT !.kind = "recreate", !.pc = "prompt",
                                       !.key = key, !.snap = page[t].snap])
        BY <3>3 DEF recreateTrustedDevice
      <4> DEFINE c == [NoCall EXCEPT !.kind = "recreate", !.pc = "prompt",
                                     !.key = key, !.snap = page[t].snap]
      <4>2. c \in CallRec
        BY <3>1, Resting DEF CallRec
      <4>3. CallOK(c) /\ c.kind = "recreate"
        BY DEF NoCall, CallOK
      <4> QED BY <4>1, <4>2, <4>3
    <3> QED BY <1>4, <3>2, <3>3
  <2> DEFINE c0 == [c EXCEPT !.live = TRUE]
  <2>2. page[t].at = "vault" /\ tab' = tab /\ page' = [page EXCEPT ![t] = p0]
        /\ UNCHANGED <<rows, wish, exposure>>
    BY <1>4 DEF submit, recreateTrustedDevice
  <2>3. c0 \in CallRec /\ c0.kind \in {"rotate", "recreate"}
    BY <2>1 DEF CallRec
  <2>4. CallOK(c0)
    BY <2>1 DEF CallRec, CallOK
  <2>5. p0 \in PageRec /\ PageOK(p0) /\ Links(c0, p0)
    BY <1>1, <2>2, <2>3 DEF PageRec, PageOK, Links, Waiting
  <2>6. tab' = [tab EXCEPT ![t] = tab[t]] /\ call' = [call EXCEPT ![t] = c0]
    BY <1>1, <2>1, <2>2 DEF Submit
  <2>7. RowsOK'
    BY <2>1, <2>2, RowsKept
  <2> HIDE DEF p0, c0
  <2> QED BY <1>1, <2>2, <2>3, <2>4, <2>5, <2>6, <2>7, OneTab
<1>5. CASE RotateReads(t)
  <2> DEFINE mp0 == IF Enabling(call[t]) THEN spent.mps + 1 ELSE 0
             c0 == [call[t] EXCEPT !.snap = account, !.prf = call[t].snap.bind,
                                   !.pc = "commit", !.mp = mp0]
  <2>1. /\ Ready(t, "rotate", "prompt") /\ RotationAllowed(t)
        /\ call' = [call EXCEPT ![t] = c0]
        /\ spent' = IF Enabling(call[t]) THEN [spent EXCEPT !.mps = @ + 1] ELSE spent
        /\ UNCHANGED <<rows, tab, page, wish, exposure>>
    BY <1>5 DEF RotateReads
  <2>2. mp0 \in 0 .. MaxMp /\ mp0 \in Nat /\ mp0 \in Underivable .. MaxMp
        /\ (Enabling(call[t]) => spent.mps + 1 \in 0 .. MaxMp)
    BY <1>1, <2>1, BoundsAssumption DEF RotationAllowed, RowsOK, Underivable
  <2>3. RowsOK'
    <3>1. spent' \in [vaults: 1 .. MaxVaults, binds: 1 .. MaxBinds, mps: 0 .. MaxMp,
                      faults: 0 .. MaxFaults, calls: 0 .. MaxCalls]
      BY <1>1, <2>1, <2>2 DEF RowsOK
    <3> QED BY <1>1, <2>1, <3>1 DEF RowsOK, rows
  <2> HIDE DEF mp0
  <2>4. c0 \in CallRec
    <3>1. call[t].snap.bind \in 0 .. MaxBinds /\ account \in Row
      BY <1>1 DEF CallRec, Row, RowsOK
    <3> QED BY <1>1, <2>2, <3>1 DEF CallRec
  <2>5. CallOK(c0) /\ Links(c0, page[t])
    BY <1>1, <2>1, <2>2
       DEF Ready, RotationAllowed, Missing, CallRec, CallOK, Links
  <2>6. tab' = [tab EXCEPT ![t] = tab[t]] /\ page' = [page EXCEPT ![t] = page[t]]
    BY <1>1, <2>1
  <2> HIDE DEF c0
  <2> QED BY <1>1, <2>1, <2>3, <2>4, <2>5, <2>6, OneTab
<1>6. CASE RotationFails(t)
  <2>1. RowsOK'
    BY <1>6, RowsKept DEF RotationFails
  <2> QED BY <1>2, <1>6, <2>1, CallEnds DEF RotationFails
<1>7. CASE rotateAuth(t)
  <2> DEFINE r0 == Rotated(call[t])
             k0 == [tab[t] EXCEPT !.kek = KekOf(r0), !.data = call[t].snap.vault]
             p0 == IF Answers(t)
                   THEN [Idle(t) EXCEPT !.snap.mp = call[t].mp, !.salted = (call[t].mp = 0)]
                   ELSE page[t]
  <2>1. /\ call[t].snap.vault \in 0 .. MaxVaults /\ call[t].snap.vault # 0
        /\ call[t].mp \in 0 .. MaxMp
    <3>1. call[t].mp \in Nat /\ call[t].mp \in Underivable .. MaxMp
          /\ call[t].snap \in Row /\ call[t].snap.vault # 0
      BY <1>1, <1>7 DEF rotateAuth, Ready, CallRec, CallOK
    <3>2. call[t].mp \in 0 .. MaxMp
      BY <3>1, BoundsAssumption DEF Underivable
    <3> QED BY <3>1, <3>2 DEF Row
  <2>2. r0 \in Row /\ KekOf(r0) \in Kek
    <3>1. r0 \in Row
      BY <1>1, <2>1 DEF Rotated, CallRec, Row
    <3> HIDE DEF r0
    <3> QED BY <3>1, KekTyped
  <2>3. k0 \in TabRec /\ Keyed(k0)
    <3> HIDE DEF r0
    <3> QED BY <1>1, <2>1, <2>2 DEF TabRec, Keyed
  <2>4. [page[t].snap EXCEPT !.mp = call[t].mp] \in Row
        /\ [page[t].snap EXCEPT !.mp = call[t].mp].vault = page[t].snap.vault
    BY <1>1, <2>1 DEF PageRec, Row
  <2>5. p0 \in PageRec /\ PageOK(p0)
    BY <1>1, <2>4 DEF Idle, PageRec, PageOK
  <2>6. /\ tab' = [tab EXCEPT ![t] = k0] /\ page' = [page EXCEPT ![t] = p0]
        /\ call' = [call EXCEPT ![t] = NoCall] /\ account' = r0
    BY <1>1, <1>7 DEF rotateAuth, Tell, Ends
  <2>7. RowsOK'
    <3>1. exposure' \in SUBSET Exposures
      BY <1>1, <1>7 DEF rotateAuth, RowsOK, Exposures
    <3> HIDE DEF r0
    <3> QED BY <1>1, <1>7, <2>2, <2>6, <3>1 DEF rotateAuth, RowsOK
  <2> HIDE DEF r0, k0, p0
  <2> QED BY <2>3, <2>5, <2>6, <2>7, Resting, OneTab
<1>8. CASE disableTrustedDevice(t)
  <2>1. RowsOK'
    BY <1>1, <1>8, Resting DEF disableTrustedDevice, RowsOK
  <2> QED BY <1>1, <1>8, <2>1, OneTab DEF disableTrustedDevice
<1>9. CASE enableQuickUnlock(t)
  <2>1. RowsOK'
    <3>1. SealedCache(call[t].key, call[t].snap.bind) \in Cache
      <4>1. call[t].key \in 0 .. MaxVaults /\ call[t].snap.bind \in 0 .. MaxBinds
        BY <1>1 DEF RowsOK, Row, CallRec
      <4> QED BY <4>1, BoundsAssumption DEF Cache, Mixed, Kept, SealedCache
    <3>2. exposure' \in SUBSET Exposures
      BY <1>1, <1>9 DEF enableQuickUnlock, RowsOK, Expose, Exposures
    <3>3. cache' \in Cache /\ wish' \in [vault: 0 .. MaxVaults, quick: BOOLEAN]
      BY <1>1, <1>9, <3>1 DEF enableQuickUnlock, RowsOK
    <3>4. UNCHANGED <<account, envelope, spent>>
      BY <1>9 DEF enableQuickUnlock
    <3> QED BY <1>1, <3>2, <3>3, <3>4 DEF RowsOK
  <2> QED BY <1>2, <1>9, <2>1, CallEnds DEF enableQuickUnlock
<1> QED BY <1>3, <1>4, <1>5, <1>6, <1>7, <1>8, <1>9 DEF SettingsStep

(* Opening a page and reloading it.                                        *)
LEMMA TypeVisit ==
  ASSUME TypeInv, NEW t \in Tabs,
         Reload(t) \/ \E at \in {"unlock", "recover", "restore", "vault"} : Visit(t, at)
  PROVE  TypeInv'
<1>1. /\ RowsOK
      /\ tab[t] \in TabRec /\ Keyed(tab[t]) /\ tab = [tab EXCEPT ![t] = tab[t]]
      /\ call[t] \in CallRec /\ CallOK(call[t])
  BY Found
<1>2. CASE Reload(t)
  <2>1. /\ tab' = [tab EXCEPT ![t] = Locked] /\ page' = [page EXCEPT ![t] = Elsewhere]
        /\ call' = [call EXCEPT ![t] = NoCall] /\ RowsOK'
    BY <1>2, RowsKept DEF Reload
  <2> QED BY <2>1, Resting, OneTab
<1>3. CASE \E at \in {"unlock", "recover", "restore", "vault"} : Visit(t, at)
  <2>1. PICK at \in {"unlock", "recover", "restore", "vault"} : Visit(t, at)
    BY <1>3
  <2> DEFINE c0 == [call[t] EXCEPT !.live = FALSE]
  <2>2. c0 \in CallRec /\ CallOK(c0) /\ Links(c0, Mounted(at))
    <3>1. c0 \in CallRec /\ ~c0.live
      BY <1>1 DEF CallRec
    <3>2. CallOK(c0)
      BY <1>1 DEF CallRec, CallOK
    <3> QED BY <3>1, <3>2 DEF Links
  <2>3. Mounted(at) \in PageRec
    <3>1. account \in Row /\ NoRow \in Row
      BY <1>1, Resting DEF RowsOK
    <3>2. Elsewhere \in PageRec
      BY Resting
    <3> DEFINE row == IF at \in {"unlock", "vault"} THEN account ELSE NoRow
               has == at = "unlock" /\ cache # NoCache /\ account.vault # 0
    <3>3. row \in Row /\ has \in BOOLEAN
      BY <3>1
    <3>4. Mounted(at) = [Elsewhere EXCEPT !.at = at, !.snap = row, !.quick = has,
                                          !.emergency = ~has]
      BY DEF Mounted
    <3> HIDE DEF row, has
    <3> QED BY <3>2, <3>3, <3>4 DEF PageRec
  <2>4. PageOK(Mounted(at))
    BY <2>1 DEF Visit, CanShow, hasAccount, Mounted, Elsewhere, PageOK
  <2>5. /\ tab' = [tab EXCEPT ![t] = tab[t]] /\ page' = [page EXCEPT ![t] = Mounted(at)]
        /\ call' = [call EXCEPT ![t] = c0] /\ RowsOK'
    BY <1>1, <2>1, RowsKept DEF Visit, Abandon
  <2> HIDE DEF c0
  <2> QED BY <1>1, <2>2, <2>3, <2>4, <2>5, OneTab
<1> QED BY <1>2, <1>3

LEMMA TypeInit == Init => TypeInv
<1> SUFFICES ASSUME Init PROVE TypeInv
  OBVIOUS
<1>1. PICK opq \in BOOLEAN, quick \in BOOLEAN, open \in Tabs :
        /\ account = SealedRow(1, 1, 1, opq)
        /\ cache = IF quick THEN Kept(1, 1) ELSE NoCache
        /\ wish = [vault |-> 1, quick |-> quick]
        /\ tab = [t \in Tabs |-> IF t # open THEN Locked
                   ELSE [Locked EXCEPT !.kek = KekOf(account), !.data = 1, !.shown = TRUE]]
  BY DEF Init
<1>2. 1 \in 0 .. MaxVaults /\ 1 \in 0 .. MaxBinds /\ 1 \in 1 .. MaxVaults
      /\ 1 \in 1 .. MaxBinds /\ 0 \in 0 .. MaxMp /\ 0 \in 0 .. MaxFaults /\ 0 \in 0 .. MaxCalls
  BY BoundsAssumption
<1>3. account \in Row
  BY <1>1, <1>2 DEF SealedRow, Row
<1>4. Kept(1, 1) \in Cache
  BY <1>2, BoundsAssumption DEF Kept, Cache, Mixed
<1>5. RowsOK
  BY <1>1, <1>2, <1>3, <1>4, Resting DEF Init, RowsOK
<1>6. [Locked EXCEPT !.kek = KekOf(account), !.data = 1, !.shown = TRUE] \in TabRec
  BY <1>2, <1>3, KekTyped, Resting DEF TabRec
<1>7. tab \in [Tabs -> TabRec] /\ \A t \in Tabs : Keyed(tab[t])
  BY <1>1, <1>6, Resting DEF Keyed, Locked
<1>8. /\ page \in [Tabs -> PageRec] /\ call \in [Tabs -> CallRec]
      /\ \A t \in Tabs : CallOK(call[t]) /\ PageOK(page[t]) /\ Links(call[t], page[t])
  BY Resting DEF Init
<1> QED BY <1>5, <1>7, <1>8, TypeInvShape

LEMMA TypeStep == TypeInv /\ [Next]_vars => TypeInv'
<1> SUFFICES ASSUME TypeInv, [Next]_vars PROVE TypeInv'
  OBVIOUS
<1>1. CASE Next
  BY <1>1, TypeVisit, TypeUnlock, TypeRecover, TypeRestore, TypeSettings DEF Next
<1>2. CASE UNCHANGED vars
  BY <1>2 DEF vars, TypeInv, TypeOK, LiveOK
<1> QED BY <1>1, <1>2

LEMMA TypeInvariant == Spec => []TypeInv
BY TypeInit, TypeStep, PTL DEF Spec

(* Every row, page and call is of its type; a tab with a vault key has the *)
(* data key.                                                               *)
THEOREM TypeCorrect == Spec => []TypeOK
<1>1. TypeInv => TypeOK
  BY DEF TypeInv
<1> QED BY <1>1, TypeInvariant, PTL

-----------------------------------------------------------------------------
(* The quick-unlock cache.                                                 *)

(* A coincidence stays on record.                                          *)
LEMMA ExposureGrows ==
  ASSUME [Next]_vars
  PROVE  exposure \subseteq exposure'
<1>1. ASSUME NEW t \in Tabs, UnlockStep(t) PROVE exposure \subseteq exposure'
  BY <1>1 DEF UnlockStep, unlock, showEmergencyKey, showQuickUnlock, QuickUnlockFails,
              openQuickUnlock, ChunkNotLoaded, loginWithRetry, LoginRefused,
              LoginUnavailable, openVault, openVaultFails, isMissingPrfOutput, Expose
<1>2. ASSUME NEW t \in Tabs, RecoverStep(t) PROVE exposure \subseteq exposure'
  BY <1>2 DEF RecoverStep, rewirePasskey, RecoveryFailed, registerPasskey, RebindReads,
              rebindRecoveredVault, Recovered, startFresh, WipedElsewhere, Provision, Expose
<1>3. ASSUME NEW t \in Tabs, RestoreStep(t) PROVE exposure \subseteq exposure'
  BY <1>3 DEF RestoreStep, findVault, VaultFound, finish, passkeyFailed,
              adoptRestoredVault, Settled, RestoreFailed, startOver, Expose
<1>4. ASSUME NEW t \in Tabs, SettingsStep(t) PROVE exposure \subseteq exposure'
  BY <1>4 DEF SettingsStep, OpenSettings, submit, RotateReads, RotationFails, rotateAuth,
              disableTrustedDevice, recreateTrustedDevice, enableQuickUnlock, Expose
<1>5. ASSUME NEW t \in Tabs, NEW at, Visit(t, at) \/ Reload(t)
      PROVE  exposure \subseteq exposure'
  BY <1>5 DEF Visit, Reload
<1> QED BY <1>1, <1>2, <1>3, <1>4, <1>5 DEF Next, vars

(* The steps that leave the cache, the wish for it and the vault alone.    *)
LEMMA CacheLeft ==
  ASSUME NEW t \in Tabs,
         \/ \E at : Visit(t, at)
         \/ Reload(t)
         \/ UnlockStep(t) /\ ~openQuickUnlock(t)
         \/ /\ RecoverStep(t)
            /\ ~(rebindRecoveredVault(t) \/ startFresh(t) \/ Provision(t))
         \/ RestoreStep(t) /\ ~(adoptRestoredVault(t) \/ Settled(t))
         \/ /\ SettingsStep(t)
            /\ ~(rotateAuth(t) \/ disableTrustedDevice(t) \/ enableQuickUnlock(t))
  PROVE  account' = account /\ cache' = cache /\ wish' = wish
<1>1. CASE (\E at : Visit(t, at)) \/ Reload(t)
  BY <1>1 DEF Visit, Reload, rows
<1>2. CASE UnlockStep(t) /\ ~openQuickUnlock(t)
  BY <1>2 DEF UnlockStep, unlock, showEmergencyKey, showQuickUnlock, QuickUnlockFails,
              ChunkNotLoaded, loginWithRetry, LoginRefused, LoginUnavailable, openVault,
              openVaultFails, isMissingPrfOutput, rows
<1>3. CASE /\ RecoverStep(t)
           /\ ~(rebindRecoveredVault(t) \/ startFresh(t) \/ Provision(t))
  BY <1>3 DEF RecoverStep, rewirePasskey, RecoveryFailed, registerPasskey, RebindReads,
              Recovered, WipedElsewhere, rows
<1>4. CASE RestoreStep(t) /\ ~(adoptRestoredVault(t) \/ Settled(t))
  BY <1>4 DEF RestoreStep, findVault, VaultFound, finish, passkeyFailed, RestoreFailed,
              startOver, rows
<1>5. CASE /\ SettingsStep(t)
           /\ ~(rotateAuth(t) \/ disableTrustedDevice(t) \/ enableQuickUnlock(t))
  BY <1>5 DEF SettingsStep, OpenSettings, submit, RotateReads, RotationFails,
              recreateTrustedDevice, rows
<1> QED BY <1>1, <1>2, <1>3, <1>4, <1>5

LEMMA CacheStep == TypeInv /\ CacheInv /\ [Next]_vars => CacheInv'
<1> SUFFICES ASSUME TypeInv, CacheInv, [Next]_vars PROVE CacheInv'
  OBVIOUS
<1>1. CASE UNCHANGED vars
  BY <1>1 DEF vars, CacheInv
<1>2. CASE Next
  <2>1. exposure \subseteq exposure'
    BY ExposureGrows
  <2>2. SUFFICES ASSUME "row changed under a call" \notin exposure'
                 PROVE  cache' # NoCache => wish'.quick /\ account'.vault # 0
    BY DEF CacheInv
  <2>3. cache # NoCache => wish.quick /\ account.vault # 0
    BY <2>1, <2>2 DEF CacheInv
  <2>4. PICK t \in Tabs :
          \/ \E at \in {"unlock", "recover", "restore", "vault"} : Visit(t, at)
          \/ Reload(t)
          \/ UnlockStep(t) \/ RecoverStep(t) \/ RestoreStep(t) \/ SettingsStep(t)
    BY <1>2 DEF Next
  <2>5. /\ account \in Row /\ cache \in Cache
        /\ wish \in [vault: 0 .. MaxVaults, quick: BOOLEAN]
        /\ call[t] \in CallRec /\ CallOK(call[t])
    BY Found DEF RowsOK
  <2>6. CASE openQuickUnlock(t)
    BY <2>2, <2>3, <2>6 DEF openQuickUnlock, Expose
  <2>7. CASE rebindRecoveredVault(t)
    <3>1. account'.vault # 0
      BY <2>5, <2>7 DEF rebindRecoveredVault, Ready, CallOK, Rebound, SealedRow
    <3> QED BY <2>3, <2>7, <3>1 DEF rebindRecoveredVault
  <2>8. CASE startFresh(t)
    BY <2>8 DEF startFresh, Cleared
  <2>9. CASE Provision(t)
    <3>1. account.vault = 0 /\ account'.vault # 0
      <4>1. spent.vaults \in Nat
        BY Found DEF RowsOK
      <4> QED BY <2>9, <4>1 DEF Provision, SealedRow
    <3>2. cache = NoCache
      BY <2>3, <3>1
    <3>3. PICK quick \in BOOLEAN : /\ cache' = IF quick THEN cache' ELSE cache
                                   /\ wish'.quick = quick
      BY <2>9 DEF Provision
    <3> QED BY <3>1, <3>2, <3>3
  <2>10. CASE adoptRestoredVault(t)
    BY <2>3, <2>10 DEF adoptRestoredVault
  <2>11. CASE Settled(t)
    <3>1. PICK quick \in IF Missing(t) THEN {FALSE} ELSE BOOLEAN :
            /\ cache' = IF quick THEN cache' ELSE cache
            /\ wish' = IF quick THEN [wish EXCEPT !.quick = TRUE] ELSE wish
            /\ account' = account
      BY <2>11 DEF Settled
    <3>2. CASE quick
      <4>1. ~Missing(t)
        BY <3>1, <3>2
      <4> QED BY <2>5, <3>1, <3>2, <4>1 DEF Missing
    <3> QED BY <2>3, <3>1, <3>2
  <2>12. CASE rotateAuth(t)
    <3>1. account'.vault # 0
      BY <2>5, <2>12 DEF rotateAuth, Ready, CallRec, Row, CallOK, Rotated
    <3> QED BY <2>3, <2>12, <3>1 DEF rotateAuth
  <2>13. CASE disableTrustedDevice(t)
    BY <2>13 DEF disableTrustedDevice
  <2>14. CASE enableQuickUnlock(t)
    <3>1. account' = account
      BY <2>14 DEF enableQuickUnlock
    <3>2. CASE account.vault # 0
      BY <2>5, <2>14, <3>1, <3>2 DEF enableQuickUnlock
    <3>3. CASE account.vault = 0
      BY <2>3, <2>14, <3>1, <3>3 DEF enableQuickUnlock
    <3> QED BY <3>2, <3>3
  <2>15. CASE ~(\/ openQuickUnlock(t) \/ rebindRecoveredVault(t) \/ startFresh(t)
                \/ Provision(t) \/ adoptRestoredVault(t) \/ Settled(t) \/ rotateAuth(t)
                \/ disableTrustedDevice(t) \/ enableQuickUnlock(t))
    <3>1. account' = account /\ cache' = cache /\ wish' = wish
      BY <2>4, <2>15, CacheLeft
    <3> QED BY <2>3, <3>1
  <2> QED BY <2>6, <2>7, <2>8, <2>9, <2>10, <2>11, <2>12, <2>13, <2>14, <2>15
<1> QED BY <1>1, <1>2

(* A quick-unlock cache exists only while the user wants one.  It is       *)
(* written under a vault, and a wipe takes it away, so that the vault made *)
(* or restored next starts without one.                                    *)
THEOREM QuickUnlockIsWanted == Spec => []CacheIsUsersChoice
<1>1. Init => CacheInv
  BY DEF Init, CacheInv, SealedRow
<1>2. CacheInv => CacheIsUsersChoice
  BY DEF CacheInv, CacheIsUsersChoice
<1> QED BY <1>1, <1>2, CacheStep, TypeInvariant, PTL DEF Spec

-----------------------------------------------------------------------------
(* The attempts of the unlock page.                                        *)

Uncharged(t) == \/ page' = page
                \/ \E q : /\ page' = [page EXCEPT ![t] = q]
                          /\ q.attempts \in {page[t].attempts, 0}

LEMMA Unmoved ==
  ASSUME TypeInv, NEW t \in Tabs, Uncharged(t), NEW u \in Tabs
  PROVE  ~(page'[u].attempts > page[u].attempts)
<1>1. page \in [Tabs -> PageRec] /\ page[u] \in PageRec
  BY Found
<1>2. page[u].attempts \in Nat
  BY <1>1, BoundsAssumption DEF PageRec
<1>3. page'[u].attempts \in {page[u].attempts, 0}
  BY <1>1 DEF Uncharged
<1> QED BY <1>2, <1>3

(* Telling a page something that charges nothing, and navigating.          *)
LEMMA ToldUncharged ==
  ASSUME TypeInv, NEW t \in Tabs,
         \/ \E p : Tell(t, p) /\ p.attempts \in {page[t].attempts, 0}
         \/ \E at : Goto(t, at)
  PROVE  Uncharged(t)
<1>1. \A at : Mounted(at).attempts = 0
  BY DEF Mounted, Elsewhere
<1>2. CASE \E p : Tell(t, p) /\ p.attempts \in {page[t].attempts, 0}
  <2>1. PICK p : Tell(t, p) /\ p.attempts \in {page[t].attempts, 0}
    BY <1>2
  <2>2. page' = [page EXCEPT ![t] = IF Answers(t) THEN p ELSE page[t]]
    BY <2>1 DEF Tell
  <2> QED BY <2>1, <2>2 DEF Uncharged
<1>3. CASE \E at : Goto(t, at)
  <2>1. PICK at : page' = [page EXCEPT ![t] = IF page[t].at = at THEN page[t] ELSE Mounted(at)]
    BY <1>3 DEF Goto
  <2> QED BY <1>1, <2>1 DEF Uncharged
<1> QED BY <1>2, <1>3

LEMMA ChargesLook ==
  ASSUME TypeInv, NEW t \in Tabs,
         \/ \E at : Visit(t, at)
         \/ Reload(t)
         \/ UnlockStep(t) /\ ~(LoginRefused(t) \/ openVaultFails(t))
         \/ RecoverStep(t) \/ RestoreStep(t) \/ SettingsStep(t)
  PROVE  Uncharged(t)
<1>1. page[t] \in PageRec
  BY Found
<1>2. /\ Idle(t).attempts = page[t].attempts
      /\ WithoutQuick(Idle(t)).attempts = page[t].attempts
  BY <1>1 DEF Idle, WithoutQuick, PageRec
<1>3. Elsewhere.attempts = 0 /\ \A at : Mounted(at).attempts = 0
  BY DEF Elsewhere, Mounted
<1>4. CASE (\E at : Visit(t, at)) \/ Reload(t)
  BY <1>3, <1>4 DEF Visit, Reload, Uncharged
<1>5. ASSUME UnlockStep(t), ~(LoginRefused(t) \/ openVaultFails(t))
      PROVE  Uncharged(t)
  <2>1. CASE unlock(t) \/ showEmergencyKey(t) \/ showQuickUnlock(t)
    <3>1. \/ page' = [page EXCEPT ![t].busy = TRUE]
          \/ page' = [page EXCEPT ![t].emergency = TRUE]
          \/ page' = [page EXCEPT ![t].emergency = FALSE]
      BY <2>1 DEF unlock, showEmergencyKey, showQuickUnlock
    <3> QED BY <1>1, <3>1 DEF Uncharged, PageRec
  <2>2. CASE QuickUnlockFails(t) \/ LoginUnavailable(t) \/ isMissingPrfOutput(t)
    BY <1>2, <2>2, ToldUncharged DEF QuickUnlockFails, LoginUnavailable, isMissingPrfOutput
  <2>3. CASE openQuickUnlock(t)
    <3>1. page' = page \/ Tell(t, WithoutQuick(Idle(t)))
      BY <2>3 DEF openQuickUnlock
    <3> QED BY <1>2, <3>1, ToldUncharged DEF Uncharged
  <2>4. CASE ChunkNotLoaded(t)
    <3>1. Tell(t, Idle(t)) \/ Tell(t, page[t])
      BY <2>4 DEF ChunkNotLoaded
    <3> QED BY <1>2, <3>1, ToldUncharged
  <2>5. CASE loginWithRetry(t)
    BY <2>5 DEF loginWithRetry, Uncharged
  <2>6. CASE openVault(t)
    BY <2>6, ToldUncharged DEF openVault
  <2> QED BY <1>5, <2>1, <2>2, <2>3, <2>4, <2>5, <2>6 DEF UnlockStep
<1>6. ASSUME RecoverStep(t)
      PROVE  Uncharged(t)
  <2>1. CASE rewirePasskey(t)
    <3>1. page' = page \/ page' = [page EXCEPT ![t].busy = TRUE, ![t].stage = "passkey"]
      BY <2>1 DEF rewirePasskey
    <3>2. [page EXCEPT ![t].busy = TRUE, ![t].stage = "passkey"] =
            [page EXCEPT ![t] = [page[t] EXCEPT !.busy = TRUE, !.stage = "passkey"]]
      BY Found
    <3> QED BY <1>1, <3>1, <3>2 DEF Uncharged, PageRec
  <2>2. CASE RecoveryFailed(t)
    <3>1. [Idle(t) EXCEPT !.stage = "input"].attempts = page[t].attempts
      BY <1>1 DEF Idle, PageRec
    <3> QED BY <2>2, <3>1, ToldUncharged DEF RecoveryFailed
  <2>3. CASE registerPasskey(t)
    <3> DEFINE s == IF call[t].kind = "finish" THEN "adopting" ELSE page[t].stage
    <3>1. Tell(t, [page[t] EXCEPT !.stage = s])
      BY <2>3 DEF registerPasskey
    <3> HIDE DEF s
    <3>2. [page[t] EXCEPT !.stage = s].attempts = page[t].attempts
      BY <1>1 DEF PageRec
    <3> QED BY <3>1, <3>2, ToldUncharged
  <2>4. CASE RebindReads(t) \/ rebindRecoveredVault(t) \/ Provision(t)
    BY <2>4 DEF RebindReads, rebindRecoveredVault, Provision, Uncharged
  <2>5. CASE Recovered(t)
    <3>1. Goto(t, "vault") \/ page' = page
      BY <2>5 DEF Recovered
    <3> QED BY <3>1, ToldUncharged DEF Uncharged
  <2>6. CASE startFresh(t)
    BY <1>3, <2>6 DEF startFresh, Uncharged
  <2>7. CASE WipedElsewhere(t)
    <3>1. page' = [page EXCEPT ![t] = IF page[t].at = "vault" THEN Elsewhere ELSE page[t]]
      BY <2>7 DEF WipedElsewhere
    <3> QED BY <1>3, <3>1 DEF Uncharged
  <2> QED BY <1>6, <2>1, <2>2, <2>3, <2>4, <2>5, <2>6, <2>7 DEF RecoverStep
<1>7. ASSUME RestoreStep(t)
      PROVE  Uncharged(t)
  <2>1. /\ [page[t] EXCEPT !.busy = TRUE, !.pend = 0].attempts = page[t].attempts
        /\ [page[t] EXCEPT !.busy = TRUE, !.stage = "passkey"].attempts = page[t].attempts
        /\ [page[t] EXCEPT !.stage = "input", !.pend = 0].attempts = page[t].attempts
    BY <1>1 DEF PageRec
  <2>2. /\ [Idle(t) EXCEPT !.stage = "ready", !.pend = call[t].key].attempts = page[t].attempts
        /\ [Idle(t) EXCEPT !.stage = "ready"].attempts = page[t].attempts
        /\ [Idle(t) EXCEPT !.stage = "input", !.pend = 0].attempts = page[t].attempts
    BY <1>1 DEF Idle, PageRec
  <2>3. CASE findVault(t)
    <3>1. page' = [page EXCEPT ![t] = [page[t] EXCEPT !.busy = TRUE, !.pend = 0]]
      BY <2>3, Found DEF findVault
    <3> QED BY <2>1, <3>1 DEF Uncharged
  <2>4. CASE finish(t)
    <3>1. page' = [page EXCEPT ![t] = [page[t] EXCEPT !.busy = TRUE, !.stage = "passkey"]]
      BY <2>4, Found DEF finish
    <3> QED BY <2>1, <3>1 DEF Uncharged
  <2>5. CASE startOver(t)
    <3>1. page' = [page EXCEPT ![t] = [page[t] EXCEPT !.stage = "input", !.pend = 0]]
      BY <2>5, Found DEF startOver
    <3> QED BY <2>1, <3>1 DEF Uncharged
  <2>6. CASE VaultFound(t) \/ passkeyFailed(t) \/ RestoreFailed(t)
    <3>1. \/ Tell(t, [Idle(t) EXCEPT !.stage = "ready", !.pend = call[t].key])
          \/ Tell(t, [Idle(t) EXCEPT !.stage = "ready"])
          \/ Tell(t, [Idle(t) EXCEPT !.stage = "input", !.pend = 0])
      BY <2>6 DEF VaultFound, passkeyFailed, RestoreFailed
    <3> QED BY <2>2, <3>1, ToldUncharged
  <2>7. CASE adoptRestoredVault(t)
    BY <2>7 DEF adoptRestoredVault, Uncharged
  <2>8. CASE Settled(t)
    <3>1. Goto(t, "vault") \/ page' = page
      BY <2>8 DEF Settled
    <3> QED BY <3>1, ToldUncharged DEF Uncharged
  <2> QED BY <1>7, <2>3, <2>4, <2>5, <2>6, <2>7, <2>8 DEF RestoreStep
<1>8. ASSUME SettingsStep(t)
      PROVE  Uncharged(t)
  <2>1. CASE OpenSettings(t)
    <3>1. page' = [page EXCEPT ![t] = [page[t] EXCEPT !.snap = account, !.salted = TRUE]]
      BY <2>1, Found DEF OpenSettings
    <3>2. [page[t] EXCEPT !.snap = account, !.salted = TRUE].attempts = page[t].attempts
      BY <1>1 DEF PageRec
    <3> QED BY <3>1, <3>2 DEF Uncharged
  <2>2. CASE submit(t) \/ recreateTrustedDevice(t)
    <3>1. page' = [page EXCEPT ![t] = [page[t] EXCEPT !.busy = TRUE]]
      BY <2>2 DEF submit, recreateTrustedDevice
    <3>2. [page[t] EXCEPT !.busy = TRUE].attempts = page[t].attempts
      BY <1>1 DEF PageRec
    <3> QED BY <3>1, <3>2 DEF Uncharged
  <2>3. CASE RotateReads(t) \/ disableTrustedDevice(t)
    BY <2>3 DEF RotateReads, disableTrustedDevice, Uncharged
  <2>4. CASE RotationFails(t) \/ enableQuickUnlock(t)
    BY <1>2, <2>4, ToldUncharged DEF RotationFails, enableQuickUnlock
  <2>5. CASE rotateAuth(t)
    <3>1. Tell(t, [Idle(t) EXCEPT !.snap.mp = call[t].mp, !.salted = (call[t].mp = 0)])
      BY <2>5 DEF rotateAuth
    <3>2. [Idle(t) EXCEPT !.snap.mp = call[t].mp, !.salted = (call[t].mp = 0)].attempts
            = page[t].attempts
      BY <1>1 DEF Idle, PageRec
    <3> QED BY <3>1, <3>2, ToldUncharged
  <2> QED BY <1>8, <2>1, <2>2, <2>3, <2>4, <2>5 DEF SettingsStep
<1> QED BY <1>4, <1>5, <1>6, <1>7, <1>8

(* What a refusal tells of the factors.                                    *)
LEMMA RefusedForAReason ==
  ASSUME TypeInv, NEW t \in Tabs, LoginRefused(t) \/ openVaultFails(t)
  PROVE  ~HadRightFactors(t)
<1> SUFFICES ASSUME HadRightFactors(t) PROVE FALSE
  OBVIOUS
<1>1. /\ call[t] \in CallRec /\ CallOK(call[t]) /\ account \in Row
      /\ call[t].form = account /\ call[t].key = account.key /\ call[t].key = account.vault
      /\ call[t].pw = account.mp /\ PrfOf(t) = account.prf
  BY Found DEF HadRightFactors, RowsOK
<1>2. CASE LoginRefused(t)
  BY <1>1, <1>2 DEF LoginRefused, LoginRefusal
<1>3. CASE openVaultFails(t)
  <2>1. call[t].kind \in {"quick", "emergency"} /\ call[t].pc = "open" /\ ~Opens(t)
    BY <1>3 DEF openVaultFails, Opening
  <2>2. account.vault # 0
    BY <1>1, <2>1 DEF CallOK
  <2>3. call[t].mp = account.mp
    BY <1>1, <2>1 DEF CallOK, StretchedWith
  <2>4. call[t].opq = IF account.opq THEN account.vault ELSE 0
    BY <1>1, <2>1 DEF CallOK
  <2>5. Derived(t) = KekOf(account)
    BY <1>1, <2>3, <2>4 DEF Derived, KekOf
  <2> QED BY <2>1, <2>2, <2>5 DEF Opens
<1> QED BY <1>2, <1>3

(* An attempt is not charged to a user whose key, master password and      *)
(* passkey are those of the row: the login knows the Secret Key, and what  *)
(* the call gathered derives the key the row is sealed under.              *)
THEOREM RightFactorsAreFree == Spec => RightFactorsNeverBurn
<1> DEFINE Free == \A t \in Tabs :
             page'[t].attempts > page[t].attempts => ~HadRightFactors(t)
<1>1. TypeInv /\ [Next]_vars => Free
  <2> SUFFICES ASSUME TypeInv, [Next]_vars, NEW u \in Tabs,
                      page'[u].attempts > page[u].attempts
               PROVE  ~HadRightFactors(u)
    OBVIOUS
  <2>1. CASE UNCHANGED vars
    <3>1. Uncharged(u)
      BY <2>1 DEF vars, Uncharged
    <3> QED BY <3>1, Unmoved
  <2>2. CASE Next
    <3>1. PICK t \in Tabs :
            \/ \E at \in {"unlock", "recover", "restore", "vault"} : Visit(t, at)
            \/ Reload(t)
            \/ UnlockStep(t) \/ RecoverStep(t) \/ RestoreStep(t) \/ SettingsStep(t)
      BY <2>2 DEF Next
    <3>2. CASE LoginRefused(t) \/ openVaultFails(t)
      <4>1. page' = [page EXCEPT ![t] = page'[t]]
        BY <3>2, Found DEF LoginRefused, openVaultFails, Tell
      <4>2. u = t
        BY <4>1, Found, Unmoved DEF PageRec
      <4> QED BY <3>2, <4>2, RefusedForAReason
    <3>3. CASE ~(LoginRefused(t) \/ openVaultFails(t))
      BY <3>1, <3>3, ChargesLook, Unmoved
    <3> QED BY <3>2, <3>3
  <2> QED BY <2>1, <2>2
<1>2. TypeInv /\ [Next]_vars => [Free]_vars
  BY <1>1
<1> QED BY <1>2, TypeInvariant, PTL DEF Spec, RightFactorsNeverBurn

-----------------------------------------------------------------------------
(* The rows and the tabs.                                                  *)

(* As far as the rows are concerned, call d is call c or is none.          *)
Like(c, d) ==
  \/ d.kind # "rewire" /\ ~Pending(d)
  \/ /\ d.kind = c.kind /\ d.pc = c.pc /\ d.key = c.key /\ d.prf = c.prf
     /\ d.form = c.form /\ d.snap = c.snap

(* The steps that leave the rows alone.                                    *)
LEMMA RowsSteady ==
  ASSUME Clean, UNCHANGED <<account, envelope>>, wish'.vault = wish.vault,
         spent'.binds = spent.binds,
         \A u \in Tabs : Like(call[u], call'[u]) /\ Rewire(u)' /\ Shown(u)'
  PROVE  Clean'
<1>1. Kit' /\ Known'
  BY DEF Clean, Kit, Known, SealedForTheKit
<1>2. ASSUME NEW u \in Tabs PROVE Fresh(u)'
  <2>1. Fresh(u)
    BY DEF Clean
  <2>2. CASE call'[u].kind # "rewire" /\ ~Pending(call'[u])
    BY <2>2 DEF Fresh, Pending
  <2>3. CASE ~(call'[u].kind # "rewire" /\ ~Pending(call'[u]))
    <3>1. /\ call'[u].kind = call[u].kind /\ call'[u].pc = call[u].pc
          /\ call'[u].prf = call[u].prf /\ call'[u].form = call[u].form
      BY <2>3 DEF Like
    <3>2. ASSUME NEW w \in Tabs, Pending(call[u]), FreshFrom(u, w) PROVE FreshFrom(u, w)'
      <4>1. Like(call[w], call'[w])
        OBVIOUS
      <4> QED BY <3>1, <3>2, <4>1 DEF FreshFrom, Like, Pending
    <3> QED BY <2>1, <3>1, <3>2 DEF Fresh, Pending
  <2> QED BY <2>2, <2>3
<1> QED BY <1>1, <1>2 DEF Clean

(* The steps that leave the tabs alone as well.                            *)
LEMMA Quiet ==
  ASSUME TypeInv, Clean, NEW t \in Tabs, NEW c, NEW p,
         UNCHANGED <<account, envelope, tab>>, wish'.vault = wish.vault,
         spent'.binds = spent.binds,
         call' = [call EXCEPT ![t] = c], Like(call[t], c),
         page' = [page EXCEPT ![t] = p],
         p.at = "vault" => page[t].at = "vault" \/ (SessionActive(t) /\ tab[t].shown)
  PROVE  Clean'
<1>1. /\ page \in [Tabs -> PageRec] /\ call \in [Tabs -> CallRec]
      /\ \A u \in Tabs : Keyed(tab[u])
  BY TypeInvShape
<1>2. ASSUME NEW u \in Tabs PROVE Like(call[u], call'[u])
  BY <1>1 DEF Like
<1>3. ASSUME NEW u \in Tabs PROVE Rewire(u)'
  <2>1. Rewire(u)
    BY DEF Clean
  <2> QED BY <1>2, <2>1 DEF Rewire, Like
<1>4. ASSUME NEW u \in Tabs PROVE Shown(u)'
  <2>1. Shown(u)
    BY DEF Clean
  <2>2. page'[u].at = "vault" =>
          page[u].at = "vault" \/ (SessionActive(u) /\ tab[u].shown)
    BY <1>1
  <2> QED BY <1>1, <2>1, <2>2 DEF Shown, SessionActive, Keyed
<1> QED BY <1>2, <1>3, <1>4, RowsSteady

(* A call that ends, with the page told or sent to the vault.              *)
LEMMA QuietEnd ==
  ASSUME TypeInv, Clean, NEW t \in Tabs,
         UNCHANGED <<account, envelope, tab>>, wish'.vault = wish.vault,
         spent'.binds = spent.binds, Ends(t),
         \/ page' = page
         \/ \E p : Tell(t, p) /\ p.at = page[t].at
  PROVE  Clean'
<1>1. page' = [page EXCEPT ![t] = page'[t]] /\ page'[t].at = page[t].at
  BY Found DEF Tell
<1>2. Like(call[t], NoCall)
  BY DEF Like, NoCall, Pending
<1> QED BY <1>1, <1>2, Quiet DEF Ends

LEMMA CleanUnlock ==
  ASSUME TypeInv, Clean, NEW t \in Tabs, UnlockStep(t)
  PROVE  Clean'
<1>1. /\ page \in [Tabs -> PageRec] /\ page[t] \in PageRec
      /\ call \in [Tabs -> CallRec] /\ call[t] \in CallRec
      /\ tab \in [Tabs -> TabRec] /\ page = [page EXCEPT ![t] = page[t]]
      /\ call = [call EXCEPT ![t] = call[t]] /\ account \in Row
  BY Found DEF RowsOK
<1>2. /\ Idle(t).at = page[t].at /\ Burnt(Idle(t)).at = page[t].at
      /\ WithoutQuick(Idle(t)).at = page[t].at
      /\ WithoutQuick(Burnt(Idle(t))).at = page[t].at
  BY <1>1 DEF Idle, Burnt, WithoutQuick, PageRec
<1>3. CASE unlock(t)
  <2>1. PICK c : Submit(t, c) /\ [c EXCEPT !.live = TRUE].kind \in {"quick", "emergency"}
    <3>1. PICK pw, key :
            LET c == [NoCall EXCEPT !.pw = pw, !.form = page[t].snap]
                q == [c EXCEPT !.kind = "quick", !.pc = "prompt",
                               !.snap = account, !.rec = cache]
                e == [c EXCEPT !.kind = "emergency", !.pc = "load", !.key = key] IN
            Submit(t, q) \/ Submit(t, e)
      BY <1>3 DEF unlock
    <3> DEFINE c0 == [NoCall EXCEPT !.pw = pw, !.form = page[t].snap]
               q0 == [c0 EXCEPT !.kind = "quick", !.pc = "prompt",
                                !.snap = account, !.rec = cache]
               e0 == [c0 EXCEPT !.kind = "emergency", !.pc = "load", !.key = key]
    <3>2. /\ [q0 EXCEPT !.live = TRUE].kind = "quick"
          /\ [e0 EXCEPT !.live = TRUE].kind = "emergency"
      BY DEF NoCall
    <3>3. Submit(t, q0) \/ Submit(t, e0)
      BY <3>1
    <3> HIDE DEF q0, e0
    <3> QED BY <3>2, <3>3
  <2>2. Like(call[t], [c EXCEPT !.live = TRUE])
    BY <2>1 DEF Like, Pending
  <2>3. page' = [page EXCEPT ![t] = page'[t]] /\ page'[t].at = page[t].at
    BY <1>1, <1>3 DEF unlock, PageRec
  <2>4. /\ UNCHANGED <<account, envelope, tab>> /\ wish' = wish /\ spent'.binds = spent.binds
        /\ call' = [call EXCEPT ![t] = [c EXCEPT !.live = TRUE]]
    BY <1>3, <2>1, Found DEF unlock, rows, Submit, Spend, RowsOK
  <2> QED BY <2>2, <2>3, <2>4, Quiet
<1>4. CASE showEmergencyKey(t) \/ showQuickUnlock(t)
  <2>1. page' = [page EXCEPT ![t] = page'[t]] /\ page'[t].at = page[t].at
    BY <1>1, <1>4 DEF showEmergencyKey, showQuickUnlock, PageRec
  <2>2. UNCHANGED <<account, envelope, tab, call, wish, spent>>
    BY <1>4 DEF showEmergencyKey, showQuickUnlock, rows
  <2>3. Like(call[t], call[t])
    BY DEF Like
  <2> QED BY <1>1, <2>1, <2>2, <2>3, Quiet
<1>5. CASE QuickUnlockFails(t) \/ LoginUnavailable(t) \/ isMissingPrfOutput(t)
            \/ ChunkNotLoaded(t) \/ LoginRefused(t) \/ openVaultFails(t)
  <2>1. \E p : Tell(t, p) /\ p.at = page[t].at
    BY <1>2, <1>5 DEF QuickUnlockFails, LoginUnavailable, isMissingPrfOutput, ChunkNotLoaded,
                      LoginRefused, openVaultFails
  <2>2. /\ UNCHANGED <<account, envelope, tab, wish>> /\ Ends(t)
        /\ \/ spent' = spent
           \/ spent' = [spent EXCEPT !.faults = @ + 1]
    BY <1>5 DEF QuickUnlockFails, LoginUnavailable, isMissingPrfOutput, ChunkNotLoaded,
                LoginRefused, openVaultFails, Fault, Spend, rows
  <2>3. spent'.binds = spent.binds
    BY <2>2, Found DEF RowsOK
  <2> QED BY <2>1, <2>2, <2>3, QuietEnd
<1>6. CASE openQuickUnlock(t)
  <2>1. UNCHANGED <<account, envelope, tab, spent, wish>>
    BY <1>6 DEF openQuickUnlock
  <2>2. CASE call[t].rec.bind = call[t].snap.bind
    <3> DEFINE c0 == [call[t] EXCEPT !.pc = "load", !.key = call[t].rec.key,
                                     !.prf = call[t].snap.bind]
    <3>1. Like(call[t], c0)
      BY <1>1, <1>6 DEF openQuickUnlock, Ready, Like, Pending, CallRec
    <3>2. call' = [call EXCEPT ![t] = c0] /\ page' = page
      BY <1>1, <1>6, <2>2 DEF openQuickUnlock
    <3> HIDE DEF c0
    <3> QED BY <1>1, <2>1, <3>1, <3>2, Quiet
  <2>3. CASE call[t].rec.bind # call[t].snap.bind
    <3>1. Tell(t, WithoutQuick(Idle(t))) /\ Ends(t)
      BY <1>6, <2>3 DEF openQuickUnlock
    <3> QED BY <1>2, <2>1, <3>1, QuietEnd
  <2> QED BY <2>2, <2>3
<1>7. CASE loginWithRetry(t)
  <2>1. PICK c : call' = [call EXCEPT ![t] = c] /\ c.kind = call[t].kind
    BY <1>1, <1>7 DEF loginWithRetry, CallRec
  <2>2. Like(call[t], c) /\ UNCHANGED <<account, envelope, tab, page, spent, wish>>
    BY <1>7, <2>1 DEF loginWithRetry, Like, Pending, rows
  <2> QED BY <1>1, <2>1, <2>2, Quiet
<1>8. CASE openVault(t)
  <2>1. /\ UNCHANGED <<account, envelope, wish, spent>> /\ account.vault # 0
        /\ call' = [call EXCEPT ![t] = NoCall]
        /\ tab' = [tab EXCEPT ![t] = [Locked EXCEPT !.kek = Derived(t),
                                       !.data = account.vault, !.shown = TRUE]]
        /\ page' = [page EXCEPT ![t] = page'[t]]
    BY <1>1, <1>8 DEF openVault, Opens, Goto, Ends, rows
  <2>2. tab'[t].data = account.vault /\ tab'[t].shown
    BY <1>1, <2>1 DEF Locked
  <2>3. ASSUME NEW u \in Tabs PROVE Like(call[u], call'[u]) /\ Rewire(u)' /\ Shown(u)'
    <3>1. CASE u = t
      BY <1>1, <2>1, <2>2, <3>1 DEF Like, Pending, Rewire, Shown, NoCall
    <3>2. CASE u # t
      <4>1. /\ tab'[u] = tab[u] /\ page'[u] = page[u] /\ call'[u] = call[u]
            /\ Rewire(u) /\ Shown(u)
        BY <1>1, <2>1, <3>2 DEF Clean
      <4> QED BY <2>1, <4>1 DEF Like, Rewire, Shown
    <3> QED BY <3>1, <3>2
  <2> QED BY <2>1, <2>3, RowsSteady
<1> QED BY <1>3, <1>4, <1>5, <1>6, <1>7, <1>8 DEF UnlockStep

LEMMA CleanVisit ==
  ASSUME TypeInv, Clean, NEW t \in Tabs,
         Reload(t) \/ \E at \in {"unlock", "recover", "restore", "vault"} : Visit(t, at)
  PROVE  Clean'
<1>1. /\ page \in [Tabs -> PageRec] /\ call \in [Tabs -> CallRec] /\ call[t] \in CallRec
      /\ tab \in [Tabs -> TabRec]
  BY Found
<1>2. CASE \E at \in {"unlock", "recover", "restore", "vault"} : Visit(t, at)
  <2>1. PICK at \in {"unlock", "recover", "restore", "vault"} : Visit(t, at)
    BY <1>2
  <2>2. Mounted(at).at = "vault" => SessionActive(t) /\ tab[t].shown
    BY <2>1 DEF Visit, CanShow, Mounted, Elsewhere
  <2>3. /\ UNCHANGED <<account, envelope, tab, wish, spent>>
        /\ call' = [call EXCEPT ![t] = [call[t] EXCEPT !.live = FALSE]]
        /\ page' = [page EXCEPT ![t] = Mounted(at)]
    BY <1>1, <2>1 DEF Visit, Abandon, rows
  <2>4. Like(call[t], [call[t] EXCEPT !.live = FALSE])
    BY <1>1 DEF Like, CallRec
  <2> QED BY <2>2, <2>3, <2>4, Quiet
<1>3. CASE Reload(t)
  <2>1. /\ UNCHANGED <<account, envelope, wish, spent>>
        /\ call' = [call EXCEPT ![t] = NoCall] /\ tab' = [tab EXCEPT ![t] = Locked]
        /\ page' = [page EXCEPT ![t] = Elsewhere]
    BY <1>3 DEF Reload, rows
  <2>2. ASSUME NEW u \in Tabs PROVE Like(call[u], call'[u]) /\ Rewire(u)' /\ Shown(u)'
    <3>1. CASE u = t
      BY <1>1, <2>1, <3>1 DEF Like, Pending, Rewire, Shown, NoCall, Locked, Elsewhere
    <3>2. CASE u # t
      <4>1. /\ tab'[u] = tab[u] /\ page'[u] = page[u] /\ call'[u] = call[u]
            /\ Rewire(u) /\ Shown(u)
        BY <1>1, <2>1, <3>2 DEF Clean
      <4> QED BY <2>1, <4>1 DEF Like, Rewire, Shown
    <3> QED BY <3>1, <3>2
  <2> QED BY <2>1, <2>2, RowsSteady
<1> QED BY <1>2, <1>3

(* What the conjuncts of Clean say of the binding numbers.                 *)
LEMMA Numbers ==
  ASSUME TypeInv, NEW t \in Tabs
  PROVE  /\ spent.binds \in Nat /\ spent.vaults \in Nat
         /\ account.bind \in Nat /\ account.vault \in Nat /\ envelope.bind \in Int
         /\ call[t].prf \in Nat /\ call[t].form.bind \in Nat
BY Found DEF RowsOK, Row, Cache, CallRec, Mixed

(* The rows, when a call that was waiting writes or is about to.           *)
LEMMA CleanRewire ==
  ASSUME TypeInv, Clean, NEW t \in Tabs, rewirePasskey(t)
  PROVE  Clean'
<1>1. /\ page \in [Tabs -> PageRec] /\ call \in [Tabs -> CallRec] /\ tab \in [Tabs -> TabRec]
      /\ call = [call EXCEPT ![t] = call[t]] /\ page = [page EXCEPT ![t] = page[t]]
  BY Found
<1>2. UNCHANGED <<account, envelope, wish>> /\ page[t].at = "recover"
  BY <1>1 DEF rewirePasskey, rows
<1>3. CASE UNCHANGED <<tab, page, call, spent>>
  <2>1. Like(call[t], call[t])
    BY DEF Like
  <2> QED BY <1>1, <1>2, <1>3, <2>1, Quiet
<1>4. CASE ~UNCHANGED <<tab, page, call, spent>>
  <2>1. PICK key \in Vault :
          /\ EnvelopeOpens(key)
          /\ Submit(t, [NoCall EXCEPT !.kind = "rewire", !.pc = "prompt", !.key = key,
                                      !.form = account])
          /\ page' = [page EXCEPT ![t].busy = TRUE, ![t].stage = "passkey"]
          /\ tab' = [tab EXCEPT ![t] = [Locked EXCEPT !.data = account.vault,
                                                      !.shown = TRUE]]
    BY <1>4 DEF rewirePasskey
  <2>2. account.vault # 0 /\ account.bind # 0 /\ key = account.vault
    BY <2>1 DEF EnvelopeOpens, Kept, Clean, Kit
  <2> DEFINE d == [NoCall EXCEPT !.kind = "rewire", !.pc = "prompt", !.key = key,
                                 !.form = account, !.live = TRUE]
             k == [Locked EXCEPT !.data = account.vault, !.shown = TRUE]
  <2>3. call' = [call EXCEPT ![t] = d] /\ tab' = [tab EXCEPT ![t] = k]
        /\ page'[t].at = page[t].at /\ (\A u \in Tabs \ {t} : page'[u] = page[u])
    BY <1>1, <2>1 DEF Submit, NoCall, PageRec
  <2>4. d.kind = "rewire" /\ d.pc = "prompt" /\ d.key = key /\ d.form = account
    BY DEF NoCall
  <2>5. k.data = account.vault /\ k.shown /\ ~k.told
    BY DEF Locked
  <2>6. spent'.binds = spent.binds
    BY <2>1, Found DEF Submit, Spend, RowsOK
  <2> HIDE DEF d, k
  <2>7. Kit' /\ Known'
    BY <1>2, <2>6 DEF Clean, Kit, Known, SealedForTheKit
  <2>8. ASSUME NEW u \in Tabs PROVE Fresh(u)'
    <3>1. Fresh(u) /\ account.bind <= spent.binds
      BY DEF Clean, Known
    <3>2. CASE u = t
      BY <1>1, <1>2, <2>3, <2>4, <2>6, <3>1, <3>2 DEF Fresh, Pending
    <3>3. CASE u # t
      <4>1. call'[u] = call[u]
        BY <1>1, <2>3, <3>3
      <4>2. ASSUME NEW w \in Tabs, Pending(call[u]) PROVE FreshFrom(u, w)'
        <5>1. FreshFrom(u, w) /\ call[u].prf # account.bind
          BY <3>1, <4>2 DEF Fresh
        <5>2. CASE w = t
          BY <1>1, <2>3, <2>4, <4>1, <5>1, <5>2 DEF FreshFrom, Pending
        <5>3. CASE w # t
          <6>1. call'[w] = call[w]
            BY <1>1, <2>3, <5>3
          <6> QED BY <4>1, <5>1, <6>1 DEF FreshFrom, Pending
        <5> QED BY <5>2, <5>3
      <4> QED BY <1>2, <2>6, <3>1, <4>1, <4>2 DEF Fresh, Pending
    <3> QED BY <3>2, <3>3
  <2>9. ASSUME NEW u \in Tabs PROVE Rewire(u)' /\ Shown(u)'
    <3>1. Rewire(u) /\ Shown(u)
      BY DEF Clean
    <3>2. CASE u = t
      BY <1>1, <1>2, <2>2, <2>3, <2>4, <2>5, <3>2 DEF Rewire, Shown
    <3>3. CASE u # t
      <4>1. call'[u] = call[u] /\ tab'[u] = tab[u] /\ page'[u] = page[u]
        BY <1>1, <2>3, <3>3
      <4> QED BY <1>2, <3>1, <4>1 DEF Rewire, Shown
    <3> QED BY <3>2, <3>3
  <2> QED BY <2>7, <2>8, <2>9 DEF Clean
<1> QED BY <1>3, <1>4

(* The passkey registered is one nobody has seen.                          *)
LEMMA CleanRegister ==
  ASSUME TypeInv, Clean, NEW t \in Tabs, registerPasskey(t)
  PROVE  Clean'
<1>1. /\ page \in [Tabs -> PageRec] /\ page[t] \in PageRec
      /\ call \in [Tabs -> CallRec] /\ call[t] \in CallRec
      /\ page = [page EXCEPT ![t] = page[t]] /\ spent.binds \in Nat
  BY Found, Numbers
<1> DEFINE d == [call[t] EXCEPT !.prf = spent.binds + 1, !.pc = "read"]
<1>2. /\ UNCHANGED <<account, envelope, tab, wish>> /\ call' = [call EXCEPT ![t] = d]
      /\ call[t].kind \in {"rewire", "finish"} /\ call[t].pc = "prompt"
      /\ spent'.binds = spent.binds + 1
  BY <1>1, Found DEF registerPasskey, Spend, rows, RowsOK
<1>3. /\ d.kind = call[t].kind /\ d.pc = "read" /\ d.key = call[t].key
      /\ d.prf = spent.binds + 1 /\ d.form = call[t].form /\ d.snap = call[t].snap
  BY <1>1 DEF CallRec
<1>4. \A u \in Tabs : page'[u].at = page[u].at
  <2>1. PICK s : page' = [page EXCEPT ![t] = [page[t] EXCEPT !.stage = s]]
    <3>1. PICK s : Tell(t, [page[t] EXCEPT !.stage = s])
      BY DEF registerPasskey
    <3>2. CASE Answers(t)
      BY <3>1, <3>2 DEF Tell
    <3>3. CASE ~Answers(t)
      <4>1. page[t] = [page[t] EXCEPT !.stage = page[t].stage]
        BY <1>1 DEF PageRec
      <4>2. page' = [page EXCEPT ![t] = [page[t] EXCEPT !.stage = page[t].stage]]
        BY <1>1, <3>1, <3>3, <4>1 DEF Tell
      <4> QED BY <4>2
    <3> QED BY <3>2, <3>3
  <2> QED BY <1>1, <2>1 DEF PageRec
<1> HIDE DEF d
<1>5. Kit' /\ Known'
  BY <1>1, <1>2, Numbers DEF Clean, Kit, Known, SealedForTheKit
<1>6. ASSUME NEW u \in Tabs PROVE Fresh(u)'
  <2>1. Fresh(u) /\ Known
    BY DEF Clean
  <2>2. CASE u = t
    <3>1. /\ account.bind # spent.binds + 1 /\ envelope.bind # spent.binds + 1
          /\ spent.binds + 1 \in 1 .. spent'.binds
          /\ call[t].kind = "rewire" => call[t].form.bind <= spent'.binds
      BY <1>1, <1>2, <2>1, <2>2, Numbers DEF Known, Fresh
    <3>2. ASSUME NEW w \in Tabs PROVE FreshFrom(t, w)'
      <4>1. Fresh(w)
        BY DEF Clean
      <4>2. call[w].kind = "rewire" => call[w].form.bind # spent.binds + 1
        BY <1>1, <4>1, Numbers DEF Fresh
      <4>3. Pending(call[w]) => call[w].prf # spent.binds + 1
        BY <1>1, <4>1, Numbers DEF Fresh
      <4>4. CASE w = t
        BY <1>1, <1>2, <1>3, <4>2, <4>4 DEF FreshFrom
      <4>5. CASE w # t
        <5>1. call'[w] = call[w] /\ call'[t] = d
          BY <1>1, <1>2, <4>5
        <5> QED BY <1>3, <4>2, <4>3, <5>1 DEF FreshFrom, Pending
      <4> QED BY <4>4, <4>5
    <3> QED BY <1>1, <1>2, <1>3, <2>2, <3>1, <3>2 DEF Fresh
  <2>3. CASE u # t
    <3>1. call'[u] = call[u]
      BY <1>1, <1>2, <2>3
    <3>2. ASSUME NEW w \in Tabs, Pending(call[u]) PROVE FreshFrom(u, w)'
      <4>1. FreshFrom(u, w) /\ call[u].prf # spent.binds + 1
        BY <1>1, <2>1, <3>2, Numbers DEF Fresh
      <4>2. CASE w = t
        BY <1>1, <1>2, <1>3, <3>1, <4>1, <4>2 DEF FreshFrom, Pending
      <4>3. CASE w # t
        <5>1. call'[w] = call[w]
          BY <1>1, <1>2, <4>3
        <5> QED BY <3>1, <4>1, <5>1 DEF FreshFrom, Pending
      <4> QED BY <4>2, <4>3
    <3>3. /\ call[u].kind = "rewire" => call[u].form.bind <= spent'.binds
          /\ Pending(call[u]) => call[u].prf \in 1 .. spent'.binds
      BY <1>1, <1>2, <2>1, Numbers DEF Fresh
    <3> QED BY <1>2, <2>1, <3>1, <3>2, <3>3 DEF Fresh, Pending
  <2> QED BY <2>2, <2>3
<1>7. ASSUME NEW u \in Tabs PROVE Rewire(u)' /\ Shown(u)'
  <2>1. Rewire(u) /\ Shown(u)
    BY DEF Clean
  <2>2. CASE u = t
    BY <1>1, <1>2, <1>3, <1>4, <2>1, <2>2 DEF Rewire, Shown
  <2>3. CASE u # t
    <3>1. call'[u] = call[u]
      BY <1>1, <1>2, <2>3
    <3> QED BY <1>2, <1>4, <2>1, <3>1 DEF Rewire, Shown
  <2> QED BY <2>2, <2>3
<1> QED BY <1>5, <1>6, <1>7 DEF Clean

(* Call d asks no more of the bindings than call c did.                    *)
Asks(c, d) ==
  /\ d.kind = "rewire" => c.kind = "rewire" /\ d.form = c.form
  /\ Pending(d) => Pending(c) /\ d.prf = c.prf

LEMMA FreshKept ==
  ASSUME TypeInv, Clean, spent'.binds \in Nat, spent.binds <= spent'.binds,
         \A u \in Tabs : Asks(call[u], call'[u]),
         \A u \in Tabs : Pending(call'[u]) =>
           call[u].prf # account'.bind /\ call[u].prf # envelope'.bind
  PROVE  \A u \in Tabs : Fresh(u)'
<1> TAKE u \in Tabs
<1>1. Fresh(u) /\ Asks(call[u], call'[u])
  BY DEF Clean
<1>2. ASSUME Pending(call'[u]), NEW w \in Tabs PROVE FreshFrom(u, w)'
  <2>1. FreshFrom(u, w)
    BY <1>1, <1>2 DEF Fresh, Asks
  <2>2. Asks(call[w], call'[w])
    OBVIOUS
  <2> QED BY <1>1, <1>2, <2>1, <2>2 DEF FreshFrom, Asks, Pending
<1>3. /\ call'[u].kind = "rewire" => call'[u].form.bind <= spent'.binds
      /\ Pending(call'[u]) => call'[u].prf \in 1 .. spent'.binds
  BY <1>1, Numbers DEF Fresh, Asks
<1> QED BY <1>1, <1>2, <1>3 DEF Fresh, Asks, Pending

LEMMA CleanRebind ==
  ASSUME TypeInv, Clean, NEW t \in Tabs, RebindReads(t) \/ rebindRecoveredVault(t),
         exposure' = {}
  PROVE  Clean'
<1>1. /\ page \in [Tabs -> PageRec] /\ call \in [Tabs -> CallRec] /\ call[t] \in CallRec
      /\ tab \in [Tabs -> TabRec] /\ tab[t] \in TabRec /\ CallOK(call[t])
  BY Found
<1>2. /\ UNCHANGED <<envelope, page, wish, spent>> /\ call[t].kind = "rewire"
      /\ Pending(call[t])
  BY DEF RebindReads, rebindRecoveredVault, rows, Ready, Pending
<1>3. /\ Rewire(t) /\ Kit /\ Known /\ Fresh(t)
      /\ \A u \in Tabs : Rewire(u) /\ Shown(u) /\ Fresh(u)
  BY DEF Clean
<1>4. CASE RebindReads(t)
  <2> DEFINE d == [call[t] EXCEPT !.snap = account, !.pc = "commit"]
  <2>1. account' = account /\ tab' = tab /\ call' = [call EXCEPT ![t] = d]
    BY <1>4 DEF RebindReads, rows
  <2>2. /\ d.kind = call[t].kind /\ d.key = call[t].key /\ d.prf = call[t].prf
        /\ d.form = call[t].form /\ d.snap = account /\ d.pc = "commit"
    BY <1>1 DEF CallRec
  <2> HIDE DEF d
  <2>3. \A u \in Tabs : Asks(call[u], call'[u])
    BY <1>1, <1>2, <2>1, <2>2 DEF Asks, Pending
  <2>4. Kit' /\ Known'
    BY <1>2, <1>3, <2>1 DEF Kit, Known, SealedForTheKit
  <2>5. \A u \in Tabs : Fresh(u)'
    <3>1. \A u \in Tabs : Pending(call'[u]) =>
            call[u].prf # account'.bind /\ call[u].prf # envelope'.bind
      BY <1>2, <1>3, <2>1, <2>3 DEF Asks, Fresh
    <3>2. spent'.binds \in Nat /\ spent.binds <= spent'.binds
      BY <1>2, Numbers
    <3> QED BY <2>3, <3>1, <3>2, FreshKept
  <2>6. ASSUME NEW u \in Tabs PROVE Rewire(u)' /\ Shown(u)'
    <3>1. CASE u = t
      BY <1>1, <1>2, <1>3, <2>1, <2>2, <3>1 DEF Rewire, Shown
    <3>2. CASE u # t
      <4>1. call'[u] = call[u]
        BY <1>1, <2>1, <3>2
      <4> QED BY <1>2, <1>3, <2>1, <4>1 DEF Rewire, Shown
    <3> QED BY <3>1, <3>2
  <2> QED BY <2>4, <2>5, <2>6 DEF Clean
<1>5. CASE rebindRecoveredVault(t)
  <2> DEFINE d == [call[t] EXCEPT !.pc = "reseal"]
             r == Rebound(call[t])
             k == [tab[t] EXCEPT !.kek = KekOf(r), !.data = call[t].snap.vault]
  <2>1. /\ account' = r /\ tab' = [tab EXCEPT ![t] = k] /\ call' = [call EXCEPT ![t] = d]
        /\ call[t].pc = "commit" /\ account = call[t].form
    BY <1>1, <1>5 DEF rebindRecoveredVault, Expose, Ready
  <2>2. /\ d.kind = "rewire" /\ d.pc = "reseal" /\ d.key = call[t].key
        /\ d.prf = call[t].prf /\ d.form = call[t].form
    BY <1>1, <1>2 DEF CallRec
  <2>3. /\ call[t].key = account.vault /\ account.vault # 0 /\ account.bind # 0
        /\ call[t].snap.vault = account.vault
    BY <1>2, <1>3, <2>1 DEF Rewire
  <2>4. /\ r.vault = account.vault /\ r.key = account.vault /\ r.bind = call[t].prf
        /\ r.prf = call[t].prf
    BY <2>3 DEF Rebound, SealedRow
  <2>5. k.data = account.vault /\ k.shown = tab[t].shown /\ k.told = tab[t].told
    BY <1>1, <2>3 DEF TabRec
  <2>6. /\ call[t].prf \in 1 .. spent.binds /\ call[t].prf # account.bind
        /\ call[t].prf # envelope.bind /\ \A u \in Tabs : FreshFrom(t, u)
    BY <1>2, <1>3 DEF Fresh
  <2> HIDE DEF d, k, r
  <2>7. Kit' /\ Known'
    BY <1>2, <1>3, <2>1, <2>4, <2>6, Numbers DEF Kit, Known, SealedForTheKit
  <2>8. \A u \in Tabs : Asks(call[u], call'[u])
    BY <1>1, <1>2, <2>1, <2>2 DEF Asks, Pending
  <2>9. \A u \in Tabs : Fresh(u)'
    <3>1. ASSUME NEW u \in Tabs, Pending(call'[u])
          PROVE  call[u].prf # account'.bind /\ call[u].prf # envelope'.bind
      <4>1. u # t
        BY <1>1, <2>1, <2>2, <3>1 DEF Pending
      <4>2. Pending(call[u])
        BY <2>8, <3>1 DEF Asks
      <4> QED BY <1>2, <1>3, <2>1, <2>4, <2>6, <4>1, <4>2 DEF Fresh, FreshFrom
    <3>2. spent'.binds \in Nat /\ spent.binds <= spent'.binds
      BY <1>2, Numbers
    <3> QED BY <2>8, <3>1, <3>2, FreshKept
  <2>10. ASSUME NEW u \in Tabs PROVE Rewire(u)' /\ Shown(u)'
    <3>1. call[u].kind = "rewire" => call[u].form.bind # account'.bind
      BY <2>1, <2>4, <2>6 DEF FreshFrom
    <3>2. CASE u = t
      BY <1>1, <1>2, <1>3, <2>1, <2>2, <2>3, <2>4, <2>5, <3>1, <3>2 DEF Rewire, Shown
    <3>3. CASE u # t
      <4>1. call'[u] = call[u] /\ tab'[u] = tab[u] /\ page'[u] = page[u]
        BY <1>1, <1>2, <2>1, <3>3
      <4> QED BY <1>3, <2>1, <2>4, <3>1, <4>1 DEF Rewire, Shown
    <3> QED BY <3>2, <3>3
  <2> QED BY <2>7, <2>9, <2>10 DEF Clean
<1> QED BY <1>4, <1>5

(* The envelope is re-sealed, and the restored vault settles.              *)
LEMMA CleanReseal ==
  ASSUME TypeInv, Clean, NEW t \in Tabs, Recovered(t) \/ Settled(t), exposure' = {}
  PROVE  Clean'
<1>1. /\ page \in [Tabs -> PageRec] /\ call \in [Tabs -> CallRec] /\ tab \in [Tabs -> TabRec]
      /\ wish \in [vault: 0 .. MaxVaults, quick: BOOLEAN] /\ \A u \in Tabs : Keyed(tab[u])
  BY Found, TypeInvShape DEF RowsOK
<1>2. UNCHANGED <<account, tab, spent>> /\ call' = [call EXCEPT ![t] = NoCall]
  BY DEF Recovered, Settled, Ends
<1>3. wish'.vault = wish.vault
  BY <1>1 DEF Recovered, Settled
<1>4. \/ envelope' = envelope
      \/ envelope'.bind = account.bind /\ envelope'.key = account.vault
  <2>1. CASE Recovered(t)
    BY <2>1 DEF Recovered, Kept, Expose
  <2>2. CASE Settled(t)
    <3>1. PICK recovery \in BOOLEAN :
            /\ envelope' = IF recovery THEN Kept(call[t].key, account.bind) ELSE envelope
            /\ Expose(recovery /\ account.vault # call[t].key, "row changed under a call")
      BY <2>2 DEF Settled
    <3> QED BY <3>1 DEF Kept, Expose
  <2> QED BY <2>1, <2>2
<1>5. \A u \in Tabs : page'[u].at = "vault" =>
        page[u].at = "vault" \/ (tab[u].shown /\ tab[u].data # 0)
  <2>1. page' = page \/ (CanShow(t, "vault") /\ Goto(t, "vault"))
    BY DEF Recovered, Settled
  <2> QED BY <1>1, <2>1 DEF CanShow, SessionActive, Keyed, Goto
<1>6. Kit' /\ Known'
  BY <1>2, <1>3, <1>4 DEF Clean, Kit, Known, SealedForTheKit
<1>7. \A u \in Tabs : Fresh(u)'
  <2>1. \A u \in Tabs : Asks(call[u], call'[u])
    BY <1>1, <1>2 DEF Asks, Pending, NoCall
  <2>2. \A u \in Tabs : Pending(call'[u]) =>
          call[u].prf # account'.bind /\ call[u].prf # envelope'.bind
    BY <1>2, <1>4, <2>1 DEF Asks, Clean, Fresh
  <2> QED BY <1>2, <2>1, <2>2, Numbers, FreshKept
<1>8. ASSUME NEW u \in Tabs PROVE Rewire(u)' /\ Shown(u)'
  <2>1. Rewire(u) /\ Shown(u)
    BY DEF Clean
  <2>2. call'[u] = call[u] \/ call'[u].kind = "none"
    BY <1>1, <1>2 DEF NoCall
  <2> QED BY <1>2, <1>5, <2>1, <2>2 DEF Rewire, Shown
<1> QED BY <1>6, <1>7, <1>8 DEF Clean

(* The wipe, the news of it, and the vault made or restored after it.      *)
LEMMA CleanWipe ==
  ASSUME TypeInv, Clean, NEW t \in Tabs, startFresh(t) \/ WipedElsewhere(t),
         exposure' = {}
  PROVE  Clean'
<1>1. /\ page \in [Tabs -> PageRec] /\ call \in [Tabs -> CallRec] /\ call[t] \in CallRec
      /\ tab \in [Tabs -> TabRec]
  BY Found
<1> DEFINE d == [call[t] EXCEPT !.live = FALSE]
<1>2. call' = [call EXCEPT ![t] = d] /\ spent' = spent
  BY DEF startFresh, WipedElsewhere, Abandon
<1>3. /\ d.kind = call[t].kind /\ d.pc = call[t].pc /\ d.key = call[t].key
      /\ d.prf = call[t].prf /\ d.form = call[t].form /\ d.snap = call[t].snap
  BY <1>1 DEF CallRec
<1> HIDE DEF d
<1>4. \A u \in Tabs : Like(call[u], call'[u]) /\ Asks(call[u], call'[u])
  BY <1>1, <1>2, <1>3 DEF Like, Asks, Pending
<1>5. \A u \in Tabs : Rewire(u) /\ Shown(u) /\ Fresh(u)
  BY DEF Clean
<1>6. CASE startFresh(t)
  <2>1. /\ account' = NoRow /\ envelope' = NoCache /\ wish' = [vault |-> 0, quick |-> FALSE]
        /\ tab' = [u \in Tabs |-> [tab[u] EXCEPT !.told = (u # t /\ tab[u].shown)]]
        /\ page' = [page EXCEPT ![t] = Elsewhere] /\ tab[t] = Locked
    BY <1>6 DEF startFresh, Cleared, Expose
  <2>2. /\ account'.vault = 0 /\ account'.key = 0 /\ account'.bind = 0 /\ account'.prf = 0
        /\ envelope'.bind = 0
    BY <2>1 DEF NoRow, NoCache
  <2>3. Kit' /\ Known'
    BY <1>2, <2>1, <2>2, Numbers DEF Kit, Known, SealedForTheKit
  <2>4. \A u \in Tabs : Fresh(u)'
    <3>1. \A u \in Tabs : Pending(call'[u]) =>
            call[u].prf # account'.bind /\ call[u].prf # envelope'.bind
      <4> TAKE u \in Tabs
      <4> HAVE Pending(call'[u])
      <4>1. call[u].prf \in 1 .. spent.binds
        BY <1>4, <1>5 DEF Asks, Fresh
      <4> QED BY <2>2, <4>1, Numbers
    <3> QED BY <1>2, <1>4, <3>1, Numbers, FreshKept
  <2>5. ASSUME NEW u \in Tabs PROVE Rewire(u)' /\ Shown(u)'
    <3>1. Rewire(u)'
      BY <1>4, <1>5, <2>2 DEF Rewire, Like
    <3>2. tab'[u].data = tab[u].data /\ tab'[u].shown = tab[u].shown
      BY <1>1, <2>1 DEF TabRec
    <3>3. CASE u = t
      <4>1. tab'[u].data = 0
        BY <2>1, <3>2, <3>3 DEF Locked
      <4>2. page'[u].at # "vault"
        BY <1>1, <2>1, <3>3 DEF Elsewhere
      <4> QED BY <3>1, <4>1, <4>2 DEF Shown
    <3>4. CASE u # t
      <4>1. page'[u] = page[u] /\ Shown(u)
        BY <1>1, <1>5, <2>1, <3>4
      <4>2. ASSUME tab[u].shown PROVE tab'[u].told
        BY <1>1, <2>1, <3>4, <4>2 DEF TabRec
      <4>3. tab'[u].shown /\ tab'[u].data # 0 => tab'[u].told
        BY <3>2, <4>2
      <4>4. page'[u].at = "vault" => tab'[u].shown /\ tab'[u].data # 0
        BY <3>2, <4>1 DEF Shown
      <4> QED BY <3>1, <4>3, <4>4 DEF Shown
    <3> QED BY <3>1, <3>3, <3>4
  <2> QED BY <2>3, <2>4, <2>5 DEF Clean
<1>7. CASE WipedElsewhere(t)
  <2>1. /\ UNCHANGED <<account, envelope, wish>> /\ tab[t].told
        /\ tab' = [tab EXCEPT ![t] = Locked]
        /\ page' = [page EXCEPT ![t] = IF page[t].at = "vault" THEN Elsewhere ELSE page[t]]
    BY <1>7 DEF WipedElsewhere, rows
  <2>2. ASSUME NEW u \in Tabs PROVE Rewire(u)' /\ Shown(u)'
    <3>1. CASE u = t
      <4>1. Shown(t)'
        BY <1>1, <2>1 DEF Shown, Locked, Elsewhere
      <4>2. Rewire(t)'
        BY <1>1, <1>4, <1>5, <2>1 DEF Rewire, Like
      <4> QED BY <3>1, <4>1, <4>2
    <3>2. CASE u # t
      <4>1. call'[u] = call[u] /\ tab'[u] = tab[u] /\ page'[u] = page[u]
        BY <1>1, <1>2, <2>1, <3>2
      <4> QED BY <1>5, <2>1, <4>1 DEF Rewire, Shown
    <3> QED BY <3>1, <3>2
  <2> QED BY <1>2, <1>4, <2>1, <2>2, RowsSteady
<1> QED BY <1>6, <1>7

(* Another vault: no tab shows one but those that are told of the wipe.    *)
LEMMA CleanVault ==
  ASSUME TypeInv, Clean, NEW t \in Tabs, Provision(t) \/ adoptRestoredVault(t)
  PROVE  Clean'
<1>1. /\ page \in [Tabs -> PageRec] /\ call \in [Tabs -> CallRec] /\ call[t] \in CallRec
      /\ tab \in [Tabs -> TabRec] /\ CallOK(call[t])
      /\ \A u \in Tabs : Rewire(u) /\ Shown(u) /\ Fresh(u)
  BY Found DEF Clean
<1>2. account.vault = 0 /\ UNCHANGED page
  BY DEF Provision, adoptRestoredVault
(* The vault, its binding, and what the tab is left with.                  *)
<1>3. PICK v \in Nat \ {0}, b \in Nat \ {0} :
        /\ account'.vault = v /\ account'.key = v /\ account'.bind = b /\ account'.prf = b
        /\ wish'.vault = v
        /\ tab'[t].data = v /\ tab'[t].shown
        /\ \A u \in Tabs \ {t} : tab'[u] = tab[u]
        /\ spent'.binds \in Nat /\ spent.binds <= spent'.binds /\ b <= spent'.binds
        /\ \/ b = spent.binds + 1 /\ envelope'.key = v /\ envelope'.bind = b /\ call' = call
           \/ /\ Pending(call[t]) /\ b = call[t].prf /\ envelope' = envelope
              /\ call[t].kind = "finish" /\ call' = [call EXCEPT ![t].pc = "reseal"]
  <2>1. CASE Provision(t)
    <3> DEFINE v == spent.vaults + 1
               b == spent.binds + 1
    <3>1. v \in Nat \ {0} /\ b \in Nat \ {0} /\ b \in Nat
      BY Numbers
    <3>2. /\ account' = SealedRow(v, v, b, TRUE) /\ envelope' = Kept(v, b)
          /\ wish'.vault = v /\ call' = call
          /\ tab' = [tab EXCEPT ![t] = [Locked EXCEPT !.kek = KekOf(SealedRow(v, v, b, TRUE)),
                                                      !.data = v, !.shown = TRUE]]
          /\ spent' = [spent EXCEPT !.vaults = @ + 1, !.binds = @ + 1]
      BY <2>1 DEF Provision
    <3>3. spent'.binds = b
      BY <3>2, Found DEF RowsOK
    <3>4. spent.binds <= b
      BY Numbers
    <3> HIDE DEF v, b
    <3>5. tab'[t].data = v /\ tab'[t].shown /\ \A u \in Tabs \ {t} : tab'[u] = tab[u]
      BY <1>1, <3>2 DEF Locked
    <3>6. /\ account'.vault = v /\ account'.key = v /\ account'.bind = b /\ account'.prf = b
          /\ envelope'.key = v /\ envelope'.bind = b
      BY <3>2 DEF SealedRow, Kept
    <3>7. b <= b /\ b = spent.binds + 1
      BY <3>1 DEF b
    <3> QED BY <3>1, <3>2, <3>3, <3>4, <3>5, <3>6, <3>7
  <2>2. CASE adoptRestoredVault(t)
    <3> DEFINE v == call[t].key
               b == call[t].prf
    <3>1. /\ account' = Adopted(call[t]) /\ wish'.vault = v /\ envelope' = envelope
          /\ spent' = spent /\ call' = [call EXCEPT ![t].pc = "reseal"]
          /\ tab' = [tab EXCEPT ![t] = [Locked EXCEPT !.kek = KekOf(Adopted(call[t])),
                                                      !.data = v, !.shown = TRUE]]
          /\ call[t].kind = "finish" /\ Pending(call[t])
      BY <2>2 DEF adoptRestoredVault, Ready, Pending
    <3>2. v \in Nat \ {0}
      BY <1>1, <3>1, BoundsAssumption DEF CallRec, CallOK
    <3>3. b \in Nat \ {0} /\ b <= spent'.binds
      BY <1>1, <3>1, Numbers DEF Fresh
    <3>4. tab'[t].data = v /\ tab'[t].shown /\ \A u \in Tabs \ {t} : tab'[u] = tab[u]
      BY <1>1, <3>1 DEF Locked
    <3>5. /\ account'.vault = v /\ account'.key = v /\ account'.bind = b /\ account'.prf = b
      BY <3>1 DEF Adopted, SealedRow
    <3>6. spent'.binds \in Nat /\ spent.binds <= spent'.binds
      BY <3>1, Numbers
    <3> HIDE DEF v, b
    <3>7. b = call[t].prf
      BY DEF b
    <3> QED BY <3>1, <3>2, <3>3, <3>4, <3>5, <3>6, <3>7
  <2> QED BY <2>1, <2>2
<1>4. \A u \in Tabs : Asks(call[u], call'[u]) /\ (call'[u].kind = "rewire" => call'[u] = call[u])
  BY <1>1, <1>3 DEF Asks, Pending, CallRec
<1>5. ASSUME NEW u \in Tabs
      PROVE  /\ Pending(call'[u]) => call[u].prf # b /\ call[u].prf # envelope'.bind
             /\ call'[u].kind = "rewire" => call[u].form.bind # b
  <2>1. Fresh(u) /\ Fresh(t)
    BY <1>1
  <2>2. CASE b = spent.binds + 1 /\ envelope'.bind = b /\ call' = call
    BY <2>1, <2>2, Numbers DEF Fresh
  <2>3. CASE /\ Pending(call[t]) /\ b = call[t].prf /\ envelope' = envelope
             /\ call[t].kind = "finish" /\ call' = [call EXCEPT ![t].pc = "reseal"]
    <3>1. FreshFrom(t, u)
      BY <2>1, <2>3 DEF Fresh
    <3>2. CASE u = t
      BY <1>1, <2>3, <3>2 DEF Pending, CallRec
    <3>3. CASE u # t
      <4>1. call'[u] = call[u]
        BY <1>1, <2>3, <3>3
      <4> QED BY <2>1, <2>3, <3>1, <3>3, <4>1 DEF Fresh, FreshFrom
    <3> QED BY <3>2, <3>3
  <2> QED BY <1>3, <2>2, <2>3
<1>6. envelope'.bind = b => envelope'.key = v
  BY <1>1, <1>3 DEF Fresh
<1>7. Kit' /\ Known'
  <2>1. envelope.bind <= spent.binds
    BY DEF Clean, Known
  <2>2. envelope'.bind <= spent'.binds
    BY <1>3, <2>1, Numbers
  <2> QED BY <1>3, <1>6, <2>2 DEF Kit, Known, SealedForTheKit
<1>8. \A u \in Tabs : Fresh(u)'
  BY <1>3, <1>4, <1>5, FreshKept
<1>9. ASSUME NEW u \in Tabs PROVE Rewire(u)' /\ Shown(u)'
  <2>1. Rewire(u) /\ Shown(u)
    BY <1>1
  <2>2. Rewire(u)'
    BY <1>3, <1>4, <1>5, <2>1 DEF Rewire
  <2>3. Shown(u)'
    BY <1>2, <1>3, <2>1 DEF Shown
  <2> QED BY <2>2, <2>3
<1> QED BY <1>7, <1>8, <1>9 DEF Clean

(* The other steps of the restore page and of the settings.                *)
LEMMA CleanRestore ==
  ASSUME TypeInv, Clean, NEW t \in Tabs, RestoreStep(t), exposure' = {}
  PROVE  Clean'
<1>1. /\ page \in [Tabs -> PageRec] /\ page[t] \in PageRec
      /\ call = [call EXCEPT ![t] = call[t]] /\ call[t] \in CallRec
  BY Found
<1>2. CASE findVault(t) \/ finish(t)
  <2>1. PICK c : /\ Submit(t, c)
                 /\ [c EXCEPT !.live = TRUE].kind # "rewire"
                 /\ ~Pending([c EXCEPT !.live = TRUE])
    <3>1. CASE findVault(t)
      <4>1. PICK key : Submit(t, [NoCall EXCEPT !.kind = "search", !.pc = "load", !.key = key,
                                   !.form = [NoRow EXCEPT !.vault = key, !.opq = TRUE]])
        BY <3>1 DEF findVault
      <4> DEFINE c == [NoCall EXCEPT !.kind = "search", !.pc = "load", !.key = key,
                                     !.form = [NoRow EXCEPT !.vault = key, !.opq = TRUE]]
      <4>2. [c EXCEPT !.live = TRUE].kind = "search"
        BY DEF NoCall
      <4> QED BY <4>1, <4>2 DEF Pending
    <3>2. CASE finish(t)
      <4> DEFINE c == [NoCall EXCEPT !.kind = "finish", !.pc = "prompt", !.key = page[t].pend]
      <4>1. Submit(t, c)
        BY <3>2 DEF finish
      <4>2. [c EXCEPT !.live = TRUE].kind = "finish" /\ [c EXCEPT !.live = TRUE].pc = "prompt"
        BY DEF NoCall
      <4> QED BY <4>1, <4>2 DEF Pending
    <3> QED BY <1>2, <3>1, <3>2
  <2>2. Like(call[t], [c EXCEPT !.live = TRUE])
    BY <2>1 DEF Like
  <2>3. page' = [page EXCEPT ![t] = page'[t]] /\ page'[t].at = page[t].at
    <3>1. \/ page' = [page EXCEPT ![t].busy = TRUE, ![t].pend = 0]
          \/ page' = [page EXCEPT ![t].busy = TRUE, ![t].stage = "passkey"]
      BY <1>2 DEF findVault, finish
    <3> QED BY <1>1, <3>1 DEF PageRec
  <2>4. /\ UNCHANGED <<account, envelope, tab, wish>> /\ spent'.binds = spent.binds
        /\ call' = [call EXCEPT ![t] = [c EXCEPT !.live = TRUE]]
    BY <1>2, <2>1, Found DEF findVault, finish, rows, Submit, Spend, RowsOK
  <2> QED BY <2>2, <2>3, <2>4, Quiet
<1>3. CASE VaultFound(t) \/ passkeyFailed(t) \/ RestoreFailed(t)
  <2>1. \E p : Tell(t, p) /\ p.at = page[t].at
    <3>1. /\ [Idle(t) EXCEPT !.stage = "ready", !.pend = call[t].key].at = page[t].at
          /\ [Idle(t) EXCEPT !.stage = "ready"].at = page[t].at
          /\ [Idle(t) EXCEPT !.stage = "input", !.pend = 0].at = page[t].at
      BY <1>1 DEF Idle, PageRec
    <3> QED BY <1>3, <3>1 DEF VaultFound, passkeyFailed, RestoreFailed
  <2>2. /\ UNCHANGED <<account, envelope, tab, wish>> /\ Ends(t)
        /\ \/ spent' = spent
           \/ spent' = [spent EXCEPT !.faults = @ + 1]
    BY <1>3 DEF VaultFound, passkeyFailed, RestoreFailed, Fault, Spend, rows
  <2>3. spent'.binds = spent.binds
    BY <2>2, Found DEF RowsOK
  <2> QED BY <2>1, <2>2, <2>3, QuietEnd
<1>4. CASE startOver(t)
  <2>1. page' = [page EXCEPT ![t] = page'[t]] /\ page'[t].at = page[t].at
    BY <1>1, <1>4 DEF startOver, PageRec
  <2>2. UNCHANGED <<account, envelope, tab, call, wish, spent>> /\ Like(call[t], call[t])
    BY <1>4 DEF startOver, rows, Like
  <2> QED BY <1>1, <2>1, <2>2, Quiet
<1> QED BY <1>2, <1>3, <1>4, CleanVault, CleanReseal DEF RestoreStep

(* A master password set or removed leaves what Clean speaks of: the row   *)
(* is the one read, sealed for the key and the passkey it had.             *)
LEMMA CleanRotate ==
  ASSUME TypeInv, Clean, NEW t \in Tabs, rotateAuth(t), exposure' = {}
  PROVE  Clean'
<1>1. /\ page \in [Tabs -> PageRec] /\ page[t] \in PageRec
      /\ call \in [Tabs -> CallRec] /\ call[t] \in CallRec
      /\ tab \in [Tabs -> TabRec] /\ tab[t] \in TabRec /\ account \in Row
      /\ CallOK(call[t])
  BY Found DEF RowsOK
<1> DEFINE r == Rotated(call[t])
           k == [tab[t] EXCEPT !.kek = KekOf(r), !.data = call[t].snap.vault]
<1>2. /\ account' = r /\ tab' = [tab EXCEPT ![t] = k] /\ call' = [call EXCEPT ![t] = NoCall]
      /\ UNCHANGED <<envelope, spent, wish>> /\ call[t].pc = "commit"
      /\ account = call[t].snap /\ call[t].prf = call[t].snap.bind
      /\ call[t].key = call[t].snap.key
  BY DEF rotateAuth, Ends, Ready
<1>3. /\ r.vault = account.vault /\ r.key = account.key /\ r.bind = account.bind
      /\ r.prf = account.bind /\ account.vault # 0
  BY <1>1, <1>2 DEF Rotated, Row, CallOK
<1>4. k.data = account.vault /\ k.shown = tab[t].shown /\ k.told = tab[t].told
  BY <1>1, <1>2 DEF TabRec
<1>5. \A u \in Tabs : page'[u].at = page[u].at
  <2>1. page' = [page EXCEPT ![t] =
                  IF Answers(t)
                  THEN [Idle(t) EXCEPT !.snap.mp = call[t].mp, !.salted = (call[t].mp = 0)]
                  ELSE page[t]]
    BY DEF rotateAuth, Tell
  <2>2. [Idle(t) EXCEPT !.snap.mp = call[t].mp, !.salted = (call[t].mp = 0)].at = page[t].at
    BY <1>1 DEF Idle, PageRec
  <2> QED BY <1>1, <2>1, <2>2
<1> HIDE DEF r, k
<1>6. Kit' /\ Known'
  BY <1>2, <1>3 DEF Clean, Kit, Known, SealedForTheKit
<1>7. \A u \in Tabs : Asks(call[u], call'[u])
  BY <1>1, <1>2 DEF Asks, Pending, NoCall
<1>8. \A u \in Tabs : Fresh(u)'
  <2>1. \A u \in Tabs : Pending(call'[u]) =>
          call[u].prf # account'.bind /\ call[u].prf # envelope'.bind
    BY <1>2, <1>3, <1>7 DEF Asks, Clean, Fresh
  <2> QED BY <1>2, <1>7, <2>1, Numbers, FreshKept
<1>9. ASSUME NEW u \in Tabs PROVE Rewire(u)' /\ Shown(u)'
  <2>1. Rewire(u) /\ Shown(u)
    BY DEF Clean
  <2>2. CASE u = t
    BY <1>1, <1>2, <1>3, <1>4, <1>5, <2>1, <2>2 DEF Rewire, Shown, NoCall
  <2>3. CASE u # t
    <3>1. call'[u] = call[u] /\ tab'[u] = tab[u]
      BY <1>1, <1>2, <2>3
    <3> QED BY <1>2, <1>3, <1>5, <2>1, <3>1 DEF Rewire, Shown
  <2> QED BY <2>2, <2>3
<1> QED BY <1>6, <1>8, <1>9 DEF Clean

LEMMA CleanSettings ==
  ASSUME TypeInv, Clean, NEW t \in Tabs, SettingsStep(t), exposure' = {}
  PROVE  Clean'
<1>1. /\ page \in [Tabs -> PageRec] /\ page[t] \in PageRec
      /\ page = [page EXCEPT ![t] = page[t]]
      /\ call = [call EXCEPT ![t] = call[t]] /\ call[t] \in CallRec
      /\ wish \in [vault: 0 .. MaxVaults, quick: BOOLEAN]
  BY Found DEF RowsOK
<1>2. Idle(t).at = page[t].at
  BY <1>1 DEF Idle, PageRec
<1>3. CASE OpenSettings(t)
  <2>1. page' = [page EXCEPT ![t] = page'[t]] /\ page'[t].at = page[t].at
    BY <1>1, <1>3 DEF OpenSettings, PageRec
  <2>2. UNCHANGED <<account, envelope, tab, call, wish, spent>> /\ Like(call[t], call[t])
    BY <1>3 DEF OpenSettings, rows, Like
  <2> QED BY <1>1, <2>1, <2>2, Quiet
<1>4. CASE submit(t) \/ recreateTrustedDevice(t)
  <2>1. PICK c : /\ Submit(t, c)
                 /\ [c EXCEPT !.live = TRUE].kind \in {"rotate", "recreate"}
    <3>1. CASE submit(t)
      <4>1. PICK key, pw :
              Submit(t, [NoCall EXCEPT !.kind = "rotate", !.pc = "prompt", !.key = key,
                                       !.pw = pw, !.snap = page[t].snap])
        BY <3>1 DEF submit
      <4> DEFINE c == [NoCall EXCEPT !.kind = "rotate", !.pc = "prompt", !.key = key,
                                     !.pw = pw, !.snap = page[t].snap]
      <4>2. [c EXCEPT !.live = TRUE].kind = "rotate"
        BY DEF NoCall
      <4> QED BY <4>1, <4>2
    <3>2. CASE recreateTrustedDevice(t)
      <4>1. PICK key : Submit(t, [NoCall EXCEPT !.kind = "recreate", !.pc = "prompt",
                                                !.key = key, !.snap = page[t].snap])
        BY <3>2 DEF recreateTrustedDevice
      <4> DEFINE c == [NoCall EXCEPT !.kind = "recreate", !.pc = "prompt",
                                     !.key = key, !.snap = page[t].snap]
      <4>2. [c EXCEPT !.live = TRUE].kind = "recreate"
        BY DEF NoCall
      <4> QED BY <4>1, <4>2
    <3> QED BY <1>4, <3>1, <3>2
  <2>2. Like(call[t], [c EXCEPT !.live = TRUE])
    BY <2>1 DEF Like, Pending
  <2>3. page' = [page EXCEPT ![t] = page'[t]] /\ page'[t].at = page[t].at
    <3>1. page' = [page EXCEPT ![t].busy = TRUE]
      BY <1>4 DEF submit, recreateTrustedDevice
    <3> QED BY <1>1, <3>1 DEF PageRec
  <2>4. /\ UNCHANGED <<account, envelope, tab, wish>> /\ spent'.binds = spent.binds
        /\ call' = [call EXCEPT ![t] = [c EXCEPT !.live = TRUE]]
    BY <1>4, <2>1, Found DEF submit, recreateTrustedDevice, rows, Submit, Spend, RowsOK
  <2> QED BY <2>2, <2>3, <2>4, Quiet
<1>5. CASE RotateReads(t)
  <2>1. PICK c : call' = [call EXCEPT ![t] = c] /\ c.kind = "rotate"
    <3>1. [call[t] EXCEPT !.snap = account, !.prf = call[t].snap.bind, !.pc = "commit",
                          !.mp = IF Enabling(call[t]) THEN spent.mps + 1 ELSE 0].kind = "rotate"
      BY <1>1, <1>5 DEF RotateReads, Ready, CallRec
    <3> QED BY <1>5, <3>1 DEF RotateReads
  <2>2. Like(call[t], c)
    BY <2>1 DEF Like, Pending
  <2>3. UNCHANGED <<account, envelope, tab, page, wish>> /\ spent'.binds = spent.binds
    BY <1>5, Found DEF RotateReads, rows, RowsOK
  <2> QED BY <1>1, <2>1, <2>2, <2>3, Quiet
<1>6. CASE RotationFails(t) \/ enableQuickUnlock(t)
  <2>1. /\ UNCHANGED <<account, envelope, tab, spent>> /\ Ends(t) /\ Tell(t, Idle(t))
        /\ wish'.vault = wish.vault
    BY <1>1, <1>6 DEF RotationFails, enableQuickUnlock, rows
  <2> QED BY <1>2, <2>1, QuietEnd
<1>7. CASE disableTrustedDevice(t)
  <2>1. /\ UNCHANGED <<account, envelope, tab, page, call, spent>>
        /\ wish'.vault = wish.vault /\ Like(call[t], call[t])
    BY <1>1, <1>7 DEF disableTrustedDevice, Like
  <2> QED BY <1>1, <2>1, Quiet
<1> QED BY <1>3, <1>4, <1>5, <1>6, <1>7, CleanRotate DEF SettingsStep

LEMMA CleanRecover ==
  ASSUME TypeInv, Clean, NEW t \in Tabs, RecoverStep(t), exposure' = {}
  PROVE  Clean'
<1>1. CASE RecoveryFailed(t)
  <2>1. [Idle(t) EXCEPT !.stage = "input"].at = page[t].at
    BY Found DEF Idle, PageRec
  <2>2. /\ UNCHANGED <<account, envelope, tab, wish>> /\ Ends(t)
        /\ Tell(t, [Idle(t) EXCEPT !.stage = "input"])
        /\ \/ spent' = spent
           \/ spent' = [spent EXCEPT !.faults = @ + 1]
    BY <1>1 DEF RecoveryFailed, Fault, Spend, rows
  <2>3. spent'.binds = spent.binds
    BY <2>2, Found DEF RowsOK
  <2> QED BY <2>1, <2>2, <2>3, QuietEnd
<1> QED BY <1>1, CleanRewire, CleanRegister, CleanRebind, CleanReseal, CleanWipe, CleanVault
        DEF RecoverStep

LEMMA CleanInit == Init => Clean
<1> SUFFICES ASSUME Init PROVE Clean
  OBVIOUS
<1>1. PICK opq \in BOOLEAN, open \in Tabs :
        /\ account = SealedRow(1, 1, 1, opq)
        /\ wish.vault = 1
        /\ tab = [t \in Tabs |-> IF t # open THEN Locked
                   ELSE [Locked EXCEPT !.kek = KekOf(account), !.data = 1, !.shown = TRUE]]
  BY DEF Init
<1>2. envelope.bind = 1 /\ envelope.key = 1 /\ spent.binds = 1
      /\ account.vault = 1 /\ account.key = 1 /\ account.bind = 1 /\ account.prf = 1
  BY <1>1 DEF Init, Kept, SealedRow
<1>3. ASSUME NEW t \in Tabs PROVE Fresh(t) /\ Rewire(t)
  <2>1. call[t].kind = "none"
    BY DEF Init, NoCall
  <2> QED BY <2>1 DEF Fresh, Rewire, Pending
<1>4. ASSUME NEW t \in Tabs PROVE Shown(t)
  <2>1. tab[t].data \in {0, 1} /\ page[t].at # "vault"
    BY <1>1 DEF Init, Locked, Elsewhere
  <2> QED BY <1>2, <2>1 DEF Shown
<1> QED BY <1>1, <1>2, <1>3, <1>4 DEF Clean, Kit, Known, SealedForTheKit

LEMMA CleanStep == TypeInv /\ CleanInv /\ [Next]_vars => CleanInv'
<1> SUFFICES ASSUME TypeInv, CleanInv, [Next]_vars, exposure' = {} PROVE Clean'
  BY DEF CleanInv
<1>1. Clean
  BY ExposureGrows DEF CleanInv
<1>2. CASE UNCHANGED vars
  BY <1>1, <1>2 DEF vars, Clean, Kit, Known, SealedForTheKit, Fresh, FreshFrom, Rewire, Shown,
                    Pending
<1>3. CASE Next
  BY <1>1, <1>3, CleanVisit, CleanUnlock, CleanRecover, CleanRestore, CleanSettings DEF Next
<1> QED BY <1>2, <1>3

LEMMA CleanInvariant == Spec => []CleanInv
<1>1. Init => CleanInv
  BY CleanInit DEF CleanInv
<1> QED BY <1>1, CleanStep, TypeInvariant, PTL DEF Spec

(* Unless one of the coincidences happened, the rows are of the vault the  *)
(* user made or restored last and open with its Emergency Kit and the      *)
(* passkey the row names.                                                  *)
THEOREM RowsOpenWithTheKit == Spec => []KitOpensVault
<1>1. CleanInv => KitOpensVault
  BY DEF CleanInv, Clean, Kit, KitOpensVault
<1> QED BY <1>1, CleanInvariant, PTL

(* Unless one happened, what a tab shows on /vault is the vault the rows   *)
(* hold, until the news of a wipe reaches it.                              *)
THEOREM TabsShowTheVaultThereIs == Spec => []ShownIsStored
<1>1. CleanInv => ShownIsStored
  BY DEF CleanInv, Clean, Shown, ShownIsStored
<1> QED BY <1>1, CleanInvariant, PTL

-----------------------------------------------------------------------------
(* VaultPage: its invariant. *)

StoreRec == [status : {"unlocked", "locked"}, items : Seq(Item),
             selected : IdOrNone, flag : IdOrNone, filter : {"all", "weak"}]
PaneRec == [last : IdOrNone, revealed : SUBSET RevealKeys,
            timers : SUBSET RevealKeys, asked : IdOrNone]
ListRec == [open : BOOLEAN, active : Int, blur : BOOLEAN]
EditorRec == [open : BOOLEAN, mode : {"create", "edit"}, initial : IdOrNone,
              form : Form, attempted : BOOLEAN, error : BOOLEAN, list : ListRec]
OverRec == [palette : BOOLEAN, quick : BOOLEAN, tab : {"vault", "watch", "gen", "set"},
            sheet : {"none", "types", "login"}, detail : BOOLEAN]
SyncRec == [pc : {"idle", "flush", "pull", "promoted"}, items : Seq(Item)]
LockRec == [page : {"idle", "frame", "flush", "clip"}, peer : {"idle", "flush", "clip"}]
ClipRec == [holds : BOOLEAN, timer : BOOLEAN, copying : Nat]
UsedRec == [ids : SUBSET Ids, count : [Uses -> Nat]]
HealthRec == [value : Report, timer : BOOLEAN, latest : SUBSET Report,
              stale : SUBSET Report]

Distinct(items) == \A i, j \in DOMAIN items : items[i].id = items[j].id => i = j
VaultOf(items, ids) ==
  /\ items \in Seq(Item) /\ Len(items) <= ITEM_HARD_CAP
  /\ Distinct(items) /\ IdsOf(items) \subseteq ids

ScreenInv ==
  /\ mobile \in BOOLEAN /\ mounted \in BOOLEAN
  /\ over \in OverRec /\ health \in HealthRec /\ lock \in LockRec /\ used \in UsedRec
PaneInv ==
  /\ store \in StoreRec /\ detail \in PaneRec
  /\ detail.revealed \subseteq detail.timers
  /\ LockedIsEmpty
ItemsInv ==
  /\ VaultOf(store.items, used.ids)
  /\ sync \in SyncRec /\ VaultOf(sync.items, used.ids)

(* The item an editor was opened on is there, or has gone under it.        *)
DraftInv ==
  /\ editor \in EditorRec
  /\ editor.list.active \in -1 .. instMatches(editor.form) - 1
  /\ editor.open /\ editor.mode = "edit" /\ "edited item gone" \notin past =>
       editor.initial \in IdsOf(store.items)
  /\ SavedDraftIsKept
ClipInv ==
  /\ clip \in ClipRec /\ past \subseteq Excuse
  /\ clip.holds => clip.timer \/ clip.copying > 0 \/ "clear rejected" \in past

PageInv == ScreenInv /\ PaneInv /\ ItemsInv /\ DraftInv /\ ClipInv

-----------------------------------------------------------------------------
(* Vaults and what is done to them. *)

LEMMA NothingInVault ==
  ASSUME PageAssumption, NEW ids  PROVE VaultOf(<<>>, ids) /\ IdsOf(<<>>) = {}
BY DEF VaultOf, Distinct, IdsOf, PageAssumption

LEMMA NoIdsNoItems ==
  ASSUME NEW items \in Seq(Item), IdsOf(items) = {}  PROVE items = <<>>
<1>1. CASE Len(items) = 0
  BY <1>1
<1>2. CASE Len(items) # 0
  <2>1. 1 \in DOMAIN items
    BY <1>2
  <2>. QED  BY <2>1 DEF IdsOf
<1>. QED  BY <1>1, <1>2

LEMMA PlaceIs ==
  ASSUME NEW items, NEW id \in IdsOf(items)
  PROVE  Place(items, id) \in DOMAIN items /\ items[Place(items, id)].id = id
BY DEF IdsOf, Place

LEMMA VaultGrows ==
  ASSUME NEW items, NEW ids, NEW more, VaultOf(items, ids), ids \subseteq more
  PROVE  VaultOf(items, more)
BY DEF VaultOf

(* Taking out an item takes out no other. *)
LEMMA WithoutOne ==
  ASSUME PageAssumption, NEW items, NEW ids, VaultOf(items, ids), NEW id
  PROVE  /\ VaultOf(Without(items, id), ids)
         /\ IdsOf(Without(items, id)) = IdsOf(items) \ {id}
         /\ \A i \in DOMAIN items : items[i].id # id => Keeps(Without(items, id), items[i])
         /\ items = <<>> => Without(items, id) = <<>>
<1>1. CASE id \notin IdsOf(items)
  <2>1. Without(items, id) = items
    BY <1>1 DEF Without
  <2>. QED  BY <1>1, <2>1 DEF Keeps
<1>2. CASE id \in IdsOf(items)
  <2>. DEFINE p == Place(items, id)  r == Without(items, id)
  <2>1. /\ items \in Seq(Item) /\ p \in 1 .. Len(items) /\ items[p].id = id
        /\ Len(items) \in Nat
    BY <1>2, PlaceIs DEF VaultOf
  <2>2. r = SubSeq(items, 1, p - 1) \o SubSeq(items, p + 1, Len(items))
    BY <1>2 DEF Without, RemoveAt
  <2>. DEFINE a == SubSeq(items, 1, p - 1)  b == SubSeq(items, p + 1, Len(items))
  <2>. HIDE DEF p, r
  <2>3. /\ r \in Seq(Item) /\ Len(r) = Len(items) - 1
        /\ \A i \in 1 .. Len(r) : r[i] = IF i < p THEN items[i] ELSE items[i + 1]
    <3>1. /\ a \in Seq(Item) /\ Len(a) = p - 1
          /\ \A i \in 1 .. p - 1 : a[i] = items[i]
      <4>1. \A i \in 1 .. p - 1 : items[i] \in Item
        BY <2>1
      <4>2. 1 \in Int /\ p - 1 \in Int
        BY <2>1
      <4>3. /\ a \in Seq(Item) /\ Len(a) = (IF 1 <= p - 1 THEN p - 1 - 1 + 1 ELSE 0)
            /\ \A i \in 1 .. p - 1 - 1 + 1 : a[i] = items[1 + i - 1]
        BY <4>1, <4>2, SubSeqProperties
      <4>. QED  BY <2>1, <4>3
    <3>2. /\ b \in Seq(Item) /\ Len(b) = Len(items) - p
          /\ \A i \in 1 .. Len(items) - p : b[i] = items[p + i]
      <4>1. \A i \in p + 1 .. Len(items) : items[i] \in Item
        BY <2>1
      <4>2. p + 1 \in Int /\ Len(items) \in Int
        BY <2>1
      <4>3. /\ b \in Seq(Item)
            /\ Len(b) = (IF p + 1 <= Len(items) THEN Len(items) - (p + 1) + 1 ELSE 0)
            /\ \A i \in 1 .. Len(items) - (p + 1) + 1 : b[i] = items[p + 1 + i - 1]
        BY <4>1, <4>2, SubSeqProperties
      <4>. QED  BY <2>1, <4>3
    <3>. HIDE DEF a, b
    <3>3. r = a \o b
      BY <2>2 DEF a, b
    <3>4. /\ r \in Seq(Item) /\ Len(r) = Len(a) + Len(b)
          /\ \A i \in 1 .. Len(a) + Len(b) :
               r[i] = IF i <= Len(a) THEN a[i] ELSE b[i - Len(a)]
      <4>1. a \in Seq(Item) /\ b \in Seq(Item)
        BY <3>1, <3>2
      <4>2. /\ a \o b \in Seq(Item) /\ Len(a \o b) = Len(a) + Len(b)
            /\ \A i \in 1 .. Len(a) + Len(b) :
                 (a \o b)[i] = IF i <= Len(a) THEN a[i] ELSE b[i - Len(a)]
        BY <4>1, ConcatProperties
      <4>. QED  BY <4>2, <3>3
    <3>. QED  BY <2>1, <3>1, <3>2, <3>4
  <2>. HIDE DEF a, b
  <2>4. DOMAIN r = 1 .. Len(r) /\ DOMAIN items = 1 .. Len(items)
    BY <2>1, <2>3
  <2>5. \A i \in DOMAIN items : i # p => \E j \in DOMAIN r : r[j] = items[i]
    <3>. SUFFICES ASSUME NEW i \in DOMAIN items, i # p
                  PROVE  \E j \in DOMAIN r : r[j] = items[i]
      OBVIOUS
    <3>1. CASE i < p
      <4>1. i \in DOMAIN r /\ r[i] = items[i]
        BY <2>1, <2>3, <2>4, <3>1
      <4>. QED  BY <4>1
    <3>2. CASE i > p
      <4>1. i - 1 \in DOMAIN r /\ r[i - 1] = items[i]
        BY <2>1, <2>3, <2>4, <3>2
      <4>. QED  BY <4>1
    <3>. QED  BY <2>1, <2>4, <3>1, <3>2
  <2>. DEFINE from(i) == IF i < p THEN i ELSE i + 1
  <2>6. \A i \in DOMAIN r : from(i) \in DOMAIN items /\ from(i) # p /\ r[i] = items[from(i)]
    BY <2>1, <2>3, <2>4
  <2>7. Distinct(items)
    BY DEF VaultOf
  <2>8. Distinct(r)
    <3>. SUFFICES ASSUME NEW i \in DOMAIN r, NEW j \in DOMAIN r, r[i].id = r[j].id
                  PROVE  i = j
      BY DEF Distinct
    <3>1. from(i) = from(j)
      BY <2>6, <2>7 DEF Distinct
    <3>. QED  BY <3>1, <2>1, <2>4, <2>3
  <2>. HIDE DEF from
  <2>9. IdsOf(r) = IdsOf(items) \ {id}
    <3>1. ASSUME NEW x \in IdsOf(r)  PROVE x \in IdsOf(items) /\ x # id
      <4>1. PICK i \in DOMAIN r : x = r[i].id
        BY <3>1 DEF IdsOf
      <4>2. from(i) \in DOMAIN items /\ from(i) # p /\ x = items[from(i)].id
        BY <4>1, <2>6
      <4>. QED  BY <4>2, <2>1, <2>4, <2>7 DEF IdsOf, Distinct
    <3>2. ASSUME NEW x \in IdsOf(items), x # id  PROVE x \in IdsOf(r)
      <4>1. PICK i \in DOMAIN items : x = items[i].id
        BY <3>2 DEF IdsOf
      <4>2. i # p
        BY <4>1, <3>2, <2>1
      <4>. QED  BY <4>1, <4>2, <2>5 DEF IdsOf
    <3>. QED  BY <3>1, <3>2
  <2>10. \A i \in DOMAIN items : items[i].id # id => Keeps(r, items[i])
    BY <2>1, <2>5 DEF Keeps
  <2>11. VaultOf(r, ids) /\ items # <<>>
    <3>1. Len(r) <= ITEM_HARD_CAP
      BY <2>1, <2>3 DEF VaultOf, PageAssumption
    <3>. QED  BY <2>1, <2>3, <2>8, <2>9, <3>1 DEF VaultOf
  <2>. QED  BY <2>9, <2>10, <2>11 DEF r
<1>. QED  BY <1>1, <1>2

LEMMA OneMore ==
  ASSUME PageAssumption, NEW items, NEW ids, VaultOf(items, ids), NEW item \in Item,
         item.id \notin ids, Len(items) < ITEM_HARD_CAP
  PROVE  /\ VaultOf(<<item>> \o items, ids \cup {item.id})
         /\ IdsOf(<<item>> \o items) = IdsOf(items) \cup {item.id}
         /\ \A i \in DOMAIN items : Keeps(<<item>> \o items, items[i])
         /\ 1 \in DOMAIN (<<item>> \o items) /\ (<<item>> \o items)[1] = item
<1>. DEFINE r == <<item>> \o items
<1>1. items \in Seq(Item) /\ Len(items) \in Nat /\ DOMAIN items = 1 .. Len(items)
  BY DEF VaultOf
<1>2. /\ r \in Seq(Item) /\ Len(r) = Len(items) + 1 /\ DOMAIN r = 1 .. Len(items) + 1
      /\ r[1] = item /\ \A i \in DOMAIN items : r[i + 1] = items[i]
  BY <1>1
<1>. HIDE DEF r
<1>3. \A i \in DOMAIN items : i + 1 \in DOMAIN r
  BY <1>1, <1>2
<1>4. \A j \in DOMAIN r : j = 1 \/ (j - 1 \in DOMAIN items /\ r[j] = items[j - 1])
  BY <1>1, <1>2
<1>5. \A i \in DOMAIN items : items[i].id \in ids
  BY DEF VaultOf, IdsOf
<1>6. Distinct(r)
  <2>. SUFFICES ASSUME NEW i \in DOMAIN r, NEW j \in DOMAIN r, r[i].id = r[j].id
                PROVE  i = j
    BY DEF Distinct
  <2>1. Distinct(items)
    BY DEF VaultOf
  <2>2. CASE i = 1 \/ j = 1
    BY <2>2, <1>2, <1>4, <1>5
  <2>3. CASE i # 1 /\ j # 1
    <3>1. /\ i - 1 \in DOMAIN items /\ j - 1 \in DOMAIN items
          /\ items[i - 1].id = items[j - 1].id
      BY <2>3, <1>4
    <3>2. i - 1 = j - 1
      BY <2>1, <3>1 DEF Distinct
    <3>. QED  BY <3>2, <1>2, <1>1
  <2>. QED  BY <2>2, <2>3
<1>7. IdsOf(r) = IdsOf(items) \cup {item.id}
  <2>1. ASSUME NEW x \in IdsOf(r)  PROVE x \in IdsOf(items) \cup {item.id}
    BY <2>1, <1>2, <1>4 DEF IdsOf
  <2>2. item.id \in IdsOf(r)
    BY <1>1, <1>2 DEF IdsOf
  <2>3. ASSUME NEW x \in IdsOf(items)  PROVE x \in IdsOf(r)
    BY <2>3, <1>2, <1>3 DEF IdsOf
  <2>. QED  BY <2>1, <2>2, <2>3
<1>8. \A i \in DOMAIN items : Keeps(r, items[i])
  BY <1>2, <1>3 DEF Keeps
<1>9. IdsOf(items) \subseteq ids
  BY DEF VaultOf
<1>10. Len(r) <= ITEM_HARD_CAP
  BY <1>1, <1>2 DEF PageAssumption
<1>11. VaultOf(r, ids \cup {item.id})
  BY <1>2, <1>6, <1>7, <1>9, <1>10 DEF VaultOf
<1>12. 1 \in DOMAIN r /\ r[1] = item
  BY <1>1, <1>2
<1>. QED  BY <1>7, <1>8, <1>11, <1>12 DEF r

(* A vault whose items are rewritten in their places. *)
LEMMA Rewritten ==
  ASSUME NEW items, NEW ids, VaultOf(items, ids), NEW r,
         r = [i \in DOMAIN items |-> r[i]],
         \A i \in DOMAIN items : r[i] \in Item /\ r[i].id = items[i].id
  PROVE  VaultOf(r, ids) /\ IdsOf(r) = IdsOf(items)
<1>1. items \in Seq(Item) /\ Len(items) \in Nat /\ DOMAIN items = 1 .. Len(items)
  BY DEF VaultOf
<1>2. r \in [1 .. Len(items) -> Item]
  BY <1>1
<1>3. r \in Seq(Item) /\ Len(r) = Len(items) /\ DOMAIN r = DOMAIN items
  BY <1>1, <1>2
<1>4. IdsOf(r) = IdsOf(items)
  BY <1>3 DEF IdsOf
<1>5. Distinct(r)
  <2>1. Distinct(items)
    BY DEF VaultOf
  <2>. QED  BY <1>3, <2>1 DEF Distinct
<1>. QED  BY <1>1, <1>3, <1>4, <1>5 DEF VaultOf
-----------------------------------------------------------------------------
(* What a step leaves alone. *)

LEMMA ScreenStays ==
  ASSUME ScreenInv, UNCHANGED <<mobile, mounted, over, health, lock, used>>
  PROVE  ScreenInv'
BY DEF ScreenInv

LEMMA PaneStays ==
  ASSUME PaneInv, UNCHANGED <<store, detail>>, past \subseteq past'
  PROVE  PaneInv'
BY DEF PaneInv, LockedIsEmpty

LEMMA ItemsStay ==
  ASSUME ItemsInv, store'.items = store.items, UNCHANGED sync, used.ids \subseteq used'.ids
  PROVE  ItemsInv'
BY VaultGrows DEF ItemsInv

LEMMA DraftStays ==
  ASSUME DraftInv, UNCHANGED <<editor, past>>, store'.items = store.items
  PROVE  DraftInv'
<1>1. instMatches(editor.form)' = instMatches(editor.form)
  BY DEF instMatches
<1>2. IdsOf(store.items)' = IdsOf(store.items)
  BY DEF IdsOf
<1>. QED  BY <1>1, <1>2 DEF DraftInv, SavedDraftIsKept

LEMMA ClipStays ==
  ASSUME ClipInv, UNCHANGED clip, past \subseteq past', past' \subseteq Excuse
  PROVE  ClipInv'
BY DEF ClipInv

(* A bounded happening is counted. *)
LEMMA UseIs ==
  ASSUME ScreenInv, NEW u, Use(u)
  PROVE  used' \in UsedRec /\ used'.ids = used.ids
<1>1. used \in UsedRec /\ u \in Uses /\ used' = [used EXCEPT !.count[u] = @ + 1]
  BY DEF ScreenInv, Use, Counted
<1>. QED  BY <1>1 DEF UsedRec

LEMMA SecretsHaveKeys ==
  ASSUME NEW kind
  PROVE  /\ primarySecretField(kind) \in RevealKeys
         /\ RowsOf(kind).reveal \subseteq RevealKeys
<1>1. \A k \in Kinds : RowsOf(k).reveal \subseteq RevealKeys
  BY DEF RevealKeys
<1>2. kind \notin Kinds => RowsOf(kind).reveal = {}
  BY DEF RowsOf, Kinds, ItemRow
<1>3. /\ "cardNumber" \in RowsOf("card").reveal
      /\ "noteBody" \in RowsOf("note").reveal
      /\ "sshKeyBody" \in RowsOf("ssh").reveal
      /\ "seedPhrase" \in RowsOf("crypto-seed").reveal
  BY DEF RowsOf, CardRows, NoteRows, SshRows, SeedRows, ItemRow
<1>4. {"card", "note", "ssh", "crypto-seed"} \subseteq Kinds /\ "password" \in RevealKeys
  BY DEF Kinds, RevealKeys
<1>. QED  BY <1>1, <1>2, <1>3, <1>4 DEF primarySecretField

(* The item a pane shows for a store. *)
ItemShown(s) == IF s.selected \in IdsOf(s.items) THEN s.selected ELSE NoId

LEMMA ShowIs ==
  ASSUME PageAssumption, NEW s \in StoreRec, NEW d \in PaneRec, NEW shown \in BOOLEAN,
         d.revealed \subseteq d.timers, Show(d, s, shown)
  PROVE  /\ store' \in StoreRec /\ detail' \in PaneRec
         /\ store'.items = s.items /\ store'.status = s.status
         /\ detail'.revealed \subseteq detail'.timers
         /\ s.items = <<>> /\ (d.revealed = {} \/ s.status # store.status) =>
              detail'.revealed = {}
<1>. DEFINE item == ItemShown(s)
            key == primarySecretField(ItemWith(s.items, item).kind)
<1>1. store' = s \/ store' = [s EXCEPT !.flag = NoId]
  BY DEF Show
<1>2. store' \in StoreRec /\ store'.items = s.items /\ store'.status = s.status
  BY <1>1 DEF StoreRec, IdOrNone
<1>3. key \in RevealKeys /\ item \in IdOrNone
  BY SecretsHaveKeys DEF StoreRec, IdOrNone, ItemShown
<1>4. NoDetail \in PaneRec /\ NoDetail.revealed = {}
  BY DEF NoDetail, PaneRec, IdOrNone
<1>5. \/ detail' = NoDetail
      \/ detail' = [d EXCEPT !.last = item, !.revealed = {}, !.timers = {}]
      \/ detail' = [d EXCEPT !.revealed = {}, !.timers = {}]
      \/ s.status = store.status /\ item # NoId
           /\ detail' = [d EXCEPT !.revealed = @ \cup {key}, !.timers = @ \cup {key}]
      \/ s.status = store.status /\ detail' = d
  BY DEF Show, Effects, ItemShown
<1>6. s.items = <<>> => item = NoId
  BY NothingInVault DEF ItemShown
<1>. HIDE DEF item, key
<1>7. CASE detail' = NoDetail
  BY <1>2, <1>4, <1>7
<1>8. CASE detail' = [d EXCEPT !.last = item, !.revealed = {}, !.timers = {}]
  BY <1>2, <1>3, <1>8 DEF PaneRec
<1>9. CASE detail' = [d EXCEPT !.revealed = {}, !.timers = {}]
  BY <1>2, <1>9 DEF PaneRec
<1>10. CASE s.status = store.status /\ item # NoId
              /\ detail' = [d EXCEPT !.revealed = @ \cup {key}, !.timers = @ \cup {key}]
  BY <1>2, <1>3, <1>6, <1>10 DEF PaneRec
<1>11. CASE s.status = store.status /\ detail' = d
  BY <1>2, <1>11
<1>. QED  BY <1>5, <1>7, <1>8, <1>9, <1>10, <1>11

(* A step that shows the same items in the pane.                           *)
LEMMA PaneTurns ==
  ASSUME PageAssumption, PaneInv, NEW s \in StoreRec, NEW d \in PaneRec,
         NEW shown \in BOOLEAN, Show(d, s, shown),
         s.items = store.items, s.status = store.status, d.revealed \subseteq d.timers,
         store.items = <<>> => d.revealed \subseteq detail.revealed, past \subseteq past'
  PROVE  PaneInv' /\ store'.items = store.items
<1>1. /\ store' \in StoreRec /\ detail' \in PaneRec
      /\ store'.items = store.items /\ store'.status = store.status
      /\ detail'.revealed \subseteq detail'.timers
      /\ store.items = <<>> /\ d.revealed = {} => detail'.revealed = {}
  BY ShowIs
<1>. QED  BY <1>1 DEF PaneInv, LockedIsEmpty
-----------------------------------------------------------------------------
(* Steps that touch neither items, pane, editor, sync nor clipboard. *)

LEMMA HealthIsReport ==
  ASSUME NEW items \in Seq(Item)
  PROVE  computeVaultHealth(items) \in Report
<1>1. \A i \in DOMAIN items : items[i].id \in Ids
  <2>1. \A i \in DOMAIN items : items[i] \in Item
    OBVIOUS
  <2>. QED  BY <2>1 DEF Item
<1>. DEFINE in == Passwords(items)
<1>2. in \subseteq DOMAIN items
  BY DEF Passwords
<1>. HIDE DEF in
<1>3. {i \in in : estimatePasswordStrength(items[i].body).weak} \subseteq DOMAIN items
  BY <1>2
<1>4. {i \in in : \E k \in in \ {i} : items[k].body = items[i].body} \subseteq DOMAIN items
  BY <1>2
<1>. QED  BY <1>1, <1>3, <1>4 DEF computeVaultHealth, Report, in

LEMMA RecomputeIs ==
  ASSUME health \in HealthRec, NEW items \in Seq(Item)
  PROVE  runHealthRecompute(items) \in HealthRec
BY HealthIsReport DEF runHealthRecompute, HealthRec

LEMMA HealthSchedules ==
  ASSUME health \in HealthRec
  PROVE  scheduleHealthRecompute \in HealthRec /\ forgetHealth \in HealthRec
<1>1. NoHealth \in Report
  BY DEF NoHealth, Report
<1>. QED  BY <1>1 DEF scheduleHealthRecompute, forgetHealth, HealthRec

AsideStep ==
  \/ HealthTimer \/ HealthDone \/ StaleHealthDone
  \/ OpenPalette \/ ClosePalette \/ toggleQuickGenerator \/ CloseQuick
  \/ LockPage \/ Frame \/ AutoLock \/ PeerLock \/ PeerLocked \/ Sheet

LEMMA AsideIs ==
  ASSUME PageInv, AsideStep
  PROVE  /\ UNCHANGED <<store, detail, editor, sync, clip, past, mobile, mounted>>
         /\ over' \in OverRec /\ health' \in HealthRec /\ lock' \in LockRec
         /\ used' \in UsedRec /\ used'.ids = used.ids
<1>. USE DEF PageInv, ScreenInv
<1>1. store.items \in Seq(Item)
  BY DEF ItemsInv, VaultOf
<1>2. CASE HealthTimer
  BY <1>1, <1>2, RecomputeIs DEF HealthTimer
<1>3. CASE HealthDone
  BY <1>3 DEF HealthDone, HealthRec
<1>4. CASE StaleHealthDone
  BY <1>4 DEF StaleHealthDone, HealthRec
<1>5. CASE OpenPalette
  BY <1>5, UseIs DEF OpenPalette, OverRec
<1>6. CASE ClosePalette
  BY <1>6 DEF ClosePalette, OverRec
<1>7. CASE toggleQuickGenerator
  BY <1>7, UseIs DEF toggleQuickGenerator, OverRec
<1>8. CASE CloseQuick
  BY <1>8 DEF CloseQuick, OverRec
<1>9. CASE LockPage
  BY <1>9 DEF LockPage, LockRec
<1>10. CASE Frame
  BY <1>10 DEF Frame, LockRec
<1>11. CASE AutoLock
  BY <1>11 DEF AutoLock, LockRec
<1>12. CASE PeerLock
  BY <1>12, UseIs DEF PeerLock, LockRec
<1>13. CASE PeerLocked
  BY <1>13 DEF PeerLocked, LockRec
<1>14. CASE Sheet
  BY <1>14 DEF Sheet, OverRec
<1>. QED  BY <1>2, <1>3, <1>4, <1>5, <1>6, <1>7, <1>8, <1>9, <1>10, <1>11, <1>12, <1>13,
             <1>14 DEF AsideStep

LEMMA AsideHolds == ASSUME PageInv, AsideStep  PROVE PageInv'
<1>1. ScreenInv'
  BY AsideIs DEF PageInv, ScreenInv
<1>2. PaneInv'
  BY AsideIs, PaneStays DEF PageInv
<1>3. ItemsInv'
  BY AsideIs, ItemsStay DEF PageInv
<1>4. DraftInv'
  BY AsideIs, DraftStays DEF PageInv
<1>5. ClipInv'
  BY AsideIs, ClipStays DEF PageInv, ClipInv
<1>. QED  BY <1>1, <1>2, <1>3, <1>4, <1>5 DEF PageInv

-----------------------------------------------------------------------------
(* The clipboard. *)

LEMMA CopyIs ==
  ASSUME ClipInv, NEW refused \in BOOLEAN, copySecretToClipboard(refused), UNCHANGED past
  PROVE  ClipInv'
<1>1. CASE refused
  BY <1>1 DEF copySecretToClipboard, ClipInv
<1>2. CASE ~refused
  <2>1. clip' = [clip EXCEPT !.holds = TRUE, !.copying = @ + 1]
    BY <1>2 DEF copySecretToClipboard
  <2>2. clip.copying \in Nat /\ clip.timer \in BOOLEAN
        /\ clip' = [holds |-> TRUE, timer |-> clip.timer, copying |-> clip.copying + 1]
    BY <2>1 DEF ClipInv, ClipRec
  <2>3. clip' \in ClipRec /\ clip'.copying > 0
    BY <2>2 DEF ClipRec
  <2>. QED  BY <2>3 DEF ClipInv
<1>. QED  BY <1>1, <1>2

LEMMA ClearIs ==
  ASSUME ClipInv, NEW refused \in BOOLEAN, clearClipboard(refused),
         past \cup Refusal(refused) \subseteq past', past' \subseteq Excuse
  PROVE  ClipInv'
<1>1. clip' = [clip EXCEPT !.timer = FALSE, !.holds = @ /\ refused]
  BY DEF clearClipboard
<1>2. clip' \in ClipRec /\ clip'.holds = (clip.holds /\ refused)
  BY <1>1 DEF ClipInv, ClipRec
<1>3. clip'.holds => "clear rejected" \in past'
  BY <1>2 DEF Refusal
<1>. QED  BY <1>2, <1>3 DEF ClipInv

ClipStep == Copied \/ ClipboardTimer \/ Copy \/ PaletteCopy

LEMMA ClipHolds == ASSUME PageInv, ClipStep  PROVE PageInv'
<1>. USE DEF PageInv
<1>1. /\ UNCHANGED <<store, detail, editor, sync, mobile, mounted, health, lock>>
      /\ past' \in {past, past \cup {"clear rejected"}}
      /\ over' \in OverRec /\ used' \in UsedRec /\ used'.ids = used.ids
  <2>1. CASE Copied
    BY <2>1 DEF Copied, ScreenInv
  <2>2. CASE ClipboardTimer
    BY <2>2 DEF ClipboardTimer, ScreenInv, Refusal
  <2>3. CASE Copy
    BY <2>3, UseIs DEF Copy, ScreenInv
  <2>4. CASE PaletteCopy
    BY <2>4, UseIs DEF PaletteCopy, ScreenInv, OverRec
  <2>. QED  BY <2>1, <2>2, <2>3, <2>4 DEF ClipStep
<1>2. past \subseteq past' /\ past' \subseteq Excuse
  BY <1>1 DEF ClipInv, Excuse
<1>3. ScreenInv'
  BY <1>1 DEF ScreenInv
<1>4. PaneInv'
  BY <1>1, <1>2, PaneStays
<1>5. ItemsInv'
  BY <1>1, ItemsStay
<1>6. DraftInv'
  <2>1. instMatches(editor.form)' = instMatches(editor.form)
    BY <1>1 DEF instMatches
  <2>2. IdsOf(store.items)' = IdsOf(store.items)
    BY <1>1 DEF IdsOf
  <2>3. "lost" \in past' <=> "lost" \in past
    BY <1>1
  <2>4. "edited item gone" \in past' <=> "edited item gone" \in past
    BY <1>1
  <2>. QED  BY <1>1, <2>1, <2>2, <2>3, <2>4 DEF DraftInv, SavedDraftIsKept
<1>7. ClipInv'
  <2>1. CASE Copied
    <3>1. clip.copying > 0 /\ clip' = [clip EXCEPT !.copying = @ - 1, !.timer = TRUE]
      BY <2>1 DEF Copied
    <3>2. clip.copying \in Nat /\ clip.holds \in BOOLEAN
          /\ clip' = [holds |-> clip.holds, timer |-> TRUE, copying |-> clip.copying - 1]
      BY <3>1 DEF ClipInv, ClipRec
    <3>3. clip.copying - 1 \in Nat
      BY <3>1, <3>2
    <3>4. clip' \in ClipRec /\ clip'.timer
      BY <3>2, <3>3 DEF ClipRec
    <3>. QED  BY <1>2, <3>4 DEF ClipInv
  <2>2. CASE ClipboardTimer
    BY <1>2, <2>2, ClearIs DEF ClipboardTimer
  <2>3. CASE Copy \/ PaletteCopy
    BY <2>3, CopyIs DEF Copy, PaletteCopy
  <2>. QED  BY <2>1, <2>2, <2>3 DEF ClipStep
<1>. QED  BY <1>3, <1>4, <1>5, <1>6, <1>7
-----------------------------------------------------------------------------
(* The pane and what is selected. *)

PaneStep ==
  \/ ChooseCategory \/ \E id \in Ids : SelectFromList(id)
  \/ \E key \in RevealKeys : Toggle(key) \/ HideTimer(key)
  \/ requestDelete \/ cancelDelete
  \/ \E id \in Ids : PaletteItem(id)
  \/ PaletteReveal \/ PaletteTimer
  \/ \E next \in MobileTabBar : go(next)
  \/ \E id \in Ids : openItem(id)
  \/ Back \/ Resize

LEMMA SelectedIs ==
  ASSUME PaneInv
  PROVE  /\ Selected \in IdOrNone
         /\ Selected # NoId => Selected \in IdsOf(store.items)
         /\ store.items = <<>> => Selected = NoId
BY DEF PaneInv, StoreRec, IdOrNone, Selected, IdsOf

LEMMA SelectIs ==
  ASSUME store \in StoreRec, NEW id \in Ids
  PROVE  /\ select(id) \in StoreRec
         /\ select(id).items = store.items /\ select(id).status = store.status
BY DEF select, StoreRec, IdOrNone

LEMMA FlagIs ==
  ASSUME store \in StoreRec, NEW flag \in IdOrNone, NEW s, s = [store EXCEPT !.flag = flag]
  PROVE  s \in StoreRec /\ s.items = store.items /\ s.status = store.status
BY DEF StoreRec

(* A pane that is replaced, over the same items. *)
LEMMA PaneSet ==
  ASSUME PaneInv, UNCHANGED past, store' \in StoreRec, store'.items = store.items,
         store'.status = store.status, detail' \in PaneRec,
         detail'.revealed \subseteq detail'.timers, detail'.revealed \subseteq detail.revealed
  PROVE  PaneInv'
BY DEF PaneInv, LockedIsEmpty

LEMMA SelectHolds ==
  ASSUME PageAssumption, PageInv, NEW id \in Ids,
         SelectFromList(id) \/ PaletteItem(id) \/ openItem(id)
  PROVE  PaneInv' /\ store'.items = store.items /\ over' \in OverRec
<1>1. /\ store \in StoreRec /\ detail \in PaneRec /\ detail.revealed \subseteq detail.timers
      /\ PaneInv /\ UNCHANGED past /\ DetailShown \in BOOLEAN
  BY DEF PageInv, PaneInv, ScreenInv, OverRec, DetailShown, SelectFromList, PaletteItem, openItem
<1>2. Show(detail, select(id), TRUE) \/ Show(detail, select(id), DetailShown)
  BY DEF SelectFromList, PaletteItem, openItem
<1>3. PaneInv' /\ store'.items = store.items
  BY <1>1, <1>2, SelectIs, PaneTurns
<1>4. over' \in OverRec
  BY DEF PageInv, ScreenInv, OverRec, SelectFromList, PaletteItem, openItem
<1>. QED  BY <1>3, <1>4

LEMMA ToggleHolds ==
  ASSUME PageAssumption, PageInv, NEW key \in RevealKeys, Toggle(key) \/ HideTimer(key)
  PROVE  PaneInv' /\ store'.items = store.items
<1>1. /\ store \in StoreRec /\ detail \in PaneRec /\ detail.revealed \subseteq detail.timers
      /\ PaneInv /\ NoId \in IdOrNone
  BY DEF PageInv, PaneInv, IdOrNone
<1>. DEFINE plain == [store EXCEPT !.flag = NoId]
<1>2. \A s \in {store, plain} :
        s \in StoreRec /\ s.items = store.items /\ s.status = store.status
  BY <1>1, FlagIs
<1>3. CASE Toggle(key)
  <2>. DEFINE hidden == key \in detail.revealed
              shows == [detail EXCEPT !.revealed = @ \cup {key}, !.timers = @ \cup {key}]
              hides == [detail EXCEPT !.revealed = @ \ {key}, !.timers = @ \ {key}]
  <2>1. /\ shows \in PaneRec /\ shows.revealed \subseteq shows.timers
        /\ hides \in PaneRec /\ hides.revealed \subseteq hides.timers
        /\ hides.revealed \subseteq detail.revealed
    BY <1>1 DEF PaneRec
  <2>2. store.items # <<>>
    <3>1. DetailControls # {}
      BY <1>3 DEF Toggle
    <3>. QED  BY <1>1, <3>1, SelectedIs DEF DetailControls
  <2>3. UNCHANGED past
    BY <1>3 DEF Toggle
  <2>4. \E d \in {shows, hides}, s \in {store, plain} : Show(d, s, TRUE)
    BY <1>3 DEF Toggle
  <2>. HIDE DEF shows, hides, plain
  <2>5. PICK d \in {shows, hides}, s \in {store, plain} : Show(d, s, TRUE)
    BY <2>4
  <2>6. /\ d \in PaneRec /\ d.revealed \subseteq d.timers
        /\ s \in StoreRec /\ s.items = store.items /\ s.status = store.status
    BY <1>2, <2>1
  <2>. QED  BY <1>1, <2>2, <2>3, <2>5, <2>6, PaneTurns
<1>4. CASE HideTimer(key)
  <2>. DEFINE hides == [detail EXCEPT !.revealed = @ \ {key}, !.timers = @ \ {key}]
  <2>1. /\ hides \in PaneRec /\ hides.revealed \subseteq hides.timers
        /\ hides.revealed \subseteq detail.revealed
    BY <1>1 DEF PaneRec
  <2>2. UNCHANGED past /\ \E s \in {store, plain} : Show(hides, s, TRUE)
    BY <1>4 DEF HideTimer
  <2>. HIDE DEF hides, plain
  <2>3. PICK s \in {store, plain} : Show(hides, s, TRUE)
    BY <2>2
  <2>. QED  BY <1>1, <1>2, <2>1, <2>2, <2>3, PaneTurns
<1>. QED  BY <1>3, <1>4

LEMMA PaletteHolds ==
  ASSUME PageAssumption, PageInv, PaletteReveal \/ PaletteTimer
  PROVE  PaneInv' /\ store'.items = store.items /\ over' \in OverRec
<1>1. /\ store \in StoreRec /\ detail \in PaneRec /\ detail.revealed \subseteq detail.timers
      /\ PaneInv /\ UNCHANGED past /\ DetailShown \in BOOLEAN /\ mounted \in BOOLEAN
  BY DEF PageInv, PaneInv, ScreenInv, OverRec, DetailShown, PaletteReveal, PaletteTimer
<1>2. PICK flag \in IdOrNone, shown \in BOOLEAN :
        Show(detail, [store EXCEPT !.flag = flag], shown)
  <2>1. Selected \in IdOrNone /\ NoId \in IdOrNone
    BY <1>1, SelectedIs DEF IdOrNone
  <2>. QED  BY <1>1, <2>1 DEF PaletteReveal, PaletteTimer
<1>. DEFINE s == [store EXCEPT !.flag = flag]
<1>3. s \in StoreRec /\ s.items = store.items /\ s.status = store.status
  BY <1>1, FlagIs
<1>. HIDE DEF s
<1>4. Show(detail, s, shown)
  BY <1>2 DEF s
<1>5. PaneInv' /\ store'.items = store.items
  BY <1>1, <1>3, <1>4, PaneTurns
<1>6. over' \in OverRec
  BY DEF PageInv, ScreenInv, OverRec, PaletteReveal, PaletteTimer
<1>. QED  BY <1>5, <1>6

LEMMA PaneHolds ==
  ASSUME PageAssumption, PageInv, PaneStep
  PROVE  PageInv' /\ store'.items = store.items
<1>. USE DEF PageInv
<1>1. /\ UNCHANGED <<editor, sync, clip, past, mounted, health, lock>>
      /\ mobile' \in BOOLEAN /\ over' \in OverRec /\ used' \in UsedRec /\ used'.ids = used.ids
      /\ PaneInv' /\ store'.items = store.items
  <2>1. ASSUME NEW id \in Ids, SelectFromList(id) \/ PaletteItem(id) \/ openItem(id)
        PROVE  <1>1!:
    BY <2>1, SelectHolds DEF SelectFromList, PaletteItem, openItem, ScreenInv
  <2>2. ASSUME NEW key \in RevealKeys, Toggle(key) \/ HideTimer(key)
        PROVE  <1>1!:
    BY <2>2, ToggleHolds DEF Toggle, HideTimer, ScreenInv
  <2>3. CASE PaletteReveal \/ PaletteTimer
    BY <2>3, PaletteHolds DEF PaletteReveal, PaletteTimer, ScreenInv
  <2>4. /\ store \in StoreRec /\ detail \in PaneRec /\ Selected \in IdOrNone
        /\ NoId \in IdOrNone /\ detail.revealed \subseteq detail.timers
    BY SelectedIs DEF PaneInv, IdOrNone
  <2>5. NoDetail \in PaneRec /\ NoDetail.revealed = {}
    BY <2>4 DEF NoDetail, PaneRec
  <2>6. CASE ChooseCategory
    <3>1. store' \in StoreRec /\ store'.items = store.items /\ store'.status = store.status
      BY <2>4, <2>6 DEF ChooseCategory, StoreRec, SidebarControls
    <3>. QED  BY <2>4, <2>6, <3>1, PaneSet DEF ChooseCategory, ScreenInv
  <2>7. CASE requestDelete \/ cancelDelete
    <3>1. /\ detail' \in PaneRec /\ detail'.revealed = detail.revealed
          /\ detail'.timers = detail.timers /\ store' = store
      BY <2>4, <2>7 DEF requestDelete, cancelDelete, PaneRec
    <3>. QED  BY <2>4, <2>7, <3>1, PaneSet, UseIs DEF requestDelete, cancelDelete, ScreenInv
  <2>8. ASSUME NEW next \in MobileTabBar, go(next)
        PROVE  <1>1!:
    <3>1. store' \in StoreRec /\ store'.items = store.items /\ store'.status = store.status
      BY <2>4, <2>8 DEF go, StoreRec
    <3>2. over' \in OverRec
      BY <2>8 DEF go, ScreenInv, OverRec, MobileTabBar
    <3>. QED  BY <2>4, <2>8, <3>1, <3>2, PaneSet DEF go, ScreenInv
  <2>9. CASE Back
    <3>1. over' \in OverRec
      BY <2>9 DEF Back, ScreenInv, OverRec
    <3>. QED  BY <2>4, <2>5, <2>9, <3>1, PaneSet DEF Back, ScreenInv
  <2>10. CASE Resize
    <3>1. store' \in StoreRec /\ store'.items = store.items /\ store'.status = store.status
      BY <2>4, <2>10, FlagIs DEF Resize
    <3>2. detail' \in PaneRec /\ detail'.revealed = {}
      BY <2>4, <2>5, <2>10 DEF Resize, PaneRec, NoDetail
    <3>3. over' \in OverRec
      BY <2>10 DEF Resize, ScreenInv, OverRec
    <3>. QED  BY <2>4, <2>10, <3>1, <3>2, <3>3, PaneSet, UseIs DEF Resize, ScreenInv
  <2>. QED  BY <2>1, <2>2, <2>3, <2>6, <2>7, <2>8, <2>9, <2>10 DEF PaneStep
<1>2. ScreenInv'
  BY <1>1 DEF ScreenInv
<1>3. ItemsInv'
  BY <1>1, ItemsStay
<1>4. DraftInv'
  BY <1>1, DraftStays
<1>5. ClipInv'
  BY <1>1, ClipStays DEF ClipInv
<1>. QED  BY <1>1, <1>2, <1>3, <1>4, <1>5
-----------------------------------------------------------------------------
(* The editor. *)

EditorOK ==
  /\ editor \in EditorRec
  /\ editor.list.active \in -1 .. instMatches(editor.form) - 1

LEMMA MatchesAre ==
  ASSUME NEW form
  PROVE  /\ instMatches(form) \in 0 .. 2
         /\ form.kind = "card" <=> instMatches(form) # 0
BY DEF instMatches, searchInstitutions

LEMMA EmptyEditor == NoForm \in Form /\ NoList \in ListRec /\ NoEditor \in EditorRec
<1>1. NoForm \in Form
  BY DEF NoForm, Form, Title, Body, Line
<1>2. NoList \in ListRec
  BY DEF NoList, ListRec
<1>. QED  BY <1>1, <1>2 DEF NoEditor, EditorRec, IdOrNone

LEMMA NoListActive == NoEditor.list.active \in -1 .. instMatches(NoEditor.form) - 1
<1>1. NoEditor.list.active = -1 /\ instMatches(NoEditor.form) = 0
  BY DEF instMatches, NoEditor, NoForm, NoList
<1>. QED  BY <1>1

LEMMA OpenedIs ==
  ASSUME NEW mode \in {"create", "edit"}, NEW initial \in IdOrNone, NEW form \in Form,
         Opened(mode, initial, form)
  PROVE  EditorOK' /\ editor'.mode = mode /\ editor'.initial = initial
<1>1. /\ editor' = [NoEditor EXCEPT !.open = TRUE, !.mode = mode, !.initial = initial,
                                    !.form = form]
      /\ NoEditor \in EditorRec /\ NoEditor.list.active = -1
  BY EmptyEditor DEF Opened, NoEditor, NoList
<1>2. /\ editor' \in EditorRec /\ editor'.mode = mode /\ editor'.initial = initial
      /\ editor'.list = NoEditor.list
  BY <1>1 DEF EditorRec
<1>3. editor'.list.active \in -1 .. instMatches(editor'.form) - 1
  BY <1>1, <1>2, MatchesAre
<1>. QED  BY <1>2, <1>3 DEF EditorOK

LEMMA HydratedIs ==
  ASSUME PageAssumption, NEW item \in Item
  PROVE  hydrateFromInitial(item) \in Form
BY DEF hydrateFromInitial, joinAddressLine, Item, Form, Title, Body, Line

DraftStep ==
  \/ openCreateEditor \/ openEditEditor \/ \E kind \in ItemKinds : pickKind(kind)
  \/ TypeTitle \/ TypeField \/ BlurTimer
  \/ \E key \in {"focus", "blur", "down", "up", "enter", "escape", "tab"} :
       onTitleKeydown(key)
  \/ Close \/ SaveRefused
  \/ \E kind \in ItemKinds : openEditorForKind(kind)

(* Steps in the form of an open editor. *)
LEMMA FormIs ==
  ASSUME EditorOK, NEW f \in Form, NEW l \in ListRec,
         l.active \in -1 .. instMatches(f) - 1,
         NEW attempted \in BOOLEAN, NEW error \in BOOLEAN,
         editor' = [editor EXCEPT !.form = f, !.list = l, !.attempted = attempted,
                                  !.error = error]
  PROVE  /\ EditorOK' /\ editor'.open = editor.open /\ editor'.mode = editor.mode
         /\ editor'.initial = editor.initial
<1>1. /\ editor' \in EditorRec /\ editor'.form = f /\ editor'.list = l
      /\ editor'.open = editor.open /\ editor'.mode = editor.mode
      /\ editor'.initial = editor.initial
  BY DEF EditorOK, EditorRec
<1>. QED  BY <1>1 DEF EditorOK

LEMMA ListIs ==
  ASSUME NEW l \in ListRec, NEW open \in BOOLEAN, NEW i \in Int
  PROVE  /\ [l EXCEPT !.open = open, !.active = i] \in ListRec
         /\ [l EXCEPT !.open = open, !.active = i].active = i
BY DEF ListRec

LEMMA KeydownHolds ==
  ASSUME EditorOK, NEW key, onTitleKeydown(key)
  PROVE  /\ EditorOK' /\ editor'.open = editor.open /\ editor'.mode = editor.mode
         /\ editor'.initial = editor.initial
<1>. DEFINE n == instMatches(editor.form)
            at == editor.list.active
<1>1. /\ editor \in EditorRec /\ editor.form \in Form /\ editor.list \in ListRec
      /\ n \in 1 .. 2 /\ at \in -1 .. n - 1 /\ at \in Int
  BY MatchesAre DEF EditorOK, EditorRec, ListRec, onTitleKeydown
<1>. DEFINE moved(i) == [editor.list EXCEPT !.active = i]
            shut == [editor.list EXCEPT !.open = FALSE, !.active = -1]
            sooner == IF at <= 0 THEN n - 1 ELSE at - 1
<1>2. /\ (at + 1) % n \in 0 .. n - 1 /\ sooner \in 0 .. n - 1
  BY <1>1
<1>3. \/ editor' = [editor EXCEPT !.list.open = TRUE]
      \/ editor' = [editor EXCEPT !.list.blur = TRUE]
      \/ editor' = [editor EXCEPT !.list = moved((at + 1) % n)]
      \/ editor' = [editor EXCEPT !.list = moved(sooner)]
      \/ editor' = [editor EXCEPT !.form.title = "named", !.list = shut]
      \/ editor' = [editor EXCEPT !.list = shut]
  BY DEF onTitleKeydown
<1>4. \A i \in Int : moved(i) \in ListRec /\ moved(i).active = i
  BY <1>1 DEF ListRec
<1>5. shut \in ListRec /\ shut.active = -1
  <2>1. -1 \in Int
    OBVIOUS
  <2>. QED  BY <1>1, <2>1, ListIs
<1>. DEFINE opened == [editor.list EXCEPT !.open = TRUE]
            blurred == [editor.list EXCEPT !.blur = TRUE]
<1>15. /\ opened \in ListRec /\ opened.active = at
       /\ blurred \in ListRec /\ blurred.active = at
  BY <1>1 DEF ListRec
<1>16. /\ [editor EXCEPT !.list.open = TRUE] = [editor EXCEPT !.list = opened]
       /\ [editor EXCEPT !.list.blur = TRUE] = [editor EXCEPT !.list = blurred]
  BY <1>1 DEF EditorRec
<1>. HIDE DEF moved, shut, sooner, n, at, opened, blurred
<1>6. /\ editor \in EditorRec /\ editor.list \in ListRec
      /\ editor.list.active \in -1 .. instMatches(editor.form) - 1
  BY <1>1 DEF EditorOK
<1>8. ASSUME NEW i \in -1 .. n - 1, NEW l \in ListRec, l.active = i,
             editor' = [editor EXCEPT !.list = l]
      PROVE  /\ EditorOK' /\ editor'.open = editor.open /\ editor'.mode = editor.mode
             /\ editor'.initial = editor.initial
  <2>1. /\ editor' \in EditorRec /\ editor'.form = editor.form /\ editor'.list = l
        /\ editor'.open = editor.open /\ editor'.mode = editor.mode
        /\ editor'.initial = editor.initial
    BY <1>6, <1>8 DEF EditorRec
  <2>. QED  BY <1>8, <2>1 DEF EditorOK, instMatches, n
<1>9. CASE editor' = [editor EXCEPT !.form.title = "named", !.list = shut]
  <2>1. /\ editor' \in EditorRec /\ editor'.list = shut
        /\ editor'.open = editor.open /\ editor'.mode = editor.mode
        /\ editor'.initial = editor.initial
    BY <1>6, <1>5, <1>9 DEF EditorRec, Form, Title
  <2>2. -1 \in -1 .. instMatches(editor'.form) - 1
    BY MatchesAre
  <2>. QED  BY <1>5, <2>1, <2>2 DEF EditorOK
<1>10. \A i \in 0 .. n - 1 : i \in -1 .. n - 1 /\ i \in Int
  BY <1>1
<1>11. -1 \in -1 .. n - 1
  BY <1>1
<1>12. CASE editor' = [editor EXCEPT !.list = moved((at + 1) % n)]
  BY <1>2, <1>4, <1>8, <1>10, <1>12
<1>13. CASE editor' = [editor EXCEPT !.list = moved(sooner)]
  BY <1>2, <1>4, <1>8, <1>10, <1>13
<1>14. CASE editor' = [editor EXCEPT !.list = shut]
  BY <1>5, <1>8, <1>11, <1>14
<1>7. CASE editor' = [editor EXCEPT !.list.open = TRUE]
           \/ editor' = [editor EXCEPT !.list.blur = TRUE]
  BY <1>1, <1>7, <1>8, <1>15, <1>16
<1>. QED  BY <1>3, <1>7, <1>9, <1>12, <1>13, <1>14

LEMMA DraftIs ==
  ASSUME PageAssumption, PageInv, DraftStep
  PROVE  /\ EditorOK'
         /\ editor'.open /\ editor'.mode = "edit" =>
              \/ editor'.initial \in IdsOf(store.items)
              \/ editor.open /\ editor.mode = "edit" /\ editor'.initial = editor.initial
<1>. DEFINE SameEditor ==
              /\ EditorOK' /\ editor'.open = editor.open
              /\ editor'.mode = editor.mode /\ editor'.initial = editor.initial
<1>1. EditorOK /\ editor \in EditorRec /\ NoId \in IdOrNone
  BY DEF PageInv, DraftInv, EditorOK, IdOrNone
<1>2. CASE openCreateEditor
  BY <1>1, <1>2, OpenedIs, EmptyEditor DEF openCreateEditor
<1>3. ASSUME NEW kind \in ItemKinds, openEditorForKind(kind)
      PROVE  EditorOK' /\ editor'.mode = "create"
  <2>1. [NoForm EXCEPT !.kind = kind] \in Form
    BY EmptyEditor DEF Form
  <2>. QED  BY <1>1, <1>3, <2>1, OpenedIs DEF openEditorForKind
<1>4. CASE openEditEditor
  <2>1. Selected # NoId /\ Selected \in IdOrNone /\ Selected \in IdsOf(store.items)
    <3>1. DetailControls # {}
      BY <1>4 DEF openEditEditor
    <3>. QED  BY <3>1, SelectedIs DEF DetailControls, PageInv
  <2>2. SelectedItem \in Item
    BY <2>1, PlaceIs DEF SelectedItem, ItemWith, PageInv, ItemsInv, VaultOf
  <2>. QED  BY <1>4, <2>1, <2>2, HydratedIs, OpenedIs DEF openEditEditor
<1>5. ASSUME NEW kind \in ItemKinds, pickKind(kind)  PROVE SameEditor
  <2>. DEFINE f == [editor.form EXCEPT !.kind = kind]
  <2>1. f \in Form /\ editor.list \in ListRec /\ editor.error \in BOOLEAN
    BY <1>1 DEF EditorRec, Form
  <2>2. editor' = [editor EXCEPT !.form = f, !.list = editor.list, !.attempted = FALSE,
                                 !.error = editor.error]
    BY <1>1, <1>5 DEF pickKind, EditorRec
  <2>3. editor.list.active \in -1 .. instMatches(f) - 1
    <3>1. editor.list.active \in -1 .. -1
      BY <1>1, <1>5 DEF pickKind, EditorOK, instMatches
    <3>2. instMatches(f) \in 0 .. 2
      BY MatchesAre
    <3>. QED  BY <3>1, <3>2
  <2>. HIDE DEF f
  <2>. QED  BY <1>1, <2>1, <2>2, <2>3, FormIs
<1>6. CASE TypeTitle
  <2>1. PICK title \in Title :
          editor' = [editor EXCEPT !.form.title = title,
                       !.list = IF editor.form.kind = "card"
                                THEN [@ EXCEPT !.open = TRUE, !.active = -1] ELSE @]
    BY <1>6 DEF TypeTitle
  <2>. DEFINE f == [editor.form EXCEPT !.title = title]
              l == IF editor.form.kind = "card"
                   THEN [editor.list EXCEPT !.open = TRUE, !.active = -1] ELSE editor.list
  <2>2. /\ f \in Form /\ f.kind = editor.form.kind /\ editor.list \in ListRec
        /\ editor.error \in BOOLEAN /\ editor.attempted \in BOOLEAN
    BY <1>1 DEF EditorRec, Form
  <2>3. editor' = [editor EXCEPT !.form = f, !.list = l, !.attempted = editor.attempted,
                                 !.error = editor.error]
    BY <1>1, <2>1 DEF EditorRec
  <2>4. l \in ListRec /\ l.active \in -1 .. instMatches(f) - 1
    <3>1. CASE editor.form.kind = "card"
      <4>1. l = [editor.list EXCEPT !.open = TRUE, !.active = -1] /\ -1 \in Int
        BY <3>1
      <4>2. l \in ListRec /\ l.active = -1
        BY <2>2, <4>1, ListIs
      <4>. QED  BY <4>2, MatchesAre
    <3>2. CASE editor.form.kind # "card"
      <4>1. instMatches(f) = instMatches(editor.form)
        BY <2>2, <3>2, MatchesAre DEF instMatches
      <4>. QED  BY <1>1, <2>2, <3>2, <4>1 DEF EditorOK
    <3>. QED  BY <3>1, <3>2
  <2>. HIDE DEF f, l
  <2>. QED  BY <1>1, <2>2, <2>3, <2>4, FormIs
<1>7. CASE TypeField
  <2>. DEFINE bodied(b) == [editor.form EXCEPT !.body = b]
              lined(b) == [editor.form EXCEPT !.line = b]
  <2>1. /\ \A b \in Body : /\ bodied(b) \in Form /\ bodied(b).kind = editor.form.kind
                           /\ bodied(b).title = editor.form.title
        /\ \A b \in Line : /\ lined(b) \in Form /\ lined(b).kind = editor.form.kind
                           /\ lined(b).title = editor.form.title
        /\ editor.list \in ListRec /\ editor.error \in BOOLEAN
        /\ editor.attempted \in BOOLEAN
    BY <1>1 DEF EditorRec, Form
  <2>2. \/ \E b \in Body : editor' = [editor EXCEPT !.form = bodied(b)]
        \/ \E b \in Line : editor' = [editor EXCEPT !.form = lined(b)]
    <3>1. {"none", "full", "no city"} \subseteq Line
      BY DEF Line
    <3>2. \/ \E b \in Body : editor' = [editor EXCEPT !.form.body = b]
          \/ \E b \in Line : editor' = [editor EXCEPT !.form.line = b]
      BY <1>7, <3>1 DEF TypeField
    <3>3. /\ \A b : [editor EXCEPT !.form.body = b] = [editor EXCEPT !.form = bodied(b)]
          /\ \A b : [editor EXCEPT !.form.line = b] = [editor EXCEPT !.form = lined(b)]
      BY <1>1 DEF EditorRec
    <3>. HIDE DEF bodied, lined
    <3>. QED  BY <3>2, <3>3
  <2>3. PICK f \in Form : /\ f.kind = editor.form.kind /\ f.title = editor.form.title
                          /\ editor' = [editor EXCEPT !.form = f]
    <3>. HIDE DEF bodied, lined
    <3>. QED  BY <2>1, <2>2
  <2>4. editor' = [editor EXCEPT !.form = f, !.list = editor.list,
                                 !.attempted = editor.attempted, !.error = editor.error]
    BY <1>1, <2>3 DEF EditorRec
  <2>5. instMatches(f) = instMatches(editor.form)
    BY <2>3 DEF instMatches
  <2>6. editor.list.active \in -1 .. instMatches(f) - 1
    BY <1>1, <2>5 DEF EditorOK
  <2>. QED  BY <1>1, <2>1, <2>4, <2>6, FormIs
<1>8. CASE BlurTimer
  <2>. DEFINE l == [editor.list EXCEPT !.open = FALSE, !.blur = FALSE]
  <2>1. /\ l \in ListRec /\ l.active = editor.list.active /\ editor.form \in Form
        /\ editor.error \in BOOLEAN /\ editor.attempted \in BOOLEAN
    BY <1>1 DEF EditorRec, ListRec
  <2>2. editor' = [editor EXCEPT !.form = editor.form, !.list = l,
                                 !.attempted = editor.attempted, !.error = editor.error]
    BY <1>1, <1>8 DEF BlurTimer, EditorRec, ListRec
  <2>. HIDE DEF l
  <2>. QED  BY <1>1, <2>1, <2>2, FormIs DEF EditorOK
<1>9. ASSUME NEW key, onTitleKeydown(key)  PROVE SameEditor
  BY <1>1, <1>9, KeydownHolds
<1>10. CASE Close
  BY <1>10, EmptyEditor, MatchesAre DEF Close, EditorOK, NoEditor, NoList
<1>11. CASE SaveRefused
  <2>1. Valid(editor.form) \in BOOLEAN
    BY DEF Valid, validateLogin, validateCard, validateNote, validateIdentity, validateSsh,
           validateSeed, validateDocument, checkTitle
  <2>2. editor.list \in ListRec /\ editor.form \in Form
    BY <1>1 DEF EditorRec
  <2>3. editor' = [editor EXCEPT !.form = editor.form, !.list = editor.list,
                                 !.attempted = TRUE, !.error = Valid(editor.form)]
    BY <1>1, <1>11 DEF SaveRefused, EditorRec
  <2>. QED  BY <1>1, <2>1, <2>2, <2>3, FormIs DEF EditorOK
<1>. QED  BY <1>2, <1>3, <1>4, <1>5, <1>6, <1>7, <1>8, <1>9, <1>10, <1>11 DEF DraftStep

LEMMA DraftHolds == ASSUME PageAssumption, PageInv, DraftStep  PROVE PageInv'
<1>. USE DEF PageInv
<1>1. /\ UNCHANGED <<store, detail, sync, clip, past, mobile, mounted, health, lock>>
      /\ over' \in OverRec /\ used' \in UsedRec /\ used'.ids = used.ids
  <2>1. CASE openCreateEditor \/ openEditEditor
    BY <2>1, UseIs DEF openCreateEditor, openEditEditor, ScreenInv
  <2>2. ASSUME NEW kind \in ItemKinds, openEditorForKind(kind)  PROVE <1>1!:
    BY <2>2, UseIs DEF openEditorForKind, ScreenInv, OverRec
  <2>3. ASSUME NEW kind \in ItemKinds, pickKind(kind)  PROVE <1>1!:
    BY <2>3 DEF pickKind, ScreenInv
  <2>4. ASSUME NEW key, onTitleKeydown(key)  PROVE <1>1!:
    BY <2>4 DEF onTitleKeydown, ScreenInv
  <2>5. CASE TypeTitle \/ TypeField \/ BlurTimer \/ Close \/ SaveRefused
    BY <2>5 DEF TypeTitle, TypeField, BlurTimer, Close, SaveRefused, ScreenInv
  <2>. QED  BY <2>1, <2>2, <2>3, <2>4, <2>5 DEF DraftStep
<1>2. ScreenInv'
  BY <1>1 DEF ScreenInv
<1>3. PaneInv'
  BY <1>1, PaneStays
<1>4. ItemsInv'
  BY <1>1, ItemsStay
<1>5. DraftInv'
  <2>1. IdsOf(store.items)' = IdsOf(store.items)
    BY <1>1 DEF IdsOf
  <2>. QED  BY <1>1, <2>1, DraftIs DEF DraftInv, SavedDraftIsKept, EditorOK
<1>6. ClipInv'
  BY <1>1, ClipStays DEF ClipInv
<1>. QED  BY <1>2, <1>3, <1>4, <1>5, <1>6
-----------------------------------------------------------------------------
(* The sync, up to what it has found. *)

SyncStep == BeginSync \/ SyncFlushed \/ SyncNothing \/ SyncPromoted

LEMMA FoundIsVault ==
  ASSUME PageAssumption, NEW ids, VaultOf(store.items, ids), NEW items \in RemoteVaults
  PROVE  VaultOf(items, ids)
<1>1. CASE \E id \in IdsOf(store.items) : items = Without(store.items, id)
  BY <1>1, WithoutOne
<1>2. ASSUME NEW id \in IdsOf(store.items),
             items = [i \in DOMAIN store.items |->
                        IF store.items[i].id = id
                        THEN [store.items[i] EXCEPT !.body = "weak"] ELSE store.items[i]]
      PROVE  VaultOf(items, ids)
  <2>1. \A i \in DOMAIN store.items : store.items[i] \in Item
    BY DEF VaultOf
  <2>2. \A i \in DOMAIN store.items :
          items[i] \in Item /\ items[i].id = store.items[i].id
    BY <1>2, <2>1 DEF Item, Body
  <2>3. items = [i \in DOMAIN store.items |-> items[i]]
    BY <1>2
  <2>. QED  BY <2>2, <2>3, Rewritten
<1>. QED  BY <1>1, <1>2 DEF RemoteVaults

LEMMA SyncHolds == ASSUME PageAssumption, PageInv, SyncStep  PROVE PageInv'
<1>. USE DEF PageInv
<1>1. /\ UNCHANGED <<mobile, mounted, store, detail, editor, over, health, lock, clip, past>>
      /\ used' \in UsedRec /\ used'.ids = used.ids
  BY UseIs DEF SyncStep, BeginSync, SyncFlushed, SyncNothing, SyncPromoted, ScreenInv
<1>2. sync' \in SyncRec /\ VaultOf(sync'.items, used.ids)
  <2>. USE DEF ItemsInv
  <2>1. CASE BeginSync \/ SyncFlushed \/ SyncNothing
    <3>1. sync' \in SyncRec /\ sync'.items = sync.items
      BY <2>1 DEF BeginSync, SyncFlushed, SyncNothing, SyncRec
    <3>. QED  BY <3>1
  <2>2. CASE SyncPromoted
    <3>1. PICK items \in RemoteVaults : sync' = [pc |-> "promoted", items |-> items]
      BY <2>2 DEF SyncPromoted
    <3>2. VaultOf(items, used.ids)
      BY FoundIsVault
    <3>. QED  BY <3>1, <3>2 DEF SyncRec, VaultOf
  <2>. QED  BY <2>1, <2>2 DEF SyncStep
<1>3. ScreenInv'
  BY <1>1 DEF ScreenInv
<1>4. PaneInv'
  BY <1>1, PaneStays
<1>5. ItemsInv'
  BY <1>1, <1>2 DEF ItemsInv
<1>6. DraftInv'
  BY <1>1, DraftStays
<1>7. ClipInv'
  BY <1>1, ClipStays DEF ClipInv
<1>. QED  BY <1>3, <1>4, <1>5, <1>6, <1>7

-----------------------------------------------------------------------------
(* Steps that write the items. *)

LEMMA PaneWrites ==
  ASSUME PageAssumption, PaneInv, NEW s \in StoreRec, NEW d \in PaneRec,
         NEW shown \in BOOLEAN, Show(d, s, shown), d.revealed \subseteq d.timers,
         s.status = "locked" /\ {"late sync", "saved after lock"} \cap past' = {} =>
           s.items = <<>> /\ (d.revealed = {} \/ s.status # store.status)
  PROVE  PaneInv' /\ store'.items = s.items
<1>1. /\ store' \in StoreRec /\ detail' \in PaneRec
      /\ store'.items = s.items /\ store'.status = s.status
      /\ detail'.revealed \subseteq detail'.timers
      /\ s.items = <<>> /\ (d.revealed = {} \/ s.status # store.status) =>
           detail'.revealed = {}
  BY ShowIs
<1>. QED  BY <1>1 DEF PaneInv, LockedIsEmpty

LEMMA DraftWrites ==
  ASSUME DraftInv, UNCHANGED editor, past \subseteq past',
         "lost" \in past' => "lost" \in past,
         IdsOf(store.items) \subseteq IdsOf(store'.items) \/ Orphans(store'.items) \subseteq past'
  PROVE  DraftInv'
<1>1. instMatches(editor.form)' = instMatches(editor.form)
  BY DEF instMatches
<1>2. IdsOf(store.items)' = IdsOf(store'.items)
  BY DEF IdsOf
<1>. QED  BY <1>1, <1>2 DEF DraftInv, SavedDraftIsKept, Orphans

LEMMA OrphansAre == Orphans(store.items) \subseteq {"edited item gone"}
BY DEF Orphans

LEMMA ShownOrNot ==
  ASSUME ScreenInv
  PROVE  DetailShown \in BOOLEAN /\ mounted \in BOOLEAN
BY DEF ScreenInv, DetailShown, OverRec

LEMMA DeleteHolds == ASSUME PageAssumption, PageInv, confirmDelete  PROVE PageInv'
<1>. USE DEF PageInv
<1>. DEFINE s == remove(detail.asked)
            d == [detail EXCEPT !.asked = NoId]
            gone == Orphans(s.items)
<1>1. /\ UNCHANGED <<mobile, mounted, editor, over, sync, lock, clip, used>>
      /\ health' = scheduleHealthRecompute /\ Show(d, s, TRUE)
      /\ past' = past \cup gone
  BY DEF confirmDelete
<1>2. VaultOf(store.items, used.ids) /\ store \in StoreRec /\ detail \in PaneRec
      /\ detail.revealed \subseteq detail.timers
  BY DEF ItemsInv, PaneInv
<1>3. /\ VaultOf(Without(store.items, detail.asked), used.ids)
      /\ store.items = <<>> => Without(store.items, detail.asked) = <<>>
  BY <1>2, WithoutOne
<1>4. /\ s \in StoreRec /\ s.items = Without(store.items, detail.asked)
      /\ s.status = store.status
  BY <1>2, <1>3 DEF remove, StoreRec, IdOrNone, VaultOf
<1>5. d \in PaneRec /\ d.revealed \subseteq d.timers /\ d.revealed = detail.revealed
  BY <1>2 DEF PaneRec, IdOrNone
<1>6. gone \subseteq {"edited item gone"}
  BY DEF Orphans
<1>. HIDE DEF s, d
<1>7. PaneInv' /\ store'.items = s.items
  <2>1. s.status = "locked" /\ {"late sync", "saved after lock"} \cap past' = {} =>
           s.items = <<>> /\ (d.revealed = {} \/ s.status # store.status)
    BY <1>1, <1>3, <1>4, <1>5 DEF PaneInv, LockedIsEmpty
  <2>. QED  BY <1>1, <1>4, <1>5, <2>1, PaneWrites
<1>8. ScreenInv'
  BY <1>1, HealthSchedules DEF ScreenInv
<1>9. ItemsInv'
  BY <1>1, <1>3, <1>4, <1>7 DEF ItemsInv
<1>10. DraftInv'
  BY <1>1, <1>6, <1>7, DraftWrites
<1>11. ClipInv'
  BY <1>1, <1>6, ClipStays DEF ClipInv, Excuse
<1>. QED  BY <1>7, <1>8, <1>9, <1>10, <1>11

LEMMA AdoptHolds == ASSUME PageAssumption, PageInv, Adopt  PROVE PageInv'
<1>. USE DEF PageInv
<1>. DEFINE first == IF store.selected \in IdsOf(sync.items) THEN store.selected
                     ELSE FirstId(sync.items)
            s == [store EXCEPT !.items = sync.items, !.selected = first]
            gone == Orphans(sync.items)
            late == IF store.status = "locked" THEN {"late sync"} ELSE {}
<1>1. /\ UNCHANGED <<mobile, mounted, editor, over, lock, clip, used>>
      /\ health' = runHealthRecompute(sync.items) /\ Show(detail, s, mounted /\ DetailShown)
      /\ sync' = [pc |-> "idle", items |-> <<>>]
      /\ past' = past \cup gone \cup late
  BY DEF Adopt
<1>2. /\ VaultOf(sync.items, used.ids) /\ sync.items \in Seq(Item)
      /\ store \in StoreRec /\ detail \in PaneRec /\ detail.revealed \subseteq detail.timers
  BY DEF ItemsInv, PaneInv, VaultOf
<1>3. first \in IdOrNone
  <2>1. CASE sync.items = <<>>
    BY <1>2, <2>1 DEF FirstId, IdOrNone, StoreRec
  <2>2. CASE sync.items # <<>>
    <3>1. sync.items[1] \in Item
      BY <1>2, <2>2
    <3>. QED  BY <1>2, <2>2, <3>1 DEF FirstId, IdOrNone, StoreRec, Item
  <2>. QED  BY <2>1, <2>2
<1>. HIDE DEF first
<1>4. s \in StoreRec /\ s.items = sync.items /\ s.status = store.status
  BY <1>2, <1>3 DEF StoreRec
<1>5. gone \subseteq {"edited item gone"}
  BY DEF Orphans
<1>. HIDE DEF s
<1>6. PaneInv' /\ store'.items = s.items
  <2>1. s.status = "locked" => "late sync" \in past'
    BY <1>1, <1>4
  <2>. QED  BY <1>1, <1>2, <1>4, <2>1, PaneWrites, ShownOrNot
<1>7. ScreenInv'
  BY <1>1, <1>2, RecomputeIs DEF ScreenInv
<1>8. ItemsInv'
  BY <1>1, <1>2, <1>4, <1>6, NothingInVault DEF ItemsInv, SyncRec, VaultOf
<1>9. DraftInv'
  BY <1>1, <1>4, <1>5, <1>6, DraftWrites
<1>10. ClipInv'
  BY <1>1, <1>5, ClipStays DEF ClipInv, Excuse
<1>. QED  BY <1>6, <1>7, <1>8, <1>9, <1>10

LEMMA TeardownHolds ==
  ASSUME PageAssumption, PageInv, NEW caller \in {"page", "peer"}, Teardown(caller)
  PROVE  PageInv'
<1>. USE DEF PageInv
<1>1. PICK refused \in BOOLEAN :
        /\ clearClipboard(refused)
        /\ past' = past \cup Refusal(refused) \cup Orphans(<<>>)
  BY DEF Teardown
<1>2. /\ UNCHANGED <<mobile, mounted, editor, over, sync, used>>
      /\ Show(detail, LockedStore, mounted /\ DetailShown)
      /\ health' = forgetHealth /\ lock' = [lock EXCEPT ![caller] = "clip"]
  BY DEF Teardown
<1>3. /\ LockedStore \in StoreRec /\ LockedStore.items = <<>>
      /\ LockedStore.status = "locked"
  BY DEF LockedStore, StoreRec, IdOrNone
<1>4. Orphans(<<>>) \subseteq {"edited item gone"} /\ Refusal(refused) \subseteq {"clear rejected"}
  BY DEF Orphans, Refusal
<1>5. PaneInv' /\ store'.items = <<>>
  <2>1. detail \in PaneRec /\ detail.revealed \subseteq detail.timers
    BY DEF PaneInv
  <2>2. store.status \in {"locked", "unlocked"}
    BY DEF PaneInv, StoreRec
  <2>3. {"late sync", "saved after lock"} \cap past' = {} =>
          detail.revealed = {} \/ LockedStore.status # store.status
    BY <1>1, <1>3, <2>2 DEF PaneInv, LockedIsEmpty
  <2>. QED  BY <1>2, <1>3, <2>1, <2>3, PaneWrites, ShownOrNot
<1>6. ScreenInv'
  <2>1. lock' \in LockRec
    BY <1>2 DEF ScreenInv, LockRec
  <2>. QED  BY <1>2, <2>1, HealthSchedules DEF ScreenInv
<1>7. ItemsInv'
  BY <1>2, <1>5, NothingInVault DEF ItemsInv
<1>8. DraftInv'
  BY <1>1, <1>2, <1>4, <1>5, DraftWrites
<1>9. ClipInv'
  <2>1. past' \subseteq Excuse
    BY <1>1, <1>4 DEF ClipInv, Excuse
  <2>. QED  BY <1>1, <2>1, ClearIs
<1>. QED  BY <1>5, <1>6, <1>7, <1>8, <1>9

LEMMA LeaveHolds == ASSUME PageAssumption, PageInv, lockVault  PROVE PageInv'
<1>. USE DEF PageInv
<1>1. /\ UNCHANGED <<mobile, store, health, sync, clip, used, past>>
      /\ lock' = [lock EXCEPT !.page = "idle"] /\ mounted' = FALSE
      /\ editor' = NoEditor /\ over' = NoOverlay /\ detail' = NoDetail
  BY DEF lockVault
<1>2. ScreenInv'
  <2>1. lock' \in LockRec /\ over' \in OverRec
    BY <1>1 DEF ScreenInv, LockRec, NoOverlay, OverRec
  <2>. QED  BY <1>1, <2>1 DEF ScreenInv
<1>3. PaneInv'
  <2>1. detail' \in PaneRec /\ detail'.revealed = {}
    BY <1>1 DEF NoDetail, PaneRec, IdOrNone
  <2>. QED  BY <1>1, <2>1 DEF PaneInv, LockedIsEmpty
<1>4. ItemsInv'
  BY <1>1, ItemsStay
<1>5. DraftInv'
  <2>1. /\ editor' \in EditorRec /\ editor'.list.active = -1 /\ ~editor'.open
    BY <1>1, EmptyEditor DEF NoEditor, NoList
  <2>2. editor'.list.active \in -1 .. instMatches(editor'.form) - 1
    BY <2>1, MatchesAre
  <2>. QED  BY <1>1, <2>1, <2>2 DEF DraftInv, SavedDraftIsKept
<1>6. ClipInv'
  BY <1>1, ClipStays DEF ClipInv
<1>. QED  BY <1>2, <1>3, <1>4, <1>5, <1>6

-----------------------------------------------------------------------------
(* Saves. *)

LEMMA ValidForm ==
  ASSUME NEW form \in Form, Valid(form)
  PROVE  form.kind \in ItemKinds /\ form.title \in Title \ {""} /\ form.body \in Body \ {"bad"}
<1>1. /\ form.kind \in ItemKinds \cup {"none"} /\ form.title \in Title /\ form.body \in Body
  BY DEF Form
<1>2. form.kind # "none"
  BY DEF Valid
<1>3. form.title # "" /\ form.body # "bad"
  BY DEF Valid, validateLogin, validateCard, validateNote, validateIdentity, validateSsh,
         validateSeed, validateDocument, checkTitle
<1>. QED  BY <1>1, <1>2, <1>3

LEMMA PayloadIs ==
  ASSUME NEW id \in Ids, NEW form \in Form, Valid(form), NEW line \in Line
  PROVE  /\ buildPayload(id, form, line) \in Item
         /\ buildPayload(id, form, line).id = id
         /\ buildPayload(id, form, line).kind = form.kind
         /\ buildPayload(id, form, line).title = form.title
         /\ buildPayload(id, form, line).body = form.body
<1>1. form.line \in Line
  BY DEF Form
<1>. QED  BY <1>1, ValidForm DEF buildPayload, Item

LEMMA AddIs ==
  ASSUME PageAssumption, PageInv, NEW item \in Item, item.id \notin used.ids,
         Len(store.items) < ITEM_HARD_CAP
  PROVE  /\ add(item) \in StoreRec /\ add(item).items = <<item>> \o store.items
         /\ add(item).status = store.status
         /\ VaultOf(add(item).items, used.ids \cup {item.id})
         /\ IdsOf(store.items) \subseteq IdsOf(add(item).items)
         /\ \A i \in DOMAIN store.items : Keeps(add(item).items, store.items[i])
         /\ \E i \in DOMAIN add(item).items : add(item).items[i] = item
<1>. DEFINE r == <<item>> \o store.items
<1>1. /\ VaultOf(r, used.ids \cup {item.id})
      /\ IdsOf(r) = IdsOf(store.items) \cup {item.id}
      /\ \A i \in DOMAIN store.items : Keeps(r, store.items[i])
      /\ 1 \in DOMAIN r /\ r[1] = item
  BY OneMore DEF PageInv, ItemsInv
<1>2. r \in Seq(Item) /\ store \in StoreRec
  BY <1>1 DEF VaultOf, PageInv, PaneInv
<1>3. add(item) = [store EXCEPT !.items = r]
  BY DEF add
<1>. HIDE DEF r
<1>4. add(item) \in StoreRec /\ add(item).items = r /\ add(item).status = store.status
  BY <1>2, <1>3 DEF StoreRec
<1>. QED  BY <1>1, <1>4 DEF r

LEMMA UpdateIs ==
  ASSUME PageInv, NEW id, NEW form \in Form, Valid(form)
  PROVE  /\ update(id, form) \in StoreRec /\ update(id, form).status = store.status
         /\ VaultOf(update(id, form).items, used.ids)
         /\ DOMAIN update(id, form).items = DOMAIN store.items
         /\ \A i \in DOMAIN store.items :
              IF store.items[i].id = id
              THEN /\ update(id, form).items[i].id = id
                   /\ update(id, form).items[i].kind = form.kind
                   /\ update(id, form).items[i].title = form.title
                   /\ update(id, form).items[i].body = form.body
              ELSE update(id, form).items[i] = store.items[i]
<1>. DEFINE r == [i \in DOMAIN store.items |->
                    IF store.items[i].id = id
                    THEN buildPayload(id, form, store.items[i].line) ELSE store.items[i]]
<1>1. VaultOf(store.items, used.ids) /\ store \in StoreRec
  BY DEF PageInv, ItemsInv, PaneInv
<1>2. \A i \in DOMAIN store.items :
        /\ store.items[i] \in Item /\ store.items[i].id \in Ids /\ store.items[i].line \in Line
  <2>1. \A i \in DOMAIN store.items : store.items[i] \in Item
    BY <1>1 DEF VaultOf
  <2>. QED  BY <2>1 DEF Item
<1>3. \A i \in DOMAIN store.items :
        /\ r[i] \in Item /\ r[i].id = store.items[i].id
        /\ IF store.items[i].id = id
           THEN r[i].id = id /\ r[i].kind = form.kind /\ r[i].title = form.title
                /\ r[i].body = form.body
           ELSE r[i] = store.items[i]
  BY <1>2, PayloadIs
<1>4. r = [i \in DOMAIN store.items |-> r[i]]
  OBVIOUS
<1>5. DOMAIN r = DOMAIN store.items
  OBVIOUS
<1>6. update(id, form) = [store EXCEPT !.items = r]
  BY <1>1 DEF update, StoreRec
<1>. HIDE DEF r
<1>7. VaultOf(r, used.ids)
  BY <1>1, <1>3, <1>4, Rewritten
<1>8. /\ update(id, form) \in StoreRec /\ update(id, form).items = r
      /\ update(id, form).status = store.status
  BY <1>1, <1>6, <1>7 DEF StoreRec, VaultOf
<1>. QED  BY <1>3, <1>5, <1>7, <1>8

(* What a save of any kind leaves behind. *)
LEMMA WrittenHolds ==
  ASSUME PageAssumption, PageInv, NEW s \in StoreRec, NEW shown \in BOOLEAN,
         Show(detail, s, shown), s.status = store.status,
         store.status = "locked" => "saved after lock" \in past',
         used' \in UsedRec, used.ids \subseteq used'.ids, VaultOf(s.items, used'.ids),
         health' = scheduleHealthRecompute, over' \in OverRec,
         past \subseteq past', past' \subseteq Excuse,
         UNCHANGED <<mobile, mounted, sync, lock, clip>>
  PROVE  ScreenInv' /\ PaneInv' /\ ItemsInv' /\ ClipInv' /\ store'.items = s.items
<1>. USE DEF PageInv
<1>1. ScreenInv'
  BY HealthSchedules DEF ScreenInv
<1>2. PaneInv' /\ store'.items = s.items
  <2>1. detail \in PaneRec /\ detail.revealed \subseteq detail.timers
    BY DEF PaneInv
  <2>. QED  BY <2>1, PaneWrites
<1>3. ItemsInv'
  BY <1>2, VaultGrows DEF ItemsInv
<1>4. ClipInv'
  BY ClipStays
<1>. QED  BY <1>1, <1>2, <1>3, <1>4

LEMMA EditorLeaves ==
  ASSUME editor' = NoEditor, "lost" \in past' => "edited item gone" \in past'
  PROVE  DraftInv'
<1>1. NoEditor \in EditorRec /\ ~NoEditor.open
  BY EmptyEditor DEF NoEditor
<1>2. NoEditor.list.active \in -1 .. instMatches(NoEditor.form) - 1
  BY NoListActive
<1>3. /\ editor' \in EditorRec /\ ~editor'.open
      /\ editor'.list.active \in -1 .. instMatches(editor'.form) - 1
  BY <1>1, <1>2
<1>. QED  BY <1>3 DEF DraftInv, SavedDraftIsKept

LEMMA SaveNewHolds ==
  ASSUME PageAssumption, PageInv, SaveNew
  PROVE  /\ PageInv'
         /\ \A i \in DOMAIN store.items : Keeps(store'.items, store.items[i])
<1>1. PICK id \in Ids \ used.ids :
        LET s == add(buildPayload(id, editor.form, "none")) IN
          /\ Show(detail, s, DetailShown)
          /\ AfterSave(s, id, editor.form)
          /\ used' = [used EXCEPT !.ids = @ \cup {id}]
  BY DEF SaveNew
<1>. DEFINE item == buildPayload(id, editor.form, "none")
            s == add(item)
<1>2. /\ Valid(editor.form) /\ Len(store.items) < ITEM_HARD_CAP /\ editor' = NoEditor
      /\ health' = scheduleHealthRecompute
      /\ UNCHANGED <<mobile, mounted, over, sync, lock, clip>>
  BY DEF SaveNew
<1>3. editor.form \in Form /\ "none" \in Line
  BY DEF PageInv, DraftInv, EditorRec, Line
<1>4. /\ item \in Item /\ item.id = id /\ item.kind = editor.form.kind
      /\ item.title = editor.form.title /\ item.body = editor.form.body
  BY <1>2, <1>3, PayloadIs
<1>. HIDE DEF item
<1>5. /\ s \in StoreRec /\ s.status = store.status /\ VaultOf(s.items, used.ids \cup {id})
      /\ \A i \in DOMAIN store.items : Keeps(s.items, store.items[i])
      /\ \E i \in DOMAIN s.items : s.items[i] = item
  BY <1>2, <1>4, AddIs
<1>6. AfterSave(s, id, editor.form) /\ Show(detail, s, DetailShown)
  BY <1>1 DEF item
<1>. HIDE DEF s
<1>7. past' = past \cup (IF store.status = "locked" THEN {"saved after lock"} ELSE {})
  BY <1>4, <1>5, <1>6 DEF AfterSave
<1>8. used' \in UsedRec /\ used'.ids = used.ids \cup {id}
  BY <1>1 DEF PageInv, ScreenInv, UsedRec
<1>9. past \subseteq past' /\ past' \subseteq Excuse /\ over' \in OverRec
  BY <1>2, <1>7 DEF PageInv, ClipInv, ScreenInv, Excuse
<1>10. ScreenInv' /\ PaneInv' /\ ItemsInv' /\ ClipInv' /\ store'.items = s.items
  BY <1>2, <1>5, <1>6, <1>7, <1>8, <1>9, WrittenHolds, ShownOrNot DEF PageInv
<1>11. DraftInv'
  <2>1. "lost" \in past' => "edited item gone" \in past'
    BY <1>7 DEF PageInv, DraftInv, SavedDraftIsKept
  <2>. QED  BY <1>2, <2>1, EditorLeaves
<1>. QED  BY <1>5, <1>10, <1>11 DEF PageInv

LEMMA SaveEditHolds ==
  ASSUME PageAssumption, PageInv, SaveEdit
  PROVE  /\ PageInv'
         /\ \A i \in DOMAIN store.items :
              store.items[i].id # editor.initial => Keeps(store'.items, store.items[i])
<1>. DEFINE id == editor.initial
            s == update(id, editor.form)
<1>1. /\ editor.open /\ editor.mode = "edit" /\ Valid(editor.form)
      /\ Show(detail, s, DetailShown) /\ AfterSave(s, id, editor.form)
      /\ editor' = NoEditor /\ health' = scheduleHealthRecompute
      /\ UNCHANGED <<mobile, mounted, over, sync, lock, clip, used>>
  BY DEF SaveEdit
<1>2. editor.form \in Form
  BY DEF PageInv, DraftInv, EditorRec
<1>3. /\ s \in StoreRec /\ s.status = store.status /\ VaultOf(s.items, used.ids)
      /\ DOMAIN s.items = DOMAIN store.items
      /\ \A i \in DOMAIN store.items :
           IF store.items[i].id = id
           THEN s.items[i].id = id /\ s.items[i].kind = editor.form.kind
                /\ s.items[i].title = editor.form.title /\ s.items[i].body = editor.form.body
           ELSE s.items[i] = store.items[i]
  BY <1>1, <1>2, UpdateIs
<1>. HIDE DEF s
<1>. DEFINE after == IF store.status = "locked" THEN {"saved after lock"} ELSE {}
<1>4. /\ past \cup after \subseteq past' /\ past' \subseteq past \cup after \cup {"lost"}
      /\ id \in IdsOf(store.items) => past' = past \cup after
  BY <1>1, <1>3 DEF AfterSave, IdsOf
<1>5. "lost" \in past' => "edited item gone" \in past'
  <2>1. CASE id \in IdsOf(store.items)
    <3>1. past' = past \cup after /\ "lost" \notin after
      BY <1>4, <2>1
    <3>2. "lost" \in past => "edited item gone" \in past
      BY DEF PageInv, DraftInv, SavedDraftIsKept
    <3>. QED  BY <3>1, <3>2
  <2>2. CASE id \notin IdsOf(store.items)
    BY <1>1, <1>4, <2>2 DEF PageInv, DraftInv
  <2>. QED  BY <2>1, <2>2
<1>6. /\ past' \subseteq Excuse /\ over' \in OverRec /\ used' \in UsedRec
      /\ used.ids \subseteq used'.ids /\ VaultOf(s.items, used'.ids)
      /\ past \subseteq past' /\ (store.status = "locked" => "saved after lock" \in past')
  BY <1>1, <1>3, <1>4 DEF PageInv, ClipInv, ScreenInv, Excuse
<1>7. ScreenInv' /\ PaneInv' /\ ItemsInv' /\ ClipInv' /\ store'.items = s.items
  BY <1>1, <1>3, <1>6, WrittenHolds, ShownOrNot DEF PageInv
<1>8. DraftInv'
  BY <1>1, <1>5, EditorLeaves
<1>9. \A i \in DOMAIN store.items : store.items[i].id # id => Keeps(s.items, store.items[i])
  BY <1>3 DEF Keeps
<1>. QED  BY <1>7, <1>8, <1>9 DEF PageInv

LEMMA SaveLoginHolds ==
  ASSUME PageAssumption, PageInv, saveLogin
  PROVE  /\ PageInv'
         /\ \A i \in DOMAIN store.items : Keeps(store'.items, store.items[i])
<1>1. PICK id \in Ids \ used.ids, body \in Body \ {"bad"} :
        /\ used' = [used EXCEPT !.ids = @ \cup {id}]
        /\ Show(detail, add([id |-> id, kind |-> "login", title |-> "named",
                             body |-> body, line |-> "none"]), DetailShown)
  BY DEF saveLogin
<1>. DEFINE item == [id |-> id, kind |-> "login", title |-> "named", body |-> body,
                     line |-> "none"]
            s == add(item)
<1>2. /\ Len(store.items) < ITEM_HARD_CAP /\ over' = [over EXCEPT !.sheet = "none"]
      /\ health' = scheduleHealthRecompute
      /\ past' = past \cup (IF store.status = "locked" THEN {"saved after lock"} ELSE {})
      /\ UNCHANGED <<mobile, mounted, editor, sync, lock, clip>>
  BY DEF saveLogin
<1>3. item \in Item /\ item.id = id
  BY DEF Item, Line, Title, PageAssumption
<1>4. Show(detail, s, DetailShown)
  BY <1>1
<1>. HIDE DEF item
<1>5. /\ s \in StoreRec /\ s.status = store.status /\ VaultOf(s.items, used.ids \cup {id})
      /\ IdsOf(store.items) \subseteq IdsOf(s.items)
      /\ \A i \in DOMAIN store.items : Keeps(s.items, store.items[i])
  BY <1>2, <1>3, AddIs
<1>. HIDE DEF s
<1>6. used' \in UsedRec /\ used'.ids = used.ids \cup {id}
  BY <1>1 DEF PageInv, ScreenInv, UsedRec
<1>7. past \subseteq past' /\ past' \subseteq Excuse /\ over' \in OverRec
  BY <1>2 DEF PageInv, ClipInv, ScreenInv, Excuse, OverRec
<1>8. ScreenInv' /\ PaneInv' /\ ItemsInv' /\ ClipInv' /\ store'.items = s.items
  BY <1>2, <1>4, <1>5, <1>6, <1>7, WrittenHolds, ShownOrNot DEF PageInv
<1>9. DraftInv'
  BY <1>2, <1>5, <1>7, <1>8, DraftWrites DEF PageInv
<1>. QED  BY <1>5, <1>8, <1>9 DEF PageInv

-----------------------------------------------------------------------------
(* The invariant, and what it says. *)

LEMMA PageBegins == ASSUME PageAssumption, PageInit  PROVE PageInv
<1>1. PICK items \in InitialVaults :
        /\ store = [status |-> "unlocked", items |-> items,
                    selected |-> FirstId(items), flag |-> NoId, filter |-> "all"]
        /\ detail = [NoDetail EXCEPT !.last = IF mobile THEN NoId ELSE FirstId(items)]
        /\ used = [ids |-> IdsOf(items), count |-> [u \in Uses |-> 0]]
  BY DEF PageInit
<1>2. /\ items \in Seq(Item) /\ Len(items) <= 1 /\ FirstId(items) \in IdOrNone
      /\ \A i \in DOMAIN items : i = 1 /\ items[i].id \in Ids
  <2>1. CASE items = <<>>
    BY <2>1 DEF FirstId, IdOrNone
  <2>2. CASE items # <<>>
    <3>1. PICK k \in ItemKinds :
            items = <<[id |-> CHOOSE i \in Ids : TRUE, kind |-> k, title |-> "named",
                       body |-> "strong", line |-> "none"]>>
      BY <2>2 DEF InitialVaults
    <3>2. (CHOOSE i \in Ids : TRUE) \in Ids
      BY DEF PageAssumption
    <3>. DEFINE item == [id |-> CHOOSE i \in Ids : TRUE, kind |-> k, title |-> "named",
                         body |-> "strong", line |-> "none"]
    <3>3. item \in Item /\ item.id \in Ids
      BY <3>2 DEF Item, Title, Body, Line
    <3>4. items = <<item>>
      BY <3>1
    <3>. HIDE DEF item
    <3>. QED  BY <3>3, <3>4 DEF FirstId, IdOrNone
  <2>. QED  BY <2>1, <2>2
<1>3. VaultOf(items, used.ids) /\ used \in UsedRec
  <2>1. Len(items) <= ITEM_HARD_CAP /\ Distinct(items)
    BY <1>2 DEF Distinct, PageAssumption
  <2>2. IdsOf(items) \subseteq Ids
    BY <1>2 DEF IdsOf
  <2>. QED  BY <1>1, <1>2, <2>1, <2>2 DEF VaultOf, UsedRec
<1>4. /\ mobile \in BOOLEAN /\ mounted = TRUE /\ editor = NoEditor /\ over = NoOverlay
      /\ health = [value |-> NoHealth, timer |-> TRUE, latest |-> {}, stale |-> {}]
      /\ sync = [pc |-> "idle", items |-> <<>>] /\ lock = [page |-> "idle", peer |-> "idle"]
      /\ clip = [holds |-> FALSE, timer |-> FALSE, copying |-> 0] /\ past = {}
  BY DEF PageInit
<1>5. ScreenInv
  <2>1. health \in HealthRec
    BY <1>4 DEF HealthRec, NoHealth, Report
  <2>2. over \in OverRec /\ lock \in LockRec
    BY <1>4 DEF NoOverlay, OverRec, LockRec
  <2>. QED  BY <1>3, <1>4, <2>1, <2>2 DEF ScreenInv
<1>6. PaneInv
  <2>1. store \in StoreRec /\ store.status = "unlocked"
    BY <1>1, <1>2 DEF StoreRec, IdOrNone
  <2>2. detail \in PaneRec /\ detail.revealed = {}
    BY <1>1, <1>2 DEF NoDetail, PaneRec, IdOrNone
  <2>. QED  BY <2>1, <2>2 DEF PaneInv, LockedIsEmpty
<1>7. ItemsInv
  <2>1. sync \in SyncRec /\ sync.items = <<>>
    BY <1>4 DEF SyncRec
  <2>. QED  BY <1>1, <1>3, <2>1, NothingInVault DEF ItemsInv
<1>8. DraftInv
  <2>1. editor \in EditorRec /\ editor.list.active = -1 /\ ~editor.open
    BY <1>4, EmptyEditor DEF NoEditor, NoList
  <2>2. instMatches(editor.form) \in 0 .. 2
    BY MatchesAre
  <2>. QED  BY <1>4, <2>1, <2>2 DEF DraftInv, SavedDraftIsKept
<1>9. ClipInv
  BY <1>4 DEF ClipInv, ClipRec
<1>. QED  BY <1>5, <1>6, <1>7, <1>8, <1>9 DEF PageInv

ItemsStep ==
  \/ confirmDelete \/ SaveNew \/ SaveEdit \/ saveLogin \/ Adopt
  \/ \E caller \in {"page", "peer"} : Teardown(caller)

LEMMA PageStep ==
  PageNext => \/ AsideStep \/ ClipStep \/ PaneStep \/ DraftStep \/ SyncStep
              \/ ItemsStep \/ lockVault
BY DEF PageNext, Browse, Edit, Background, SmallScreen, AsideStep, ClipStep, PaneStep,
       DraftStep, SyncStep, ItemsStep

LEMMA PageSteps ==
  ASSUME PageAssumption, PageInv, [PageNext]_pageVars  PROVE PageInv'
<1>1. CASE UNCHANGED pageVars
  <2>1. ScreenInv'
    BY <1>1, ScreenStays DEF pageVars, PageInv
  <2>2. PaneInv'
    BY <1>1, PaneStays DEF pageVars, PageInv
  <2>3. ItemsInv'
    BY <1>1, ItemsStay DEF pageVars, PageInv
  <2>4. DraftInv'
    BY <1>1, DraftStays DEF pageVars, PageInv
  <2>5. ClipInv'
    BY <1>1, ClipStays DEF pageVars, PageInv, ClipInv
  <2>. QED  BY <2>1, <2>2, <2>3, <2>4, <2>5 DEF PageInv
<1>2. CASE ItemsStep
  BY <1>2, DeleteHolds, SaveNewHolds, SaveEditHolds, SaveLoginHolds, AdoptHolds,
     TeardownHolds DEF ItemsStep
<1>. QED  BY <1>1, <1>2, PageStep, AsideHolds, ClipHolds, PaneHolds, DraftHolds, SyncHolds,
             LeaveHolds

LEMMA PageCorrect == PageSpec => []PageInv
<1>1. PageInit => PageInv
  BY PageBegins, PageAssumption
<1>2. PageInv /\ [PageNext]_pageVars => PageInv'
  BY PageSteps, PageAssumption
<1>. QED  BY <1>1, <1>2, PTL DEF PageSpec

(* The page of the vault: every reachable state is well typed, and no two  *)
(* items have one id.                                                      *)
THEOREM PageTyped == PageSpec => []PageTypeOK
<1>1. PageInv => PageTypeOK
  <2>. SUFFICES ASSUME PageInv  PROVE PageTypeOK
    OBVIOUS
  <2>1. /\ health.value \in Report /\ health.timer \in BOOLEAN
        /\ health.latest \subseteq Report /\ health.stale \subseteq Report
    BY DEF PageInv, ScreenInv, HealthRec
  <2>2. /\ clip.holds \in BOOLEAN /\ clip.timer \in BOOLEAN /\ clip.copying \in Nat
        /\ past \subseteq Excuse
    BY DEF PageInv, ClipInv, ClipRec
  <2>3. /\ mobile \in BOOLEAN /\ mounted \in BOOLEAN /\ over \in OverRec
        /\ lock \in LockRec /\ used \in UsedRec
    BY DEF PageInv, ScreenInv
  <2>4. store \in StoreRec /\ detail \in PaneRec
    BY DEF PageInv, PaneInv
  <2>5. sync \in SyncRec /\ Len(store.items) <= ITEM_HARD_CAP /\ Distinct(store.items)
    BY DEF PageInv, ItemsInv, VaultOf
  <2>6. editor \in EditorRec /\ editor.list.active \in -1 .. instMatches(editor.form) - 1
    BY DEF PageInv, DraftInv
  <2>. QED  BY <2>1, <2>2, <2>3, <2>4, <2>5, <2>6
            DEF PageTypeOK, OverRec, LockRec, UsedRec, StoreRec, PaneRec, SyncRec, EditorRec,
                ListRec, Distinct
<1>. QED  BY <1>1, PageCorrect, PTL

(* What is shown in clear or copied is hidden and cleared again, and a     *)
(* locked store shows nothing, in any order of timers, copies, resizes,    *)
(* syncs and locks, but for the causes the property names.                 *)
THEOREM SecretsAreGone == PageSpec => []SecretsDoNotStay
<1>1. PageInv => SecretsDoNotStay
  BY DEF PageInv, PaneInv, ClipInv, SecretsDoNotStay, SecretsAreTimed
<1>. QED  BY <1>1, PageCorrect, PTL

(* A save of the editor lands in the vault, unless its item had gone.      *)
THEOREM DraftsLand == PageSpec => []SavedDraftIsKept
<1>1. PageInv => SavedDraftIsKept
  BY DEF PageInv, DraftInv
<1>. QED  BY <1>1, PageCorrect, PTL

LEMMA ItemsGoAsAsked ==
  ASSUME PageAssumption, PageInv, PageNext, NEW i \in DOMAIN store.items
  PROVE  LET item == store.items[i] IN
         \/ Keeps(store.items', item)
         \/ detail.asked = item.id /\ item.id \notin IdsOf(store.items')
         \/ editor.open /\ editor.mode = "edit" /\ editor.initial = item.id
         \/ sync.pc = "promoted"
         \/ store'.status = "locked"
<1>1. ASSUME store'.items = store.items  PROVE Keeps(store'.items, store.items[i])
  BY <1>1 DEF Keeps
<1>2. CASE confirmDelete
  <2>. DEFINE s == remove(detail.asked)
  <2>1. VaultOf(store.items, used.ids) /\ store \in StoreRec
    BY DEF PageInv, ItemsInv, PaneInv
  <2>2. s.items = Without(store.items, detail.asked)
    BY <2>1 DEF remove, StoreRec
  <2>3. store' = s \/ store' = [s EXCEPT !.flag = NoId]
    BY <1>2 DEF confirmDelete, Show
  <2>4. store'.items = Without(store.items, detail.asked)
    BY <2>1, <2>2, <2>3 DEF remove, StoreRec
  <2>5. /\ IdsOf(store'.items) = IdsOf(store.items) \ {detail.asked}
        /\ store.items[i].id # detail.asked => Keeps(store'.items, store.items[i])
    BY <2>1, <2>4, WithoutOne
  <2>. QED  BY <2>5
<1>3. CASE SaveNew \/ saveLogin
  BY <1>3, SaveNewHolds, SaveLoginHolds
<1>4. CASE SaveEdit
  BY <1>4, SaveEditHolds DEF SaveEdit
<1>5. CASE Adopt
  BY <1>5 DEF Adopt
<1>6. ASSUME NEW caller \in {"page", "peer"}, Teardown(caller)
      PROVE  store'.status = "locked"
  <2>1. Show(detail, LockedStore, mounted /\ DetailShown)
    BY <1>6 DEF Teardown
  <2>2. store' = LockedStore \/ store' = [LockedStore EXCEPT !.flag = NoId]
    BY <2>1 DEF Show
  <2>. QED  BY <2>2 DEF LockedStore
<1>7. CASE AsideStep \/ DraftStep \/ ClipStep \/ SyncStep \/ lockVault
  <2>1. UNCHANGED store
    BY <1>7 DEF AsideStep, HealthTimer, HealthDone, StaleHealthDone, OpenPalette,
       ClosePalette, toggleQuickGenerator, CloseQuick, LockPage, Frame, AutoLock, PeerLock,
       PeerLocked, Sheet, DraftStep, openCreateEditor, openEditEditor, pickKind, TypeTitle,
       TypeField, BlurTimer, onTitleKeydown, Close, SaveRefused, openEditorForKind, ClipStep,
       Copied, ClipboardTimer, Copy, PaletteCopy, SyncStep, BeginSync, SyncFlushed,
       SyncNothing, SyncPromoted, lockVault
  <2>. QED  BY <2>1, <1>1
<1>8. CASE PaneStep
  <2>1. store'.items = store.items
    BY <1>8, PaneHolds
  <2>. QED  BY <2>1, <1>1
<1>. QED  BY <1>2, <1>3, <1>4, <1>5, <1>6, <1>7, <1>8, PageStep DEF ItemsStep

(* Nothing leaves the vault but what the user was asked about, the edited  *)
(* item, or by a sync or a lock.                                           *)
THEOREM ItemsAreKept == PageSpec => ItemsChangeAsAsked
<1>1. PageInv /\ [PageNext]_pageVars =>
        [\A i \in DOMAIN store.items :
           LET item == store.items[i] IN
           Keeps(store.items', item) \/
             \/ detail.asked = item.id /\ item.id \notin IdsOf(store.items')
             \/ editor.open /\ editor.mode = "edit" /\ editor.initial = item.id
             \/ sync.pc = "promoted"
             \/ store'.status = "locked"]_pageVars
  BY ItemsGoAsAsked, PageAssumption
<1>. QED  BY <1>1, PageCorrect, PTL DEF PageSpec, ItemsChangeAsAsked
=============================================================================
