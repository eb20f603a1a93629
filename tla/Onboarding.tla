---------------------------- MODULE Onboarding ----------------------------
(***************************************************************************)
(* The setup wizard in one tab: the onboarding store, its six steps and    *)
(* the /onboarding page, with the asynchronous work the steps start        *)
(* (generating a key, registering a passkey, provisioning) and that goes   *)
(* on when the user leaves the step.                                       *)
(*                                                                         *)
(* Abstractions.  A secret key, a device salt and a passkey are numbers in *)
(* the order they were made.  The store, a running provisioning and the    *)
(* row being written share byte buffers: `wiped' holds the buffers that    *)
(* were filled with zeros, and a reader takes the contents at the moment   *)
(* it reads them.  A policy-conforming Recovery Password is a Boolean.     *)
(***************************************************************************)
EXTENDS Naturals, FiniteSets, Sequences

CONSTANTS
  DemoAllowed,  \* isDemoAuthEnabled
  SyncSet,      \* isSyncOriginConfigured: subset of BOOLEAN
  MaxKeys,      \* bound: secret keys generated
  MaxBinds,     \* bound: passkeys registered
  MaxSalts,     \* bound: device salts
  MaxRuns,      \* bound: times the provisioning step is entered
  MaxLeaves,    \* bound: times a step is left backwards or the wizard left
  MaxFailures   \* bound: failing calls

ASSUME OnboardingAssumption ==
  /\ DemoAllowed \in BOOLEAN /\ SyncSet \subseteq BOOLEAN /\ SyncSet # {}
  /\ {MaxKeys, MaxBinds, MaxSalts, MaxRuns, MaxLeaves, MaxFailures} \subseteq Nat

VARIABLES
  page,     \* the route shown
  step,     \* onboarding.current
  ob,       \* the rest of the onboarding store
  secret,   \* StepSecret: its generate() calls in flight, and those of earlier mounts
  touch,    \* StepTouch: its phase, and the registration in flight
  binds,    \* the salt each registered passkey was evaluated at
  salts,    \* device salts made
  made,     \* secret keys made
  wiped,    \* buffers filled with zeros
  runs,     \* the runProvision calls
  disk,     \* account row, recovery envelope, quick-unlock row
  sync,     \* whether a sync server is configured
  loaded,   \* vault.status = unlocked
  kept,     \* history: secret keys the user confirmed having saved
  exposure, \* history: what may have mixed two passes
  leaves, failures

store == <<step, ob>>
work == <<secret, touch, runs>>
counters == <<binds, salts, made>>
setupVars == <<page, store, work, counters, wiped, disk, sync, loaded, kept, exposure,
              leaves, failures>>

STEPS == <<"welcome", "identity", "secret", "recovery", "touch", "provision">>
Index(s) == CHOOSE i \in DOMAIN STEPS : STEPS[i] = s

(* Contents of a buffer: 0 is a missing buffer, Zeros one filled with 0. *)
Zeros == MaxKeys + MaxBinds + MaxSalts + 1
Read(kind, n) == IF <<kind, n>> \in wiped THEN Zeros ELSE n
Contents == (0 .. MaxKeys + MaxBinds + MaxSalts) \cup {Zeros}

Empty ==
  [label |-> FALSE, key |-> 0, confirmed |-> FALSE, pwd |-> FALSE, pwdOk |-> FALSE,
   bound |-> FALSE, mode |-> "none", salt |-> 0, prf |-> 0, cred |-> 0,
   quick |-> TRUE, provisioned |-> FALSE]

NoRun == [pc |-> "unused", key |-> 0, salt |-> 0, prf |-> 0, cred |-> 0, mode |-> "none",
          password |-> 0, vault |-> <<0, 0, 0>>, mounted |-> FALSE]

NoRows == [exists |-> FALSE, key |-> 0, prf |-> 0, derived |-> 0, salt |-> 0,
           cred |-> 0, mode |-> "none", opaque |-> 0, envelope |-> 0, quick |-> 0]

IdleSecret == [mine |-> 0, old |-> 0, generating |-> FALSE]
IdleTouch == [phase |-> "idle", pending |-> 0, mine |-> FALSE, ask |-> FALSE]

Ended == {"unused", "done", "failed", "redirected"}
Running == {r \in 1 .. MaxRuns : runs[r].pc \notin Ended}

SetupInit ==
  /\ page = "home" /\ step = "welcome" /\ ob = Empty
  /\ secret = IdleSecret /\ touch = IdleTouch
  /\ runs = [r \in 1 .. MaxRuns |-> NoRun]
  /\ binds = <<>> /\ salts = 0 /\ made = 0 /\ wiped = {}
  /\ disk = NoRows /\ sync \in SyncSet /\ loaded = FALSE
  /\ kept = {} /\ exposure = {} /\ leaves = 0 /\ failures = 0

SetupTypeOK ==
  /\ page \in {"home", "setup", "unlock", "vault"}
  /\ step \in {STEPS[i] : i \in DOMAIN STEPS}
  /\ ob \in [label : BOOLEAN, key : Contents, confirmed : BOOLEAN, pwd : BOOLEAN,
             pwdOk : BOOLEAN, bound : BOOLEAN, mode : {"none", "production", "demo"},
             salt : Contents, prf : Contents, cred : Contents, quick : BOOLEAN,
             provisioned : BOOLEAN]
  /\ secret.mine \in Nat /\ secret.old \in Nat /\ secret.generating \in BOOLEAN
  /\ touch.phase \in {"idle", "scanning", "success", "error"}
  /\ touch.pending \in 0 .. MaxSalts
  /\ \A r \in 1 .. MaxRuns :
       runs[r].pc \in {"gate", "loading", "saving", "enrolling", "registering", "rotating",
                       "resealing", "login", "stretching", "quick"} \cup Ended
  /\ disk.exists = (disk.mode # "none")
  /\ disk.opaque # 0 \/ disk.envelope # 0 \/ disk.quick # 0 => disk.exists
  /\ made <= MaxKeys /\ salts <= MaxSalts /\ Len(binds) <= MaxBinds
  /\ exposure \subseteq {"key replaced", "left provisioning", "stale passkey"}

-----------------------------------------------------------------------------
(* The store. *)

CanAdvance ==
  CASE step = "welcome"   -> TRUE
    [] step = "identity"  -> ob.label
    [] step = "secret"    -> ob.confirmed
    [] step = "recovery"  -> ob.pwd /\ ob.pwdOk
    [] step = "touch"     -> ob.bound /\ ob.mode # "none"
    [] step = "provision" -> ob.provisioned

(* Filling the buffers of the store with zeros, as reset() does. *)
Wiping(buffers) == wiped \cup {b \in buffers : b[2] # 0}
WipedByReset == Wiping({<<"key", ob.key>>, <<"salt", ob.salt>>, <<"prf", ob.prf>>})

(* A component leaves the page: its calls go on, unseen. *)
OldSecret == [mine |-> 0, old |-> secret.old + secret.mine, generating |-> FALSE]
OldTouch == [touch EXCEPT !.mine = FALSE, !.phase = "idle", !.ask = FALSE]
OldRuns == [r \in 1 .. MaxRuns |-> [runs[r] EXCEPT !.mounted = FALSE]]

(* generate() up to its first await. *)
Generating(s) == [s EXCEPT !.mine = @ + 1, !.generating = TRUE]
WithoutKey(o) == [o EXCEPT !.key = 0, !.confirmed = FALSE]

(* runProvision up to its first await: it refuses to start without the inputs. *)
StartRun(rs) ==
  LET r == CHOOSE r \in 1 .. MaxRuns : runs[r].pc = "unused"
      complete == ob.key # 0 /\ ob.cred # 0 /\ ob.mode # "none" /\ ob.salt # 0
  IN [rs EXCEPT ![r] = [NoRun EXCEPT !.pc = IF complete THEN "gate" ELSE "failed",
                                     !.mounted = TRUE]]

(* Step `s' is mounted in place of the current one: what its effects do first. *)
Mount(s) ==
  /\ step' = s
  /\ touch' = OldTouch
  /\ secret' = IF s = "secret" /\ ob.key = 0 THEN Generating(OldSecret) ELSE OldSecret
  /\ ob' = CASE s = "secret" /\ ob.key = 0 -> WithoutKey(ob)
             [] s = "recovery" -> [ob EXCEPT !.pwd = FALSE, !.pwdOk = FALSE]
             [] OTHER -> ob
  /\ runs' = IF s = "provision" THEN StartRun(OldRuns) ELSE OldRuns

LeftProvisioning ==
  exposure' = exposure \cup {e \in {"left provisioning"} : Running # {}}

(* What each step offers besides Back and Continue, which the arrow keys    *)
(* reach from any step; Exit stands in the header of all of them.          *)
HeaderControls == IF page = "setup" THEN {"exit"} ELSE {}
On(s, controls) == IF page = "setup" /\ step = s THEN controls ELSE {}
If(enabled, control) == {c \in {control} : enabled}

IdentityControls == On("identity", {"label"})
SecretControls ==
  On("secret", If(~secret.generating, "regenerate") \cup If(ob.key # 0, "confirm"))
RecoveryControls == On("recovery", {"password"} \cup If(ob.pwd, "confirm"))
TouchControls ==
  On("touch", {"bind"}
       \cup If(touch.phase = "success" /\ ob.mode = "production", "quick")
       \cup If(DemoAllowed /\ touch.ask, "use demo")
       \cup If(DemoAllowed /\ ob.mode # "production", "demo"))
ProvisionControls ==
  On("provision",
     {c \in {"restart", "enter"} : \E r \in 1 .. MaxRuns :
        /\ runs[r].mounted
        /\ runs[r].pc = (IF c = "enter" THEN "done" ELSE "failed")})

next ==
  /\ page = "setup" /\ CanAdvance /\ Index(step) < Len(STEPS)
  /\ step = "touch" => \E r \in 1 .. MaxRuns : runs[r].pc = "unused"
  /\ Mount(STEPS[Index(step) + 1])
  /\ UNCHANGED <<page, counters, wiped, disk, sync, loaded, kept,
                 exposure, leaves, failures>>

(* Always allowed, from the provisioning step too. *)
prev ==
  /\ page = "setup" /\ Index(step) > 1 /\ leaves < MaxLeaves
  /\ leaves' = leaves + 1
  /\ Mount(STEPS[Index(step) - 1])
  /\ LeftProvisioning
  /\ UNCHANGED <<page, counters, wiped, disk, sync, loaded, kept, failures>>

reset ==
  /\ step' = "welcome"
  /\ ob' = Empty
  /\ wiped' = WipedByReset
  /\ secret' = OldSecret /\ touch' = OldTouch /\ runs' = OldRuns

(* Exit, or "Restart onboarding" after a failure. *)
confirmExit ==
  /\ "exit" \in HeaderControls /\ leaves < MaxLeaves
  /\ leaves' = leaves + 1
  /\ page' = "home"
  /\ reset /\ LeftProvisioning
  /\ UNCHANGED <<counters, disk, sync, loaded, kept, failures>>

retryOnboarding ==
  /\ "restart" \in ProvisionControls /\ leaves < MaxLeaves
  /\ leaves' = leaves + 1
  /\ reset /\ LeftProvisioning
  /\ UNCHANGED <<page, counters, disk, sync, loaded, kept, failures>>

(* The load guard and routeExistingAccount of /onboarding. *)
routeExistingAccount ==
  /\ page = "home"
  /\ IF disk.exists
       THEN /\ page' = IF loaded THEN "vault" ELSE "unlock"
            /\ UNCHANGED <<store, work, wiped>>
       ELSE page' = "setup" /\ reset
  /\ UNCHANGED <<counters, disk, sync, loaded, kept, exposure, leaves, failures>>

-----------------------------------------------------------------------------
(* The steps. *)

pickSuggestion ==
  /\ "label" \in IdentityControls /\ ~ob.label
  /\ ob' = [ob EXCEPT !.label = TRUE]
  /\ UNCHANGED <<page, step, work, counters, wiped, disk, sync, loaded, kept,
                 exposure, leaves, failures>>

(* Regenerate drops the key, and the effect that makes a key when there is *)
(* none starts a second generate() beside the one of the button.           *)
Regenerate ==
  /\ "regenerate" \in SecretControls
  /\ made < MaxKeys
  /\ ob' = WithoutKey(ob)
  /\ secret' = Generating(Generating(secret))
  /\ UNCHANGED <<page, step, touch, runs, counters, wiped, disk, sync, loaded, kept,
                 exposure, leaves, failures>>

(* The end of a generate(): it replaces the key and leaves the confirmation. *)
generate ==
  /\ made < MaxKeys
  /\ \/ /\ secret.mine > 0
        /\ secret' = [secret EXCEPT !.mine = @ - 1, !.generating = FALSE]
     \/ /\ secret.old > 0
        /\ secret' = [secret EXCEPT !.old = @ - 1]
  /\ made' = made + 1
  /\ ob' = [ob EXCEPT !.key = made + 1]
  /\ exposure' = exposure \cup {e \in {"key replaced"} : ob.confirmed}
  /\ UNCHANGED <<page, step, touch, runs, binds, salts, wiped, disk, sync, loaded, kept,
                 leaves, failures>>

toggleConfirm ==
  /\ "confirm" \in SecretControls
  /\ ob' = [ob EXCEPT !.confirmed = ~@]
  /\ kept' = IF ob.confirmed THEN kept ELSE kept \cup {ob.key}
  /\ UNCHANGED <<page, step, work, counters, wiped, disk, sync, loaded,
                 exposure, leaves, failures>>

(* Typing into either field: the password counts while both fields match. *)
syncState ==
  /\ "password" \in RecoveryControls /\ (ob.pwd => ob.pwdOk)
  /\ ob' = [ob EXCEPT !.pwd = ~@, !.pwdOk = FALSE]
  /\ UNCHANGED <<page, step, work, counters, wiped, disk, sync, loaded, kept,
                 exposure, leaves, failures>>

toggleRecovery ==
  /\ "confirm" \in RecoveryControls
  /\ ob' = [ob EXCEPT !.pwdOk = ~@ /\ ob.pwd]
  /\ UNCHANGED <<page, step, work, counters, wiped, disk, sync, loaded, kept,
                 exposure, leaves, failures>>

(* Mutant: every attempt makes a new salt. *)
bindMutant ==
  /\ "bind" \in TouchControls /\ touch.phase # "scanning"
  /\ Len(binds) < MaxBinds
  /\ salts < MaxSalts
  /\ salts' = salts + 1
  /\ ob' = [ob EXCEPT !.salt = salts + 1]
  /\ touch' = IF touch.pending = 0
                THEN [touch EXCEPT !.phase = "scanning", !.mine = TRUE, !.pending = ob'.salt]
                ELSE [touch EXCEPT !.phase = "error"]
  /\ ob' # ob \/ touch' # touch
  /\ UNCHANGED <<page, step, secret, runs, binds, made, wiped, disk, sync, loaded, kept,
                 exposure, leaves, failures>>

(* The browser runs one registration at a time and refuses a second. *)
bind ==
  /\ "bind" \in TouchControls /\ touch.phase # "scanning"
  /\ Len(binds) < MaxBinds
  /\ ob.salt = 0 => salts < MaxSalts
  /\ salts' = IF ob.salt = 0 THEN salts + 1 ELSE salts
  /\ ob' = [ob EXCEPT !.salt = IF @ = 0 THEN salts + 1 ELSE @]
  /\ touch' = IF touch.pending = 0
                THEN [touch EXCEPT !.phase = "scanning", !.mine = TRUE, !.pending = ob'.salt]
                ELSE [touch EXCEPT !.phase = "error"]
  /\ ob' # ob \/ touch' # touch
  /\ UNCHANGED <<page, step, secret, runs, binds, made, wiped, disk, sync, loaded, kept,
                 exposure, leaves, failures>>

(* Its result, wherever the wizard is by then. *)
BindSucceeds ==
  /\ touch.pending # 0 /\ Len(binds) < MaxBinds
  /\ binds' = Append(binds, touch.pending)
  /\ ob' = [ob EXCEPT !.cred = Len(binds'), !.prf = Len(binds'), !.bound = TRUE,
                      !.mode = "production", !.quick = TRUE]
  /\ touch' = [touch EXCEPT !.pending = 0, !.mine = FALSE,
                            !.phase = IF touch.mine THEN "success" ELSE @]
  /\ exposure' = exposure \cup
       {e \in {"stale passkey"} : touch.pending # ob.salt \/ Running # {}}
  /\ UNCHANGED <<page, step, secret, runs, salts, made, wiped, disk, sync, loaded, kept,
                 leaves, failures>>

(* Declined, unsupported or without PRF: nothing is bound. *)
BindFails ==
  /\ touch.pending # 0 /\ failures < MaxFailures
  /\ failures' = failures + 1
  /\ touch' = [touch EXCEPT !.pending = 0, !.mine = FALSE,
                            !.phase = IF touch.mine THEN "error" ELSE @]
  /\ UNCHANGED <<page, store, secret, runs, counters, wiped, disk, sync, loaded, kept,
                 exposure, leaves>>

(* The request for demo mode, and its Cancel. *)
chooseDemoMode ==
  /\ {"demo", "use demo"} \cap TouchControls # {}
  /\ touch' = [touch EXCEPT !.ask = ~@]
  /\ UNCHANGED <<page, store, secret, runs, counters, wiped, disk, sync, loaded, kept,
                 exposure, leaves, failures>>

confirmDemoMode ==
  /\ "use demo" \in TouchControls /\ Len(binds) < MaxBinds
  /\ ob.salt = 0 => salts < MaxSalts
  /\ salts' = IF ob.salt = 0 THEN salts + 1 ELSE salts
  /\ ob' = [ob EXCEPT !.salt = IF @ = 0 THEN salts + 1 ELSE @, !.cred = Len(binds) + 1,
                      !.bound = TRUE, !.mode = "demo", !.quick = FALSE, !.prf = 0]
  /\ binds' = Append(binds, ob'.salt)
  /\ touch' = [touch EXCEPT !.phase = "success"]
  /\ UNCHANGED <<page, step, secret, runs, made, wiped, disk, sync, loaded, kept,
                 exposure, leaves, failures>>

toggleQuick ==
  /\ "quick" \in TouchControls /\ ob.quick
  /\ ob' = [ob EXCEPT !.quick = FALSE]
  /\ UNCHANGED <<page, step, work, counters, wiped, disk, sync, loaded, kept,
                 exposure, leaves, failures>>

-----------------------------------------------------------------------------
(* runProvision, one action per stretch between two awaits. *)

Continue(r, pc) == runs' = [runs EXCEPT ![r].pc = pc]
KeepPage == UNCHANGED <<page, store, secret, touch, counters, wiped, sync, loaded, kept, leaves>>

(* The run throws: the message goes to the component, mounted or not. *)
Fail(r) == Continue(r, "failed") /\ UNCHANGED disk /\ KeepPage

Faulty == failures < MaxFailures /\ failures' = failures + 1

(* verifyBundleIntegrity, then the lazy imports. *)
PassGate(r) ==
  /\ runs[r].pc = "gate"
  /\ Continue(r, "loading") /\ UNCHANGED <<disk, failures, exposure>> /\ KeepPage

Refused(r) ==
  /\ runs[r].pc \in {"gate", "loading", "saving"} /\ Faulty
  /\ Fail(r) /\ UNCHANGED exposure

(* The salt and the PRF output are captured, provisionVault derives the   *)
(* vault key, and the rows wait for their transaction.                    *)
provisionVault(r) ==
  LET prf == IF ob.mode = "demo" THEN ob.cred ELSE Read("prf", ob.prf)
      ready == /\ ob.key # 0 /\ ob.salt # 0 /\ ob.mode # "none"
               /\ ob.mode = "production" => ob.prf # 0
  IN /\ runs[r].pc = "loading"
     /\ runs' = [runs EXCEPT ![r] =
          IF ~ready THEN [@ EXCEPT !.pc = "failed"]
          ELSE [@ EXCEPT !.pc = "saving", !.salt = ob.salt, !.prf = ob.prf, !.cred = ob.cred,
                         !.mode = ob.mode,
                         !.vault = <<Read("key", ob.key), prf, Read("salt", ob.salt)>>]]
     /\ UNCHANGED <<disk, failures, exposure>> /\ KeepPage

(* enableRecoveryEnvelope up to the Argon2 stretch: the policy refuses a   *)
(* password the store has dropped.                                         *)
Enveloping(run) ==
  IF ob.pwd /\ ob.key # 0
    THEN [run EXCEPT !.pc = "stretching", !.key = ob.key]
    ELSE [run EXCEPT !.pc = "failed"]
ToEnvelope(r) == runs' = [runs EXCEPT ![r] = Enveloping(@)]

(* saveAccountAndVault with the single-writer guard.  The salt in the row  *)
(* is what the shared buffer holds when the row is written.                *)
saveAccountAndVault(r) ==
  /\ runs[r].pc = "saving" /\ ~disk.exists
  /\ disk' = [NoRows EXCEPT !.exists = TRUE, !.key = runs[r].vault[1],
                 !.prf = runs[r].vault[2], !.derived = runs[r].vault[3],
                 !.salt = Read("salt", runs[r].salt), !.cred = runs[r].cred,
                 !.mode = runs[r].mode]
  /\ IF sync /\ ob.mode = "production" THEN Continue(r, "enrolling") ELSE ToEnvelope(r)
  /\ UNCHANGED <<failures, exposure>> /\ KeepPage

(* account-exists: the page goes to /unlock, whatever it shows by now. *)
AccountExists(r) ==
  /\ runs[r].pc = "saving" /\ disk.exists
  /\ runs' = [OldRuns EXCEPT ![r].pc = "redirected"]
  /\ page' = "unlock"
  /\ secret' = OldSecret /\ touch' = OldTouch
  /\ UNCHANGED <<store, counters, wiped, disk, sync, loaded, kept,
                 exposure, leaves, failures>>

(* The OPAQUE password is the key the store holds after the digest. *)
register(r) ==
  /\ runs[r].pc = "enrolling"
  /\ IF ob.key = 0 THEN ToEnvelope(r)
     ELSE runs' = [runs EXCEPT ![r].pc = "registering", ![r].password = Read("key", ob.key)]
  /\ UNCHANGED <<disk, failures, exposure>> /\ KeepPage

(* The server has answered: rotateAuth gets the key the store holds now. *)
Registered(r) ==
  /\ runs[r].pc = "registering"
  /\ IF ob.key = 0 THEN ToEnvelope(r)
     ELSE runs' = [runs EXCEPT ![r].pc = "rotating", ![r].key = ob.key]
  /\ UNCHANGED <<disk, failures, exposure>> /\ KeepPage

(* ... and derives the new vault key from its buffers after reading the row. *)
rotateAuth(r) ==
  /\ runs[r].pc = "rotating"
  /\ runs' = [runs EXCEPT ![r].pc = "resealing",
                 ![r].vault = <<Read("key", runs[r].key),
                               IF disk.mode = "demo" THEN disk.cred ELSE Read("prf", runs[r].prf),
                               disk.salt>>]
  /\ UNCHANGED <<disk, failures, exposure>> /\ KeepPage

Resealed(r) ==
  /\ runs[r].pc = "resealing"
  /\ disk' = [disk EXCEPT !.key = runs[r].vault[1], !.prf = runs[r].vault[2],
                          !.derived = runs[r].vault[3], !.opaque = runs[r].password]
  /\ Continue(r, "login")
  /\ UNCHANGED <<failures, exposure>> /\ KeepPage

(* The first login opens the sync session; a failure is only noted. *)
LoggedIn(r) ==
  /\ runs[r].pc = "login"
  /\ ToEnvelope(r)
  /\ UNCHANGED <<disk, failures, exposure>> /\ KeepPage

(* A failing enrolment is not fatal: the vault stays local-only. *)
EnrolmentFails(r) ==
  /\ runs[r].pc \in {"registering", "rotating", "resealing"} /\ Faulty
  /\ ToEnvelope(r)
  /\ UNCHANGED <<disk, exposure>> /\ KeepPage

(* The end of the stretch: the envelope is sealed under the key's buffer. *)
enableRecoveryEnvelope(r) ==
  /\ runs[r].pc = "stretching"
  /\ disk' = [disk EXCEPT !.envelope = Read("key", runs[r].key)]
  /\ runs' = [runs EXCEPT ![r].pc = "quick", ![r].key = ob.key]
  /\ UNCHANGED <<failures, exposure>> /\ KeepPage

(* Mutant: a failing envelope is only noted. *)
EnvelopeFailsMutant(r) ==
  /\ runs[r].pc = "stretching" /\ Faulty
  /\ runs' = [runs EXCEPT ![r].pc = "quick", ![r].key = ob.key]
  /\ UNCHANGED <<disk, exposure>> /\ KeepPage

EnvelopeFails(r) ==
  /\ runs[r].pc = "stretching" /\ Faulty
  /\ Fail(r) /\ UNCHANGED exposure

(* Quick unlock if wanted; then zeroizeSecrets, and the vault is loaded.   *)
(* A StepSecret mounted by then makes a new key.                           *)
Finish(r) ==
  LET used == [ob EXCEPT !.key = 0, !.pwd = FALSE, !.prf = 0, !.salt = 0, !.provisioned = TRUE]
      again == page = "setup" /\ step = "secret" /\ ob.key # 0
  IN /\ runs[r].pc = "quick"
     /\ \E saved \in BOOLEAN :
          /\ ~saved => (ob.mode = "production" /\ ob.quick => failures < MaxFailures)
          /\ saved => (ob.mode = "production" /\ ob.quick /\ runs[r].key # 0)
          /\ disk' = IF saved THEN [disk EXCEPT !.quick = Read("key", runs[r].key)] ELSE disk
          /\ failures' = failures + IF ~saved /\ failures < MaxFailures THEN 1 ELSE 0
     /\ wiped' = Wiping({<<"prf", runs[r].prf>>, <<"prf", ob.prf>>, <<"key", ob.key>>})
     /\ ob' = IF again THEN WithoutKey(used) ELSE used
     /\ secret' = IF again THEN Generating(secret) ELSE secret
     /\ loaded' = TRUE
     /\ Continue(r, "done")
     /\ UNCHANGED <<page, step, touch, counters, sync, kept, exposure, leaves>>

enterVault ==
  /\ "enter" \in ProvisionControls
  /\ page' = "vault"
  /\ secret' = OldSecret /\ touch' = OldTouch /\ runs' = OldRuns
  /\ UNCHANGED <<store, counters, wiped, disk, sync, loaded, kept,
                 exposure, leaves, failures>>

(* The tab is reloaded or closed: memory is gone, the rows stay. *)
Reload ==
  /\ leaves < MaxLeaves /\ leaves' = leaves + 1
  /\ page' = "home" /\ step' = "welcome" /\ ob' = Empty
  /\ secret' = IdleSecret /\ touch' = IdleTouch
  /\ runs' = [r \in 1 .. MaxRuns |-> IF r \in Running THEN [NoRun EXCEPT !.pc = "failed"]
                                     ELSE [runs[r] EXCEPT !.mounted = FALSE]]
  /\ loaded' = FALSE
  /\ UNCHANGED <<counters, wiped, disk, sync, kept, exposure, failures>>

-----------------------------------------------------------------------------

Wizard == next \/ prev \/ confirmExit \/ retryOnboarding \/ routeExistingAccount \/ enterVault
StepWork ==
  pickSuggestion \/ Regenerate \/ generate \/ toggleConfirm \/ syncState \/ toggleRecovery
    \/ bind \/ BindSucceeds \/ BindFails \/ chooseDemoMode \/ confirmDemoMode \/ toggleQuick
Provision(r) ==
  \/ PassGate(r) \/ Refused(r) \/ provisionVault(r) \/ saveAccountAndVault(r)
  \/ AccountExists(r) \/ register(r) \/ Registered(r) \/ rotateAuth(r) \/ Resealed(r)
  \/ LoggedIn(r) \/ EnrolmentFails(r) \/ enableRecoveryEnvelope(r) \/ EnvelopeFails(r)
  \/ Finish(r)

SetupNext == Wizard \/ StepWork \/ Reload \/ \E r \in 1 .. MaxRuns : Provision(r)

SetupSpec == SetupInit /\ [][SetupNext]_setupVars

-----------------------------------------------------------------------------

(* Whoever holds the secret key they confirmed, and the passkey of this    *)
(* device, opens the vault: the row is sealed under a confirmed key, under *)
(* the PRF value of its own credential at the salt in the row, and the     *)
(* server knows the same key as the OPAQUE password                        *)
(* (StepProvision.svelte, StepTouch.svelte 40-48).                         *)
AccountOpens ==
  disk.exists =>
    /\ disk.key \in kept
    /\ disk.prf = disk.cred /\ disk.cred \in DOMAIN binds
    /\ disk.salt = binds[disk.cred] /\ disk.derived = disk.salt
    /\ disk.opaque \in {0, disk.key}

(* It opens unless a confirmed key was replaced under the user, the step   *)
(* was left while it ran, or a passkey answered after a reset or while the *)
(* vault was being made; a reload at any await breaks nothing.             *)
OpensUnlessDisturbed == exposure = {} => AccountOpens

(* "Vault provisioned" is only ever said of a vault that can be recovered: *)
(* the envelope and the cached key are those of the row, unless the step   *)
(* was left or the key replaced (a failing envelope ends the run, a        *)
(* failing quick unlock does not).                                         *)
DoneMeansRecoverable ==
  (loaded /\ exposure \subseteq {"stale passkey"}) =>
    /\ disk.envelope = disk.key
    /\ disk.quick \in {0, disk.key}
=============================================================================
