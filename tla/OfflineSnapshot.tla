---------------------------- MODULE OfflineSnapshot ----------------------------
(***************************************************************************)
(* The pinned snapshot: service-worker.ts, lib/pwa/pwa.svelte.ts, the      *)
(* verifier of lib/utils/env.ts and the reload of routes/+layout.svelte,   *)
(* over an origin that goes from one release to the next, a browser that   *)
(* may evict what it caches, and tabs.                                     *)
(*                                                                         *)
(* What a URL holds is the release it is of.  The chunks of a release are  *)
(* one URL of their own, the manifest lists them and the worker's file;    *)
(* the shell stands for the pages, which no manifest lists.                *)
(***************************************************************************)
EXTENDS Naturals, Sequences, FiniteSets, Functions

CONSTANTS Tabs,
          MaxRelease,      \* releases deployed
          MaxEvictions     \* files the browser drops

ASSUME ReleaseAssumption == MaxRelease \in Nat \ {0} /\ MaxEvictions \in Nat

VARIABLES origin,        \* the release the origin serves
          registration,  \* the installing, the waiting and the active worker
          cache,         \* the snapshot caches, by the release of their worker
          repair,        \* a run of repairSnapshot
          tab,           \* the tabs
          consented,     \* workers told to skip waiting
          agreed,        \* releases a toast named when the user applied it
          evictions, exposure

snapshotVars == <<origin, registration, cache, repair, tab, consented, agreed,
                  evictions, exposure>>

Releases == 1..MaxRelease
None == 0
Manifest == <<"manifest", 0>>
Worker == <<"worker", 0>>
Shell == <<"shell", 0>>
Chunk(r) == <<"chunk", r>>

PRECACHE(r) == {Worker, Shell, Chunk(r)}
ManifestKeys(r) == {Worker, Chunk(r)}

PutAll(entries, got) ==
  [u \in DOMAIN entries \cup DOMAIN got |-> IF u \in DOMAIN got THEN got[u] ELSE entries[u]]
Put(entries, url, r) == PutAll(entries, [u \in {url} |-> r])

(* What the origin answers: a file it has, or nothing. *)
Served(url) == IF url[1] = "chunk" THEN {url[2]} \cap {origin} ELSE {origin}

(* A subresource: from the snapshot, or from the network, and then kept.   *)
(* None is a failure.                                                      *)
Fetch(entries, url, controlled) ==
  IF controlled /\ url \in DOMAIN entries THEN {entries[url]} ELSE Served(url) \cup {None}
Kept(entries, url, controlled, r) ==
  IF controlled /\ r # None THEN Put(entries, url, r) ELSE entries

Pinned == cache[registration.active]
Closed == [at |-> "closed"]
Open(t) == tab[t].at = "open"
Controlled(t) == Open(t) /\ tab[t].controlled
Listening(t) == Open(t) /\ tab[t].listening = "yes"
Expose(what, when) == exposure' = exposure \cup (IF when THEN {what} ELSE {})
NoWorker == [installing |-> None, manifest |-> None, purged |-> FALSE, waiting |-> None,
             active |-> None]
Idling == [at |-> "idle"]

SnapshotInit ==
  /\ origin = 1
  /\ registration = NoWorker
  /\ cache = [r \in 0..MaxRelease |-> <<>>]
  /\ repair = Idling
  /\ tab = [t \in Tabs |-> Closed]
  /\ consented = {} /\ agreed = {}
  /\ evictions = 0 /\ exposure = {}

-----------------------------------------------------------------------------
(* The world: a release, an eviction, a tab closed. *)

Deploy ==
  /\ origin < MaxRelease
  /\ origin' = origin + 1
  /\ UNCHANGED <<registration, cache, repair, tab, consented, agreed, evictions, exposure>>

Evict(url) ==
  /\ evictions < MaxEvictions
  /\ registration.active # None /\ url \in DOMAIN Pinned
  /\ cache' = [cache EXCEPT ![registration.active] = Restrict(@, DOMAIN @ \ {url})]
  /\ evictions' = evictions + 1
  /\ UNCHANGED <<origin, registration, repair, tab, consented, agreed, exposure>>

CloseTab(t) ==
  /\ Open(t)
  /\ tab' = [tab EXCEPT ![t] = Closed]
  /\ UNCHANGED <<origin, registration, cache, repair, consented, agreed, evictions, exposure>>

-----------------------------------------------------------------------------
(* The worker.  Installing fetches the manifest, keeps it at once, and     *)
(* adds the rest or nothing; requests are answered one by one, by whatever *)
(* the origin has become.  What it adds after its cache was deleted by an  *)
(* activation is lost.                                                     *)

Newest == IF registration.waiting # None THEN registration.waiting ELSE registration.active

(* A page registers the worker; then any navigation looks for a newer one. *)
UpdateFound ==
  /\ Newest # None \/ \E t \in Tabs : Open(t) /\ tab[t].listening # "never"
  /\ registration.installing = None
  /\ origin # Newest
  /\ registration' = [registration EXCEPT !.installing = origin, !.manifest = None,
                                          !.purged = FALSE]
  /\ UNCHANGED <<origin, cache, repair, tab, consented, agreed, evictions, exposure>>

InstallManifest ==
  /\ registration.installing # None /\ registration.manifest = None
  /\ registration' = [registration EXCEPT !.manifest = origin]
  /\ cache' = IF registration.purged THEN cache
              ELSE [cache EXCEPT ![registration.installing] = Put(@, Manifest, origin)]
  /\ UNCHANGED <<origin, repair, tab, consented, agreed, evictions, exposure>>

InstallFailed ==
  /\ registration.installing # None
  /\ registration' = [registration EXCEPT !.installing = None, !.manifest = None]
  /\ UNCHANGED <<origin, cache, repair, tab, consented, agreed, evictions, exposure>>

Announcing(tabs, worker) ==
  [t \in Tabs |-> IF t \in tabs THEN [tab[t] EXCEPT !.asking = worker] ELSE tab[t]]

(* A tab that began to listen while the worker was being installed may     *)
(* have been too late for updatefound; which tabs heard is left open.      *)
Installed ==
  LET worker == registration.installing
      urls == PRECACHE(worker) \cup ManifestKeys(registration.manifest)
  IN
  /\ worker # None /\ registration.manifest # None
  /\ \E got \in [urls -> registration.manifest..origin] :
       /\ \A url \in urls : url[1] = "chunk" => got[url] = url[2]
       /\ cache' = IF registration.purged THEN cache
                   ELSE [cache EXCEPT ![worker] = PutAll(@, got)]
       /\ Expose("deploy during install", \E url \in urls : got[url] # worker)
  /\ registration' = [registration EXCEPT !.installing = None, !.manifest = None,
                                          !.waiting = worker]
  /\ \E heard \in SUBSET {t \in Tabs : Controlled(t) /\ Listening(t)} :
       tab' = Announcing(heard, worker)
  /\ UNCHANGED <<origin, repair, consented, agreed, evictions>>

MayActivateMutant == registration.waiting # None

(* Once told to, or once the active worker controls no tab. *)
MayActivate ==
  /\ registration.waiting # None
  /\ registration.waiting \in consented \/ \A t \in Tabs : ~Controlled(t)

(* The waiting worker purges the other snapshots and claims every tab.     *)
Activate ==
  /\ MayActivate
  /\ registration' = [registration EXCEPT !.waiting = None, !.active = registration.waiting,
                                          !.purged = registration.installing # None]
  /\ cache' = [r \in DOMAIN cache |-> IF r = registration.waiting THEN cache[r] ELSE <<>>]
  /\ tab' = [t \in Tabs |-> IF Open(t) THEN [tab[t] EXCEPT !.controlled = TRUE, !.changed = @ + 1]
                            ELSE tab[t]]
  /\ exposure' = exposure
       \cup {"claimed" : t \in {t \in Tabs : Open(t) /\ ~tab[t].controlled
                                              /\ tab[t].page # registration.waiting}}
       \cup {"claimed while verifying" : t \in {t \in Tabs : Open(t) /\ tab[t].check = "files"}}
       \cup {"purged while installing" : w \in {registration.installing} \ {None}}
  /\ UNCHANGED <<origin, repair, consented, agreed, evictions>>

-----------------------------------------------------------------------------
(* repairSnapshot *)

RepairManifest ==
  /\ repair.at = "asked"
  /\ IF Manifest \in DOMAIN Pinned
     THEN /\ repair' = [at |-> "refill", worker |-> registration.active,
                        manifest |-> Pinned[Manifest], hashed |-> TRUE]
          /\ UNCHANGED <<cache, exposure>>
     ELSE \/ repair' = Idling /\ UNCHANGED <<cache, exposure>>
          \/ /\ repair' = [at |-> "refill", worker |-> registration.active,
                           manifest |-> origin, hashed |-> FALSE]
             /\ cache' = [cache EXCEPT ![registration.active] = Put(@, Manifest, origin)]
             /\ Expose("manifest refilled", origin # registration.active)
  /\ UNCHANGED <<origin, registration, tab, consented, agreed, evictions>>

(* A refilled file must have the hash the manifest lists, if it lists one. *)
Verified(url, r) == ~repair.hashed \/ url \notin ManifestKeys(repair.manifest)
                      \/ r = repair.manifest

(* What was missing and could be fetched; nothing once the snapshot has    *)
(* been purged.                                                            *)
Refill ==
  /\ repair.at = "refill"
  /\ LET mine == cache[repair.worker]
         missing == (PRECACHE(repair.worker) \cup ManifestKeys(repair.manifest))
                      \ DOMAIN mine
     IN \E got \in [missing -> 0..origin] :
          /\ \A url \in missing : got[url] \in Served(url) \cup {None}
          /\ LET good == {url \in missing : got[url] # None /\ Verified(url, got[url])}
                 live == repair.worker = registration.active
             IN /\ cache' = IF live
                            THEN [cache EXCEPT ![repair.worker] = PutAll(@, Restrict(got, good))]
                            ELSE cache
                /\ Expose("shell not pinned",
                          live /\ Shell \in good /\ got[Shell] # repair.worker)
  /\ repair' = Idling
  /\ UNCHANGED <<origin, registration, tab, consented, agreed, evictions>>

-----------------------------------------------------------------------------
(* The page.  Loading it takes the shell and its chunks; without its       *)
(* chunks no page runs.                                                    *)

ShellOf(controlled) ==
  IF controlled /\ Shell \in DOMAIN Pinned THEN {Pinned[Shell]} ELSE {origin}

Load(t, retried) ==
  LET controlled == registration.active # None IN
  \E page \in ShellOf(controlled) :
    /\ page \in Fetch(Pinned, Chunk(page), controlled)
    /\ cache' = [cache EXCEPT ![registration.active] = Kept(@, Chunk(page), controlled, page)]
    /\ tab' = [tab EXCEPT ![t] =
         [at |-> "open", page |-> page, retried |-> retried,
          controlled |-> controlled, listening |-> "awaiting",
          wasControlled |-> FALSE, changed |-> 0, missed |-> FALSE,
          asking |-> None, updateReady |-> FALSE, nextVersion |-> None,
          check |-> "fresh", fresh |-> None, manifest |-> None]]
    /\ Expose("shell not pinned", controlled /\ Shell \notin DOMAIN Pinned)
    /\ UNCHANGED <<origin, registration, repair, consented, agreed, evictions>>

OpenTab(t) == tab[t].at = "closed" /\ Load(t, FALSE)
Reload(t) == Open(t) /\ Load(t, tab[t].retried)

(* A lazy import: a failure reloads the page once. *)
LazyImport(t) ==
  /\ Open(t)
  /\ \E r \in Fetch(Pinned, Chunk(tab[t].page), tab[t].controlled) :
       IF r = None
       THEN ~tab[t].retried /\ Load(t, TRUE)
       ELSE /\ cache' = [cache EXCEPT ![registration.active] =
                           Kept(@, Chunk(tab[t].page), tab[t].controlled, r)]
            /\ UNCHANGED <<origin, registration, repair, tab, consented, agreed,
                           evictions, exposure>>

afterNavigate(t) ==
  /\ Open(t) /\ tab[t].retried
  /\ tab' = [tab EXCEPT ![t].retried = FALSE]
  /\ UNCHANGED <<origin, registration, cache, repair, consented, agreed, evictions, exposure>>

-----------------------------------------------------------------------------
(* pwa.svelte.ts.  The page listens only once its registration, awaited    *)
(* from the start, has resolved; if that fails it never does.              *)

(* The worker is registered, or is being installed.  Whether the page was  *)
(* controlled is sampled now, and a worker found waiting is offered.       *)
Registered(t) ==
  /\ Open(t) /\ tab[t].listening = "awaiting"
  /\ Newest # None \/ registration.installing # None
  /\ tab' = [tab EXCEPT
       ![t].listening = "yes",
       ![t].wasControlled = tab[t].controlled,
       ![t].asking = IF tab[t].controlled THEN registration.waiting ELSE None]
  /\ UNCHANGED <<origin, registration, cache, repair, consented, agreed, evictions, exposure>>

RegisterFailed(t) ==
  /\ Open(t) /\ tab[t].listening = "awaiting"
  /\ tab' = [tab EXCEPT ![t].listening = "never"]
  /\ UNCHANGED <<origin, registration, cache, repair, consented, agreed, evictions, exposure>>

(* The event comes while nothing listens for it. *)
UnheardChange(t) ==
  /\ Open(t) /\ ~Listening(t) /\ tab[t].changed > 0
  /\ tab' = [tab EXCEPT ![t].changed = @ - 1, ![t].missed = TRUE]
  /\ UNCHANGED <<origin, registration, cache, repair, consented, agreed, evictions, exposure>>

controllerchangeMutant(t) ==
  /\ Listening(t) /\ tab[t].changed > 0
  /\ IF tab[t].wasControlled THEN Load(t, tab[t].retried)
     ELSE /\ tab' = [tab EXCEPT ![t].changed = @ - 1]
          /\ UNCHANGED <<origin, registration, cache, repair, consented, agreed,
                         evictions, exposure>>

controllerchange(t) ==
  /\ Listening(t) /\ tab[t].changed > 0
  /\ IF tab[t].wasControlled THEN Load(t, tab[t].retried)
     ELSE /\ tab' = [tab EXCEPT ![t].changed = @ - 1, ![t].wasControlled = TRUE]
          /\ UNCHANGED <<origin, registration, cache, repair, consented, agreed,
                         evictions, exposure>>

(* The worker asked tells its version, or a second passes. *)
Announce(t) ==
  /\ Open(t) /\ tab[t].asking # None
  /\ \E version \in {tab[t].asking, None} :
       tab' = [tab EXCEPT ![t].asking = None, ![t].updateReady = TRUE,
                          ![t].nextVersion = version]
  /\ UNCHANGED <<origin, registration, cache, repair, consented, agreed, evictions, exposure>>

(* Posted to the worker waiting now. *)
applyUpdate(t) ==
  /\ Open(t) /\ tab[t].updateReady
  /\ registration.waiting # None
  /\ consented' = consented \cup {registration.waiting}
  /\ agreed' = agreed \cup {IF tab[t].nextVersion = None THEN registration.waiting
                            ELSE tab[t].nextVersion}
  /\ Expose("replaced under the toast",
            tab[t].nextVersion \notin {None, registration.waiting})
  /\ UNCHANGED <<origin, registration, cache, repair, tab, evictions>>

dismissUpdate(t) ==
  /\ Open(t) /\ tab[t].updateReady
  /\ tab' = [tab EXCEPT ![t].updateReady = FALSE]
  /\ UNCHANGED <<origin, registration, cache, repair, consented, agreed, evictions, exposure>>

(* Every half hour and on return to the foreground, with nothing offered   *)
(* for four hours after a "Later".  What reg.update() finds is             *)
(* UpdateFound's.                                                          *)
recheck(t) ==
  /\ Listening(t)
  /\ repair.at = "idle"
  /\ repair' = IF registration.active = None THEN Idling ELSE [at |-> "asked"]
  /\ \E snoozed \in BOOLEAN :
       tab' = IF /\ ~tab[t].updateReady /\ ~snoozed
                 /\ registration.waiting # None /\ tab[t].controlled
              THEN Announcing({t}, registration.waiting) ELSE tab
  /\ UNCHANGED <<origin, registration, cache, consented, agreed, evictions, exposure>>

-----------------------------------------------------------------------------
(* verifyBundleIntegrity: the hash past every cache, or else the one the   *)
(* page was loaded with, which the edge or the snapshot may have kept from *)
(* any earlier release; the manifest; every file it lists.                 *)

ensureFreshBundleHash(t) ==
  /\ Open(t) /\ tab[t].check = "fresh"
  /\ \E fresh \in 1..origin :
       tab' = [tab EXCEPT ![t].check = "manifest", ![t].fresh = fresh]
  /\ UNCHANGED <<origin, registration, cache, repair, consented, agreed, evictions, exposure>>

ReadManifest(t) ==
  /\ Open(t) /\ tab[t].check = "manifest"
  /\ \E r \in Fetch(Pinned, Manifest, tab[t].controlled) :
       /\ cache' = [cache EXCEPT ![registration.active] =
                      Kept(@, Manifest, tab[t].controlled, r)]
       /\ Expose("manifest refilled", tab[t].controlled /\ Manifest \notin DOMAIN Pinned
                                        /\ r \notin {None, registration.active})
       /\ tab' = [tab EXCEPT ![t].check = IF r = None THEN "failed" ELSE "files",
                             ![t].manifest = r]
  /\ UNCHANGED <<origin, registration, repair, consented, agreed, evictions>>

(* Past the snapshot, the HTTP cache may answer with an older worker file, *)
(* or with a chunk the origin no longer has.                               *)
verifyBundleIntegrity(t) ==
  /\ Open(t) /\ tab[t].check = "files"
  /\ LET keys == ManifestKeys(tab[t].manifest)
         controlled == tab[t].controlled
         Pins(url) == controlled /\ url \in DOMAIN Pinned
     IN \E got \in [keys -> 0..origin] :
          /\ \A url \in keys :
               \/ got[url] \in Fetch(Pinned, url, controlled)
               \/ ~Pins(url) /\ (url = Worker \/ got[url] = url[2])
          /\ cache' = [cache EXCEPT ![registration.active] =
               Kept(Kept(@, Worker, controlled, got[Worker]),
                    Chunk(tab[t].manifest), controlled, got[Chunk(tab[t].manifest)])]
          /\ Expose("file refilled", \E url \in keys : controlled /\ ~Pins(url)
                                       /\ got[url] \notin {None, tab[t].manifest})
          /\ tab' = [tab EXCEPT
               ![t].check = CASE None \in Range(got) -> "failed"
                              [] /\ Range(got) = {tab[t].manifest}
                                 /\ tab[t].manifest = tab[t].fresh -> "verified"
                              [] ~Pins(Worker) /\ got[Worker] # tab[t].manifest -> "moved"
                              [] OTHER -> "mismatch"]
  /\ UNCHANGED <<origin, registration, repair, consented, agreed, evictions>>

-----------------------------------------------------------------------------
SnapshotNext ==
  \/ Deploy
  \/ \E url \in {Manifest, Worker, Shell} \cup {Chunk(r) : r \in Releases} : Evict(url)
  \/ UpdateFound \/ InstallManifest \/ InstallFailed \/ Installed \/ Activate
  \/ RepairManifest \/ Refill
  \/ \E t \in Tabs :
       \/ CloseTab(t) \/ OpenTab(t) \/ Reload(t) \/ LazyImport(t) \/ afterNavigate(t)
       \/ Registered(t) \/ RegisterFailed(t) \/ UnheardChange(t)
       \/ controllerchange(t) \/ Announce(t) \/ applyUpdate(t) \/ dismissUpdate(t)
       \/ recheck(t)
       \/ ensureFreshBundleHash(t) \/ ReadManifest(t) \/ verifyBundleIntegrity(t)

SnapshotSpec == SnapshotInit /\ [][SnapshotNext]_snapshotVars

-----------------------------------------------------------------------------
(* What a snapshot was pinned without, or lost. *)
Torn == {"deploy during install", "purged while installing", "manifest refilled",
         "shell not pinned", "file refilled"}

(* An open, controlled tab goes to another release only after the user     *)
(* applied an update whose toast named that release; or the shell itself   *)
(* was not of the pinned release, the tab's page was older than the first  *)
(* worker that claimed it, or another worker had taken the place of the    *)
(* one the toast named.                                                    *)
PinnedUntilConsent ==
  [][\A t \in Tabs :
       Controlled(t) /\ tab'[t].at = "open" /\ tab'[t].page # tab[t].page
         => \/ tab'[t].page \in agreed
            \/ exposure' \cap (Torn \cup {"claimed", "replaced under the toast"}) # {}]_snapshotVars

(* A controlled tab runs the release of the worker that controls it, or is *)
(* about to be reloaded, unless a controller change came before it         *)
(* listened, its snapshot was torn or it was claimed with an older page.   *)
NoTabLeftBehind ==
  \A t \in Tabs :
    Controlled(t) /\ tab[t].changed = 0 /\ tab[t].page # registration.active
      => tab[t].missed \/ exposure \cap (Torn \cup {"claimed"}) # {}

=============================================================================
