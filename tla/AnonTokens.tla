----------------------------- MODULE AnonTokens -----------------------------
(***************************************************************************)
(* Anonymous request tokens, from both ends: the pool of sync-client.ts    *)
(* (refill, take, tokenCall with its one retry) and anon-tokens.ts on the  *)
(* server (issuance under the key of the day, redemption, sweep).          *)
(*                                                                         *)
(* The client is one tab.  Its code is cut at its awaits; what runs in one *)
(* microtask queue runs before anything else happens, which is what        *)
(* Settled says.  The server is cut at its database statements.            *)
(*                                                                         *)
(* Abstractions.  A token is the batch that minted it and its place there; *)
(* it carries the key window it was evaluated in.  The VOPRF is Voprf's:   *)
(* here an evaluation under the served key verifies and redeems.           *)
(***************************************************************************)
EXTENDS Naturals, Sequences, FiniteSets

CONSTANTS
  Calls,       \* calls of tokenCall, each made once
  Batch,       \* TOKEN_BATCH
  LowWater,    \* TOKEN_LOW_WATER
  MaxDay,      \* bound: key windows
  MaxLogins,   \* bound: sessions
  MaxBatches,  \* bound: batches asked for, those of a retry aside
  Faults,      \* bound: which of lost, refused, copied, stalled happen
  MaxFaults    \* bound: how many of them

ASSUME TokenAssumption ==
  /\ IsFiniteSet(Calls)
  /\ {Batch, LowWater} \subseteq Nat \ {0}
  /\ {MaxDay, MaxLogins, MaxBatches, MaxFaults} \subseteq Nat
  /\ Faults \subseteq {"lost", "refused", "copied", "stalled"}

VARIABLES
  day,       \* currentKeyId
  session,   \* sessionToken: the number of a login, 0 for null
  logins,    \* logins so far
  rows,      \* server: sessions that authenticate
  pool,      \* tokenPool
  gen,       \* tokenGeneration
  pin,       \* pinnedTokenKey: the window it is of, or NoKey
  refill,    \* tokenRefill: the frame of issueTokenBatch
  batches,   \* batches asked for so far
  call,      \* per call: where tokenCall stands
  wire,      \* requests that carry a token, and how far the server is
  spent,     \* anon_tokens_spent
  faults,    \* faults so far
  passed,    \* history: requests that were let through
  straddled  \* history: tokens checked in one window and spent in a later one

vars == <<day, session, logins, rows, pool, gen, pin, refill, batches, call,
          wire, spent, faults, passed, straddled>>
server == <<day, rows, wire, spent, passed, straddled>>
client == <<session, logins, pool, gen, pin, refill, batches, call>>

Day == 0 .. MaxDay
NoKey == MaxDay + 1
Batches == MaxBatches + Cardinality(Calls)  \* with those of the retries
Token == [batch : 1 .. Batches, place : 1 .. Batch, key : Day, gen : Nat]
NoToken == [batch |-> 0, place |-> 0, key |-> 0, gen |-> 0]

Refill ==
  [pc : {"idle", "asked", "issued", "failed", "pinning", "stalled"},
   gen : Nat, session : Nat, key : Day]

Result == {"none", "ok", "invalid", "other", "network", "no token"}
Reason == {"no session", "issue failed", "old refill", "key turned", "crowd"}
Call == [pc : {"idle", "waiting", "ready", "sent", "ended"},
         attempt : 0 .. 1, token : Token \cup {NoToken}, result : Result,
         reasons : SUBSET Reason, since : 0 .. Batches + 1]

(* A request, by the call and attempt that sent it; copy 2 is one the      *)
(* network made.                                                           *)
Request ==
  [call : Calls, attempt : 0 .. 1, copy : 1 .. 2, token : Token,
   pc : {"sent", "checked", "answered"}, day : Day,
   answer : {"none", "ok", "invalid", "other"}]

TypeOK ==
  /\ day \in Day
  /\ session \in 0 .. logins
  /\ logins \in 0 .. MaxLogins
  /\ rows \subseteq 1 .. logins
  /\ pool \in Seq(Token)
  /\ gen \in Nat
  /\ pin \in Day \cup {NoKey}
  /\ refill \in Refill
  /\ batches \in 0 .. Batches
  /\ call \in [Calls -> Call]
  /\ wire \subseteq Request
  /\ spent \subseteq Token
  /\ faults \in 0 .. MaxFaults
  /\ passed \subseteq Request
  /\ straddled \subseteq Token

NoRefill == [pc |-> "idle", gen |-> 0, session |-> 0, key |-> 0]
NoCall == [pc |-> "idle", attempt |-> 0, token |-> NoToken, result |-> "none",
           reasons |-> {}, since |-> 0]

Init ==
  /\ day = 0
  /\ session = 0 /\ logins = 0 /\ rows = {}
  /\ pool = <<>> /\ gen = 0 /\ pin = NoKey
  /\ refill = NoRefill /\ batches = 0
  /\ call = [c \in Calls |-> NoCall]
  /\ wire = {} /\ spent = {}
  /\ faults = 0
  /\ passed = {} /\ straddled = {}

-----------------------------------------------------------------------------
(* Helpers *)

Fault(f) == f \in Faults /\ faults < MaxFaults /\ faults' = faults + 1

(* No continuation is waiting in the microtask queue. *)
Settled == \A c \in Calls : call[c].pc # "ready"

(* refillTokens: shares the batch in flight, or asks for one; without a    *)
(* session it ends at once.                                                *)
Asked ==
  /\ refill' = [pc |-> "asked", gen |-> gen, session |-> session, key |-> 0]
  /\ batches' = batches + 1
RefillTokens ==
  IF refill.pc = "idle" /\ session # 0 THEN Asked ELSE UNCHANGED <<refill, batches>>

(* A batch that nobody waits for; the bound leaves some out. *)
RefillIfLow(p) ==
  IF Len(p) < LowWater /\ batches < MaxBatches
  THEN RefillTokens ELSE UNCHANGED <<refill, batches>>

(* The call goes on with the first token, or ends without one. *)
Take(c) ==
  IF pool = <<>>
  THEN /\ call' = [call EXCEPT ![c].pc = "ended", ![c].result = "no token",
                               ![c].reasons = @ \cup
                                 IF session = 0 THEN {"no session"} ELSE {}]
       /\ UNCHANGED <<pool, wire>>
  ELSE /\ call' = [call EXCEPT ![c].pc = "sent", ![c].token = Head(pool),
                               ![c].reasons = {}]
       /\ pool' = Tail(pool)
       /\ wire' = wire \cup {[call |-> c, attempt |-> call[c].attempt,
                              copy |-> 1, token |-> Head(pool), pc |-> "sent",
                              day |-> 0, answer |-> "none"]}

(* The first batch that a call can get if it drops the pool now. *)
NextBatch == IF refill.pc = "idle" THEN batches + 1 ELSE batches

(* takeToken with pool p: when it is empty, wait for a batch first. *)
TakeToken(c, p, attempt) ==
  LET waits == p = <<>> /\ (refill.pc # "idle" \/ session # 0) IN
  /\ pool' = p
  /\ call' = [call EXCEPT ![c].attempt = attempt,
                          ![c].since = IF attempt = 1 THEN NextBatch ELSE 0,
                          ![c].pc = IF waits THEN "waiting" ELSE "ready"]
  /\ IF waits THEN RefillTokens ELSE UNCHANGED <<refill, batches>>

(* The requests whose answer call c waits for. *)
Awaited(c) == {r \in wire : r.call = c /\ r.attempt = call[c].attempt /\ r.copy = 1}

-----------------------------------------------------------------------------
(* Sessions *)

(* setSessionToken with the token of a login; openVault then prefetches. *)
Login ==
  /\ Settled
  /\ logins < MaxLogins
  /\ logins' = logins + 1
  /\ session' = logins + 1
  /\ rows' = rows \cup {logins + 1}
  /\ UNCHANGED <<day, pool, gen, pin, refill, batches, call, wire, spent,
                 faults, passed, straddled>>

(* prefetchAnonTokens *)
Prefetch ==
  /\ Settled
  /\ session # 0
  /\ refill.pc = "idle"
  /\ Len(pool) < LowWater /\ batches < MaxBatches
  /\ RefillTokens
  /\ UNCHANGED <<server, faults, session, logins, pool, gen, pin, call>>

(* Mutant: the generation does not move. *)
LockMutant ==
  /\ Settled
  /\ session # 0
  /\ session' = 0
  /\ pool' = <<>>
  /\ pin' = NoKey
  /\ \/ rows' = rows \ {session} /\ UNCHANGED faults
     \/ Fault("lost") /\ UNCHANGED rows
  /\ UNCHANGED <<day, logins, gen, refill, batches, call, wire, spent, passed,
                 straddled>>

(* lockSession: the logout is sent and not awaited; setSessionToken(null)  *)
(* drops the tokens.                                                       *)
Lock ==
  /\ Settled
  /\ session # 0
  /\ session' = 0
  /\ pool' = <<>>
  /\ pin' = NoKey
  /\ gen' = gen + 1
  /\ \/ rows' = rows \ {session} /\ UNCHANGED faults
     \/ Fault("lost") /\ UNCHANGED rows
  /\ UNCHANGED <<day, logins, refill, batches, call, wire, spent, passed,
                 straddled>>

Midnight ==
  /\ day < MaxDay
  /\ day' = day + 1
  /\ UNCHANGED <<client, rows, wire, spent, faults, passed, straddled>>

-----------------------------------------------------------------------------
(* Issuance *)

(* issueTokens: the whole batch under the key of the window it is in. *)
Evaluate == refill' = [refill EXCEPT !.pc = "issued", !.key = day]

(* The key route: the public key of the window it is asked in. *)
PinnedKey == day

(* The issue route: authenticate, then blind-evaluate under today's key.   *)
(* A session that has expired is refused as well.                          *)
Issue ==
  /\ refill.pc = "asked"
  /\ IF refill.session \in rows
     THEN \/ Evaluate /\ UNCHANGED faults
          \/ Fault("refused") /\ refill' = [refill EXCEPT !.pc = "failed"]
          \/ Fault("lost") /\ refill' = [refill EXCEPT !.pc = "failed"]
          \/ Fault("stalled") /\ refill' = [refill EXCEPT !.pc = "stalled"]
     ELSE refill' = [refill EXCEPT !.pc = "failed"] /\ UNCHANGED faults
  /\ UNCHANGED <<server, session, logins, pool, gen, pin, batches, call>>

(* The batch ends: the pool is p, and those who waited go on. *)
BatchEnds(p, reasons) ==
  /\ refill' = NoRefill
  /\ pool' = p
  /\ call' = [c \in Calls |-> IF call[c].pc = "waiting"
                              THEN [call[c] EXCEPT !.pc = "ready",
                                                   !.reasons = @ \cup reasons]
                              ELSE call[c]]

(* Mutant: the batch is kept whatever happened since it was asked for. *)
MintMutant(k) ==
  BatchEnds(pool \o [i \in 1 .. Batch |->
              [batch |-> batches, place |-> i, key |-> k, gen |-> refill.gen]],
            {"crowd"})

(* The evaluations verify under the pinned key: the tokens are added,      *)
(* unless the pool has been cleared since the batch was asked for.         *)
Mint(k) ==
  IF refill.gen = gen
  THEN BatchEnds(pool \o [i \in 1 .. Batch |->
              [batch |-> batches, place |-> i, key |-> k, gen |-> refill.gen]],
            {"crowd"})
  ELSE BatchEnds(pool, {"old refill"})

(* The answer is compared with the pinned key, which is asked for when it  *)
(* is of another window.                                                   *)
ReceiveIssue ==
  /\ Settled
  /\ \/ /\ refill.pc = "failed"
        /\ BatchEnds(pool, {IF refill.gen = gen THEN "issue failed" ELSE "old refill"})
     \/ /\ refill.pc = "issued"
        /\ pin = refill.key
        /\ Mint(refill.key)
     \/ /\ refill.pc = "issued"
        /\ pin # refill.key
        /\ refill' = [refill EXCEPT !.pc = "pinning"]
        /\ UNCHANGED <<pool, call>>
  /\ UNCHANGED <<server, faults, session, logins, gen, pin, batches>>

(* pinTokenKey *)
ReceivePin ==
  /\ Settled
  /\ refill.pc = "pinning"
  /\ \/ /\ pin' = PinnedKey
        /\ IF pin' = refill.key THEN Mint(pin') ELSE BatchEnds(pool, {"key turned"})
        /\ UNCHANGED faults
     \/ /\ Fault("lost")
        /\ BatchEnds(pool, {"issue failed"})
        /\ UNCHANGED pin
  /\ UNCHANGED <<server, session, logins, gen, batches>>

-----------------------------------------------------------------------------
(* Calls *)

(* A call that has its result; a refused one keeps what it was refused for. *)
Ended(r, result) ==
  IF result = "invalid"
  THEN [r EXCEPT !.pc = "ended", !.result = result]
  ELSE [NoCall EXCEPT !.pc = "ended", !.result = result]

BeginCall(c) ==
  /\ Settled
  /\ call[c].pc = "idle"
  /\ (pool = <<>> /\ refill.pc = "idle" /\ session # 0) => batches < MaxBatches
  /\ TakeToken(c, pool, 0)
  /\ UNCHANGED <<day, rows, wire, spent, passed, straddled, faults, session, logins,
                 gen, pin>>

(* The rest of takeToken, and the request. *)
Proceed(c) ==
  /\ call[c].pc = "ready"
  /\ Take(c)
  /\ RefillIfLow(pool')
  /\ UNCHANGED <<day, rows, spent, passed, straddled, faults, session, logins,
                 gen, pin>>

(* Mutant: the stale pool is kept for the retry. *)
ReceiveMutant(c) ==
  /\ Settled
  /\ call[c].pc = "sent"
  /\ \E r \in Awaited(c) :
       /\ r.pc = "answered"
       /\ wire' = wire \ {r}
       /\ IF r.answer = "invalid" /\ call[c].attempt = 0
          THEN TakeToken(c, pool, 1)
          ELSE /\ call' = [call EXCEPT ![c] = Ended(@, r.answer)]
               /\ UNCHANGED <<pool, refill, batches>>
  /\ UNCHANGED <<day, rows, spent, passed, straddled, faults, session, logins,
                 gen, pin>>

(* An answer: a first 'invalid token' drops the pool and tries once more.  *)
Receive(c) ==
  /\ Settled
  /\ call[c].pc = "sent"
  /\ \E r \in Awaited(c) :
       /\ r.pc = "answered"
       /\ wire' = wire \ {r}
       /\ IF r.answer = "invalid" /\ call[c].attempt = 0
          THEN TakeToken(c, <<>>, 1)
          ELSE /\ call' = [call EXCEPT ![c] = Ended(@, r.answer)]
               /\ UNCHANGED <<pool, refill, batches>>
  /\ UNCHANGED <<day, rows, spent, passed, straddled, faults, session, logins,
                 gen, pin>>

(* The timeout of a request, or a broken connection. *)
GiveUp(c) ==
  /\ Settled
  /\ call[c].pc = "sent"
  /\ Fault("lost")
  /\ call' = [call EXCEPT ![c] = Ended(@, "network")]
  /\ wire' = {r \in wire : ~(r \in Awaited(c) /\ r.pc = "answered")}
  /\ UNCHANGED <<day, rows, spent, passed, straddled, session, logins, pool, gen, pin, refill, batches>>

-----------------------------------------------------------------------------
(* Redemption *)

(* The network delivers a request twice. *)
Copy(r) ==
  /\ r \in wire
  /\ r.copy = 1
  /\ Fault("copied")
  /\ \A s \in wire : s.copy = 1 \/ s.token # r.token
  /\ wire' = wire \cup {[r EXCEPT !.copy = 2, !.pc = "sent", !.answer = "none"]}
  /\ UNCHANGED <<client, day, rows, spent, passed, straddled>>

(* Request r becomes s; an answer nobody waits for is gone. *)
Step(r, s) ==
  wire' = (wire \ {r}) \cup
            (IF s.pc = "answered" /\ ~(r \in Awaited(r.call) /\ call[r.call].pc = "sent")
             THEN {} ELSE {s})

(* Mutant: a token of any past window passes. *)
RedeemCheckMutant(r) ==
  /\ r \in wire
  /\ r.pc = "sent"
  /\ \/ Fault("refused") /\ Step(r, [r EXCEPT !.pc = "answered", !.answer = "other"])
     \/ Step(r, [r EXCEPT !.pc = "checked", !.day = day]) /\ UNCHANGED faults
  /\ UNCHANGED <<client, day, rows, spent, passed, straddled>>

(* requireV2Access: the limiter may refuse, then the window is checked. *)
RedeemCheck(r) ==
  /\ r \in wire
  /\ r.pc = "sent"
  /\ \/ Fault("refused") /\ Step(r, [r EXCEPT !.pc = "answered", !.answer = "other"])
     \/ /\ r.token.key + 1 >= day
        /\ Step(r, [r EXCEPT !.pc = "checked", !.day = day]) /\ UNCHANGED faults
     \/ /\ r.token.key + 1 < day
        /\ Step(r, [r EXCEPT !.pc = "answered", !.answer = "invalid"]) /\ UNCHANGED faults
  /\ UNCHANGED <<client, day, rows, spent, passed, straddled>>

(* The insert that ignores conflicts, and now and then the sweep of the    *)
(* windows that were closed when the request was checked.                  *)
RedeemSpend(r) ==
  LET fresh == r.token \notin spent IN
  /\ r \in wire
  /\ r.pc = "checked"
  /\ \/ spent' = spent \cup {r.token}
     \/ spent' = {t \in spent \cup {r.token} : t.key + 1 >= r.day}
  /\ Step(r, [r EXCEPT !.pc = "answered", !.answer = IF fresh THEN "ok" ELSE "invalid"])
  /\ passed' = IF fresh THEN passed \cup {[r EXCEPT !.pc = "answered"]} ELSE passed
  /\ straddled' = IF r.day < day THEN straddled \cup {r.token} ELSE straddled
  /\ UNCHANGED <<client, day, rows, faults>>

-----------------------------------------------------------------------------
Next ==
  \/ Login \/ Prefetch \/ Lock \/ Midnight
  \/ Issue \/ ReceiveIssue \/ ReceivePin
  \/ \E c \in Calls : BeginCall(c) \/ Proceed(c) \/ Receive(c) \/ GiveUp(c)
  \/ \E r \in wire : Copy(r) \/ RedeemCheck(r) \/ RedeemSpend(r)

Spec == Init /\ [][Next]_vars

-----------------------------------------------------------------------------
(* Properties *)

(* "Each token works exactly once" (anon-tokens.ts): of the requests that  *)
(* carry a token, at most one is let through, however they are copied and  *)
(* delayed and whenever spent rows are swept, unless one of them was       *)
(* checked in one window and spent in a later one.                         *)
TokenWorksOnce ==
  \A r, s \in passed : r.token = s.token => r = s \/ r.token \in straddled

(* "An in-flight issuance cannot refill a locked pool" (sync-client.ts):   *)
(* all tokens of the pool were asked for after it was last cleared, and    *)
(* there are none without a session.                                       *)
PoolIsOfThisSession ==
  /\ \A i \in DOMAIN pool : pool[i].gen = gen
  /\ session = 0 => pool = <<>>

(* A call ends without a token only when there is no session, the issuance *)
(* failed, the key window turned between the issuance and the pin, more    *)
(* calls waited than a batch has tokens, or the batch it had to share was  *)
(* asked for before the session began.                                     *)
NoTokenHasReason ==
  \A c \in Calls : call[c].result = "no token" => call[c].reasons # {}

(* "Drop the stale pool once and retry" (sync-client.ts): a call is refused *)
(* for good only when its second token has worked, as a copy, or two       *)
(* windows went by since it was issued, in the batch that was in flight    *)
(* when the first was refused or in a later one.                           *)
RetryHeals ==
  \A c \in Calls : call[c].result = "invalid" =>
    \/ \E r \in passed : r.token = call[c].token
    \/ call[c].token.key + 2 <= day /\ call[c].token.batch >= call[c].since

(* A call fails for want of a token, or with a bad one, only for a reason. *)
FailuresHaveReasons == NoTokenHasReason /\ RetryHeals

=============================================================================
