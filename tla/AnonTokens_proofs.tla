-------------------------- MODULE AnonTokens_proofs --------------------------
(* Theorems about tokens, for any calls, batches, logins, key windows and  *)
(* faults.                                                                 *)
EXTENDS AnonTokens, FiniteSetTheorems, SequenceTheorems, TLAPS

-----------------------------------------------------------------------------
(* The inductive invariant, in four layers. *)

(* Every batch beyond MaxBatches is that of a retry, one per call.         *)
Retried == {c \in Calls : call[c].attempt = 1 \/ call[c].pc = "ended"}
TypeInv ==
  /\ TypeOK
  /\ batches <= MaxBatches + Cardinality(Retried)
  /\ refill.pc # "idle" => batches # 0
  /\ \A c \in Calls : call[c].pc = "idle" => call[c].attempt = 0

(* A batch asked for in the present generation has its session.            *)
PoolInv ==
  /\ PoolIsOfThisSession
  /\ refill.gen <= gen
  /\ refill.pc # "idle" /\ refill.gen = gen => session # 0

(* What a redemption has checked, and that a token which was let through   *)
(* is spent until its window has closed, for every later check to refuse.  *)
Checked == \A r \in wire : r.pc = "checked" => r.token.key + 1 >= r.day /\ r.day <= day
PassedIsSpent == \A p \in passed : p.token \in spent \/ p.token.key + 1 < day
RedeemInv == Checked /\ PassedIsSpent /\ TokenWorksOnce

(* Only a token that was let through is spent, and a refused one was spent *)
(* or is out of its window.                                                *)
Passed(t) == \E p \in passed : p.token = t
RefusalHasCause ==
  /\ \A t \in spent : Passed(t)
  /\ \A r \in wire : r.answer = "invalid" => Passed(r.token) \/ r.token.key + 2 <= day

(* A call waits for the request it sent last, with the token it took.      *)
Matches(r) ==
  LET c == call[r.call] IN
  \/ c.pc = "ended"
  \/ r.attempt < c.attempt
  \/ r.attempt = c.attempt /\ c.pc = "sent" /\ r.token = c.token
WireMatches == \A r \in wire : r.copy = 1 => Matches(r)

(* A retry takes no token of a batch older than the pool it dropped.       *)
RetriesAfresh(c) ==
  /\ call[c].attempt = 0 => call[c].since = 0
  /\ call[c].pc \in {"waiting", "ready"} =>
       /\ call[c].since <= NextBatch
       /\ \A i \in DOMAIN pool : pool[i].batch >= call[c].since
  /\ call[c].pc = "sent" => call[c].token \in Token /\ call[c].token.batch >= call[c].since

(* A call goes on to a token, or with a reason for having none.            *)
GoesOn(c) ==
  /\ call[c].result # "none" => call[c].pc = "ended"
  /\ call[c].pc = "ready" =>
       \/ call[c].reasons # {}
       \/ session = 0
       \/ pool # <<>> /\ \A d \in Calls : d # c => call[d].pc # "ready"

CallInv ==
  /\ RefusalHasCause
  /\ WireMatches
  /\ \A c \in Calls : RetriesAfresh(c) /\ GoesOn(c)
  /\ FailuresHaveReasons

-----------------------------------------------------------------------------
(* The shapes of a step. *)

(* Only call c moves. *)
Others(c) ==
  /\ call' \in [Calls -> Call]
  /\ \A d \in Calls : d # c => call'[d] = call[d]

(* Call c asks for a token from pool p, in its attempt a. *)
Takes(c, p, a) ==
  /\ Others(c)
  /\ call'[c].attempt = a /\ call'[c].since = (IF a = 1 THEN NextBatch ELSE 0)
  /\ call'[c].token = call[c].token /\ call'[c].result = call[c].result
  /\ call'[c].reasons = call[c].reasons
  /\ call'[c].pc \in {"waiting", "ready"}
  /\ call'[c].pc = "ready" => p # <<>> \/ session = 0
  /\ pool' = p
  /\ \/ RefillTokens /\ p = <<>>
     \/ UNCHANGED <<refill, batches>>

(* Call c ends for want of a token. *)
EndsWithout(c) ==
  /\ Others(c)
  /\ call'[c].pc = "ended" /\ call'[c].result = "no token"
  /\ call'[c].attempt = call[c].attempt /\ call'[c].since = call[c].since
  /\ call[c].reasons \subseteq call'[c].reasons
  /\ session = 0 => call'[c].reasons # {}
  /\ pool = <<>> /\ UNCHANGED <<pool, wire>>

(* Call c sends request r with the first token. *)
Sends(c, r) ==
  /\ Others(c)
  /\ call'[c].pc = "sent" /\ call'[c].token = Head(pool)
  /\ call'[c].attempt = call[c].attempt /\ call'[c].since = call[c].since
  /\ call'[c].result = call[c].result
  /\ pool # <<>> /\ pool' = Tail(pool)
  /\ wire' = wire \cup {r}
  /\ r.call = c /\ r.attempt = call[c].attempt /\ r.token = Head(pool)
  /\ r.pc = "sent" /\ r.answer = "none"

(* Call c ends with a result. *)
Finishes(c, result) ==
  /\ Others(c)
  /\ call'[c] = Ended(call[c], result)
  /\ UNCHANGED <<pool, refill, batches>>

(* A batch ends, and those who waited for it go on. *)
Wakes(p, why) ==
  /\ refill' = NoRefill
  /\ pool' = p /\ why # {}
  /\ call' \in [Calls -> Call]
  /\ \A d \in Calls :
       /\ call[d].pc # "waiting" => call'[d] = call[d]
       /\ call[d].pc = "waiting" =>
            /\ call'[d].pc = "ready" /\ call'[d].reasons = call[d].reasons \cup why
            /\ call'[d].attempt = call[d].attempt /\ call'[d].since = call[d].since
            /\ call'[d].token = call[d].token /\ call'[d].result = call[d].result

Minted(k) ==
  [i \in 1 .. Batch |-> [batch |-> batches, place |-> i, key |-> k, gen |-> refill.gen]]

(* Request q takes the place of r, or is a copy of it. *)
Follows(q, r) ==
  /\ q.call = r.call /\ q.attempt = r.attempt /\ q.token = r.token
  /\ q.copy = 1 => r.copy = 1

LEMMA Bounds ==
  /\ IsFiniteSet(Calls) /\ Cardinality(Calls) \in Nat
  /\ Batch \in Nat \ {0} /\ LowWater \in Nat \ {0}
  /\ MaxDay \in Nat /\ MaxLogins \in Nat /\ MaxBatches \in Nat /\ MaxFaults \in Nat
  /\ Batches \in Nat /\ NoToken \notin Token
  <1>1. IsFiniteSet(Calls) /\ Batch \in Nat \ {0} /\ LowWater \in Nat \ {0}
    BY TokenAssumption DEF TokenAssumption
  <1>2. MaxDay \in Nat /\ MaxLogins \in Nat /\ MaxBatches \in Nat /\ MaxFaults \in Nat
    BY TokenAssumption DEF TokenAssumption
  <1>3. Cardinality(Calls) \in Nat
    BY <1>1, FS_CardinalityType
  <1>4. NoToken \notin Token
    BY DEF NoToken, Token
  <1> QED BY <1>1, <1>2, <1>3, <1>4 DEF Batches

LEMMA CallIs ==
  ASSUME TypeOK, NEW c \in Calls
  PROVE  /\ call[c] \in Call /\ NoCall \in Call
         /\ call[c].pc \in {"idle", "waiting", "ready", "sent", "ended"}
         /\ call[c].attempt \in 0 .. 1 /\ call[c].token \in Token \cup {NoToken}
         /\ call[c].result \in Result /\ call[c].reasons \in SUBSET Reason
         /\ call[c].since \in 0 .. Batches + 1
  <1>1. call[c] \in Call
    BY DEF TypeOK
  <1>2. NoCall \in Call
    BY Bounds DEF NoCall, Call, Result
  <1> QED BY <1>1, <1>2 DEF Call

LEMMA CallMoves ==
  ASSUME TypeOK, NEW c \in Calls, NEW r \in Call, call' = [call EXCEPT ![c] = r]
  PROVE  Others(c) /\ call'[c] = r
  BY DEF Others, TypeOK

LEMMA TokensTyped ==
  ASSUME TypeInv, refill.pc # "idle", NEW k \in Day
  PROVE  Minted(k) \in Seq(Token)
  <1>1. batches \in 1 .. Batches /\ refill.gen \in Nat
    BY Bounds DEF TypeInv, TypeOK, Refill
  <1>2. \A i \in 1 .. Batch :
          [batch |-> batches, place |-> i, key |-> k, gen |-> refill.gen] \in Token
    BY <1>1 DEF Token
  <1> QED BY <1>2, Bounds, IsASeq DEF Minted

LEMMA Taking ==
  ASSUME TypeInv, NEW c \in Calls, NEW p, NEW a \in 0 .. 1, TakeToken(c, p, a)
  PROVE  Takes(c, p, a)
  <1> DEFINE waits == p = <<>> /\ (refill.pc # "idle" \/ session # 0)
             since == IF a = 1 THEN NextBatch ELSE 0
             pc == IF waits THEN "waiting" ELSE "ready"
             r == [call[c] EXCEPT !.attempt = a, !.since = since, !.pc = pc]
  <1>1. call[c] \in Call /\ TypeOK
    BY CallIs DEF TypeInv
  <1>2. since \in 0 .. Batches + 1
    BY Bounds DEF NextBatch, TypeInv, TypeOK
  <1>3. pc \in {"waiting", "ready"} /\ (pc = "ready" => ~waits)
    OBVIOUS
  <1>4. call' = [call EXCEPT ![c].attempt = a, ![c].since = since, ![c].pc = pc]
    BY Zenon DEF TakeToken
  <1>5. pool' = p /\ ((RefillTokens /\ p = <<>>) \/ UNCHANGED <<refill, batches>>)
    BY DEF TakeToken
  <1>6. pc = "ready" => p # <<>> \/ session = 0
    BY <1>3
  <1> HIDE DEF since, pc
  <1>7. call' = [call EXCEPT ![c] = r]
    BY <1>1, <1>4 DEF TypeOK, Call
  <1>8. r \in Call
    BY <1>1, <1>2, <1>3 DEF Call
  <1>9. Others(c) /\ call'[c] = r
    BY <1>1, <1>7, <1>8, CallMoves
  <1>10. /\ r.attempt = a /\ r.since = since /\ r.pc = pc
         /\ r.token = call[c].token /\ r.result = call[c].result
         /\ r.reasons = call[c].reasons
    BY <1>1 DEF Call
  <1> QED BY <1>3, <1>5, <1>6, <1>9, <1>10 DEF Takes, since

LEMMA Proceeding ==
  ASSUME TypeInv, NEW c \in Calls, Proceed(c)
  PROVE  EndsWithout(c) \/ \E r \in Request : Sends(c, r) /\ Head(pool) \in Token
  <1>1. call[c] \in Call /\ TypeOK
    BY CallIs DEF TypeInv
  <1>2. CASE pool = <<>>
    <2> DEFINE why == call[c].reasons \cup (IF session = 0 THEN {"no session"} ELSE {})
               r == [call[c] EXCEPT !.pc = "ended", !.result = "no token", !.reasons = why]
    <2>1. why \subseteq Reason /\ call[c].reasons \subseteq why /\ (session = 0 => why # {})
      BY <1>1 DEF Call, Reason
    <2>2. UNCHANGED <<pool, wire>>
      BY <1>2 DEF Proceed, Take
    <2>3. call' = [call EXCEPT ![c].pc = "ended", ![c].result = "no token",
                               ![c].reasons = why]
      BY <1>1, <1>2 DEF Proceed, Take, TypeOK
    <2> HIDE DEF why
    <2>4. call' = [call EXCEPT ![c] = r]
      BY <1>1, <2>3 DEF TypeOK, Call
    <2>5. r \in Call
      BY <1>1, <2>1 DEF Call, Result
    <2>6. Others(c) /\ call'[c] = r
      BY <1>1, <2>4, <2>5, CallMoves
    <2>7. /\ r.pc = "ended" /\ r.result = "no token" /\ r.attempt = call[c].attempt
          /\ r.since = call[c].since /\ r.reasons = why
      BY <1>1 DEF Call
    <2> QED BY <1>2, <2>1, <2>2, <2>6, <2>7 DEF EndsWithout
  <1>3. CASE pool # <<>>
    <2> DEFINE t == Head(pool)
               r == [call[c] EXCEPT !.pc = "sent", !.token = t, !.reasons = {}]
               q == [call |-> c, attempt |-> call[c].attempt, copy |-> 1, token |-> t,
                     pc |-> "sent", day |-> 0, answer |-> "none"]
    <2>1. t \in Token
      BY <1>1, <1>3, HeadTailProperties DEF TypeOK
    <2>2. /\ call' = [call EXCEPT ![c].pc = "sent", ![c].token = t, ![c].reasons = {}]
          /\ pool' = Tail(pool) /\ wire' = wire \cup {q}
      BY <1>3 DEF Proceed, Take
    <2> HIDE DEF t
    <2>3. call' = [call EXCEPT ![c] = r]
      BY <1>1, <2>2 DEF TypeOK, Call
    <2>4. r \in Call
      BY <1>1, <2>1 DEF Call
    <2>5. Others(c) /\ call'[c] = r
      BY <1>1, <2>3, <2>4, CallMoves
    <2>6. /\ r.pc = "sent" /\ r.token = t /\ r.attempt = call[c].attempt
          /\ r.since = call[c].since /\ r.result = call[c].result
      BY <1>1 DEF Call
    <2>7. q \in Request
      BY <1>1, <2>1, CallIs, Bounds DEF Request, Day
    <2>8. Sends(c, q)
      BY <1>3, <2>2, <2>5, <2>6 DEF Sends, t
    <2> QED BY <2>1, <2>7, <2>8 DEF t
  <1> QED BY <1>2, <1>3

LEMMA RequestIs ==
  ASSUME TypeOK, NEW r \in wire
  PROVE  /\ r \in Request /\ r.call \in Calls /\ r.attempt \in 0 .. 1
         /\ r.token \in Token /\ r.token.key \in Nat /\ r.token.key \in Day
         /\ r.token.batch \in 1 .. Batches
         /\ r.day \in Nat /\ r.copy \in 1 .. 2
         /\ r.answer \in {"none", "ok", "invalid", "other"}
  <1>1. r \in Request
    BY DEF TypeOK
  <1>2. r.token \in Token
    BY <1>1 DEF Request
  <1>3. r.token.key \in Day /\ r.token.batch \in 1 .. Batches
    BY <1>2 DEF Token
  <1> QED BY <1>1, <1>2, <1>3, Bounds DEF Request, Day

LEMMA EndedIs ==
  ASSUME TypeOK, NEW c \in Calls, NEW a \in {"none", "ok", "invalid", "other", "network"}
  PROVE  LET r == Ended(call[c], a) IN
         /\ r \in Call /\ r.pc = "ended" /\ r.result = a
         /\ a = "invalid" => /\ r.token = call[c].token
                             /\ r.since = call[c].since
                             /\ r.attempt = call[c].attempt
         /\ a # "invalid" => r.attempt = 0 /\ r.since = 0
  <1> DEFINE r == Ended(call[c], a)
  <1>1. call[c] \in Call /\ NoCall \in Call
    BY CallIs
  <1>2. CASE a = "invalid"
    <2>1. r = [call[c] EXCEPT !.pc = "ended", !.result = "invalid"]
      BY <1>2 DEF Ended
    <2>2. r \in Call
      BY <1>1, <2>1 DEF Call, Result
    <2>3. /\ r.pc = "ended" /\ r.result = "invalid" /\ r.token = call[c].token
          /\ r.since = call[c].since /\ r.attempt = call[c].attempt
      BY <1>1, <2>1 DEF Call
    <2> QED BY <1>2, <2>2, <2>3
  <1>3. CASE a # "invalid"
    <2>1. r = [NoCall EXCEPT !.pc = "ended", !.result = a]
      BY <1>3 DEF Ended
    <2>2. r \in Call
      BY <1>1, <2>1 DEF Call, Result
    <2>3. r.pc = "ended" /\ r.result = a /\ r.attempt = 0 /\ r.since = 0
      BY <2>1 DEF NoCall
    <2> QED BY <1>3, <2>2, <2>3
  <1> QED BY <1>2, <1>3

LEMMA Finishing ==
  ASSUME TypeOK, NEW c \in Calls, NEW a \in {"none", "ok", "invalid", "other", "network"},
         call' = [call EXCEPT ![c] = Ended(@, a)]
  PROVE  Others(c) /\ call'[c] = Ended(call[c], a) /\ call'[c].pc = "ended"
  <1> DEFINE r == Ended(call[c], a)
  <1>1. r \in Call /\ r.pc = "ended"
    BY EndedIs
  <1>2. call' = [call EXCEPT ![c] = r]
    BY DEF TypeOK
  <1> HIDE DEF r
  <1>3. Others(c) /\ call'[c] = r
    BY <1>1, <1>2, CallMoves
  <1> QED BY <1>1, <1>3 DEF r

LEMMA Receiving ==
  ASSUME TypeInv, NEW c \in Calls, Receive(c)
  PROVE  \E r \in wire :
           /\ r \in Awaited(c) /\ r.pc = "answered" /\ wire' = wire \ {r}
           /\ \/ r.answer = "invalid" /\ call[c].attempt = 0 /\ Takes(c, <<>>, 1)
              \/ /\ r.answer # "invalid" \/ call[c].attempt = 1
                 /\ Finishes(c, r.answer)
  <1>1. PICK r \in Awaited(c) :
           /\ r.pc = "answered" /\ wire' = wire \ {r}
           /\ IF r.answer = "invalid" /\ call[c].attempt = 0
              THEN TakeToken(c, <<>>, 1)
              ELSE /\ call' = [call EXCEPT ![c] = Ended(@, r.answer)]
                   /\ UNCHANGED <<pool, refill, batches>>
    BY DEF Receive
  <1>2. r \in wire /\ TypeOK /\ call[c].attempt \in 0 .. 1
    BY CallIs DEF Awaited, TypeInv
  <1>3. r.answer \in {"none", "ok", "invalid", "other"}
    BY <1>2, RequestIs
  <1>4. CASE r.answer = "invalid" /\ call[c].attempt = 0
    <2>1. Takes(c, <<>>, 1)
      BY <1>1, <1>4, Taking
    <2> QED BY <1>1, <1>2, <1>4, <2>1
  <1>5. CASE r.answer # "invalid" \/ call[c].attempt # 0
    <2>1. call' = [call EXCEPT ![c] = Ended(@, r.answer)] /\ UNCHANGED <<pool, refill, batches>>
      BY <1>1, <1>5
    <2>2. Finishes(c, r.answer)
      <3> DEFINE a == r.answer
      <3>1. a \in {"none", "ok", "invalid", "other", "network"}
        BY <1>3
      <3>2. call' = [call EXCEPT ![c] = Ended(@, a)]
        BY <2>1
      <3> HIDE DEF a
      <3>3. Others(c) /\ call'[c] = Ended(call[c], a)
        <4>1. Others(c)
          BY <1>2, <3>1, <3>2, Finishing
        <4>2. call'[c] = Ended(call[c], a)
          BY <1>2, <3>2 DEF TypeOK
        <4> QED BY <4>1, <4>2
      <3> QED BY <2>1, <3>3 DEF Finishes, a
    <2> QED BY <1>1, <1>2, <1>5, <2>2
  <1> QED BY <1>4, <1>5

LEMMA Waking ==
  ASSUME TypeInv, NEW p, NEW why \in SUBSET Reason, why # {}, BatchEnds(p, why)
  PROVE  Wakes(p, why)
  <1> DEFINE woken(d) == [call[d] EXCEPT !.pc = "ready", !.reasons = call[d].reasons \cup why]
  <1>1. \A d \in Calls : call[d] \in Call
    BY CallIs DEF TypeInv
  <1>2. \A d \in Calls : woken(d) \in Call
    BY <1>1 DEF Call
  <1>3. \A d \in Calls : /\ woken(d).pc = "ready"
                         /\ woken(d).reasons = call[d].reasons \cup why
                         /\ woken(d).attempt = call[d].attempt
                         /\ woken(d).since = call[d].since
                         /\ woken(d).token = call[d].token
                         /\ woken(d).result = call[d].result
    BY <1>1 DEF Call
  <1>4. call' = [d \in Calls |-> IF call[d].pc = "waiting" THEN woken(d) ELSE call[d]]
    BY <1>1 DEF BatchEnds, Call
  <1>5. refill' = NoRefill /\ pool' = p
    BY DEF BatchEnds
  <1> HIDE DEF woken
  <1> QED BY <1>1, <1>2, <1>3, <1>4, <1>5 DEF Wakes

(* A batch that is received ends with its tokens or without, or its key is *)
(* asked for.                                                              *)
LEMMA Minting ==
  ASSUME TypeInv, ReceiveIssue \/ ReceivePin
  PROVE  /\ refill.pc # "idle"
         /\ \/ /\ refill' \in Refill /\ refill'.pc = "pinning" /\ refill'.gen = refill.gen
               /\ UNCHANGED <<pool, call>>
            \/ \E why \in SUBSET Reason :
                 \/ Wakes(pool, why)
                 \/ \E k \in Day : refill.gen = gen /\ Wakes(pool \o Minted(k), why)
  <1>1. TypeOK /\ refill \in Refill
    BY DEF TypeInv, TypeOK
  <1>2. ASSUME NEW k \in Day, Mint(k)
        PROVE  \E why \in SUBSET Reason :
                 \/ Wakes(pool, why)
                 \/ refill.gen = gen /\ Wakes(pool \o Minted(k), why)
    <2>1. CASE refill.gen = gen
      <3>1. BatchEnds(pool \o Minted(k), {"crowd"})
        BY <1>2, <2>1 DEF Mint, Minted
      <3>2. Wakes(pool \o Minted(k), {"crowd"})
        BY <3>1, Waking DEF Reason
      <3> QED BY <2>1, <3>2 DEF Reason
    <2>2. CASE refill.gen # gen
      <3>1. Wakes(pool, {"old refill"})
        BY <1>2, <2>2, Waking DEF Mint, Reason
      <3> QED BY <3>1 DEF Reason
    <2> QED BY <2>1, <2>2
  <1>3. CASE ReceiveIssue
    <2>1. CASE refill.pc = "failed" /\
               BatchEnds(pool, {IF refill.gen = gen THEN "issue failed" ELSE "old refill"})
      <3>1. Wakes(pool, {IF refill.gen = gen THEN "issue failed" ELSE "old refill"})
        BY <2>1, Waking DEF Reason
      <3> QED BY <2>1, <3>1 DEF Reason
    <2>2. CASE refill.pc = "issued" /\ Mint(refill.key)
      <3>1. refill.key \in Day
        BY <1>1 DEF Refill
      <3> QED BY <1>2, <2>2, <3>1
    <2>3. CASE /\ refill.pc = "issued" /\ refill' = [refill EXCEPT !.pc = "pinning"]
               /\ UNCHANGED <<pool, call>>
      BY <1>1, <2>3 DEF Refill
    <2> QED BY <1>3, <2>1, <2>2, <2>3 DEF ReceiveIssue
  <1>4. CASE ReceivePin
    <2>1. CASE pin' = PinnedKey /\ pin' = refill.key /\ Mint(pin')
      <3>1. refill.key \in Day /\ Mint(refill.key)
        BY <1>1, <2>1 DEF Refill
      <3> QED BY <1>2, <1>4, <3>1 DEF ReceivePin
    <2>2. CASE BatchEnds(pool, {"key turned"})
      <3>1. Wakes(pool, {"key turned"})
        BY <2>2, Waking DEF Reason
      <3> QED BY <1>4, <3>1 DEF Reason, ReceivePin
    <2>3. CASE BatchEnds(pool, {"issue failed"})
      <3>1. Wakes(pool, {"issue failed"})
        BY <2>3, Waking DEF Reason
      <3> QED BY <1>4, <3>1 DEF Reason, ReceivePin
    <2> QED BY <1>4, <2>1, <2>2, <2>3 DEF ReceivePin
  <1> QED BY <1>3, <1>4

(* The server lets request q take the place of r. *)
LEMMA Redeeming ==
  ASSUME TypeInv, NEW r \in wire, Copy(r) \/ RedeemCheck(r) \/ RedeemSpend(r)
  PROVE  \E q \in Request :
           /\ Follows(q, r) /\ wire' \subseteq wire \cup {q}
           /\ q.pc = "checked" => r.token.key + 1 >= day /\ q.day = day
           /\ q.answer = "invalid" =>
                r.answer = "invalid" \/ r.token \in spent \/ r.token.key + 1 < day
  <1>1. /\ r \in Request /\ r.token \in Token /\ day \in Nat
        /\ r.answer \in {"none", "ok", "invalid", "other"}
    BY RequestIs, Bounds DEF TypeInv, TypeOK, Day
  <1>2. ASSUME NEW q, Step(r, q) PROVE wire' \subseteq wire \cup {q}
    BY <1>2 DEF Step
  <1>3. CASE Copy(r)
    <2> DEFINE q == [r EXCEPT !.copy = 2, !.pc = "sent", !.answer = "none"]
    <2>0. [r EXCEPT !.copy = 2] \in Request
      BY <1>1 DEF Request
    <2>1. q \in Request /\ q.pc = "sent" /\ q.answer = "none" /\ q.copy = 2
      BY <1>1, <2>0 DEF Request
    <2>2. q.call = r.call /\ q.attempt = r.attempt /\ q.token = r.token
      BY <1>1 DEF Request
    <2>3. wire' = wire \cup {q}
      BY <1>3 DEF Copy
    <2> HIDE DEF q
    <2> QED BY <2>1, <2>2, <2>3 DEF Follows
  <1>4. CASE RedeemCheck(r)
    <2>1. CASE Step(r, [r EXCEPT !.pc = "answered", !.answer = "other"])
      <3> DEFINE q == [r EXCEPT !.pc = "answered", !.answer = "other"]
      <3>1. q \in Request /\ Follows(q, r) /\ q.pc = "answered" /\ q.answer = "other"
        BY <1>1 DEF Request, Follows
      <3>2. wire' \subseteq wire \cup {q}
        BY <1>2, <2>1
      <3> HIDE DEF q
      <3> QED BY <3>1, <3>2
    <2>2. CASE r.token.key + 1 >= day /\ Step(r, [r EXCEPT !.pc = "checked", !.day = day])
      <3> DEFINE q == [r EXCEPT !.pc = "checked", !.day = day]
      <3>1. /\ q \in Request /\ Follows(q, r) /\ q.pc = "checked" /\ q.day = day
            /\ q.answer = r.answer
        BY <1>1 DEF Request, Follows, TypeInv, TypeOK
      <3>2. wire' \subseteq wire \cup {q}
        BY <1>2, <2>2
      <3> HIDE DEF q
      <3> QED BY <2>2, <3>1, <3>2
    <2>3. CASE r.token.key + 1 < day /\ Step(r, [r EXCEPT !.pc = "answered", !.answer = "invalid"])
      <3> DEFINE q == [r EXCEPT !.pc = "answered", !.answer = "invalid"]
      <3>1. q \in Request /\ Follows(q, r) /\ q.pc = "answered"
        BY <1>1 DEF Request, Follows
      <3>2. wire' \subseteq wire \cup {q}
        BY <1>2, <2>3
      <3> HIDE DEF q
      <3> QED BY <2>3, <3>1, <3>2
    <2> QED BY <1>4, <2>1, <2>2, <2>3 DEF RedeemCheck
  <1>5. CASE RedeemSpend(r)
    <2> DEFINE a == IF r.token \notin spent THEN "ok" ELSE "invalid"
               q == [r EXCEPT !.pc = "answered", !.answer = a]
    <2>1. a \in {"ok", "invalid"} /\ (a = "invalid" => r.token \in spent)
      OBVIOUS
    <2>2. Step(r, q)
      BY <1>5 DEF RedeemSpend
    <2> HIDE DEF a
    <2>3. q \in Request /\ Follows(q, r) /\ q.pc = "answered" /\ q.answer = a
      BY <1>1, <2>1 DEF Request, Follows
    <2>4. wire' \subseteq wire \cup {q}
      BY <1>2, <2>2
    <2> HIDE DEF q
    <2> QED BY <2>1, <2>3, <2>4
  <1> QED BY <1>3, <1>4, <1>5

-----------------------------------------------------------------------------
(* Types. *)

LEMMA RetriedCount ==
  ASSUME Retried \subseteq Retried', Retried' \subseteq Calls
  PROVE  /\ Cardinality(Retried) \in Nat /\ Cardinality(Retried') \in Nat
         /\ Cardinality(Retried) <= Cardinality(Retried')
         /\ Cardinality(Retried') <= Cardinality(Calls)
         /\ Retried' # Retried => Cardinality(Retried) + 1 <= Cardinality(Retried')
  <1> DEFINE old == Retried
             new == Retried'
  <1>1. IsFiniteSet(new) /\ Cardinality(new) \in Nat /\ Cardinality(new) <= Cardinality(Calls)
    BY Bounds, FS_Subset, FS_CardinalityType
  <1>2. IsFiniteSet(old) /\ Cardinality(old) \in Nat /\ Cardinality(old) <= Cardinality(new)
    BY <1>1, FS_Subset, FS_CardinalityType
  <1>3. ASSUME new # old PROVE Cardinality(old) + 1 <= Cardinality(new)
    BY <1>1, <1>2, <1>3, FS_Subset
  <1> QED BY <1>1, <1>2, <1>3

LEMMA OneMoves ==
  ASSUME TypeInv, NEW c \in Calls, Others(c),
         call[c].attempt = 1 \/ call[c].pc = "ended" =>
           call'[c].attempt = 1 \/ call'[c].pc = "ended"
  PROVE  Retried \subseteq Retried' /\ Retried' \subseteq Calls
  BY DEF Others, Retried

LEMMA RefillKeeps ==
  ASSUME TypeInv, RefillTokens \/ UNCHANGED <<refill, batches>>
  PROVE  /\ refill' \in Refill /\ batches' \in Nat
         /\ batches' = batches \/ batches' = batches + 1
         /\ refill'.pc # "idle" => batches' # 0
         /\ UNCHANGED <<refill, batches>>
            \/ /\ refill.pc = "idle" /\ session # 0 /\ batches' = batches + 1
               /\ refill'.pc = "asked" /\ refill'.gen = gen
  <1>1. /\ refill \in Refill /\ batches \in Nat /\ gen \in Nat /\ session \in Nat
        /\ refill.pc # "idle" => batches # 0
    BY Bounds DEF TypeInv, TypeOK
  <1>2. CASE UNCHANGED <<refill, batches>>
    BY <1>1, <1>2
  <1>3. CASE /\ refill.pc = "idle" /\ session # 0
             /\ refill' = [pc |-> "asked", gen |-> gen, session |-> session, key |-> 0]
             /\ batches' = batches + 1
    BY <1>1, <1>3, Bounds DEF Refill, Day
  <1> QED BY <1>2, <1>3 DEF RefillTokens, Asked

(* The invariant of the types, from what a step does to its parts. *)
ClientOK ==
  /\ session \in 0 .. logins /\ logins \in 0 .. MaxLogins /\ rows \subseteq 1 .. logins
  /\ gen \in Nat /\ pin \in Day \cup {NoKey} /\ day \in Day
  /\ faults \in 0 .. MaxFaults
ServerOK ==
  /\ wire \subseteq Request /\ passed \subseteq Request
  /\ spent \subseteq Token /\ straddled \subseteq Token
CallsOK ==
  /\ pool \in Seq(Token) /\ refill \in Refill /\ batches \in Nat
  /\ call \in [Calls -> Call]
  /\ refill.pc # "idle" => batches # 0
  /\ \A c \in Calls : call[c].pc = "idle" => call[c].attempt = 0

LEMMA TypeParts == TypeInv => ClientOK /\ ServerOK /\ CallsOK
  BY Bounds DEF TypeInv, TypeOK, ClientOK, ServerOK, CallsOK

LEMMA TypeWhole ==
  ASSUME TypeInv, ClientOK', ServerOK', CallsOK',
         Retried \subseteq Retried', Retried' \subseteq Calls,
         batches' = batches \/
         /\ batches' = batches + 1
         /\ batches < MaxBatches \/ Retried' # Retried
  PROVE  TypeInv'
  <1>1. /\ batches \in Nat /\ batches <= MaxBatches + Cardinality(Retried)
        /\ batches' \in Nat
    BY Bounds DEF TypeInv, TypeOK, CallsOK
  <1>2. batches' <= MaxBatches + Cardinality(Retried)'
    BY <1>1, RetriedCount, Bounds
  <1>3. batches' \in 0 .. Batches
    BY <1>1, <1>2, RetriedCount, Bounds DEF Batches
  <1> QED BY <1>2, <1>3 DEF TypeInv, TypeOK, ClientOK, ServerOK, CallsOK

LEMMA InitType == Init => TypeInv
  <1> SUFFICES ASSUME Init PROVE TypeInv
    OBVIOUS
  <1>1. /\ day = 0 /\ session = 0 /\ logins = 0 /\ rows = {} /\ pool = <<>> /\ gen = 0
        /\ pin = NoKey /\ refill = NoRefill /\ batches = 0
        /\ call = [c \in Calls |-> NoCall]
        /\ wire = {} /\ spent = {} /\ faults = 0 /\ passed = {} /\ straddled = {}
    BY DEF Init
  <1>2. NoRefill \in Refill /\ NoRefill.pc = "idle"
    BY Bounds DEF NoRefill, Refill, Day
  <1>3. NoCall \in Call
    BY Bounds DEF NoCall, Call, Result
  <1>4. TypeOK
    BY <1>1, <1>2, <1>3, Bounds DEF TypeOK, Day
  <1>5. Cardinality(Retried) \in Nat
    BY Bounds, FS_Subset, FS_CardinalityType DEF Retried
  <1>6. NoCall.attempt = 0
    BY DEF NoCall
  <1> QED BY <1>1, <1>2, <1>4, <1>5, <1>6, Bounds DEF TypeInv

LEMMA NextType == TypeInv /\ [Next]_vars => TypeInv'
  <1> SUFFICES ASSUME TypeInv, [Next]_vars PROVE TypeInv'
    OBVIOUS
  <1>0. /\ ClientOK /\ ServerOK /\ CallsOK /\ TypeOK /\ Cardinality(Retried) \in Nat
        /\ batches <= MaxBatches + Cardinality(Retried)
    BY TypeParts, Bounds, FS_Subset, FS_CardinalityType DEF TypeInv, Retried
  <1>1. ASSUME UNCHANGED call
        PROVE  Retried \subseteq Retried' /\ Retried' \subseteq Calls
    BY <1>1 DEF Retried
  <1>2. ASSUME UNCHANGED <<call, pool, refill, batches>> PROVE CallsOK'
    BY <1>0, <1>2 DEF CallsOK
  <1>3. ASSUME UNCHANGED server PROVE ServerOK'
    BY <1>0, <1>3 DEF ServerOK, server
  <1>4. ASSUME UNCHANGED <<session, logins, rows, gen, pin, day>>, faults' \in 0 .. MaxFaults
        PROVE  ClientOK'
    BY <1>0, <1>4 DEF ClientOK
  <1>5. ASSUME NEW f, Fault(f) \/ UNCHANGED faults PROVE faults' \in 0 .. MaxFaults
    BY <1>0, <1>5, Bounds DEF Fault, ClientOK
  <1>6. CASE UNCHANGED vars
    BY <1>0, <1>1, <1>6, TypeWhole DEF vars, ClientOK, ServerOK, CallsOK
  <1>7. CASE Login \/ Lock \/ Midnight
    <2>1. UNCHANGED <<call, batches, wire, passed, spent, straddled, refill>>
      BY <1>7 DEF Login, Lock, Midnight, client
    <2>2. CallsOK' /\ ServerOK'
      <3>1. pool' \in Seq(Token)
        BY <1>0, <1>7, EmptySeq DEF CallsOK, Login, Lock, Midnight, client
      <3> QED BY <1>0, <2>1, <3>1 DEF CallsOK, ServerOK
    <2>3. ClientOK'
      <3>1. CASE Login
        BY <1>0, <3>1, Bounds DEF ClientOK, Login
      <3>2. CASE Lock
        <4>1. faults' \in 0 .. MaxFaults
          BY <1>5, <3>2 DEF Lock
        <4>2. /\ rows' \subseteq rows /\ session' = 0 /\ gen' = gen + 1 /\ pin' = NoKey
              /\ UNCHANGED <<day, logins>>
          BY <3>2 DEF Lock
        <4> QED BY <1>0, <4>1, <4>2, Bounds DEF ClientOK
      <3>3. CASE Midnight
        BY <1>0, <3>3, Bounds DEF ClientOK, Midnight, client, Day
      <3> QED BY <1>7, <3>1, <3>2, <3>3
    <2> QED BY <1>1, <2>1, <2>2, <2>3, TypeWhole
  <1>8. CASE Prefetch
    <2>1. /\ UNCHANGED <<server, faults, session, logins, pool, gen, pin, call>>
          /\ RefillTokens /\ batches < MaxBatches
      BY <1>8 DEF Prefetch
    <2>2. CallsOK'
      BY <1>0, <2>1, RefillKeeps DEF CallsOK
    <2>3. ClientOK' /\ ServerOK'
      BY <1>0, <2>1 DEF ClientOK, ServerOK, server
    <2> QED BY <1>1, <2>1, <2>2, <2>3, RefillKeeps, TypeWhole
  <1>9. CASE Issue
    <2>1. /\ UNCHANGED <<server, session, logins, pool, gen, pin, batches, call>>
          /\ faults' \in 0 .. MaxFaults /\ refill.pc = "asked"
          /\ Evaluate \/ \E pc \in {"failed", "stalled"} : refill' = [refill EXCEPT !.pc = pc]
      BY <1>5, <1>9 DEF Issue
    <2>2. refill' \in Refill
      BY <1>0, <2>1 DEF Evaluate, CallsOK, ClientOK, Refill
    <2>3. CallsOK' /\ ClientOK' /\ ServerOK'
      BY <1>0, <2>1, <2>2 DEF CallsOK, ClientOK, ServerOK, server
    <2> QED BY <1>1, <2>1, <2>3, TypeWhole
  <1>10. CASE ReceiveIssue \/ ReceivePin
    <2>1. /\ UNCHANGED <<server, session, logins, gen, batches>>
          /\ faults' \in 0 .. MaxFaults /\ pin' \in Day \cup {NoKey}
      BY <1>0, <1>5, <1>10 DEF ReceiveIssue, ReceivePin, PinnedKey, ClientOK
    <2>2. batches # 0
      BY <1>10, Minting DEF TypeInv
    <2>3. CallsOK' /\ Retried \subseteq Retried' /\ Retried' \subseteq Calls
      <3>1. CASE refill' \in Refill /\ UNCHANGED <<pool, call>>
        BY <1>0, <1>1, <2>1, <2>2, <3>1 DEF CallsOK
      <3>2. ASSUME NEW p \in Seq(Token), NEW why, Wakes(p, why)
            PROVE  CallsOK' /\ Retried \subseteq Retried' /\ Retried' \subseteq Calls
        <4>1. NoRefill \in Refill
          BY Bounds DEF NoRefill, Refill, Day
        <4>2. CallsOK'
          BY <1>0, <2>1, <2>2, <3>2, <4>1 DEF CallsOK, Wakes
        <4>3. Retried \subseteq Retried' /\ Retried' \subseteq Calls
          BY <3>2 DEF Retried, Wakes
        <4> QED BY <4>2, <4>3
      <3>3. \A k \in Day : pool \o Minted(k) \in Seq(Token)
        <4>1. refill.pc # "idle" /\ pool \in Seq(Token)
          BY <1>0, <1>10, Minting DEF CallsOK
        <4> QED BY <4>1, TokensTyped, ConcatProperties
      <3> QED BY <1>0, <1>10, <3>1, <3>2, <3>3, Minting DEF CallsOK
    <2>4. ClientOK' /\ ServerOK'
      BY <1>0, <2>1 DEF ClientOK, ServerOK, server
    <2> QED BY <2>1, <2>3, <2>4, TypeWhole
  <1>11. ASSUME NEW c \in Calls, BeginCall(c) PROVE TypeInv'
    <2>1. Takes(c, pool, 0) /\ call[c].pc = "idle"
      BY <1>11, Taking DEF BeginCall
    <2>2. UNCHANGED <<day, rows, wire, spent, passed, straddled, faults, session, logins,
                      gen, pin>>
      BY <1>11 DEF BeginCall
    <2>3. ClientOK' /\ ServerOK'
      BY <1>0, <2>2 DEF ClientOK, ServerOK
    <2>4. CallsOK'
      BY <1>0, <2>1, RefillKeeps DEF Takes, Others, CallsOK
    <2>5. batches' = batches \/ (batches' = batches + 1 /\ batches < MaxBatches)
      <3>1. CASE UNCHANGED <<refill, batches>>
        <4>1. batches' = batches
          BY <3>1
        <4> QED BY <4>1
      <3>2. CASE RefillTokens /\ pool = <<>> /\ ~UNCHANGED <<refill, batches>>
        <4>1. refill.pc = "idle" /\ session # 0 /\ batches' = batches + 1
          BY <3>2, RefillKeeps
        <4> QED BY <1>11, <3>2, <4>1 DEF BeginCall
      <3> QED BY <2>1, <3>1, <3>2 DEF Takes
    <2>6. Retried \subseteq Retried' /\ Retried' \subseteq Calls
      <3>1. call[c].attempt = 0
        BY <2>1 DEF TypeInv
      <3> QED BY <2>1, <3>1, OneMoves DEF Takes
    <2> QED BY <2>3, <2>4, <2>5, <2>6, TypeWhole
  <1>12. ASSUME NEW c \in Calls, Proceed(c) PROVE TypeInv'
    <2>1. /\ UNCHANGED <<day, rows, spent, passed, straddled, faults, session, logins,
                         gen, pin>>
          /\ RefillIfLow(pool') /\ call[c].pc = "ready"
      BY <1>12 DEF Proceed
    <2>2. ClientOK' /\ wire' \subseteq Request /\ pool' \in Seq(Token) /\ Others(c)
          /\ call'[c].attempt = call[c].attempt /\ call'[c].pc # "idle"
      <3>1. CASE EndsWithout(c)
        BY <1>0, <2>1, <3>1 DEF EndsWithout, ClientOK, ServerOK, CallsOK
      <3>2. ASSUME NEW r \in Request, Sends(c, r)
            PROVE  /\ ClientOK' /\ wire' \subseteq Request /\ pool' \in Seq(Token)
                   /\ Others(c) /\ call'[c].attempt = call[c].attempt
                   /\ call'[c].pc # "idle"
        <4>1. pool' \in Seq(Token)
          BY <1>0, <3>2, HeadTailProperties DEF Sends, CallsOK
        <4> QED BY <1>0, <2>1, <3>2, <4>1 DEF Sends, ClientOK, ServerOK
      <3> QED BY <1>12, <3>1, <3>2, Proceeding
    <2>3. (RefillTokens /\ batches < MaxBatches) \/ UNCHANGED <<refill, batches>>
      BY <2>1 DEF RefillIfLow
    <2>4. ServerOK' /\ CallsOK'
      <3>1. /\ refill' \in Refill /\ batches' \in Nat
            /\ refill'.pc # "idle" => batches' # 0
        BY <2>3, RefillKeeps
      <3> QED BY <1>0, <2>1, <2>2, <3>1 DEF ServerOK, CallsOK, Others
    <2>5. batches' = batches \/ (batches' = batches + 1 /\ batches < MaxBatches)
      <3>1. batches' = batches \/ batches' = batches + 1
        BY <2>3, RefillKeeps
      <3>2. batches' # batches => batches < MaxBatches
        BY <2>3
      <3> QED BY <3>1, <3>2
    <2>6. Retried \subseteq Retried' /\ Retried' \subseteq Calls
      BY <2>1, <2>2, OneMoves
    <2> QED BY <2>2, <2>4, <2>5, <2>6, TypeWhole
  <1>13. ASSUME NEW c \in Calls, Receive(c) PROVE TypeInv'
    <2>1. /\ UNCHANGED <<day, rows, spent, passed, straddled, faults, session, logins,
                         gen, pin>>
          /\ call[c].pc = "sent"
      BY <1>13 DEF Receive
    <2>2. PICK r \in wire :
            /\ r \in Awaited(c) /\ r.pc = "answered" /\ wire' = wire \ {r}
            /\ \/ r.answer = "invalid" /\ call[c].attempt = 0 /\ Takes(c, <<>>, 1)
               \/ Finishes(c, r.answer)
      BY <1>13, Receiving
    <2>3. ClientOK' /\ ServerOK'
      BY <1>0, <2>1, <2>2 DEF ClientOK, ServerOK
    <2>4. CASE call[c].attempt = 0 /\ Takes(c, <<>>, 1)
      <3>1. <<>> \in Seq(Token)
        BY EmptySeq
      <3>2. CallsOK'
        BY <1>0, <2>4, <3>1, RefillKeeps DEF Takes, Others, CallsOK
      <3>3. Retried \subseteq Retried' /\ Retried' \subseteq Calls
        BY <2>4, OneMoves DEF Takes
      <3>4. c \in Retried' /\ c \notin Retried
        BY <2>1, <2>4 DEF Retried, Takes
      <3>5. batches' = batches \/ batches' = batches + 1
        BY <2>4, RefillKeeps DEF Takes
      <3> QED BY <2>3, <3>2, <3>3, <3>4, <3>5, TypeWhole
    <2>5. CASE Finishes(c, r.answer)
      <3>1. call'[c].pc = "ended" /\ Others(c) /\ UNCHANGED <<pool, refill, batches>>
        BY <2>5, CallIs DEF Finishes, Ended, NoCall, Call, TypeInv
      <3>2. CallsOK'
        BY <1>0, <3>1 DEF CallsOK, Others
      <3>3. Retried \subseteq Retried' /\ Retried' \subseteq Calls
        BY <3>1, OneMoves
      <3> QED BY <2>3, <3>1, <3>2, <3>3, TypeWhole
    <2> QED BY <2>2, <2>4, <2>5
  <1>14. ASSUME NEW c \in Calls, GiveUp(c) PROVE TypeInv'
    <2>1. /\ UNCHANGED <<day, rows, spent, passed, straddled, session, logins, pool, gen,
                         pin, refill, batches>>
          /\ faults' \in 0 .. MaxFaults /\ wire' \subseteq wire
          /\ call' = [call EXCEPT ![c] = Ended(@, "network")]
      BY <1>5, <1>14 DEF GiveUp
    <2>2. call'[c].pc = "ended" /\ Others(c)
      BY <1>0, <2>1, Finishing
    <2>3. CallsOK' /\ ClientOK' /\ ServerOK'
      BY <1>0, <2>1, <2>2 DEF CallsOK, Others, ClientOK, ServerOK
    <2> QED BY <2>1, <2>2, <2>3, OneMoves, TypeWhole
  <1>15. ASSUME NEW r \in wire, Copy(r) \/ RedeemCheck(r) \/ RedeemSpend(r) PROVE TypeInv'
    <2>1. UNCHANGED <<client, day, rows>> /\ faults' \in 0 .. MaxFaults
      BY <1>5, <1>15 DEF Copy, RedeemCheck, RedeemSpend
    <2>2. r \in Request /\ r.token \in Token
      BY <1>0, RequestIs
    <2>3. wire' \subseteq Request
      BY <1>0, <1>15, Redeeming DEF ServerOK
    <2>4. passed' \subseteq Request
      <3>1. [r EXCEPT !.pc = "answered"] \in Request
        BY <2>2 DEF Request
      <3> QED BY <1>0, <1>15, <3>1 DEF Copy, RedeemCheck, RedeemSpend, ServerOK
    <2>5. spent' \subseteq Token /\ straddled' \subseteq Token
      BY <1>0, <1>15, <2>2 DEF Copy, RedeemCheck, RedeemSpend, ServerOK
    <2>6. ServerOK' /\ ClientOK' /\ CallsOK'
      BY <1>0, <2>1, <2>3, <2>4, <2>5 DEF ServerOK, ClientOK, CallsOK, client
    <2> QED BY <1>1, <2>1, <2>6, TypeWhole DEF client
  <1> QED BY <1>6, <1>7, <1>8, <1>9, <1>10, <1>11, <1>12, <1>13, <1>14, <1>15 DEF Next

(* Variables hold what the code's hold: the sorts of TypeOK, in every      *)
(* state, with the bound on batches that TLC only sees reached.            *)
THEOREM TypeCorrect == Spec => []TypeOK
  <1>1. Spec => []TypeInv
    BY InitType, NextType, PTL DEF Spec
  <1>2. TypeInv => TypeOK
    BY DEF TypeInv
  <1> QED BY <1>1, <1>2, PTL

-----------------------------------------------------------------------------
(* The pool. *)

(* Where the tokens of the pool, the batch in flight and the session come  *)
(* from.                                                                   *)
PoolFrom ==
  \/ pool' = pool
  \/ pool' = <<>>
  \/ pool # <<>> /\ pool' = Tail(pool)
  \/ refill.pc # "idle" /\ refill.gen = gen /\ \E k \in Day : pool' = pool \o Minted(k)
RefillFrom ==
  \/ refill'.pc = "idle" /\ refill'.gen = 0
  \/ refill.pc # "idle" /\ refill'.gen = refill.gen
  \/ refill.pc = "idle" /\ session # 0 /\ refill'.gen = gen
  \/ refill' = refill
SessionFrom ==
  \/ session' = session /\ gen' = gen
  \/ session' # 0 /\ gen' = gen /\ refill' = refill
  \/ session' = 0 /\ gen' = gen + 1 /\ pool' = <<>> /\ refill' = refill
PoolMoves == PoolFrom /\ RefillFrom /\ SessionFrom

LEMMA ClientMoves ==
  ASSUME TypeInv, [Next]_vars
  PROVE  PoolMoves
  <1> USE DEF PoolMoves, PoolFrom, RefillFrom, SessionFrom
  <1>0. TypeOK /\ refill \in Refill /\ logins \in Nat
    BY Bounds DEF TypeInv, TypeOK
  <1>1. ASSUME (RefillTokens \/ UNCHANGED <<refill, batches>>) PROVE RefillFrom
    BY <1>1, RefillKeeps
  <1>2. CASE UNCHANGED vars
    BY <1>2 DEF vars
  <1>3. CASE Login \/ Lock \/ Midnight
    BY <1>0, <1>3 DEF Login, Lock, Midnight, client
  <1>4. CASE Prefetch
    BY <1>1, <1>4 DEF Prefetch
  <1>5. CASE Issue
    BY <1>0, <1>5 DEF Issue, Evaluate, Refill
  <1>6. CASE ReceiveIssue \/ ReceivePin
    <2>1. UNCHANGED <<session, gen>>
      BY <1>6 DEF ReceiveIssue, ReceivePin
    <2>2. NoRefill.pc = "idle" /\ NoRefill.gen = 0
      BY DEF NoRefill
    <2> QED BY <1>6, <2>1, <2>2, Minting DEF Wakes
  <1>7. ASSUME NEW c \in Calls, BeginCall(c) PROVE PoolMoves
    <2>1. Takes(c, pool, 0) /\ UNCHANGED <<session, gen>>
      BY <1>7, Taking DEF BeginCall
    <2> QED BY <1>1, <2>1 DEF Takes
  <1>8. ASSUME NEW c \in Calls, Proceed(c) PROVE PoolMoves
    <2>1. UNCHANGED <<session, gen>> /\ RefillIfLow(pool')
      BY <1>8 DEF Proceed
    <2>2. PoolFrom
      BY <1>8, Proceeding DEF EndsWithout, Sends
    <2> QED BY <1>1, <2>1, <2>2 DEF RefillIfLow
  <1>9. ASSUME NEW c \in Calls, Receive(c) PROVE PoolMoves
    <2>1. UNCHANGED <<session, gen>>
      BY <1>9 DEF Receive
    <2>2. Takes(c, <<>>, 1) \/ UNCHANGED <<pool, refill, batches>>
      BY <1>9, Receiving DEF Finishes
    <2> QED BY <1>1, <2>1, <2>2 DEF Takes
  <1>10. ASSUME NEW c \in Calls, GiveUp(c) PROVE PoolMoves
    BY <1>10 DEF GiveUp
  <1>11. ASSUME NEW r \in wire, Copy(r) \/ RedeemCheck(r) \/ RedeemSpend(r)
         PROVE  PoolMoves
    BY <1>11 DEF Copy, RedeemCheck, RedeemSpend, client
  <1> QED BY <1>2, <1>3, <1>4, <1>5, <1>6, <1>7, <1>8, <1>9, <1>10, <1>11 DEF Next

(* A token of the pool was there, or belongs to the batch that ends.       *)
LEMMA PoolElements ==
  ASSUME TypeInv, PoolFrom, NEW j \in DOMAIN pool'
  PROVE  \/ \E i \in DOMAIN pool : pool'[j] = pool[i]
         \/ /\ refill.pc # "idle" /\ refill.gen = gen
            /\ pool'[j].gen = gen /\ pool'[j].batch = batches
  <1>1. pool \in Seq(Token) /\ Batch \in Nat
    BY Bounds DEF TypeInv, TypeOK
  <1>2. CASE pool' = pool
    BY <1>2
  <1>3. CASE pool' = <<>>
    BY <1>3
  <1>4. CASE pool # <<>> /\ pool' = Tail(pool)
    BY <1>1, <1>4
  <1>5. ASSUME NEW k \in Day, refill.pc # "idle", refill.gen = gen, pool' = pool \o Minted(k)
        PROVE  \/ \E i \in DOMAIN pool : pool'[j] = pool[i]
               \/ pool'[j].gen = gen /\ pool'[j].batch = batches
    <2> DEFINE m == Minted(k)
    <2>1. m \in Seq(Token) /\ \A i \in DOMAIN m : m[i].gen = gen /\ m[i].batch = batches
      BY <1>5, TokensTyped DEF Minted
    <2> HIDE DEF m
    <2>2. j \in 1 .. Len(pool) + Len(m)
      BY <1>1, <1>5, <2>1 DEF m
    <2>3. CASE j <= Len(pool)
      BY <1>1, <1>5, <2>1, <2>2, <2>3 DEF m
    <2>4. CASE j > Len(pool)
      <3>1. pool'[j] = m[j - Len(pool)] /\ j - Len(pool) \in DOMAIN m
        BY <1>1, <1>5, <2>1, <2>2, <2>4 DEF m
      <3> QED BY <2>1, <3>1
    <2> QED BY <1>1, <2>1, <2>2, <2>3, <2>4
  <1> QED BY <1>2, <1>3, <1>4, <1>5 DEF PoolFrom

LEMMA NextPool == TypeInv /\ PoolInv /\ [Next]_vars => PoolInv'
  <1> SUFFICES ASSUME TypeInv, PoolInv, [Next]_vars PROVE PoolInv'
    OBVIOUS
  <1>1. PoolMoves /\ TypeInv'
    BY ClientMoves, NextType
  <1>2. /\ gen \in Nat /\ refill \in Refill /\ refill.gen \in Nat /\ session \in Nat
        /\ pool \in Seq(Token) /\ pool' \in Seq(Token)
    BY <1>1, Bounds DEF TypeInv, TypeOK, Refill
  <1>3. refill'.gen <= gen'
    BY <1>1, <1>2 DEF PoolInv, PoolMoves, RefillFrom, SessionFrom
  <1>4. refill'.pc # "idle" /\ refill'.gen = gen' => session' # 0
    BY <1>1, <1>2 DEF PoolInv, PoolMoves, RefillFrom, SessionFrom
  <1>5. session' = 0 => pool' = <<>>
    <2>1. CASE session' = 0 /\ session = 0 /\ gen' = gen
      <3>1. pool = <<>> /\ ~(refill.pc # "idle" /\ refill.gen = gen)
        BY <2>1 DEF PoolInv, PoolIsOfThisSession
      <3> QED BY <1>1, <3>1 DEF PoolMoves, PoolFrom
    <2> QED BY <1>1, <2>1 DEF PoolMoves, SessionFrom
  <1>6. ASSUME NEW j \in DOMAIN pool' PROVE pool'[j].gen = gen'
    <2>1. CASE gen' = gen
      BY <1>1, <1>2, <1>6, <2>1, PoolElements DEF PoolInv, PoolIsOfThisSession, PoolMoves
    <2>2. CASE pool' = <<>>
      BY <1>6, <2>2
    <2> QED BY <1>1, <2>1, <2>2 DEF PoolMoves, SessionFrom
  <1> QED BY <1>3, <1>4, <1>5, <1>6 DEF PoolInv, PoolIsOfThisSession

(* "An in-flight issuance cannot refill a locked pool" (sync-client.ts):   *)
(* whatever batches, answers and locks cross, the pool holds only tokens   *)
(* of the present session, and none when there is no session.              *)
THEOREM PoolOfSession == Spec => []PoolIsOfThisSession
  <1>1. Init => TypeInv /\ PoolInv
    <2>1. Init => PoolInv
      BY DEF Init, PoolInv, PoolIsOfThisSession, NoRefill
    <2> QED BY <2>1, InitType
  <1>2. Spec => [](TypeInv /\ PoolInv)
    BY <1>1, NextType, NextPool, PTL DEF Spec
  <1>3. TypeInv /\ PoolInv => PoolIsOfThisSession
    BY DEF PoolInv
  <1> QED BY <1>2, <1>3, PTL


-----------------------------------------------------------------------------
(* Redemption. *)

LEMMA ServerMoves ==
  ASSUME TypeInv, [Next]_vars
  PROVE  /\ \/ UNCHANGED <<spent, passed, straddled>>
            \/ \E r \in wire : RedeemSpend(r)
         /\ day \in Nat
         /\ day' = day \/ (day' = day + 1 /\ wire' = wire)
  <1>0. day \in Nat
    BY Bounds DEF TypeInv, TypeOK, Day
  <1>1. CASE UNCHANGED vars
    BY <1>0, <1>1 DEF vars
  <1>2. CASE Login \/ Prefetch \/ Lock \/ Midnight \/ Issue \/ ReceiveIssue \/ ReceivePin
    BY <1>0, <1>2 DEF Login, Prefetch, Lock, Midnight, Issue, ReceiveIssue, ReceivePin, server
  <1>3. CASE \E c \in Calls : BeginCall(c) \/ Proceed(c) \/ Receive(c) \/ GiveUp(c)
    BY <1>0, <1>3 DEF BeginCall, Proceed, Receive, GiveUp
  <1>4. CASE \E r \in wire : Copy(r) \/ RedeemCheck(r) \/ RedeemSpend(r)
    BY <1>0, <1>4 DEF Copy, RedeemCheck, RedeemSpend
  <1> QED BY <1>1, <1>2, <1>3, <1>4 DEF Next

(* A request on the wire was there, is sent, or comes from another one.    *)
LEMMA WireMoves ==
  ASSUME TypeInv, [Next]_vars, NEW q \in wire'
  PROVE  \/ q \in wire
         \/ \E c \in Calls : Sends(c, q)
         \/ \E r \in wire :
              /\ Follows(q, r)
              /\ q.pc = "checked" => r.token.key + 1 >= day /\ q.day = day
              /\ q.answer = "invalid" =>
                   r.answer = "invalid" \/ r.token \in spent \/ r.token.key + 1 < day
  <1>1. CASE UNCHANGED vars
    BY <1>1 DEF vars
  <1>2. CASE Login \/ Prefetch \/ Lock \/ Midnight \/ Issue \/ ReceiveIssue \/ ReceivePin
    BY <1>2 DEF Login, Prefetch, Lock, Midnight, Issue, ReceiveIssue, ReceivePin, server
  <1>3. CASE \E c \in Calls : BeginCall(c) \/ Receive(c) \/ GiveUp(c)
    BY <1>3 DEF BeginCall, Receive, GiveUp
  <1>4. ASSUME NEW c \in Calls, Proceed(c) PROVE q \in wire \/ Sends(c, q)
    <2>1. CASE EndsWithout(c)
      BY <2>1 DEF EndsWithout
    <2>2. ASSUME NEW r \in Request, Sends(c, r) PROVE q \in wire \/ Sends(c, q)
      <3>1. q \in wire \/ q = r
        BY <2>2 DEF Sends
      <3> QED BY <2>2, <3>1
    <2> QED BY <1>4, <2>1, <2>2, Proceeding
  <1>5. ASSUME NEW r \in wire, Copy(r) \/ RedeemCheck(r) \/ RedeemSpend(r)
        PROVE  \/ q \in wire
               \/ /\ Follows(q, r)
                  /\ q.pc = "checked" => r.token.key + 1 >= day /\ q.day = day
                  /\ q.answer = "invalid" =>
                       r.answer = "invalid" \/ r.token \in spent \/ r.token.key + 1 < day
    BY <1>5, Redeeming
  <1> QED BY <1>1, <1>2, <1>3, <1>4, <1>5 DEF Next

LEMMA PassedIs ==
  ASSUME TypeOK, NEW p \in passed
  PROVE  p.token \in Token /\ p.token.key \in Nat
  <1>1. p.token \in Token
    BY DEF TypeOK, Request
  <1> QED BY <1>1, Bounds DEF Token, Day

LEMMA NextRedeem == TypeInv /\ RedeemInv /\ [Next]_vars => RedeemInv'
  <1> SUFFICES ASSUME TypeInv, RedeemInv, [Next]_vars PROVE RedeemInv'
    OBVIOUS
  <1>1. TypeOK /\ TypeOK' /\ day \in Nat /\ day' \in Nat /\ day <= day'
    BY NextType, ServerMoves DEF TypeInv
  <1>2. ASSUME NEW q \in wire', q.pc = "checked"
        PROVE  q.token.key + 1 >= q.day /\ q.day <= day'
    <2>1. CASE q \in wire
      BY <1>1, <1>2, <2>1, RequestIs DEF RedeemInv, Checked
    <2>2. CASE \E c \in Calls : Sends(c, q)
      BY <1>2, <2>2 DEF Sends
    <2>3. ASSUME NEW r \in wire, Follows(q, r), r.token.key + 1 >= day /\ q.day = day
          PROVE  q.token.key + 1 >= q.day /\ q.day <= day'
      BY <1>1, <2>3 DEF Follows
    <2> QED BY <1>2, <2>1, <2>2, <2>3, WireMoves
  <1>3. CASE UNCHANGED <<spent, passed, straddled>>
    <2>1. PassedIsSpent'
      BY <1>1, <1>3, PassedIs DEF RedeemInv, PassedIsSpent
    <2>2. TokenWorksOnce'
      BY <1>3 DEF RedeemInv, TokenWorksOnce
    <2> QED BY <1>2, <2>1, <2>2 DEF RedeemInv, Checked
  <1>4. ASSUME NEW r \in wire, RedeemSpend(r) PROVE RedeemInv'
    <2> DEFINE s == [r EXCEPT !.pc = "answered"]
    <2>1. /\ r.token.key \in Nat /\ r.day \in Nat
          /\ r.token.key + 1 >= r.day /\ r.day <= day
      BY <1>1, <1>4, RequestIs DEF RedeemInv, Checked, RedeemSpend
    <2>2. day' = day /\ s.token = r.token
      <3>1. r \in Request
        BY <1>1, RequestIs
      <3> QED BY <1>4, <3>1 DEF RedeemSpend, Request
    <2>3. passed' \subseteq passed \cup {s} /\ (r.token \in spent => passed' = passed)
      BY <1>4 DEF RedeemSpend
    <2>4. /\ straddled \subseteq straddled'
          /\ r.day < day => r.token \in straddled'
      BY <1>4 DEF RedeemSpend
    <2>5. \A t \in spent \cup {r.token} : t.key + 1 >= r.day => t \in spent'
      BY <1>4 DEF RedeemSpend
    <2> HIDE DEF s
    <2>6. ASSUME NEW p \in passed' PROVE p.token \in spent' \/ p.token.key + 1 < day'
      <3>1. CASE p \in passed
        <4>1. p.token.key \in Nat /\ (p.token \in spent \/ p.token.key + 1 < day)
          BY <1>1, <3>1, PassedIs DEF RedeemInv, PassedIsSpent
        <4> QED BY <1>1, <2>1, <2>2, <2>5, <4>1
      <3>2. CASE p = s
        BY <2>1, <2>2, <2>5, <3>2
      <3> QED BY <2>3, <3>1, <3>2
    <2>7. ASSUME NEW p \in passed, p.token = r.token, r.token \notin spent
          PROVE  r.token \in straddled'
      <3>1. r.token.key + 1 < day
        BY <2>7 DEF RedeemInv, PassedIsSpent
      <3> QED BY <1>1, <2>1, <2>4, <3>1
    <2>8. ASSUME NEW p \in passed', NEW q \in passed', p.token = q.token
          PROVE  p = q \/ p.token \in straddled'
      <3>1. CASE p \in passed /\ q \in passed
        BY <2>4, <2>8, <3>1 DEF RedeemInv, TokenWorksOnce
      <3>2. CASE p \notin passed \/ q \notin passed
        BY <2>2, <2>3, <2>7, <2>8, <3>2
      <3> QED BY <3>1, <3>2
    <2> QED BY <1>2, <2>6, <2>8 DEF RedeemInv, Checked, PassedIsSpent, TokenWorksOnce
  <1> QED BY <1>3, <1>4, ServerMoves

LEMMA InitRedeem == Init => RedeemInv
  BY DEF Init, RedeemInv, Checked, PassedIsSpent, TokenWorksOnce

(* "Each token works exactly once" (anon-tokens.ts), for any windows,      *)
(* copies and sweeps: two requests that were both let through with one     *)
(* token are the same, unless one was checked before the change of the     *)
(* window and spent after it.                                              *)
THEOREM TokenOnce == Spec => []TokenWorksOnce
  <1>1. Spec => [](TypeInv /\ RedeemInv)
    BY InitType, InitRedeem, NextType, NextRedeem, PTL DEF Spec
  <1>2. TypeInv /\ RedeemInv => TokenWorksOnce
    BY DEF RedeemInv
  <1> QED BY <1>1, <1>2, PTL


-----------------------------------------------------------------------------
(* Why calls fail. *)

LEMMA NextCause ==
  ASSUME TypeInv, RefusalHasCause, [Next]_vars
  PROVE  RefusalHasCause' /\ passed \subseteq passed'
  <1>1. TypeOK /\ day \in Nat /\ day' \in Nat /\ day <= day'
    BY ServerMoves DEF TypeInv
  <1>2. /\ passed \subseteq passed'
        /\ \A t \in spent' : \E p \in passed' : p.token = t
    <2>1. CASE UNCHANGED <<spent, passed, straddled>>
      BY <2>1 DEF RefusalHasCause, Passed
    <2>2. ASSUME NEW r \in wire, RedeemSpend(r)
          PROVE  /\ passed \subseteq passed'
                 /\ \A t \in spent' : \E p \in passed' : p.token = t
      <3> DEFINE s == [r EXCEPT !.pc = "answered"]
      <3>1. s.token = r.token
        BY <1>1, RequestIs DEF Request
      <3>2. spent' \subseteq spent \cup {r.token}
        BY <2>2 DEF RedeemSpend
      <3>3. passed' = IF r.token \notin spent THEN passed \cup {s} ELSE passed
        BY <2>2 DEF RedeemSpend
      <3> HIDE DEF s
      <3> QED BY <3>1, <3>2, <3>3 DEF RefusalHasCause, Passed
    <2> QED BY <2>1, <2>2, ServerMoves
  <1>3. \A t : Passed(t) => Passed(t)'
    BY <1>2 DEF Passed
  <1>4. ASSUME NEW q \in wire', q.answer = "invalid"
        PROVE  Passed(q.token)' \/ q.token.key + 2 <= day'
    <2>1. ASSUME NEW r \in wire, q.token = r.token,
                 r.answer = "invalid" \/ r.token \in spent \/ r.token.key + 1 < day
          PROVE  Passed(q.token)' \/ q.token.key + 2 <= day'
      <3>1. Passed(r.token) \/ r.token.key + 2 <= day
        BY <1>1, <2>1, RequestIs DEF RefusalHasCause
      <3> QED BY <1>1, <1>3, <2>1, <3>1, RequestIs
    <2>2. CASE \E c \in Calls : Sends(c, q)
      BY <1>4, <2>2 DEF Sends
    <2> QED BY <1>4, <2>1, <2>2, WireMoves DEF Follows
  <1> QED BY <1>2, <1>4 DEF RefusalHasCause, Passed

(* What a step does to the calls. *)
Quiet == call' = call /\ (Settled \/ UNCHANGED <<session, pool>>)
Asks(c) ==
  /\ Settled /\ UNCHANGED session
  /\ \/ call[c].pc = "idle" /\ Takes(c, pool, 0)
     \/ call[c].pc = "sent" /\ call[c].attempt = 0 /\ Takes(c, <<>>, 1)
Continues(c) ==
  /\ call[c].pc = "ready" /\ UNCHANGED session
  /\ \/ EndsWithout(c)
     \/ \E r \in Request : Sends(c, r) /\ Head(pool) \in Token
Ends(c) ==
  /\ Settled /\ UNCHANGED session
  /\ call[c].pc = "sent"
  /\ \/ Finishes(c, "network")
     \/ \E r \in Awaited(c) : /\ r.answer # "invalid" \/ call[c].attempt = 1
                              /\ Finishes(c, r.answer)
Awakes ==
  /\ Settled /\ UNCHANGED session
  /\ \E p, why : Wakes(p, why)

LEMMA CallSteps ==
  ASSUME TypeInv, [Next]_vars
  PROVE  Quiet \/ Awakes \/ \E c \in Calls : Asks(c) \/ Continues(c) \/ Ends(c)
  <1>1. CASE UNCHANGED vars
    BY <1>1 DEF vars, Quiet
  <1>2. CASE Login \/ Prefetch \/ Lock \/ Midnight \/ Issue
    BY <1>2 DEF Login, Prefetch, Lock, Midnight, Issue, client, Quiet
  <1>3. CASE ReceiveIssue \/ ReceivePin
    <2>1. Settled /\ UNCHANGED session
      BY <1>3 DEF ReceiveIssue, ReceivePin
    <2>2. call' = call \/ \E p, why : Wakes(p, why)
      BY <1>3, Minting
    <2> QED BY <2>1, <2>2 DEF Quiet, Awakes
  <1>4. ASSUME NEW c \in Calls, BeginCall(c) PROVE Asks(c)
    <2>1. Settled /\ UNCHANGED session /\ call[c].pc = "idle" /\ TakeToken(c, pool, 0)
      BY <1>4 DEF BeginCall
    <2>2. Takes(c, pool, 0)
      BY <2>1, Taking
    <2> QED BY <2>1, <2>2 DEF Asks
  <1>5. ASSUME NEW c \in Calls, Proceed(c) PROVE Continues(c)
    <2>1. call[c].pc = "ready" /\ UNCHANGED session
      BY <1>5 DEF Proceed
    <2> QED BY <1>5, <2>1, Proceeding DEF Continues
  <1>6. ASSUME NEW c \in Calls, Receive(c) PROVE Asks(c) \/ Ends(c)
    <2>1. Settled /\ UNCHANGED session /\ call[c].pc = "sent"
      BY <1>6 DEF Receive
    <2> QED BY <1>6, <2>1, Receiving DEF Asks, Ends
  <1>7. ASSUME NEW c \in Calls, GiveUp(c) PROVE Ends(c)
    <2>1. /\ Settled /\ UNCHANGED session /\ call[c].pc = "sent"
          /\ UNCHANGED <<pool, refill, batches>>
          /\ call' = [call EXCEPT ![c] = Ended(@, "network")]
      BY <1>7 DEF GiveUp
    <2>2. Finishes(c, "network")
      BY <2>1, Finishing DEF Finishes, TypeInv
    <2> QED BY <2>1, <2>2 DEF Ends
  <1>8. CASE \E r \in wire : Copy(r) \/ RedeemCheck(r) \/ RedeemSpend(r)
    BY <1>8 DEF Copy, RedeemCheck, RedeemSpend, client, Quiet
  <1> QED BY <1>1, <1>2, <1>3, <1>4, <1>5, <1>6, <1>7, <1>8 DEF Next


(* What a step does to one call, if anything. *)
Calling(c) ==
  /\ call'[c].token = call[c].token /\ call'[c].result = call[c].result
  /\ call'[c].pc \in {"waiting", "ready"}
  /\ \/ call[c].pc = "idle" /\ call'[c].attempt = 0 /\ call'[c].since = 0
     \/ /\ call[c].pc = "sent" /\ call[c].attempt = 0
        /\ call'[c].attempt = 1 /\ call'[c].since = NextBatch /\ pool' = <<>>
Kept(c) == call'[c].attempt = call[c].attempt /\ call'[c].since = call[c].since
Woken(c) ==
  /\ call[c].pc = "waiting" /\ call'[c].pc = "ready" /\ call'[c].reasons # {}
  /\ Kept(c) /\ call'[c].token = call[c].token /\ call'[c].result = call[c].result
Sent(c) ==
  /\ call[c].pc = "ready" /\ call'[c].pc = "sent"
  /\ pool # <<>> /\ Head(pool) \in Token /\ call'[c].token = Head(pool)
  /\ Kept(c) /\ call'[c].result = call[c].result
Emptied(c) ==
  /\ call[c].pc = "ready" /\ call'[c].pc = "ended" /\ call'[c].result = "no token"
  /\ pool = <<>> /\ Kept(c)
  /\ call[c].reasons # {} \/ session = 0 => call'[c].reasons # {}
Done(c) ==
  /\ call[c].pc = "sent" /\ call'[c].pc = "ended"
  /\ \/ /\ call'[c].result \notin {"no token", "invalid"}
        /\ call'[c].attempt = 0 /\ call'[c].since = 0
     \/ /\ call'[c].result = "invalid" /\ call[c].attempt = 1
        /\ Kept(c) /\ call'[c].token = call[c].token
        /\ \E r \in Awaited(c) : r.answer = "invalid"

LEMMA Ending ==
  ASSUME TypeInv, NEW c \in Calls, Ends(c)
  PROVE  Done(c)
  <1>0. TypeOK
    BY DEF TypeInv
  <1>1. CASE Finishes(c, "network")
    <2>1. /\ call'[c].pc = "ended" /\ call'[c].result = "network"
          /\ call'[c].attempt = 0 /\ call'[c].since = 0
      BY <1>0, <1>1, EndedIs DEF Finishes
    <2> QED BY <2>1 DEF Ends, Done
  <1>2. ASSUME NEW r \in Awaited(c), r.answer # "invalid" \/ call[c].attempt = 1,
               Finishes(c, r.answer)
        PROVE  Done(c)
    <2> DEFINE a == r.answer
    <2>1. a \in {"none", "ok", "invalid", "other"}
      BY <1>0, RequestIs DEF Awaited
    <2>2. call'[c] = Ended(call[c], a) /\ call[c].pc = "sent"
      BY <1>2 DEF Finishes, Ends
    <2>3. a # "invalid" \/ (call[c].attempt = 1 /\ \E q \in Awaited(c) : q.answer = "invalid")
      BY <1>2
    <2> HIDE DEF a
    <2>4. /\ call'[c].pc = "ended" /\ call'[c].result = a
          /\ a = "invalid" => Kept(c) /\ call'[c].token = call[c].token
          /\ a # "invalid" => call'[c].attempt = 0 /\ call'[c].since = 0
      BY <1>0, <2>1, <2>2, EndedIs DEF Kept
    <2> QED BY <2>1, <2>2, <2>3, <2>4 DEF Done
  <1> QED BY <1>1, <1>2 DEF Ends

LEMMA OneCall ==
  ASSUME TypeInv, [Next]_vars, NEW c \in Calls
  PROVE  \/ call'[c] = call[c]
         \/ Calling(c) \/ Woken(c) \/ Sent(c) \/ Emptied(c) \/ Done(c)
  <1>1. CASE Quiet
    BY <1>1 DEF Quiet
  <1>2. CASE Awakes
    BY <1>2 DEF Awakes, Wakes, Woken, Kept
  <1>3. ASSUME NEW d \in Calls, d # c, Asks(d) \/ Continues(d) \/ Ends(d)
        PROVE  call'[c] = call[c]
    BY <1>3 DEF Asks, Continues, Ends, Takes, EndsWithout, Sends, Finishes, Others
  <1>4. CASE Asks(c)
    BY <1>4 DEF Asks, Takes, Calling
  <1>5. CASE Continues(c)
    BY <1>5 DEF Continues, EndsWithout, Sends, Emptied, Sent, Kept
  <1>6. CASE Ends(c)
    BY <1>6, Ending
  <1> QED BY <1>1, <1>2, <1>3, <1>4, <1>5, <1>6, CallSteps

LEMMA BatchGrows ==
  ASSUME TypeInv, [Next]_vars
  PROVE  NextBatch \in Nat /\ NextBatch' \in Nat /\ NextBatch <= NextBatch'
  <1>1. batches \in Nat /\ refill \in Refill
    BY Bounds DEF TypeInv, TypeOK
  <1>2. batches' \in Nat
    <2>1. TypeInv'
      BY NextType
    <2> QED BY <2>1, Bounds DEF TypeInv, TypeOK
  <1>3. NextBatch \in Nat /\ NextBatch' \in Nat
    <2>1. NextBatch \in Nat
      BY <1>1 DEF NextBatch
    <2>2. NextBatch' = batches' \/ NextBatch' = batches' + 1
      BY DEF NextBatch
    <2> QED BY <1>2, <2>1, <2>2
  <1>4. \/ UNCHANGED <<refill, batches>>
        \/ refill.pc = "idle" /\ batches' = batches + 1 /\ refill'.pc = "asked"
        \/ refill.pc # "idle" /\ batches' = batches
    <2>0. ASSUME RefillTokens \/ UNCHANGED <<refill, batches>>
          PROVE  \/ UNCHANGED <<refill, batches>>
                 \/ refill.pc = "idle" /\ batches' = batches + 1 /\ refill'.pc = "asked"
      BY <2>0, RefillKeeps
    <2>1. CASE UNCHANGED vars
      BY <2>1 DEF vars
    <2>2. CASE Login \/ Lock \/ Midnight
      BY <2>2 DEF Login, Lock, Midnight, client
    <2>3. CASE Prefetch
      BY <2>0, <2>3 DEF Prefetch
    <2>4. CASE Issue
      BY <2>4 DEF Issue
    <2>5. CASE ReceiveIssue \/ ReceivePin
      BY <2>5, Minting DEF ReceiveIssue, ReceivePin
    <2>6. ASSUME NEW c \in Calls, BeginCall(c) \/ Receive(c)
          PROVE  RefillTokens \/ UNCHANGED <<refill, batches>>
      BY <2>6 DEF BeginCall, Receive, TakeToken
    <2>7. ASSUME NEW c \in Calls, Proceed(c)
          PROVE  RefillTokens \/ UNCHANGED <<refill, batches>>
      BY <2>7 DEF Proceed, RefillIfLow
    <2>8. ASSUME NEW c \in Calls, GiveUp(c) PROVE UNCHANGED <<refill, batches>>
      BY <2>8 DEF GiveUp
    <2>9. CASE \E r \in wire : Copy(r) \/ RedeemCheck(r) \/ RedeemSpend(r)
      BY <2>9 DEF Copy, RedeemCheck, RedeemSpend, client
    <2> QED BY <2>0, <2>1, <2>2, <2>3, <2>4, <2>5, <2>6, <2>7, <2>8, <2>9 DEF Next
  <1> QED BY <1>1, <1>3, <1>4 DEF NextBatch


LEMMA NextMatches ==
  ASSUME TypeInv, WireMatches, [Next]_vars
  PROVE  WireMatches'
  <1>0. TypeOK
    BY DEF TypeInv
  <1>1. ASSUME NEW r \in wire, r.copy = 1
        PROVE  \/ call'[r.call].pc = "ended"
               \/ r.attempt < call'[r.call].attempt
               \/ /\ r.attempt = call'[r.call].attempt
                  /\ call'[r.call].pc = "sent" /\ r.token = call'[r.call].token
    <2> DEFINE c == r.call
    <2>1. c \in Calls /\ r.attempt \in 0 .. 1
      BY <1>0, RequestIs
    <2>2. \/ call[c].pc = "ended"
          \/ r.attempt < call[c].attempt
          \/ r.attempt = call[c].attempt /\ call[c].pc = "sent" /\ r.token = call[c].token
      BY <1>1 DEF WireMatches, Matches
    <2>3. call[c].pc = "idle" => call[c].attempt = 0
      BY <2>1 DEF TypeInv
    <2> HIDE DEF c
    <2>4. \/ call'[c] = call[c]
          \/ Calling(c) \/ Woken(c) \/ Sent(c) \/ Emptied(c) \/ Done(c)
      BY <2>1, OneCall
    <2>5. call[c].attempt \in 0 .. 1
      BY <1>0, <2>1, CallIs
    <2>6. \/ call'[c].pc = "ended"
          \/ r.attempt < call'[c].attempt
          \/ r.attempt = call'[c].attempt /\ call'[c].pc = "sent" /\ r.token = call'[c].token
      <3>1. CASE call'[c] = call[c]
        BY <2>2, <3>1
      <3>2. CASE Calling(c)
        BY <2>1, <2>2, <2>3, <3>2 DEF Calling
      <3>3. CASE Woken(c) \/ Sent(c)
        BY <2>2, <3>3 DEF Woken, Sent, Kept
      <3>4. CASE Emptied(c) \/ Done(c)
        BY <3>4 DEF Emptied, Done
      <3> QED BY <2>4, <3>1, <3>2, <3>3, <3>4
    <2> QED BY <2>6 DEF c
  <1>2. ASSUME NEW q \in wire', q.copy = 1
        PROVE  Matches(q)'
    <2>1. CASE q \in wire
      BY <1>1, <1>2, <2>1 DEF Matches
    <2>2. ASSUME NEW c \in Calls, Sends(c, q) PROVE Matches(q)'
      BY <2>2 DEF Sends, Matches
    <2>3. ASSUME NEW r \in wire, Follows(q, r) PROVE Matches(q)'
      BY <1>1, <1>2, <2>3 DEF Matches, Follows
    <2> QED BY <2>1, <2>2, <2>3, WireMoves
  <1> QED BY <1>2 DEF WireMatches

LEMMA NextAfresh ==
  ASSUME TypeInv, [Next]_vars, NEW c \in Calls, RetriesAfresh(c)
  PROVE  RetriesAfresh(c)'
  <1>1. /\ TypeOK /\ call[c].since \in Nat /\ batches \in Nat
        /\ NextBatch \in Nat /\ NextBatch' \in Nat /\ NextBatch <= NextBatch'
    BY BatchGrows, CallIs, Bounds DEF TypeInv, TypeOK
  <1>2. \/ call'[c] = call[c]
        \/ Calling(c) \/ Woken(c) \/ Sent(c) \/ Emptied(c) \/ Done(c)
    BY OneCall
  <1>3. call'[c].attempt = 0 => call'[c].since = 0
    <2>1. CASE Kept(c) \/ call'[c] = call[c]
      BY <2>1 DEF RetriesAfresh, Kept
    <2>2. CASE Calling(c)
      BY <2>2 DEF Calling
    <2>3. Woken(c) \/ Sent(c) \/ Emptied(c) => Kept(c)
      BY DEF Woken, Sent, Emptied
    <2>4. Done(c) => Kept(c) \/ call'[c].since = 0
      BY DEF Done
    <2> QED BY <1>2, <2>1, <2>2, <2>3, <2>4
  <1>4. ASSUME call'[c].pc \in {"waiting", "ready"}
        PROVE  /\ call'[c].since <= NextBatch'
               /\ \A j \in DOMAIN pool' : pool'[j].batch >= call'[c].since
    <2>1. CASE call[c].pc \in {"waiting", "ready"} /\ call'[c].since = call[c].since
      <3>1. \A j \in DOMAIN pool' : pool'[j].batch >= call[c].since
        <4> TAKE j \in DOMAIN pool'
        <4>1. PoolFrom
          BY ClientMoves DEF PoolMoves
        <4>2. \/ \E i \in DOMAIN pool : pool'[j] = pool[i]
              \/ refill.pc # "idle" /\ pool'[j].batch = batches
          BY <4>1, PoolElements
        <4> QED BY <1>1, <2>1, <4>2 DEF RetriesAfresh, NextBatch
      <3> QED BY <1>1, <2>1, <3>1 DEF RetriesAfresh
    <2>2. CASE call'[c].since = 0
      <3>1. \A j \in DOMAIN pool' : pool'[j].batch \in Nat
        <4> TAKE j \in DOMAIN pool'
        <4>1. pool' \in Seq(Token)
          BY NextType DEF TypeInv, TypeOK
        <4>2. pool'[j] \in Token
          BY <4>1
        <4> QED BY <4>2, Bounds DEF Token
      <3> QED BY <1>1, <2>2, <3>1
    <2>3. CASE call'[c].since = NextBatch /\ pool' = <<>>
      BY <1>1, <2>3
    <2> QED BY <1>2, <1>4, <2>1, <2>2, <2>3
            DEF Calling, Woken, Sent, Emptied, Done, Kept
  <1>5. ASSUME call'[c].pc = "sent"
        PROVE  call'[c].token \in Token /\ call'[c].token.batch >= call'[c].since
    <2>1. CASE Sent(c)
      <3>1. pool \in Seq(Token) /\ pool # <<>>
        BY <1>1, <2>1 DEF TypeOK, Sent
      <3>2. 1 \in DOMAIN pool /\ Head(pool) = pool[1]
        BY <3>1
      <3> QED BY <2>1, <3>2 DEF Sent, Kept, RetriesAfresh
    <2>2. CASE call'[c] = call[c]
      BY <1>5, <2>2 DEF RetriesAfresh
    <2> QED BY <1>2, <1>5, <2>1, <2>2 DEF Calling, Woken, Emptied, Done
  <1> QED BY <1>3, <1>4, <1>5 DEF RetriesAfresh

LEMMA NextGoes ==
  ASSUME TypeInv, \A c \in Calls : GoesOn(c), [Next]_vars, NEW c \in Calls
  PROVE  GoesOn(c)'
  <1>1. \/ call'[c] = call[c]
        \/ Calling(c) \/ Woken(c) \/ Sent(c) \/ Emptied(c) \/ Done(c)
    BY OneCall
  <1>2. call'[c].result # "none" => call'[c].pc = "ended"
    BY <1>1 DEF GoesOn, Calling, Woken, Sent, Emptied, Done
  <1>3. ASSUME call'[c].pc = "ready"
        PROVE  \/ call'[c].reasons # {}
               \/ session' = 0
               \/ pool' # <<>> /\ \A d \in Calls : d # c => call'[d].pc # "ready"
    <2>1. CASE Quiet
      BY <1>3, <2>1 DEF Quiet, Settled, GoesOn
    <2>2. CASE Awakes
      BY <1>3, <2>2 DEF Awakes, Settled, Wakes
    <2>3. CASE Asks(c)
      BY <1>3, <2>3 DEF Asks, Settled, Takes, Others
    <2>4. ASSUME NEW d \in Calls, d # c, Asks(d) \/ Ends(d)
          PROVE  FALSE
      <3>1. call'[c] = call[c]
        BY <2>4 DEF Asks, Ends, Takes, Finishes, Others
      <3> QED BY <1>3, <2>4, <3>1 DEF Asks, Ends, Settled
    <2>5. CASE Ends(c)
      BY <1>3, <2>5, Ending DEF Done
    <2>6. ASSUME NEW d \in Calls, Continues(d)
          PROVE  call'[c].reasons # {} \/ session' = 0
      <3>1. d # c
        BY <1>3, <2>6 DEF Continues, EndsWithout, Sends
      <3>2. call'[c] = call[c] /\ call[d].pc = "ready" /\ session' = session
        BY <2>6, <3>1 DEF Continues, EndsWithout, Sends, Others
      <3> QED BY <1>3, <2>6, <3>1, <3>2 DEF GoesOn
    <2> QED BY <2>1, <2>2, <2>3, <2>4, <2>5, <2>6, CallSteps
  <1> QED BY <1>2, <1>3 DEF GoesOn


LEMMA NextFailures ==
  ASSUME TypeInv, CallInv, [Next]_vars
  PROVE  FailuresHaveReasons'
  <1>1. /\ TypeOK /\ day \in Nat /\ day' \in Nat /\ day <= day' /\ passed \subseteq passed'
        /\ WireMatches /\ RefusalHasCause
    BY NextCause, ServerMoves DEF TypeInv, CallInv
  <1>2. ASSUME NEW c \in Calls
        PROVE  /\ RetriesAfresh(c) /\ GoesOn(c)
               /\ \/ call'[c] = call[c]
                  \/ Calling(c) \/ Woken(c) \/ Sent(c) \/ Emptied(c) \/ Done(c)
    BY OneCall DEF CallInv
  <1>3. ASSUME NEW c \in Calls, call'[c].result = "no token"
        PROVE  call'[c].reasons # {}
    <2>1. CASE call'[c] = call[c]
      BY <1>3, <2>1 DEF CallInv, FailuresHaveReasons, NoTokenHasReason
    <2>2. CASE Emptied(c)
      BY <1>2, <2>2 DEF Emptied, GoesOn
    <2>3. CASE Calling(c) \/ Woken(c) \/ Sent(c)
      BY <1>2, <1>3, <2>3 DEF Calling, Woken, Sent, GoesOn
    <2>4. CASE Done(c)
      BY <1>3, <2>4 DEF Done
    <2> QED BY <1>2, <2>1, <2>2, <2>3, <2>4
  <1>4. ASSUME NEW c \in Calls, call'[c].result = "invalid"
        PROVE  \/ \E p \in passed' : p.token = call'[c].token
               \/ call'[c].token.key + 2 <= day' /\ call'[c].token.batch >= call'[c].since
    <2>1. CASE call'[c] = call[c]
      <3>1. \/ \E p \in passed : p.token = call[c].token
            \/ call[c].token.key + 2 <= day /\ call[c].token.batch >= call[c].since
        BY <1>4, <2>1 DEF CallInv, FailuresHaveReasons, RetryHeals
      <3>2. call[c].token.key \in Nat
        BY <1>1, CallIs, Bounds DEF Token, NoToken, Day
      <3> QED BY <1>1, <2>1, <3>1, <3>2
    <2>2. CASE Calling(c) \/ Woken(c) \/ Sent(c)
      BY <1>2, <1>4, <2>2 DEF Calling, Woken, Sent, GoesOn
    <2>3. CASE Emptied(c)
      BY <1>4, <2>3 DEF Emptied
    <2>4. CASE Done(c)
      <3>1. /\ call[c].pc = "sent" /\ Kept(c) /\ call'[c].token = call[c].token
            /\ \E r \in Awaited(c) : r.answer = "invalid"
        BY <1>4, <2>4 DEF Done
      <3>2. PICK r \in wire : /\ r.call = c /\ r.attempt = call[c].attempt /\ r.copy = 1
                              /\ r.answer = "invalid"
        BY <3>1 DEF Awaited
      <3>3. r.token = call[c].token /\ r.attempt \in 0 .. 1 /\ r.token.key \in Nat
        <4>1. r.attempt \in 0 .. 1 /\ r.token.key \in Nat
          BY <1>1, RequestIs
        <4> QED BY <1>1, <3>1, <3>2, <4>1 DEF WireMatches, Matches
      <3>4. Passed(r.token) \/ r.token.key + 2 <= day
        BY <1>1, <3>2 DEF RefusalHasCause
      <3>5. call[c].token.batch >= call[c].since
        BY <1>2, <3>1 DEF RetriesAfresh
      <3> QED BY <1>1, <3>1, <3>3, <3>4, <3>5 DEF Passed, Kept
    <2> QED BY <1>2, <2>1, <2>2, <2>3, <2>4
  <1> QED BY <1>3, <1>4 DEF FailuresHaveReasons, NoTokenHasReason, RetryHeals

LEMMA NextCall == TypeInv /\ CallInv /\ [Next]_vars => CallInv'
  <1> SUFFICES ASSUME TypeInv, CallInv, [Next]_vars PROVE CallInv'
    OBVIOUS
  <1>1. RefusalHasCause' /\ WireMatches'
    BY NextCause, NextMatches DEF CallInv
  <1>2. ASSUME NEW c \in Calls PROVE RetriesAfresh(c)' /\ GoesOn(c)'
    BY NextAfresh, NextGoes DEF CallInv
  <1> QED BY <1>1, <1>2, NextFailures DEF CallInv

LEMMA InitCall == Init => CallInv
  <1> SUFFICES ASSUME Init PROVE CallInv
    OBVIOUS
  <1>1. RefusalHasCause /\ WireMatches
    BY DEF Init, RefusalHasCause, WireMatches
  <1>2. ASSUME NEW c \in Calls
        PROVE  /\ RetriesAfresh(c) /\ GoesOn(c)
               /\ call[c].result = "none"
    BY <1>1 DEF Init, NoCall, RetriesAfresh, GoesOn
  <1> QED BY <1>1, <1>2 DEF CallInv, FailuresHaveReasons, NoTokenHasReason, RetryHeals

(* A call fails for want of a token, or is refused for good, only for the  *)
(* reasons of the two properties: "drop the stale pool once and retry"     *)
(* (sync-client.ts) heals every other refusal.                             *)
THEOREM FailuresExplained == Spec => []FailuresHaveReasons
  <1>1. Spec => [](TypeInv /\ CallInv)
    BY InitType, InitCall, NextType, NextCall, PTL DEF Spec
  <1>2. TypeInv /\ CallInv => FailuresHaveReasons
    BY DEF CallInv
  <1> QED BY <1>1, <1>2, PTL
=============================================================================
