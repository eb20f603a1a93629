---------------------------- MODULE OpaqueServer ----------------------------
(***************************************************************************)
(* OPAQUE registration, login and bearer sessions of one client id, from   *)
(* both ends: the handlers under routes/api/opaque and v2/sessions with    *)
(* server-opaque.ts, d1-storage.ts, auth-token.ts and cleanup.ts, cut at   *)
(* their database statements, and one device that provisions, unlocks,     *)
(* introspects and locks through opaque-client.ts.                         *)
(*                                                                         *)
(* Abstractions.  A random id (a request, an account, a token) is the      *)
(* number of the request whose handler drew it.  A registration record is  *)
(* the request whose OPRF key it was made with; a key-exchange message     *)
(* verifies exactly when the password is the one of that record.           *)
(***************************************************************************)
EXTENDS Naturals, FiniteSets

CONSTANTS
  Start,        \* whether the device is enrolled at first: subset of BOOLEAN
  MaxRequests,  \* bound: requests sent, copies included
  MaxTime,      \* bound: clock ticks, of PENDING_TTL each
  SessionTtl,   \* SESSION_TTL in ticks
  Retries,      \* loginWithRetry: extra attempts
  Faults,       \* bound: which of lost, refused, broken, copied, stalled happen
  MaxFaults     \* bound: how many of them

ASSUME OpaqueAssumption ==
  /\ Start \subseteq BOOLEAN /\ Start # {}
  /\ {MaxRequests, MaxTime, SessionTtl, Retries, MaxFaults} \subseteq Nat
  /\ Faults \subseteq {"lost", "refused", "broken", "copied", "stalled"}

VARIABLES
  now,       \* the server's clock
  account,   \* the row of accounts, or NoAccount
  pendReg,   \* pending_registrations
  pendLog,   \* pending_logins
  sessions,  \* sessions
  requests,  \* the requests and where their handlers stand
  sent,      \* how many of them have been sent
  dev,       \* the device
  faults,    \* faults so far
  raced,     \* history: logins two of whose requests overlapped
  ended      \* history: logins whose live token has been logged out

vars == <<now, account, pendReg, pendLog, sessions, requests, sent, dev, faults,
          raced, ended>>
tables == <<account, pendReg, pendLog, sessions>>
history == <<raced, ended>>

Ids == 0 .. MaxRequests
NoAccount == [id |-> 0, record |-> 0]
PendingTtl == 1

Kinds == {"register", "record", "ke1", "ke3", "self", "logout"}
Request ==
  [kind : Kinds \cup {"none"}, ref : Ids, right : BOOLEAN, record : Ids,
   pc : {"unsent", "sent", "found", "deleted", "verified", "authentic", "rotating",
         "answered", "stalled"},
   answer : {"none", "ok", "400", "401", "409", "429", "500"}, broken : BOOLEAN]

Device ==
  [pc : {"idle", "registering", "recording", "rotating", "ke1", "ke3"},
   ask : Ids, wait : Ids, ref : Ids, attempt : 0 .. Retries, right : BOOLEAN,
   enrolled : BOOLEAN, record : Ids, account : Ids, token : Ids,
   outcome : {"none", "ok", "wrong-credential", "rate-limited", "unavailable",
              "unknown", "registered", "unregistered"}]

TypeOK ==
  /\ now \in 0 .. MaxTime
  /\ account \in [id : Ids \ {0}, record : Ids \ {0}] \cup {NoAccount}
  /\ pendReg \subseteq [id : Ids, born : 0 .. MaxTime]
  /\ pendLog \subseteq [id : Ids, born : 0 .. MaxTime, record : Ids]
  /\ sessions \subseteq [token : Ids, expires : Nat, login : Ids]
  /\ requests \in [1 .. MaxRequests -> Request]
  /\ sent \in Ids
  /\ dev \in Device
  /\ faults \in 0 .. MaxFaults

Unsent == [kind |-> "none", ref |-> 0, right |-> TRUE, record |-> 0,
           pc |-> "unsent", answer |-> "none", broken |-> FALSE]

(* Enrolled before: the account and its record carry the last number. *)
Init ==
  /\ now = 0
  /\ \E enrolled \in Start :
       LET r == IF enrolled THEN MaxRequests ELSE 0 IN
       /\ account = [id |-> r, record |-> r]
       /\ dev = [pc |-> "idle", ask |-> 0, wait |-> 0, ref |-> 0, attempt |-> 0,
                 right |-> TRUE, enrolled |-> enrolled, record |-> r,
                 account |-> r, token |-> 0, outcome |-> "none"]
  /\ pendReg = {} /\ pendLog = {} /\ sessions = {}
  /\ requests = [i \in 1 .. MaxRequests |-> Unsent]
  /\ sent = 0 /\ faults = 0
  /\ raced = {} /\ ended = {}

-----------------------------------------------------------------------------
(* Helpers *)

Fault(f) == f \in Faults /\ faults < MaxFaults /\ faults' = faults + 1

(* A row can be used until its time to live is over. *)
Fresh(row) == row.born + PendingTtl > now
Live(s) == s.expires >= now

At(i, kind, pc) == requests[i].kind = kind /\ requests[i].pc = pc
Goto(i, pc) == requests' = [requests EXCEPT ![i].pc = pc]
Answer(i, a) == requests' = [requests EXCEPT ![i].pc = "answered", ![i].answer = a]

(* The device sends a request, and waits at pc. *)
Send(kind, ref, pc, d) ==
  /\ sent' = sent + 1
  /\ requests' = [requests EXCEPT ![sent + 1] =
       [Unsent EXCEPT !.kind = kind, !.ref = ref, !.right = d.right, !.pc = "sent"]]
  /\ dev' = [d EXCEPT !.pc = pc, !.wait = sent + 1]

(* The bound: requests are left for what the device has begun. *)
Reserved ==
  LET retries == 2 * (Retries - dev.attempt) IN
  CASE dev.pc = "registering" -> 3
    [] dev.pc \in {"recording", "rotating"} -> 2
    [] dev.pc = "ke1" -> 1 + retries
    [] dev.pc = "ke3" -> retries
    [] OTHER -> 0
Room(n) == sent + n + Reserved <= MaxRequests

Idle(outcome) == [dev EXCEPT !.pc = "idle", !.outcome = outcome]

-----------------------------------------------------------------------------
(* Registration, on the server *)

(* A row with a fresh OPRF key, of the number of its request. *)
NewPending(i) == [id |-> i, born |-> now]

RegisterRequest(i) ==
  /\ At(i, "register", "sent")
  /\ pendReg' = pendReg \cup {NewPending(i)}
  /\ Answer(i, "ok")
  /\ UNCHANGED <<now, account, pendLog, sessions, sent, dev, faults, history>>

(* Mutant: nothing is answered when the row is gone. *)
RegisterReadMutant(i) ==
  /\ At(i, "record", "sent")
  /\ \E p \in pendReg : p.id = requests[i].ref /\ Fresh(p)
  /\ Goto(i, "found")
  /\ UNCHANGED <<now, tables, sent, dev, faults, history>>

RegisterRead(i) ==
  /\ At(i, "record", "sent")
  /\ IF \E p \in pendReg : p.id = requests[i].ref /\ Fresh(p)
     THEN Goto(i, "found") ELSE Answer(i, "400")
  /\ UNCHANGED <<now, tables, sent, dev, faults, history>>

RegisterDelete(i) ==
  /\ At(i, "record", "found")
  /\ pendReg' = {p \in pendReg : p.id # requests[i].ref}
  /\ Goto(i, "deleted")
  /\ UNCHANGED <<now, account, pendLog, sessions, sent, dev, faults, history>>

(* registrationFinish: the record is made with the OPRF key of the request *)
(* that began the registration.                                            *)
Registration(i) == [id |-> i, record |-> requests[i].ref]

(* Mutant: the insert replaces the row of a conflict. *)
InsertAccountMutant(i) ==
  /\ account' = Registration(i)
  /\ Answer(i, "ok")

(* insertAccount: the first registration wins. *)
InsertAccount(i) ==
  IF account = NoAccount
  THEN account' = Registration(i) /\ Answer(i, "ok")
  ELSE UNCHANGED account /\ Answer(i, "409")

RegisterInsert(i) ==
  /\ At(i, "record", "deleted")
  /\ InsertAccount(i)
  /\ UNCHANGED <<now, pendReg, pendLog, sessions, sent, dev, faults, history>>

-----------------------------------------------------------------------------
(* Login, on the server *)

(* fakeAccount: a record of which nobody has the password; it is also the  *)
(* record of NoAccount.                                                    *)
FakeRecord == 0

(* The MAC of KE3, and the envelope in KE2, open with the record's password. *)
MacVerifies(r) == r.right /\ r.record # FakeRecord
EnvelopeOpens(r) == dev.right /\ r.record # FakeRecord

GetAccount(i) ==
  /\ At(i, "ke1", "sent")
  /\ requests' = [requests EXCEPT ![i].pc = "found", ![i].record = account.record]
  /\ UNCHANGED <<now, tables, sent, dev, faults, history>>

PutPendingLogin(i) ==
  /\ At(i, "ke1", "found")
  /\ pendLog' = pendLog \cup {[id |-> i, born |-> now, record |-> requests[i].record]}
  /\ Answer(i, "ok")
  /\ UNCHANGED <<now, account, pendReg, sessions, sent, dev, faults, history>>

LoginRead(i) ==
  /\ At(i, "ke3", "sent")
  /\ \/ \E p \in pendLog : p.id = requests[i].ref /\ Fresh(p)
          /\ requests' = [requests EXCEPT ![i].pc = "found", ![i].record = p.record]
     \/ /\ ~\E p \in pendLog : p.id = requests[i].ref /\ Fresh(p)
        /\ Answer(i, "400")
  /\ UNCHANGED <<now, tables, sent, dev, faults, history>>

(* Mutant: the pending row stays. *)
DropPendingLoginMutant(i) == UNCHANGED pendLog

DropPendingLogin(i) == pendLog' = {p \in pendLog : p.id # requests[i].ref}

(* The row is deleted whether or not it is still there; the MAC decides.   *)
LoginDelete(i) ==
  LET r == requests[i]
      gone == ~\E p \in pendLog : p.id = r.ref IN
  /\ At(i, "ke3", "found")
  /\ DropPendingLogin(i)
  /\ raced' = IF gone THEN raced \cup {r.ref} ELSE raced
  /\ IF MacVerifies(r) THEN Goto(i, "verified") ELSE Answer(i, "401")
  /\ UNCHANGED <<now, account, pendReg, sessions, sent, dev, faults, ended>>

(* The account is there: nothing deletes one. *)
InsertSession(i) ==
  /\ At(i, "ke3", "verified")
  /\ account # NoAccount
  /\ sessions' = sessions \cup
       {[token |-> i, expires |-> now + SessionTtl, login |-> requests[i].ref]}
  /\ Answer(i, "ok")
  /\ UNCHANGED <<now, account, pendReg, pendLog, sent, dev, faults, history>>

-----------------------------------------------------------------------------
(* Sessions, on the server *)

Session(t) == {s \in sessions : s.token = t /\ Live(s)}

Authenticate(i) ==
  /\ At(i, "self", "sent")
  /\ IF Session(requests[i].ref) # {} THEN Goto(i, "authentic") ELSE Answer(i, "401")
  /\ UNCHANGED <<now, tables, sent, dev, faults, history>>

(* rotateToken authenticates again; without a row nothing is rotated.      *)
RotateRead(i) ==
  /\ At(i, "self", "authentic")
  /\ \/ \E s \in Session(requests[i].ref) :
          requests' = [requests EXCEPT ![i].pc = "rotating", ![i].record = s.login]
     \/ Session(requests[i].ref) = {} /\ Answer(i, "ok")
  /\ UNCHANGED <<now, tables, sent, dev, faults, history>>

(* Mutant: the old row stays. *)
RotateBatchMutant(i) ==
  /\ At(i, "self", "rotating")
  /\ sessions' = sessions \cup
       {[token |-> i, expires |-> now + SessionTtl, login |-> requests[i].record]}
  /\ Answer(i, "ok")
  /\ UNCHANGED <<now, account, pendReg, pendLog, sent, dev, faults, history>>

(* One transaction; whether the old row was still there is not looked at.  *)
RotateBatch(i) ==
  LET old == {s \in sessions : s.token = requests[i].ref} IN
  /\ At(i, "self", "rotating")
  /\ sessions' = (sessions \ old) \cup
       {[token |-> i, expires |-> now + SessionTtl, login |-> requests[i].record]}
  /\ raced' = IF old = {} THEN raced \cup {requests[i].record} ELSE raced
  /\ Answer(i, "ok")
  /\ UNCHANGED <<now, account, pendReg, pendLog, sent, dev, faults, ended>>

Logout(i) ==
  LET old == {s \in sessions : s.token = requests[i].ref} IN
  /\ At(i, "logout", "sent")
  /\ sessions' = sessions \ old
  /\ ended' = ended \cup {s.login : s \in old}
  /\ Answer(i, "ok")
  /\ UNCHANGED <<now, account, pendReg, pendLog, sent, dev, faults, raced>>

-----------------------------------------------------------------------------
(* Cleanup, time and faults *)

Expired(row) == row.born + PendingTtl < now

(* sweepNow, any of its statements by itself. *)
Sweep ==
  /\ \/ /\ pendReg' = {p \in pendReg : ~Expired(p)}
        /\ pendReg' # pendReg
        /\ UNCHANGED <<pendLog, sessions>>
     \/ /\ pendLog' = {p \in pendLog : ~Expired(p)}
        /\ pendLog' # pendLog
        /\ UNCHANGED <<pendReg, sessions>>
     \/ /\ sessions' = {s \in sessions : Live(s)}
        /\ sessions' # sessions
        /\ UNCHANGED <<pendReg, pendLog>>
  /\ UNCHANGED <<now, account, requests, sent, dev, faults, history>>

Tick ==
  /\ now < MaxTime
  /\ now' = now + 1
  /\ UNCHANGED <<tables, requests, sent, dev, faults, history>>

(* applyRateLimit refuses. *)
Refuse(i) ==
  /\ \/ requests[i].pc = "sent" /\ requests[i].kind # "self"
     \/ At(i, "self", "authentic")
  /\ Fault("refused")
  /\ Answer(i, "429")
  /\ UNCHANGED <<now, tables, sent, dev, history>>

(* A statement fails: the handler of KE3 answers 401 to every error it does *)
(* not know, and a failed rotation is an introspection without a new token. *)
Break(i) ==
  LET a == CASE requests[i].kind = "ke3" -> "401"
             [] requests[i].kind = "self" /\ requests[i].pc # "sent" -> "ok"
             [] OTHER -> "500" IN
  /\ requests[i].pc \notin {"unsent", "answered", "stalled"}
  /\ Fault("broken")
  /\ requests' = [requests EXCEPT ![i].pc = "answered", ![i].answer = a,
                                  ![i].record = 0, ![i].broken = TRUE]
  /\ UNCHANGED <<now, tables, sent, dev, history>>

(* The network delivers a request twice. *)
Copy(i) ==
  /\ requests[i].pc = "sent"
  /\ Room(1)
  /\ Fault("copied")
  /\ sent' = sent + 1
  /\ requests' = [requests EXCEPT ![sent + 1] = requests[i]]
  /\ UNCHANGED <<now, tables, dev, history>>

(* The headers of an answer arrive and its body does not: no timer is left. *)
Stall(i) ==
  /\ requests[i].pc = "answered"
  /\ dev.pc # "idle" /\ dev.wait = i
  /\ Fault("stalled")
  /\ Goto(i, "stalled")
  /\ UNCHANGED <<now, tables, sent, dev, history>>

-----------------------------------------------------------------------------
(* The device *)

(* runProvision, step 5, once: register() begins. *)
BeginRegister ==
  /\ dev.pc = "idle" /\ dev.outcome = "none" /\ ~dev.enrolled
  /\ Room(4)
  /\ Send("register", 0, "registering", dev)
  /\ UNCHANGED <<now, tables, faults, history>>

(* unlock: openVault follows the login; the key is right or it is not.     *)
BeginLogin(right) ==
  /\ dev.pc = "idle" /\ dev.enrolled /\ dev.token = 0
  /\ Room(2 * (Retries + 1))
  /\ Send("ke1", 0, "ke1", [dev EXCEPT !.right = right, !.attempt = 0,
                                       !.outcome = "none"])
  /\ UNCHANGED <<now, tables, faults, history>>

(* An introspection with the token; nothing waits for its answer. *)
BeginSelf ==
  /\ dev.pc = "idle" /\ dev.token # 0 /\ dev.ask = 0
  /\ Room(1)
  /\ sent' = sent + 1
  /\ requests' = [requests EXCEPT ![sent + 1] =
       [Unsent EXCEPT !.kind = "self", !.ref = dev.token, !.pc = "sent"]]
  /\ dev' = [dev EXCEPT !.ask = sent + 1]
  /\ UNCHANGED <<now, tables, faults, history>>

(* call(): whatever session there is takes the token of the answer.        *)
ReceiveSelf ==
  LET r == requests[dev.ask] IN
  /\ dev.ask # 0
  /\ \/ r.pc = "answered" /\ UNCHANGED faults
     \/ Fault("lost")
  /\ dev' = [dev EXCEPT !.ask = 0,
       !.token = IF @ # 0 /\ faults' = faults /\ r.answer = "ok" /\ r.record # 0
                 THEN dev.ask ELSE @]
  /\ UNCHANGED <<now, tables, requests, sent, history>>

(* lockSession: the logout is not waited for. *)
Lock ==
  /\ dev.pc = "idle" /\ dev.token # 0
  /\ Room(1)
  /\ Send("logout", dev.token, "idle", [dev EXCEPT !.token = 0, !.outcome = "none"])
  /\ UNCHANGED <<now, tables, faults, history>>

(* classifyOpaqueError *)
Classify(a) ==
  CASE a = "401" -> "wrong-credential"
    [] a = "429" -> "rate-limited"
    [] a \in {"500", "none"} -> "unavailable"
    [] OTHER -> "unknown"

RetriesOn(a) == Classify(a) = "unavailable"

(* A login that fails with answer a: loginWithRetry begins another one or  *)
(* throws; that of runProvision, whose row has just been rotated, is not   *)
(* repeated.                                                               *)
LoginFails(a) ==
  IF RetriesOn(a) /\ dev.attempt < Retries /\ dev.outcome # "registered"
  THEN Send("ke1", 0, "ke1", [dev EXCEPT !.attempt = @ + 1])
  ELSE /\ dev' = Idle(IF dev.outcome = "registered" THEN "registered"
                     ELSE Classify(a))
       /\ UNCHANGED <<requests, sent>>

Failed(a) ==
  IF dev.pc \in {"registering", "recording"}
  THEN dev' = Idle("unregistered") /\ UNCHANGED <<requests, sent>>
  ELSE LoginFails(a)

(* An answer: register and login go on to their next request, or end.      *)
Receive ==
  LET i == dev.wait
      r == requests[i] IN
  /\ dev.pc \notin {"idle", "rotating"}
  /\ r.pc = "answered"
  /\ IF r.answer # "ok" THEN Failed(r.answer)
     ELSE \/ /\ dev.pc = "registering"
             /\ Send("record", i, "recording", [dev EXCEPT !.ref = i])
          \/ /\ dev.pc = "recording"
             /\ dev' = [dev EXCEPT !.pc = "rotating"]
             /\ UNCHANGED <<requests, sent>>
          \/ /\ dev.pc = "ke1"
             /\ IF EnvelopeOpens(r)
                THEN Send("ke3", i, "ke3", dev) ELSE LoginFails("401")
          \/ /\ dev.pc = "ke3"
             /\ dev' = [Idle("ok") EXCEPT !.token = i]
             /\ UNCHANGED <<requests, sent>>
  /\ UNCHANGED <<now, tables, faults, history>>

(* rotateAuth writes the enrolment and runProvision logs in, or it throws. *)
Rotate ==
  /\ dev.pc = "rotating"
  /\ \/ /\ Send("ke1", 0, "ke1",
                [dev EXCEPT !.enrolled = TRUE, !.record = dev.ref,
                            !.account = dev.wait, !.outcome = "registered"])
        /\ UNCHANGED faults
     \/ /\ Fault("broken")
        /\ dev' = Idle("unregistered")
        /\ UNCHANGED <<requests, sent>>
  /\ UNCHANGED <<now, tables, history>>

(* The timeout of a request, or a broken connection; its handler goes on.  *)
GiveUp ==
  /\ dev.pc \notin {"idle", "rotating"}
  /\ requests[dev.wait].pc # "stalled"
  /\ Fault("lost")
  /\ Failed("none")
  /\ UNCHANGED <<now, tables, history>>

-----------------------------------------------------------------------------
Handle(i) ==
  \/ RegisterRequest(i) \/ RegisterRead(i) \/ RegisterDelete(i) \/ RegisterInsert(i)
  \/ GetAccount(i) \/ PutPendingLogin(i)
  \/ LoginRead(i) \/ LoginDelete(i) \/ InsertSession(i)
  \/ Authenticate(i) \/ RotateRead(i) \/ RotateBatch(i) \/ Logout(i)

Next ==
  \/ \E i \in 1 .. sent : Handle(i) \/ Refuse(i) \/ Break(i) \/ Copy(i) \/ Stall(i)
  \/ Sweep \/ Tick
  \/ BeginRegister \/ BeginSelf \/ ReceiveSelf \/ Lock \/ Receive \/ Rotate \/ GiveUp
  \/ \E right \in BOOLEAN : BeginLogin(right)

(* Handlers run to their end, and the device goes on with an answer.       *)
Fairness ==
  /\ \A i \in 1 .. MaxRequests : WF_vars(Handle(i))
  /\ WF_vars(Receive)
  /\ WF_vars(Rotate)

Spec == Init /\ [][Next]_vars
FairSpec == Spec /\ Fairness

-----------------------------------------------------------------------------
(* Properties *)

(* "First registration wins" (server-opaque.ts): a device that is enrolled *)
(* has the account id and the record the server has, however registrations *)
(* were repeated, so that its export key is the one every login gives.     *)
EnrolledMatchesServer ==
  dev.enrolled => account = [id |-> dev.account, record |-> dev.record]

(* A login has at most one live session, through all rotations, unless two *)
(* of its KE3 requests or two of its rotations were both past their reads  *)
(* before either deleted the row.                                          *)
OneSessionPerLogin ==
  \A s, t \in sessions : s.login = t.login => s = t \/ s.login \in raced

(* A login whose token has been logged out has no session any more, unless *)
(* a rotation had read the row before the logout.                          *)
LogoutEndsLogin ==
  \A s \in sessions : s.login \in ended => s.login \in raced

(* The sweep takes no row that a request could still use: a step that is   *)
(* no step of a request, the device or the clock leaves all of them.       *)
SweepIsInvisible ==
  [][ (requests' = requests /\ dev' = dev) =>
        /\ \A p \in pendReg \ pendReg' : ~Fresh(p)
        /\ \A p \in pendLog \ pendLog' : ~Fresh(p)
        /\ \A s \in sessions \ sessions' : ~Live(s) ]_vars

(* Whatever the device has begun ends, unless the body of an answer never  *)
(* arrives: the timeout of a request ends with its headers.                *)
DeviceSettles ==
  dev.pc # "idle" ~> (dev.pc = "idle" \/ requests[dev.wait].pc = "stalled")

(* The tokens whose insert has been made. *)
Issued ==
  {i \in 1 .. sent : /\ requests[i].kind \in {"ke3", "self"}
                     /\ requests[i].answer = "ok"
                     /\ requests[i].record # 0}

Registry == INSTANCE AccountRegistry WITH
  Accounts <- 1 .. MaxRequests, Tokens <- 1 .. MaxRequests,
  owner <- account.id, live <- {s.token : s \in sessions}, issued <- Issued

(* The tables are a registry: the account of a client id is written once,  *)
(* and a token is issued once, for a registered account.                   *)
ImplementsRegistry == Registry!RegistrySpec
=============================================================================
