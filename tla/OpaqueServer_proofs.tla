------------------------- MODULE OpaqueServer_proofs -------------------------
(* Theorems about the life of an account, in two parts that share no       *)
(* state: accounts, logins and sessions at the server and on the device    *)
(* (OpaqueServer), for any number of requests, faults, ticks and retries;  *)
(* and the wizard that makes the vault (Onboarding), for any number of     *)
(* keys, passkeys, salts, provisionings, departures and faults.            *)
EXTENDS OpaqueServer, Onboarding, TLAPS

USE DEF Ids, tables, history

-----------------------------------------------------------------------------
(* The inductive invariant, in four layers. *)

(* The requests that the device may still send without asking for room: as *)
(* Reserved, but the login that ends a provisioning is not repeated.       *)
Needs(pc, d) ==
  LET retries == IF d.outcome = "registered" THEN 0 ELSE 2 * (Retries - d.attempt) IN
  CASE pc = "registering" -> 3
    [] pc \in {"recording", "rotating"} -> 2
    [] pc = "ke1" -> 1 + retries
    [] pc = "ke3" -> retries
    [] OTHER -> 0
Needed == Needs(dev.pc, dev)

(* The device waits for a request that was sent, and has room for the rest. *)
WaitsForSent ==
  /\ dev.pc # "idle" => dev.wait \in 1 .. sent
  /\ dev.ask \in 0 .. sent
  /\ sent + Needed <= MaxRequests
  /\ \A i \in 1 .. sent : requests[i].kind = "record" => requests[i].ref # 0

TypeInv == TypeOK /\ WaitsForSent

Served(i) == requests[i].pc \in {"answered", "stalled"}

(* The answer to a registration is the account it made.                    *)
RegistrationStands ==
  \A i \in 1 .. sent :
    /\ requests[i].answer # "none" <=> Served(i)
    /\ requests[i].kind = "record" /\ requests[i].answer = "ok"
         => account = Registration(i)

(* What the device is about to write down is that registration.            *)
DeviceMatches ==
  LET r == requests[dev.wait] IN
  /\ dev.pc \in {"recording", "rotating"} =>
       r.kind = "record" /\ r.ref = dev.ref
  /\ dev.pc = "rotating" => r.answer = "ok"
  /\ EnrolledMatchesServer
  /\ dev.enrolled /\ MaxRequests # 0 => account # NoAccount

EnrolInv == TypeInv /\ RegistrationStands /\ DeviceMatches

(* A login is named by its KE1 request, which has been answered.           *)
Begun(l) == l \in 1 .. sent /\ requests[l].kind = "ke1" /\ Served(l)

(* The login a token was issued for: a rotation hands it on.               *)
LoginOf(t) == IF requests[t].kind = "ke3" THEN requests[t].ref ELSE requests[t].record

(* What each handler has learned from the tables it read.                  *)
HandlersKnow ==
  \A i \in 1 .. sent :
    LET r == requests[i] IN
    /\ r.kind = "self" /\ r.pc \in {"sent", "authentic"} => r.record = 0
    /\ r.kind = "ke3" /\ r.pc \in {"found", "verified"} => Begun(r.ref)
    /\ r.kind = "ke3" /\ r.pc = "verified" => r.record # 0
    /\ r.kind = "self" /\ r.pc = "rotating" =>
         /\ r.ref \in Issued /\ r.record = LoginOf(r.ref)
         /\ Begun(r.record) /\ account # NoAccount

(* Every row is of a login that has begun, every session of its token.     *)
RowsKnown ==
  /\ \A p \in pendLog : Begun(p.id)
  /\ \A s \in sessions : /\ s.token \in Issued /\ s.login = LoginOf(s.token)
                         /\ Begun(s.login)
  /\ sessions # {} => account # NoAccount
  /\ \A l \in ended : Begun(l)

TokenInv == EnrolInv /\ HandlersKnow /\ RowsKnown

(* A login that nothing has raced is in one place: its pending row, one    *)
(* KE3 that has taken the row, or one session; none of them once it ended. *)
Verified(i, l) == At(i, "ke3", "verified") /\ requests[i].ref = l
Pending(l) == \E p \in pendLog : p.id = l
InSession(l) == \E s \in sessions : s.login = l
InOnePlace(l) ==
  /\ Pending(l) => ~InSession(l) /\ \A i \in 1 .. sent : ~Verified(i, l)
  /\ InSession(l) => \A i \in 1 .. sent : ~Verified(i, l)
  /\ \A i, j \in 1 .. sent : Verified(i, l) /\ Verified(j, l) => i = j
  /\ \A s, t \in sessions : s.login = l /\ t.login = l => s = t
  /\ l \in ended => ~Pending(l) /\ ~InSession(l) /\ \A i \in 1 .. sent : ~Verified(i, l)
LoginsApart == \A l \in 1 .. MaxRequests : l \notin raced => InOnePlace(l)

LoginInv == TokenInv /\ LoginsApart

-----------------------------------------------------------------------------
(* The two shapes of a step on the requests. *)

(* The handler of i goes on: what was asked stays, and an answered request *)
(* can only stall.                                                         *)
Handled(i, r) ==
  /\ requests' = [requests EXCEPT ![i] = r]
  /\ UNCHANGED <<sent, dev>>
  /\ r.kind = requests[i].kind /\ r.ref = requests[i].ref
  /\ Served(i) => r = [requests[i] EXCEPT !.pc = "stalled"]
  /\ r.answer # "none" /\ requests[i].answer = "none" => r.pc = "answered"
  /\ r.pc \in {"answered", "stalled"} /\ ~Served(i) => r.answer # "none"
  /\ r.pc \notin {"answered", "stalled"} => r.answer = requests[i].answer

(* One more request is sent. *)
Appended ==
  /\ sent < MaxRequests
  /\ sent' = sent + 1
  /\ requests' \in [1 .. MaxRequests -> Request]
  /\ \A j \in 1 .. sent : requests'[j] = requests[j]
  /\ requests'[sent + 1].pc = "sent"

ServerStep(i) == Handle(i) \/ Refuse(i) \/ Break(i) \/ Stall(i)

LEMMA Bounds ==
  /\ MaxRequests \in Nat /\ MaxTime \in Nat /\ SessionTtl \in Nat
  /\ Retries \in Nat /\ MaxFaults \in Nat
  BY OpaqueAssumption DEF OpaqueAssumption

(* An answer that was not one yet. *)
LEMMA Answering ==
  ASSUME TypeOK, NEW i \in 1 .. MaxRequests, ~Served(i),
         NEW a \in {"ok", "400", "401", "409", "429", "500"}, Answer(i, a),
         UNCHANGED <<sent, dev>>
  PROVE  \E r \in Request : Handled(i, r)
  <1> DEFINE r == [requests[i] EXCEPT !.pc = "answered", !.answer = a]
  <1>1. requests[i] \in Request
    BY DEF TypeOK
  <1>2. r \in Request
    BY <1>1 DEF Request
  <1>3. Handled(i, r)
    BY <1>1 DEF Handled, Answer, Served, Request, TypeOK
  <1> QED BY <1>2, <1>3

(* A step inside the handler. *)
LEMMA Going ==
  ASSUME TypeOK, NEW i \in 1 .. MaxRequests, ~Served(i),
         NEW pc \in {"found", "deleted", "verified", "authentic", "rotating"},
         NEW rec \in Ids,
         requests' = [requests EXCEPT ![i].pc = pc, ![i].record = rec],
         UNCHANGED <<sent, dev>>
  PROVE  \E r \in Request : Handled(i, r)
  <1> DEFINE r == [requests[i] EXCEPT !.pc = pc, !.record = rec]
  <1>1. requests[i] \in Request
    BY DEF TypeOK
  <1>2. r \in Request
    BY <1>1 DEF Request
  <1>3. requests' = [requests EXCEPT ![i] = r]
    BY <1>1 DEF TypeOK
  <1>4. Handled(i, r)
    BY <1>1, <1>3 DEF Handled, Served, Request
  <1> QED BY <1>2, <1>4

LEMMA Handling ==
  ASSUME TypeInv, NEW i \in 1 .. sent, ServerStep(i)
  PROVE  \E r \in Request : Handled(i, r)
  <1>1. TypeOK /\ i \in 1 .. MaxRequests
    BY Bounds DEF TypeInv, TypeOK
  <1>2. requests[i] \in Request
    BY <1>1 DEF TypeOK
  <1>3. ASSUME NEW pc \in {"found", "deleted", "verified", "authentic", "rotating"},
               Goto(i, pc), ~Served(i), UNCHANGED <<sent, dev>>
        PROVE  \E r \in Request : Handled(i, r)
    <2>1. requests[i].record \in Ids
      BY <1>2 DEF Request
    <2>2. requests' = [requests EXCEPT ![i].pc = pc, ![i].record = requests[i].record]
      BY <1>1, <1>2, <1>3 DEF Goto, TypeOK, Request
    <2> QED BY <1>1, <1>3, <2>1, <2>2, Going
  <1>4. CASE RegisterRequest(i)
    BY <1>1, <1>4, Answering DEF RegisterRequest, At, Served
  <1>5. CASE RegisterRead(i)
    BY <1>1, <1>3, <1>5, Answering DEF RegisterRead, At, Served
  <1>6. CASE RegisterDelete(i)
    BY <1>3, <1>6 DEF RegisterDelete, At, Served
  <1>7. CASE RegisterInsert(i)
    BY <1>1, <1>7, Answering DEF RegisterInsert, InsertAccount, At, Served
  <1>8. CASE GetAccount(i)
    <2>1. account.record \in Ids
      BY <1>1, Bounds DEF TypeOK, NoAccount
    <2> QED BY <1>1, <1>8, <2>1, Going DEF GetAccount, At, Served
  <1>9. CASE PutPendingLogin(i)
    BY <1>1, <1>9, Answering DEF PutPendingLogin, At, Served
  <1>10. CASE LoginRead(i)
    <2>1. ASSUME NEW p \in pendLog,
                 requests' = [requests EXCEPT ![i].pc = "found", ![i].record = p.record]
          PROVE  \E r \in Request : Handled(i, r)
      <3>1. p.record \in Ids
        BY <1>1 DEF TypeOK
      <3> QED BY <1>1, <1>10, <2>1, <3>1, Going DEF LoginRead, At, Served
    <2> QED BY <1>1, <1>10, <2>1, Answering DEF LoginRead, At, Served
  <1>11. CASE LoginDelete(i)
    BY <1>1, <1>3, <1>11, Answering DEF LoginDelete, At, Served
  <1>12. CASE InsertSession(i)
    BY <1>1, <1>12, Answering DEF InsertSession, At, Served
  <1>13. CASE Authenticate(i)
    BY <1>1, <1>3, <1>13, Answering DEF Authenticate, At, Served
  <1>14. CASE RotateRead(i)
    <2>1. ASSUME NEW s \in sessions,
                 requests' = [requests EXCEPT ![i].pc = "rotating", ![i].record = s.login]
          PROVE  \E r \in Request : Handled(i, r)
      <3>1. s.login \in Ids
        BY <1>1 DEF TypeOK
      <3> QED BY <1>1, <1>14, <2>1, <3>1, Going DEF RotateRead, At, Served
    <2> QED BY <1>1, <1>14, <2>1, Answering DEF RotateRead, Session, At, Served
  <1>15. CASE RotateBatch(i)
    BY <1>1, <1>15, Answering DEF RotateBatch, At, Served
  <1>16. CASE Logout(i)
    BY <1>1, <1>16, Answering DEF Logout, At, Served
  <1>17. CASE Refuse(i)
    BY <1>1, <1>17, Answering DEF Refuse, At, Served
  <1>18. CASE Break(i)
    <2> DEFINE a == CASE requests[i].kind = "ke3" -> "401"
                      [] requests[i].kind = "self" /\ requests[i].pc # "sent" -> "ok"
                      [] OTHER -> "500"
               r == [requests[i] EXCEPT !.pc = "answered", !.answer = a,
                                        !.record = 0, !.broken = TRUE]
    <2>1. a \in {"401", "ok", "500"}
      OBVIOUS
    <2> HIDE DEF a
    <2>2. r \in Request
      <3> DEFINE q == [requests[i] EXCEPT !.pc = "answered", !.answer = a]
      <3>1. q \in Request
        BY <1>2, <2>1 DEF Request
      <3> HIDE DEF q
      <3>2. [q EXCEPT !.record = 0] \in Request
        BY <3>1, Bounds DEF Request
      <3>3. [[q EXCEPT !.record = 0] EXCEPT !.broken = TRUE] \in Request
        BY <3>2, Zenon DEF Request
      <3> QED BY <1>2, <3>3 DEF q, Request
    <2>3. requests' = [requests EXCEPT ![i] = r]
      BY <1>1, <1>2, <1>18 DEF Break, a, TypeOK, Request
    <2>4. Handled(i, r)
      BY <1>2, <1>18, <2>1, <2>3 DEF Break, Handled, Served, Request
    <2> QED BY <2>2, <2>4
  <1>19. CASE Stall(i)
    <2> DEFINE r == [requests[i] EXCEPT !.pc = "stalled"]
    <2>1. r \in Request
      BY <1>2 DEF Request
    <2>2. requests' = [requests EXCEPT ![i] = r]
      BY <1>1, <1>2, <1>19 DEF Stall, Goto, TypeOK
    <2>3. Handled(i, r)
      BY <1>2, <1>19, <2>2 DEF Stall, Handled, Served, Request
    <2> QED BY <2>1, <2>3
  <1> QED BY <1>4, <1>5, <1>6, <1>7, <1>8, <1>9, <1>10, <1>11, <1>12, <1>13, <1>14,
             <1>15, <1>16, <1>17, <1>18, <1>19 DEF ServerStep, Handle

LEMMA HandledKeeps ==
  ASSUME TypeInv, NEW i \in 1 .. sent, NEW r \in Request, Handled(i, r)
  PROVE  /\ sent' \in Ids /\ dev' \in Device
         /\ requests' \in [1 .. MaxRequests -> Request]
         /\ WaitsForSent'
  <1>1. requests \in [1 .. MaxRequests -> Request] /\ i \in 1 .. MaxRequests
    BY Bounds DEF TypeInv, TypeOK
  <1>2. requests' \in [1 .. MaxRequests -> Request]
    BY <1>1 DEF Handled
  <1>3. \A j \in 1 .. sent : requests'[j].kind = requests[j].kind
                               /\ requests'[j].ref = requests[j].ref
    BY <1>1 DEF Handled
  <1>4. WaitsForSent'
    BY <1>3 DEF Handled, TypeInv, WaitsForSent, Needed, Needs
  <1> QED BY <1>2, <1>4 DEF Handled, TypeInv, TypeOK

(* The tables and the counters that a server step writes. *)
TablesOK ==
  /\ now \in 0 .. MaxTime
  /\ account \in [id : Ids \ {0}, record : Ids \ {0}] \cup {NoAccount}
  /\ pendReg \subseteq [id : Ids, born : 0 .. MaxTime]
  /\ pendLog \subseteq [id : Ids, born : 0 .. MaxTime, record : Ids]
  /\ sessions \subseteq [token : Ids, expires : Nat, login : Ids]
  /\ faults \in 0 .. MaxFaults

LEMMA ServerTables ==
  ASSUME TypeInv, NEW i \in 1 .. sent, ServerStep(i)
  PROVE  TablesOK'
  <1>1. TablesOK /\ i \in Ids \ {0} /\ requests[i] \in Request
    BY Bounds DEF TypeInv, TypeOK, TablesOK
  <1>2. requests[i].ref \in Ids /\ requests[i].record \in Ids
    BY <1>1 DEF Request
  <1>3. CASE UNCHANGED <<now, tables, faults>>
    BY <1>1, <1>3 DEF TablesOK
  <1>4. CASE RegisterRequest(i) \/ RegisterDelete(i)
    BY <1>1, <1>4 DEF RegisterRequest, RegisterDelete, NewPending, TablesOK
  <1>5. CASE RegisterInsert(i)
    <2>1. requests[i].ref # 0
      BY <1>5 DEF RegisterInsert, At, TypeInv, WaitsForSent
    <2> QED BY <1>1, <1>2, <1>5, <2>1 DEF RegisterInsert, InsertAccount, Registration, TablesOK
  <1>6. CASE PutPendingLogin(i)
    BY <1>1, <1>2, <1>6 DEF PutPendingLogin, TablesOK
  <1>7. CASE LoginDelete(i)
    BY <1>1, <1>7 DEF LoginDelete, DropPendingLogin, TablesOK
  <1>8. CASE InsertSession(i)
    <2>1. now + SessionTtl \in Nat
      BY <1>1, Bounds DEF TablesOK
    <2> QED BY <1>1, <1>2, <1>8, <2>1 DEF InsertSession, TablesOK
  <1>9. CASE RotateBatch(i)
    <2>1. now + SessionTtl \in Nat
      BY <1>1, Bounds DEF TablesOK
    <2> QED BY <1>1, <1>2, <1>9, <2>1 DEF RotateBatch, TablesOK
  <1>10. CASE Logout(i)
    BY <1>1, <1>10 DEF Logout, TablesOK
  <1>11. CASE UNCHANGED <<now, tables>> /\ \E f \in Faults : Fault(f)
    BY <1>1, <1>11, Bounds DEF Fault, TablesOK
  <1>12. CASE Refuse(i) \/ Break(i) \/ Stall(i)
    BY <1>11, <1>12 DEF Refuse, Break, Stall, Fault
  <1> QED BY <1>3, <1>4, <1>5, <1>6, <1>7, <1>8, <1>9, <1>10, <1>12
          DEF ServerStep, Handle, RegisterRead, GetAccount, LoginRead, Authenticate, RotateRead

(* A step of the device, or of the network that copies a request, either   *)
(* leaves the requests alone or sends one.                                 *)
DeviceStep ==
  \/ \E i \in 1 .. sent : Copy(i)
  \/ BeginRegister \/ BeginSelf \/ ReceiveSelf \/ Lock \/ Receive \/ Rotate \/ GiveUp
  \/ \E right \in BOOLEAN : BeginLogin(right)

LEMMA DeviceSorts ==
  ASSUME TypeInv
  PROVE  /\ dev \in Device
         /\ dev.ask \in Ids /\ dev.wait \in Ids /\ dev.ref \in Ids /\ dev.token \in Ids
         /\ dev.attempt \in 0 .. Retries /\ dev.right \in BOOLEAN
         /\ sent \in Nat /\ sent <= MaxRequests
         /\ Needed \in Nat /\ Reserved \in Nat /\ Needed <= Reserved
  <1>1. /\ dev \in Device /\ sent \in Nat /\ sent <= MaxRequests
    BY Bounds DEF TypeInv, TypeOK
  <1>2. /\ dev.ask \in Ids /\ dev.wait \in Ids /\ dev.ref \in Ids /\ dev.token \in Ids
        /\ dev.attempt \in 0 .. Retries /\ dev.right \in BOOLEAN
    BY <1>1 DEF Device
  <1>3. Needed \in Nat /\ Reserved \in Nat /\ Needed <= Reserved
    BY <1>2, Bounds DEF Needed, Needs, Reserved
  <1> QED BY <1>1, <1>2, <1>3

(* A request of the device is new, and the others stay.                    *)
LEMMA Sending ==
  ASSUME TypeInv, sent < MaxRequests, NEW kind \in Kinds, NEW ref \in Ids,
         NEW d \in Device,
         NEW pc \in {"idle", "registering", "recording", "ke1", "ke3"},
         Send(kind, ref, pc, d)
  PROVE  /\ Appended
         /\ requests'[sent + 1].kind = kind /\ requests'[sent + 1].ref = ref
         /\ requests'[sent + 1].answer = "none" /\ requests'[sent + 1].record = 0
         /\ dev' \in Device
         /\ dev'.pc = pc /\ dev'.wait = sent + 1 /\ dev'.ask = d.ask
         /\ dev'.outcome = d.outcome /\ dev'.attempt = d.attempt
  <1> DEFINE r == [Unsent EXCEPT !.kind = kind, !.ref = ref, !.right = d.right, !.pc = "sent"]
  <1>1. r \in Request
    <2>1. Unsent \in Request
      BY Bounds DEF Unsent, Request
    <2>2. d.right \in BOOLEAN
      BY DEF Device
    <2> QED BY <2>1, <2>2 DEF Request
  <1>2. /\ r.kind = kind /\ r.ref = ref /\ r.record = 0
        /\ r.pc = "sent" /\ r.answer = "none"
    BY DEF Unsent
  <1>3. sent \in Nat /\ sent + 1 \in 1 .. MaxRequests
    BY Bounds DEF TypeInv, TypeOK
  <1>4. requests' = [requests EXCEPT ![sent + 1] = r]
    BY DEF Send
  <1> HIDE DEF r
  <1>5. requests \in [1 .. MaxRequests -> Request]
    BY DEF TypeInv, TypeOK
  <1>6. requests'[sent + 1] = r /\ Appended
    BY <1>1, <1>2, <1>3, <1>4, <1>5 DEF Send, Appended
  <1>7. dev' = [d EXCEPT !.pc = pc, !.wait = sent + 1]
    BY DEF Send
  <1>8. sent + 1 \in Ids
    BY <1>3, Bounds
  <1>9. dev' \in Device
    BY <1>7, <1>8 DEF Device
  <1>10. /\ dev'.pc = pc /\ dev'.wait = sent + 1 /\ dev'.ask = d.ask
         /\ dev'.outcome = d.outcome /\ dev'.attempt = d.attempt
    BY <1>7 DEF Device
  <1> QED BY <1>2, <1>6, <1>9, <1>10

(* A step that sends keeps the invariant when there was room for it.       *)
LEMMA RequestSorts ==
  ASSUME TypeInv
  PROVE  requests \in [1 .. MaxRequests -> Request] /\ 1 .. sent \subseteq 1 .. MaxRequests
  <1>1. requests \in [1 .. MaxRequests -> Request]
    BY DEF TypeInv, TypeOK
  <1>2. sent \in Nat /\ sent <= MaxRequests
    BY DeviceSorts
  <1> QED BY <1>1, <1>2, Bounds

LEMMA AppendKeeps ==
  ASSUME TypeInv, Appended, dev' \in Device,
         requests'[sent + 1].kind = "record" => requests'[sent + 1].ref # 0,
         dev'.pc # "idle" => dev'.wait \in 1 .. sent + 1,
         dev'.ask \in 0 .. sent + 1,
         sent + 1 + Needed' <= MaxRequests
  PROVE  sent' \in Ids /\ WaitsForSent'
  <1>1. sent \in Nat /\ sent' = sent + 1 /\ sent' \in Ids
    <2>1. sent' = sent + 1 /\ sent < MaxRequests
      BY DEF Appended
    <2>2. sent \in Nat /\ MaxRequests \in Nat
      BY DeviceSorts, Bounds
    <2> QED BY <2>1, <2>2, Bounds
  <1>2. ASSUME NEW j \in 1 .. sent', requests'[j].kind = "record"
        PROVE  requests'[j].ref # 0
    <2>1. CASE j = sent + 1
      BY <1>2, <2>1
    <2>2. CASE j \in 1 .. sent
      BY <1>2, <2>2 DEF Appended, TypeInv, WaitsForSent
    <2> QED BY <1>1, <2>1, <2>2
  <1> QED BY <1>1, <1>2 DEF WaitsForSent

(* The last request is new, or a copy of one that has not been looked at.  *)
IsNew ==
  \/ requests'[sent + 1].answer = "none" /\ requests'[sent + 1].record = 0
  \/ \E i \in 1 .. sent : requests[i].pc = "sent" /\ requests'[sent + 1] = requests[i]

Typed ==
  /\ dev' \in Device /\ sent' \in Ids /\ WaitsForSent'
  /\ requests' \in [1 .. MaxRequests -> Request]
Kept == Typed /\ (UNCHANGED <<requests, sent>> \/ (Appended /\ IsNew))

LEMMA SendKeeps ==
  ASSUME TypeInv, sent < MaxRequests, NEW kind \in Kinds, NEW ref \in Ids,
         kind = "record" => ref # 0,
         NEW d \in Device, d.ask = dev.ask,
         NEW pc \in {"idle", "registering", "recording", "ke1", "ke3"},
         Send(kind, ref, pc, d),
         sent + 1 + Needs(pc, d) <= MaxRequests
  PROVE  Kept
  <1>1. /\ Appended
        /\ requests'[sent + 1].kind = kind /\ requests'[sent + 1].ref = ref
        /\ dev' \in Device /\ dev'.wait = sent + 1 /\ dev'.ask = dev.ask
        /\ Needed' = Needs(pc, d)
    BY Sending DEF Needed, Needs
  <1>2. dev.ask \in 0 .. sent /\ sent \in Nat
    BY DeviceSorts DEF TypeInv, WaitsForSent
  <1>3. IsNew
    BY Sending DEF IsNew
  <1> QED BY <1>1, <1>2, <1>3, AppendKeeps DEF Appended, Kept, Typed


LEMMA IdleKeeps ==
  ASSUME TypeInv, UNCHANGED <<requests, sent>>,
         NEW o \in {"none", "ok", "wrong-credential", "rate-limited", "unavailable",
                    "unknown", "registered", "unregistered"},
         dev' = Idle(o)
  PROVE  Kept
  <1>1. dev' \in Device /\ dev'.pc = "idle" /\ dev'.ask = dev.ask
    BY DeviceSorts DEF Idle, Device
  <1>2. Needed' = 0
    BY <1>1 DEF Needed, Needs
  <1> QED BY <1>1, <1>2, DeviceSorts DEF TypeInv, TypeOK, WaitsForSent, Kept, Typed

LEMMA LoginFailsKeeps ==
  ASSUME TypeInv, dev.pc \in {"ke1", "ke3"}, NEW a, LoginFails(a)
  PROVE  Kept
  <1>1. Classify(a) \in {"wrong-credential", "rate-limited", "unavailable", "unknown"}
    BY DEF Classify
  <1>2. CASE /\ RetriesOn(a) /\ dev.attempt < Retries /\ dev.outcome # "registered"
    <2> DEFINE d == [dev EXCEPT !.attempt = @ + 1]
    <2>1. Send("ke1", 0, "ke1", d)
      BY <1>2 DEF LoginFails
    <2>2. dev.attempt + 1 \in 0 .. Retries
      BY <1>2, DeviceSorts, Bounds
    <2>3. d \in Device
      BY <2>2, DeviceSorts DEF Device
    <2>4. d.ask = dev.ask /\ d.outcome = dev.outcome /\ d.attempt = dev.attempt + 1
      BY DeviceSorts DEF Device
    <2>5. sent + 1 + Needs("ke1", d) <= MaxRequests
      BY <1>2, <2>4, DeviceSorts, Bounds DEF Needs, Needed, TypeInv, WaitsForSent
    <2>6. sent < MaxRequests
      BY <1>2, DeviceSorts, Bounds DEF Needs, Needed, TypeInv, WaitsForSent
    <2>7. "ke1" \in Kinds /\ 0 \in Ids
      BY Bounds DEF Kinds
    <2> HIDE DEF d
    <2> QED BY <2>1, <2>3, <2>4, <2>5, <2>6, <2>7, SendKeeps
  <1>3. CASE ~(/\ RetriesOn(a) /\ dev.attempt < Retries /\ dev.outcome # "registered")
    BY <1>1, <1>3, IdleKeeps DEF LoginFails
  <1> QED BY <1>2, <1>3

LEMMA FailedKeeps ==
  ASSUME TypeInv, dev.pc \notin {"idle", "rotating"}, NEW a, Failed(a)
  PROVE  Kept
  <1>1. dev.pc \in {"registering", "recording", "ke1", "ke3"}
    BY DeviceSorts DEF Device
  <1> QED BY <1>1, LoginFailsKeeps, IdleKeeps DEF Failed

LEMMA ReceiveKeeps ==
  ASSUME TypeInv, Receive
  PROVE  Kept
  <1> DEFINE i == dev.wait
             r == requests[i]
  <1>1. /\ dev.pc \notin {"idle", "rotating"} /\ dev.pc # "idle"
    BY DEF Receive
  <1>2. i \in Ids /\ i # 0 /\ i \in 1 .. sent
    BY <1>1, DeviceSorts DEF TypeInv, WaitsForSent
  <1>3. CASE r.answer # "ok"
    BY <1>1, <1>3, FailedKeeps DEF Receive
  <1>4. CASE dev.pc = "registering" /\ Send("record", i, "recording", [dev EXCEPT !.ref = i])
    <2> DEFINE d == [dev EXCEPT !.ref = i]
    <2>1. d \in Device /\ d.ask = dev.ask
      BY <1>2, DeviceSorts DEF Device
    <2>2. Needs("recording", d) = 2 /\ Needed = 3
      BY <1>4 DEF Needs, Needed
    <2>3. sent + 1 + Needs("recording", d) <= MaxRequests /\ sent < MaxRequests
      BY <2>2, DeviceSorts, Bounds DEF TypeInv, WaitsForSent
    <2>4. Send("record", i, "recording", d)
      BY <1>4
    <2> HIDE DEF d
    <2> QED BY <1>2, <2>1, <2>3, <2>4, SendKeeps DEF Kinds
  <1>5. CASE /\ dev.pc = "recording" /\ dev' = [dev EXCEPT !.pc = "rotating"]
             /\ UNCHANGED <<requests, sent>>
    <2>1. dev' \in Device /\ dev'.pc = "rotating" /\ dev'.wait = dev.wait /\ dev'.ask = dev.ask
      BY <1>5, DeviceSorts DEF Device
    <2>2. Needed' = 2 /\ Needed = 2
      BY <1>5, <2>1 DEF Needs, Needed
    <2> QED BY <1>5, <2>1, <2>2, DeviceSorts DEF TypeInv, TypeOK, WaitsForSent, Kept, Typed
  <1>6. CASE dev.pc = "ke1" /\ Send("ke3", i, "ke3", dev)
    <2>1. Needed = 1 + Needs("ke3", dev) /\ Needs("ke3", dev) \in Nat
      BY <1>6, DeviceSorts, Bounds DEF Needs, Needed
    <2>2. sent + 1 + Needs("ke3", dev) <= MaxRequests /\ sent < MaxRequests
      BY <2>1, DeviceSorts, Bounds DEF TypeInv, WaitsForSent
    <2> QED BY <1>2, <1>6, <2>2, DeviceSorts, SendKeeps DEF Kinds
  <1>7. CASE dev.pc = "ke1" /\ LoginFails("401")
    BY <1>7, LoginFailsKeeps
  <1>8. CASE /\ dev' = [Idle("ok") EXCEPT !.token = i]
             /\ UNCHANGED <<requests, sent>>
    <2>1. dev' \in Device /\ dev'.pc = "idle" /\ dev'.ask = dev.ask
      BY <1>2, <1>8, DeviceSorts DEF Idle, Device
    <2>2. Needed' = 0
      BY <2>1 DEF Needed, Needs
    <2>3. sent \in Ids /\ requests \in [1 .. MaxRequests -> Request]
      BY DEF TypeInv, TypeOK
    <2>4. WaitsForSent'
      BY <1>8, <2>1, <2>2, DeviceSorts DEF TypeInv, WaitsForSent
    <2> QED BY <1>8, <2>1, <2>3, <2>4 DEF Kept, Typed
  <1> QED BY <1>3, <1>4, <1>5, <1>6, <1>7, <1>8 DEF Receive


LEMMA BeginKeeps ==
  ASSUME TypeInv,
         BeginRegister \/ Lock \/ Rotate \/ \E right \in BOOLEAN : BeginLogin(right)
  PROVE  Kept
  <1>0. 0 \in Ids /\ {"register", "ke1", "logout"} \subseteq Kinds
    BY Bounds DEF Kinds
  <1>1. CASE BeginRegister
    <2>1. sent + 1 + Needs("registering", dev) <= MaxRequests /\ sent < MaxRequests
      BY <1>1, DeviceSorts, Bounds DEF BeginRegister, Room, Needs
    <2> QED BY <1>0, <1>1, <2>1, DeviceSorts, SendKeeps DEF BeginRegister
  <1>2. CASE Lock
    <2> DEFINE d == [dev EXCEPT !.token = 0, !.outcome = "none"]
    <2>1. d \in Device /\ d.ask = dev.ask
      BY <1>0, DeviceSorts DEF Device
    <2>2. sent + 1 + Needs("idle", d) <= MaxRequests /\ sent < MaxRequests
      BY <1>2, DeviceSorts, Bounds DEF Lock, Room, Needs
    <2>3. Send("logout", dev.token, "idle", d) /\ dev.token \in Ids
      BY <1>2, DeviceSorts DEF Lock
    <2> HIDE DEF d
    <2> QED BY <1>0, <2>1, <2>2, <2>3, SendKeeps
  <1>3. CASE Rotate
    <2> DEFINE d == [dev EXCEPT !.enrolled = TRUE, !.record = dev.ref,
                                !.account = dev.wait, !.outcome = "registered"]
    <2>1. d \in Device /\ d.ask = dev.ask /\ d.outcome = "registered"
      BY DeviceSorts DEF Device
    <2>2. Needs("ke1", d) = 1 /\ Needed = 2
      BY <1>3, <2>1 DEF Rotate, Needs, Needed
    <2>3. sent + 1 + Needs("ke1", d) <= MaxRequests /\ sent < MaxRequests
      BY <2>2, DeviceSorts, Bounds DEF TypeInv, WaitsForSent
    <2>4. CASE Send("ke1", 0, "ke1", d)
      <3> HIDE DEF d
      <3> QED BY <1>0, <2>1, <2>3, <2>4, SendKeeps
    <2>5. CASE dev' = Idle("unregistered") /\ UNCHANGED <<requests, sent>>
      BY <2>5, IdleKeeps
    <2> QED BY <1>3, <2>4, <2>5 DEF Rotate
  <1>4. ASSUME NEW right \in BOOLEAN, BeginLogin(right)
        PROVE  Kept
    <2> DEFINE d == [dev EXCEPT !.right = right, !.attempt = 0, !.outcome = "none"]
    <2>0. 0 \in 0 .. Retries
      BY Bounds
    <2>1. d \in Device /\ d.ask = dev.ask /\ d.outcome = "none" /\ d.attempt = 0
      BY <2>0, DeviceSorts DEF Device
    <2>2. Needs("ke1", d) = 1 + 2 * Retries
      BY <2>1, Bounds DEF Needs
    <2>3. sent + 1 + Needs("ke1", d) <= MaxRequests /\ sent < MaxRequests
      <3> HIDE DEF d
      <3>1. sent + 2 * (Retries + 1) + Reserved <= MaxRequests
        BY <1>4 DEF BeginLogin, Room
      <3> QED BY <2>2, <3>1, DeviceSorts, Bounds
    <2>4. Send("ke1", 0, "ke1", d)
      BY <1>4 DEF BeginLogin
    <2> HIDE DEF d
    <2> QED BY <1>0, <2>1, <2>3, <2>4, SendKeeps
  <1> QED BY <1>1, <1>2, <1>3, <1>4

LEMMA SelfKeeps ==
  ASSUME TypeInv, BeginSelf \/ ReceiveSelf \/ \E i \in 1 .. sent : Copy(i)
  PROVE  Kept
  <1>0. requests \in [1 .. MaxRequests -> Request] /\ 1 .. sent \subseteq 1 .. MaxRequests
    BY RequestSorts
  <1>1. CASE BeginSelf
    <2> DEFINE r == [Unsent EXCEPT !.kind = "self", !.ref = dev.token, !.pc = "sent"]
    <2>1. Unsent \in Request
      BY Bounds DEF Unsent, Request
    <2>2. r \in Request
      BY <2>1, DeviceSorts DEF Request, Kinds
    <2>3. r.kind = "self" /\ r.pc = "sent" /\ r.answer = "none" /\ r.record = 0
      BY DEF Unsent
    <2>4. sent < MaxRequests /\ sent + 1 \in 1 .. MaxRequests
      BY <1>1, DeviceSorts, Bounds DEF BeginSelf, Room
    <2>5. requests' = [requests EXCEPT ![sent + 1] = r] /\ sent' = sent + 1
      BY <1>1 DEF BeginSelf
    <2>6. dev' = [dev EXCEPT !.ask = sent + 1]
      BY <1>1 DEF BeginSelf
    <2> HIDE DEF r
    <2>7. Appended /\ requests'[sent + 1] = r
      BY <1>0, <2>2, <2>3, <2>4, <2>5, DeviceSorts DEF Appended
    <2>8. dev' \in Device /\ dev'.pc = dev.pc /\ dev'.ask = sent + 1
      BY <2>4, <2>6, DeviceSorts DEF Device
    <2>9. Needed' = 0
      BY <1>1, <2>8 DEF BeginSelf, Needed, Needs
    <2>10. sent + 1 + Needed' <= MaxRequests /\ dev'.ask \in 0 .. sent + 1
      BY <2>4, <2>8, <2>9, DeviceSorts
    <2>11. IsNew
      BY <2>3, <2>7 DEF IsNew
    <2> QED BY <1>1, <2>3, <2>7, <2>8, <2>10, <2>11, AppendKeeps DEF Appended, Kept, Typed, BeginSelf
  <1>2. CASE ReceiveSelf
    <2> DEFINE t == IF dev.token # 0 /\ faults' = faults
                       /\ requests[dev.ask].answer = "ok" /\ requests[dev.ask].record # 0
                    THEN dev.ask ELSE dev.token
    <2>1. dev' = [dev EXCEPT !.ask = 0, !.token = t] /\ UNCHANGED <<requests, sent>>
      BY <1>2, DeviceSorts DEF ReceiveSelf, Device
    <2>2. t \in Ids /\ 0 \in Ids
      BY DeviceSorts, Bounds
    <2> HIDE DEF t
    <2>3. /\ dev' \in Device /\ dev'.pc = dev.pc /\ dev'.wait = dev.wait /\ dev'.ask = 0
          /\ dev'.outcome = dev.outcome /\ dev'.attempt = dev.attempt
      BY <2>1, <2>2, DeviceSorts DEF Device
    <2>4. Needed' = Needed
      BY <2>3 DEF Needed, Needs
    <2> QED BY <1>0, <2>1, <2>3, <2>4, DeviceSorts DEF TypeInv, WaitsForSent, Kept, Typed
  <1>3. ASSUME NEW i \in 1 .. sent, Copy(i)
        PROVE  Kept
    <2>1. sent < MaxRequests /\ sent + 1 \in 1 .. MaxRequests /\ sent + 1 + Needed <= MaxRequests
      BY <1>3, DeviceSorts, Bounds DEF Copy, Room
    <2>2. requests[i] \in Request
      BY <1>0
    <2>3. Appended /\ requests'[sent + 1] = requests[i] /\ dev' = dev
      <3>1. /\ requests' = [requests EXCEPT ![sent + 1] = requests[i]]
            /\ sent' = sent + 1 /\ dev' = dev /\ requests[i].pc = "sent"
        BY <1>3 DEF Copy
      <3>2. requests \in [1 .. MaxRequests -> Request] /\ sent \in Nat
        BY DeviceSorts DEF TypeInv, TypeOK
      <3>3. \A j \in 1 .. sent : j # sent + 1 /\ j \in 1 .. MaxRequests
        BY <2>1, <3>2, Bounds
      <3> QED BY <2>1, <2>2, <3>1, <3>2, <3>3 DEF Appended
    <2>4. Needed' = Needed
      BY <2>3 DEF Needed, Needs
    <2>5. requests[i].kind = "record" => requests[i].ref # 0
      BY DEF TypeInv, WaitsForSent
    <2>6. (dev.pc # "idle" => dev.wait \in 1 .. sent + 1) /\ dev.ask \in 0 .. sent + 1
      BY DeviceSorts DEF TypeInv, WaitsForSent
    <2>7. IsNew
      BY <1>3, <2>3 DEF Copy, IsNew
    <2>8. sent' \in Ids /\ WaitsForSent'
      <3>1. dev' \in Device
        BY <2>3, DeviceSorts
      <3> QED BY <2>1, <2>3, <2>4, <2>5, <2>6, <3>1, AppendKeeps
    <2> QED BY <2>3, <2>7, <2>8, DeviceSorts DEF Appended, Kept, Typed
  <1> QED BY <1>1, <1>2, <1>3

LEMMA DeviceKeeps ==
  ASSUME TypeInv, DeviceStep
  PROVE  Kept
  BY BeginKeeps, SelfKeeps, ReceiveKeeps, FailedKeeps DEF DeviceStep, GiveUp

LEMMA DeviceTables ==
  ASSUME TypeInv, DeviceStep
  PROVE  UNCHANGED <<now, tables, history>> /\ faults' \in 0 .. MaxFaults
  <1>1. faults \in 0 .. MaxFaults
    BY DEF TypeInv, TypeOK
  <1>2. ASSUME NEW f \in Faults, Fault(f)
        PROVE  faults' \in 0 .. MaxFaults
    BY <1>1, <1>2, Bounds DEF Fault
  <1>3. CASE BeginRegister \/ BeginSelf \/ Lock \/ \E right \in BOOLEAN : BeginLogin(right)
    BY <1>1, <1>3 DEF BeginRegister, BeginSelf, Lock, BeginLogin
  <1>4. CASE ReceiveSelf \/ Receive \/ Rotate \/ GiveUp \/ \E i \in 1 .. sent : Copy(i)
    BY <1>1, <1>2, <1>4 DEF ReceiveSelf, Receive, Rotate, GiveUp, Copy, Fault
  <1> QED BY <1>3, <1>4 DEF DeviceStep


-----------------------------------------------------------------------------
(* Type correctness. *)

LEMMA InitType == Init => TypeInv
  <1> SUFFICES ASSUME Init PROVE TypeInv
    OBVIOUS
  <1> USE Bounds DEF Init
  <1>1. Unsent \in Request
    BY DEF Unsent, Request
  <1>2. dev \in Device /\ dev.pc = "idle" /\ dev.ask = 0
    <2>1. PICK enrolled \in Start :
            dev = [pc |-> "idle", ask |-> 0, wait |-> 0, ref |-> 0, attempt |-> 0,
                   right |-> TRUE, enrolled |-> enrolled,
                   record |-> IF enrolled THEN MaxRequests ELSE 0,
                   account |-> IF enrolled THEN MaxRequests ELSE 0,
                   token |-> 0, outcome |-> "none"]
      OBVIOUS
    <2>2. enrolled \in BOOLEAN /\ 0 \in 0 .. Retries
          /\ (IF enrolled THEN MaxRequests ELSE 0) \in Ids /\ 0 \in Ids
      BY OpaqueAssumption DEF OpaqueAssumption
    <2> QED BY <2>1, <2>2 DEF Device
  <1>3. account \in [id : Ids \ {0}, record : Ids \ {0}] \cup {NoAccount}
    BY DEF NoAccount
  <1>4. TypeOK
    BY <1>1, <1>2, <1>3 DEF TypeOK
  <1>6. Needed = 0
    BY <1>2 DEF Needed, Needs
  <1>7. WaitsForSent
    BY <1>2, <1>6 DEF WaitsForSent
  <1> QED BY <1>4, <1>7 DEF TypeInv

(* A step of the server's tables and clock alone. *)
HouseStep == Sweep \/ Tick \/ UNCHANGED vars

LEMMA Steps ==
  ASSUME [Next]_vars
  PROVE  (\E i \in 1 .. sent : ServerStep(i)) \/ DeviceStep \/ HouseStep
  BY DEF Next, ServerStep, DeviceStep, HouseStep

LEMMA HouseTables ==
  ASSUME TypeInv, HouseStep
  PROVE  TablesOK' /\ UNCHANGED <<requests, sent, dev, account, history>>
  <1>1. TablesOK
    BY DEF TypeInv, TypeOK, TablesOK
  <1>2. CASE Sweep
    BY <1>1, <1>2 DEF Sweep, TablesOK
  <1>3. CASE Tick
    <2>1. now + 1 \in 0 .. MaxTime
      BY <1>1, <1>3, Bounds DEF Tick, TablesOK
    <2> QED BY <1>1, <1>3, <2>1 DEF Tick, TablesOK
  <1>4. CASE UNCHANGED vars
    BY <1>1, <1>4 DEF vars, TablesOK
  <1> QED BY <1>2, <1>3, <1>4 DEF HouseStep, Sweep, Tick, vars

LEMMA NextType == TypeInv /\ [Next]_vars => TypeInv'
  <1> SUFFICES ASSUME TypeInv, [Next]_vars PROVE TypeInv'
    OBVIOUS
  <1>1. ASSUME NEW i \in 1 .. sent, ServerStep(i)
        PROVE  TablesOK' /\ Typed
    <2>1. PICK r \in Request : Handled(i, r)
      BY <1>1, Handling
    <2>2. Typed
      BY <2>1, HandledKeeps DEF Typed
    <2> QED BY <1>1, <2>2, ServerTables
  <1>2. ASSUME DeviceStep
        PROVE  TablesOK' /\ Typed
    <2>1. TablesOK
      BY DEF TypeInv, TypeOK, TablesOK
    <2>2. TablesOK'
      BY <1>2, <2>1, DeviceTables DEF TablesOK
    <2> QED BY <1>2, <2>2, DeviceKeeps DEF Kept
  <1>3. ASSUME HouseStep
        PROVE  TablesOK' /\ Typed
    BY <1>3, HouseTables DEF Typed, TypeInv, TypeOK, WaitsForSent, Needed
  <1>4. TablesOK' /\ Typed
    BY <1>1, <1>2, <1>3, Steps
  <1> QED BY <1>4 DEF TypeInv, TypeOK, TablesOK, Typed

(* Every variable has its type, and the device only waits for requests it  *)
(* has sent: the addresses of server-opaque.ts and opaque-client.ts.       *)
THEOREM TypeCorrect == Spec => []TypeOK
  <1>1. Spec => []TypeInv
    BY InitType, NextType, PTL DEF Spec
  <1>2. TypeInv => TypeOK
    BY DEF TypeInv
  <1> QED BY <1>1, <1>2, PTL


-----------------------------------------------------------------------------
(* First registration wins. *)

(* What was asked stays, and so does every answer. *)
Steady ==
  /\ sent' \in Nat /\ sent <= sent'
  /\ \A j \in 1 .. sent :
       /\ requests'[j].kind = requests[j].kind /\ requests'[j].ref = requests[j].ref
       /\ Served(j) => /\ requests'[j].answer = requests[j].answer
                       /\ requests'[j].record = requests[j].record
                       /\ Served(j)'

LEMMA HandledSteady ==
  ASSUME TypeInv, NEW i \in 1 .. sent, NEW r \in Request, Handled(i, r)
  PROVE  Steady
  <1>1. /\ requests \in [1 .. MaxRequests -> Request] /\ i \in 1 .. MaxRequests
        /\ 1 .. sent \subseteq 1 .. MaxRequests /\ sent \in Nat
    BY RequestSorts, DeviceSorts
  <1>2. sent' = sent /\ requests' = [requests EXCEPT ![i] = r]
        /\ r.kind = requests[i].kind /\ r.ref = requests[i].ref
        /\ (Served(i) => r = [requests[i] EXCEPT !.pc = "stalled"])
    BY DEF Handled
  <1>3. Served(i) => /\ r.answer = requests[i].answer /\ r.record = requests[i].record
                     /\ r.pc = "stalled"
    BY <1>1, <1>2 DEF Request
  <1>4. requests'[i] = r /\ \A j \in 1 .. sent : j # i => requests'[j] = requests[j]
    BY <1>1, <1>2
  <1> QED BY <1>1, <1>2, <1>3, <1>4 DEF Steady, Served

LEMMA NextSteady ==
  ASSUME TypeInv, [Next]_vars
  PROVE  Steady
  <1>1. ASSUME NEW i \in 1 .. sent, ServerStep(i)
        PROVE  Steady
    BY <1>1, Handling, HandledSteady
  <1>2. CASE DeviceStep
    <2>1. UNCHANGED <<requests, sent>> \/ Appended
      BY <1>2, DeviceKeeps DEF Kept
    <2> QED BY <2>1, DeviceSorts DEF Steady, Served, Appended
  <1>3. CASE HouseStep
    BY <1>3, HouseTables, DeviceSorts DEF Steady, Served
  <1> QED BY <1>1, <1>2, <1>3, Steps

LEMMA AnswerSets ==
  ASSUME TypeInv, NEW i \in 1 .. sent, NEW a, Answer(i, a)
  PROVE  /\ requests'[i].pc = "answered" /\ requests'[i].answer = a
         /\ requests'[i].record = requests[i].record
  <1>1. /\ requests \in [1 .. MaxRequests -> Request] /\ i \in 1 .. MaxRequests
    BY DeviceSorts, Bounds DEF TypeInv, TypeOK
  <1>2. requests[i] \in Request
    BY <1>1
  <1>3. requests' = [requests EXCEPT ![i] = [@ EXCEPT !.pc = "answered", !.answer = a]]
    BY <1>1 DEF Answer
  <1>4. requests'[i] = [requests[i] EXCEPT !.pc = "answered", !.answer = a]
    BY <1>1, <1>3
  <1> QED BY <1>2, <1>4 DEF Request

LEMMA GotoSets ==
  ASSUME TypeInv, NEW i \in 1 .. sent, NEW pc, Goto(i, pc)
  PROVE  /\ requests'[i].pc = pc /\ requests'[i].answer = requests[i].answer
         /\ requests'[i].record = requests[i].record
  <1>1. /\ requests \in [1 .. MaxRequests -> Request] /\ i \in 1 .. MaxRequests
    BY DeviceSorts, Bounds DEF TypeInv, TypeOK
  <1>2. requests[i] \in Request
    BY <1>1
  <1>4. requests'[i] = [requests[i] EXCEPT !.pc = pc]
    BY <1>1 DEF Goto
  <1> QED BY <1>2, <1>4 DEF Request

(* The row of accounts is written once, by the registration that is        *)
(* answered "ok".                                                          *)
LEMMA AccountWrites ==
  ASSUME TypeInv, NEW i \in 1 .. sent, ServerStep(i)
  PROVE  /\ account' = account \/ account = NoAccount
         /\ requests[i].kind = "record" /\ requests'[i].answer = "ok" /\ ~Served(i)
            => requests[i].answer = "ok" \/ account' = Registration(i)
         /\ \A j \in 1 .. sent : j # i => requests'[j] = requests[j]
  <1>1. requests \in [1 .. MaxRequests -> Request] /\ i \in 1 .. MaxRequests
    BY DeviceSorts, Bounds DEF TypeInv, TypeOK
  <1>4. PICK r \in Request : Handled(i, r)
    BY Handling
  <1>5. \A j \in 1 .. sent : j # i => requests'[j] = requests[j]
    BY <1>1, <1>4 DEF Handled
  <1>2. CASE RegisterInsert(i)
    BY <1>1, <1>2, <1>5, AnswerSets DEF RegisterInsert, InsertAccount
  <1>3. account' = account \/ RegisterInsert(i)
    BY DEF ServerStep, Handle, RegisterRequest, RegisterRead, RegisterDelete,
      GetAccount, PutPendingLogin, LoginRead, LoginDelete, InsertSession,
      Authenticate, RotateRead, RotateBatch, Logout, Refuse, Break, Stall
  <1>6. ASSUME requests[i].kind = "record", ~RegisterInsert(i)
        PROVE  requests'[i].answer # "ok" \/ requests[i].answer = "ok"
    <2>1. CASE RegisterRead(i) \/ RegisterDelete(i)
      BY <2>1, AnswerSets, GotoSets DEF RegisterRead, RegisterDelete
    <2>2. CASE Refuse(i) \/ Stall(i)
      BY <2>2, AnswerSets, GotoSets DEF Refuse, Stall
    <2>3. CASE Break(i)
      BY <1>1, <1>6, <2>3 DEF Break
    <2> QED BY <1>6, <2>1, <2>2, <2>3 DEF ServerStep, Handle, At, RegisterRequest, GetAccount,
               PutPendingLogin, LoginRead, LoginDelete, InsertSession, Authenticate, RotateRead,
               RotateBatch, Logout
  <1> QED BY <1>2, <1>3, <1>5, <1>6

LEMMA StandsNext ==
  ASSUME TypeInv, RegistrationStands, [Next]_vars
  PROVE  /\ account' = account \/ account = NoAccount
         /\ RegistrationStands'
  <1>0. /\ \A j \in 1 .. sent : requests[j].answer # "none" <=> Served(j)
        /\ \A j \in 1 .. sent : requests[j].kind = "record" /\ requests[j].answer = "ok"
             => account = Registration(j)
    BY DEF RegistrationStands
  <1>1. ASSUME NEW i \in 1 .. sent, ServerStep(i)
        PROVE  /\ account' = account \/ account = NoAccount
               /\ RegistrationStands'
    <2>1. PICK r \in Request : Handled(i, r)
      BY <1>1, Handling
    <2>2. Steady /\ sent' = sent
      BY <2>1, HandledSteady DEF Handled
    <2>3. requests'[i] = r
      BY <2>1, DeviceSorts, Bounds DEF Handled, TypeInv, TypeOK
    <2>4. requests'[i].answer # "none" <=> Served(i)'
      BY <1>0, <2>1, <2>2, <2>3 DEF Handled, Served, Steady
    <2>5. \A j \in 1 .. sent : requests'[j].answer # "none" <=> Served(j)'
      BY <1>0, <1>1, <2>4, AccountWrites DEF Served
    <2>6. ASSUME NEW j \in 1 .. sent, requests'[j].kind = "record", requests'[j].answer = "ok"
          PROVE  account' = Registration(j)'
      <3>1. Registration(j)' = Registration(j) /\ requests[j].kind = "record"
        BY <2>2, <2>6 DEF Steady, Registration
      <3>2. CASE requests[j].answer = "ok"
        <4>1. account = Registration(j) /\ account # NoAccount
          BY <1>0, <3>1, <3>2 DEF Registration, NoAccount
        <4> QED BY <1>1, <3>1, <4>1, AccountWrites
      <3>3. CASE requests[j].answer # "ok"
        <4>1. j = i
          BY <1>1, <2>6, <3>3, AccountWrites
        <4>2. ~Served(i)
          BY <2>2, <2>6, <3>3, <4>1 DEF Steady
        <4> QED BY <1>1, <2>6, <3>1, <3>3, <4>1, <4>2, AccountWrites
      <3> QED BY <3>2, <3>3
    <2> QED BY <1>1, <2>2, <2>5, <2>6, AccountWrites DEF RegistrationStands
  <1>2. ASSUME DeviceStep
        PROVE  /\ account' = account
               /\ RegistrationStands'
    <2>1. account' = account
      BY <1>2, DeviceTables
    <2>2. CASE UNCHANGED <<requests, sent>>
      BY <2>1, <2>2 DEF RegistrationStands, Served, Registration
    <2>3. CASE Appended /\ IsNew
      <3>1. requests'[sent + 1].answer = "none"
        BY <1>0, <2>3 DEF IsNew, Served
      <3>4. \A j \in 1 .. MaxRequests : j = sent + 1 => ~Served(j)'
        BY <2>3 DEF Appended, Served
      <3>2. \A j \in 1 .. sent' : j \in 1 .. sent \/ j = sent + 1
        BY <2>3, DeviceSorts DEF Appended
      <3>3. \A j \in 1 .. sent : requests'[j] = requests[j]
        BY <2>3 DEF Appended
      <3>5. ASSUME NEW j \in 1 .. sent
            PROVE  /\ requests'[j].answer # "none" <=> Served(j)'
                   /\ requests'[j].kind = "record" /\ requests'[j].answer = "ok"
                        => account' = Registration(j)'
        BY <1>0, <2>1, <3>3 DEF RegistrationStands, Served, Registration
      <3>6. ASSUME NEW j \in 1 .. sent', j = sent + 1
            PROVE  /\ requests'[j].answer # "none" <=> Served(j)'
                   /\ requests'[j].kind = "record" /\ requests'[j].answer = "ok"
                        => account' = Registration(j)'
        <4>1. requests'[j].answer = "none" /\ j \in 1 .. MaxRequests
          BY <2>3, <3>1, <3>6, DeviceSorts, Bounds DEF Appended
        <4> QED BY <3>4, <3>6, <4>1
      <3>7. \A j \in 1 .. sent' :
              /\ requests'[j].answer # "none" <=> Served(j)'
              /\ requests'[j].kind = "record" /\ requests'[j].answer = "ok"
                   => account' = Registration(j)'
        <4> TAKE j \in 1 .. sent'
        <4>1. j \in 1 .. sent \/ j = sent + 1
          BY <3>2
        <4> QED BY <3>5, <3>6, <4>1
      <3> QED BY <2>1, <3>7 DEF RegistrationStands
    <2> QED BY <1>2, <2>1, <2>2, <2>3, DeviceKeeps DEF Kept
  <1>3. ASSUME HouseStep
        PROVE  /\ account' = account
               /\ RegistrationStands'
    BY <1>3, HouseTables DEF RegistrationStands, Served, Registration
  <1> QED BY <1>1, <1>2, <1>3, Steps


(* What a step of the device does to its enrolment. *)
Provisions ==
  /\ dev'.enrolled =>
       \/ dev.enrolled /\ dev'.record = dev.record /\ dev'.account = dev.account
       \/ dev.pc = "rotating" /\ dev'.record = dev.ref /\ dev'.account = dev.wait
  /\ dev'.pc \in {"recording", "rotating"} =>
       \/ /\ dev.pc \in {"recording", "rotating"}
          /\ dev'.wait = dev.wait /\ dev'.ref = dev.ref
          /\ dev'.pc = "rotating" => dev.pc = "rotating" \/ requests[dev.wait].answer = "ok"
       \/ /\ dev'.pc = "recording" /\ dev'.wait = sent + 1
          /\ requests'[sent + 1].kind = "record" /\ requests'[sent + 1].ref = dev'.ref

LEMMA IdleProvisions ==
  ASSUME TypeInv, NEW o, NEW t, dev' = Idle(o) \/ dev' = [Idle(o) EXCEPT !.token = t]
  PROVE  Provisions
  <1>1. /\ dev'.pc = "idle" /\ dev'.enrolled = dev.enrolled /\ dev'.record = dev.record
        /\ dev'.account = dev.account
    BY DeviceSorts DEF Idle, Device
  <1> QED BY <1>1 DEF Provisions

LEMMA LoginFailsProvisions ==
  ASSUME TypeInv, NEW a, LoginFails(a)
  PROVE  Provisions
  <1>1. CASE Send("ke1", 0, "ke1", [dev EXCEPT !.attempt = @ + 1])
    <2>1. dev' = [[dev EXCEPT !.attempt = @ + 1] EXCEPT !.pc = "ke1", !.wait = sent + 1]
      BY <1>1 DEF Send
    <2>2. /\ dev'.pc = "ke1" /\ dev'.enrolled = dev.enrolled /\ dev'.record = dev.record
          /\ dev'.account = dev.account
      BY <2>1, DeviceSorts DEF Device
    <2> QED BY <2>2 DEF Provisions
  <1> QED BY <1>1, IdleProvisions DEF LoginFails

LEMMA DeviceProvisions ==
  ASSUME TypeInv, DeviceStep
  PROVE  Provisions
  <1>1. ASSUME NEW a, Failed(a)
        PROVE  Provisions
    BY <1>1, IdleProvisions, LoginFailsProvisions DEF Failed
  <1>2. CASE BeginRegister
    <2>1. dev' = [dev EXCEPT !.pc = "registering", !.wait = sent + 1]
      BY <1>2 DEF BeginRegister, Send
    <2> QED BY <2>1, DeviceSorts DEF Provisions, Device
  <1>3. CASE BeginSelf
    BY <1>3, DeviceSorts DEF BeginSelf, Provisions, Device
  <1>4. CASE ReceiveSelf
    BY <1>4, DeviceSorts DEF ReceiveSelf, Provisions, Device
  <1>5. CASE Lock
    <2>1. dev' = [[dev EXCEPT !.token = 0, !.outcome = "none"] EXCEPT !.pc = "idle",
                                                                      !.wait = sent + 1]
      BY <1>5 DEF Lock, Send
    <2> QED BY <2>1, DeviceSorts DEF Provisions, Device
  <1>6. CASE Rotate
    <2>1. CASE Send("ke1", 0, "ke1",
                [dev EXCEPT !.enrolled = TRUE, !.record = dev.ref,
                            !.account = dev.wait, !.outcome = "registered"])
      <3>1. dev' = [[dev EXCEPT !.enrolled = TRUE, !.record = dev.ref,
                                !.account = dev.wait, !.outcome = "registered"]
                      EXCEPT !.pc = "ke1", !.wait = sent + 1]
        BY <2>1 DEF Send
      <3>2. dev'.pc = "ke1" /\ dev'.record = dev.ref /\ dev'.account = dev.wait
        BY <3>1, DeviceSorts DEF Device
      <3> QED BY <1>6, <3>2 DEF Rotate, Provisions
    <2> QED BY <1>6, <2>1, IdleProvisions DEF Rotate
  <1>7. ASSUME NEW right \in BOOLEAN, BeginLogin(right)
        PROVE  Provisions
    <2>1. dev' = [[dev EXCEPT !.right = right, !.attempt = 0, !.outcome = "none"]
                    EXCEPT !.pc = "ke1", !.wait = sent + 1]
      BY <1>7 DEF BeginLogin, Send
    <2>2. /\ dev'.pc = "ke1" /\ dev'.enrolled = dev.enrolled /\ dev'.record = dev.record
          /\ dev'.account = dev.account
      BY <2>1, DeviceSorts DEF Device
    <2> QED BY <2>2 DEF Provisions
  <1>8. CASE GiveUp
    BY <1>1, <1>8 DEF GiveUp
  <1>9. CASE Receive
    <2> DEFINE i == dev.wait
    <2>1. CASE dev.pc = "registering" /\ Send("record", i, "recording", [dev EXCEPT !.ref = i])
      <3> DEFINE d == [dev EXCEPT !.ref = i]
      <3>1. d \in Device /\ d.ask = dev.ask
        BY DeviceSorts DEF Device
      <3>2. Needed = 3
        BY <2>1 DEF Needs, Needed
      <3>3. sent < MaxRequests /\ Send("record", i, "recording", d) /\ i \in Ids
        BY <2>1, <3>2, DeviceSorts, Bounds DEF TypeInv, WaitsForSent
      <3>4. dev' = [d EXCEPT !.pc = "recording", !.wait = sent + 1]
        BY <3>3 DEF Send
      <3>5. /\ dev'.pc = "recording" /\ dev'.wait = sent + 1 /\ dev'.ref = i
            /\ dev'.enrolled = dev.enrolled /\ dev'.record = dev.record
            /\ dev'.account = dev.account
        BY <3>4, DeviceSorts DEF Device
      <3> HIDE DEF d
      <3>6. requests'[sent + 1].kind = "record" /\ requests'[sent + 1].ref = i
        BY <3>1, <3>3, Sending DEF Kinds
      <3> QED BY <3>5, <3>6 DEF Provisions
    <2>2. CASE /\ dev.pc = "recording" /\ dev' = [dev EXCEPT !.pc = "rotating"]
               /\ requests[i].answer = "ok"
      BY <2>2, DeviceSorts DEF Device, Provisions
    <2>3. CASE Send("ke3", i, "ke3", dev)
      <3>1. dev' = [dev EXCEPT !.pc = "ke3", !.wait = sent + 1]
        BY <2>3 DEF Send
      <3> QED BY <3>1, DeviceSorts DEF Device, Provisions
    <2> QED BY <1>1, <1>9, <2>1, <2>2, <2>3, IdleProvisions, LoginFailsProvisions DEF Receive
  <1>10. CASE \E i \in 1 .. sent : Copy(i)
    BY <1>10 DEF Copy, Provisions
  <1> QED BY <1>2, <1>3, <1>4, <1>5, <1>6, <1>7, <1>8, <1>9, <1>10 DEF DeviceStep

LEMMA StillAccount ==
  ASSUME TypeInv, [Next]_vars, MaxRequests = 0
  PROVE  account' = account
  <1>1. sent = 0
    BY DeviceSorts
  <1>2. CASE DeviceStep
    BY <1>2, DeviceTables
  <1>3. CASE HouseStep
    BY <1>3, HouseTables
  <1> QED BY <1>1, <1>2, <1>3, Steps

LEMMA InitEnrol == Init => EnrolInv
  <1> SUFFICES ASSUME Init PROVE EnrolInv
    OBVIOUS
  <1>1. TypeInv
    BY InitType
  <1>2. RegistrationStands
    BY DEF Init, RegistrationStands
  <1>3. PICK enrolled \in Start :
          LET r == IF enrolled THEN MaxRequests ELSE 0 IN
          /\ account = [id |-> r, record |-> r]
          /\ dev = [pc |-> "idle", ask |-> 0, wait |-> 0, ref |-> 0, attempt |-> 0,
                    right |-> TRUE, enrolled |-> enrolled, record |-> r,
                    account |-> r, token |-> 0, outcome |-> "none"]
    BY DEF Init
  <1>4. DeviceMatches
    BY <1>3, Bounds DEF DeviceMatches, EnrolledMatchesServer, NoAccount
  <1> QED BY <1>1, <1>2, <1>4 DEF EnrolInv

LEMMA NextEnrol == EnrolInv /\ [Next]_vars => EnrolInv'
  <1> SUFFICES ASSUME EnrolInv, [Next]_vars PROVE EnrolInv'
    OBVIOUS
  <1>1. TypeInv /\ RegistrationStands /\ DeviceMatches
    BY DEF EnrolInv
  <1>2. TypeInv' /\ RegistrationStands' /\ Steady /\ (account' = account \/ account = NoAccount)
    BY <1>1, NextType, StandsNext, NextSteady
  <1>3. dev' = dev \/ (Provisions /\ account' = account)
    <2>1. ASSUME NEW i \in 1 .. sent, ServerStep(i)
          PROVE  dev' = dev
      BY <1>1, <2>1, Handling DEF Handled
    <2>2. CASE DeviceStep
      BY <1>1, <2>2, DeviceProvisions, DeviceTables
    <2>3. CASE HouseStep
      BY <1>1, <2>3, HouseTables
    <2> QED BY <2>1, <2>2, <2>3, Steps
  <1>4. dev.pc # "idle" => dev.wait \in 1 .. sent
    BY <1>1 DEF TypeInv, WaitsForSent
  <1>5. dev'.pc \in {"recording", "rotating"} =>
          requests'[dev'.wait].kind = "record" /\ requests'[dev'.wait].ref = dev'.ref
    BY <1>1, <1>2, <1>3, <1>4 DEF DeviceMatches, Steady, Provisions
  <1>6. dev'.pc = "rotating" => requests'[dev'.wait].answer = "ok"
    <2>1. dev.pc \in {"recording", "rotating"} /\ requests[dev.wait].answer = "ok" =>
            requests'[dev.wait].answer = "ok"
      BY <1>1, <1>2, <1>4 DEF RegistrationStands, Steady
    <2> QED BY <1>1, <1>2, <1>3, <2>1 DEF DeviceMatches, Provisions
  <1>7. /\ dev'.enrolled => account' = [id |-> dev'.account, record |-> dev'.record]
        /\ dev'.enrolled /\ MaxRequests # 0 => account' # NoAccount
    <2>1. CASE dev'.enrolled /\ dev.enrolled /\ dev'.record = dev.record
               /\ dev'.account = dev.account
      <3>1. MaxRequests = 0 => sent = 0 /\ sent' = 0
        BY <1>1, <1>2, DeviceSorts DEF TypeInv, TypeOK
      <3>2. account = [id |-> dev.account, record |-> dev.record]
        BY <1>1, <2>1 DEF DeviceMatches, EnrolledMatchesServer
      <3>3. account' = account
        BY <1>1, <1>2, <2>1, <3>1, StillAccount DEF DeviceMatches
      <3> QED BY <1>1, <2>1, <3>2, <3>3 DEF DeviceMatches
    <2>2. CASE /\ dev.pc = "rotating" /\ dev'.record = dev.ref /\ dev'.account = dev.wait
               /\ account' = account
      <3>1. account = Registration(dev.wait) /\ dev.wait # 0
        BY <1>1, <1>4, <2>2 DEF DeviceMatches, RegistrationStands
      <3> QED BY <1>1, <2>2, <3>1 DEF Registration, DeviceMatches, NoAccount
    <2> QED BY <1>2, <1>3, <2>1, <2>2 DEF Provisions
  <1>8. DeviceMatches'
    BY <1>5, <1>6, <1>7 DEF DeviceMatches, EnrolledMatchesServer
  <1> QED BY <1>2, <1>8 DEF EnrolInv


(* First registration wins (server-opaque.ts insertAccount): an enrolled   *)
(* device has the account id and the record that the server has.           *)
THEOREM EnrolledMatches == Spec => []EnrolledMatchesServer
  <1>1. Spec => []EnrolInv
    BY InitEnrol, NextEnrol, PTL DEF Spec
  <1>2. EnrolInv => EnrolledMatchesServer
    BY DEF EnrolInv, DeviceMatches
  <1> QED BY <1>1, <1>2, PTL


-----------------------------------------------------------------------------
(* What handlers and rows know. *)

LEMMA InitToken == Init => TokenInv
  <1> SUFFICES ASSUME Init PROVE TokenInv
    OBVIOUS
  <1>1. sent = 0 /\ pendLog = {} /\ sessions = {} /\ ended = {}
    BY DEF Init
  <1>2. HandlersKnow
    BY <1>1 DEF HandlersKnow
  <1>3. RowsKnown
    BY <1>1 DEF RowsKnown
  <1> QED BY <1>2, <1>3, InitEnrol DEF TokenInv

(* What was answered stays answered. *)
LEMMA IssuedStays ==
  ASSUME EnrolInv, [Next]_vars
  PROVE  /\ \A l \in Nat : Begun(l) => Begun(l)'
         /\ \A t \in Issued : t \in Issued' /\ LoginOf(t)' = LoginOf(t)
  <1>1. Steady /\ RegistrationStands /\ sent \in Nat
    BY NextSteady, DeviceSorts DEF EnrolInv
  <1>2. ASSUME NEW l \in Nat, Begun(l)
        PROVE  Begun(l)'
    BY <1>1, <1>2 DEF Begun, Steady
  <1>3. ASSUME NEW t \in Issued
        PROVE  t \in Issued' /\ LoginOf(t)' = LoginOf(t)
    <2>1. t \in 1 .. sent /\ requests[t].kind \in {"ke3", "self"}
          /\ requests[t].answer = "ok" /\ requests[t].record # 0
      BY DEF Issued
    <2>2. Served(t)
      BY <1>1, <2>1 DEF RegistrationStands
    <2>3. /\ requests'[t].kind = requests[t].kind /\ requests'[t].ref = requests[t].ref
          /\ requests'[t].answer = requests[t].answer
          /\ requests'[t].record = requests[t].record /\ t \in 1 .. sent'
      BY <1>1, <2>1, <2>2 DEF Steady
    <2> QED BY <2>1, <2>3 DEF Issued, LoginOf
  <1> QED BY <1>2, <1>3

(* How the handlers of KE3 and of introspection come to their states. *)
LEMMA HandlerMoves ==
  ASSUME TokenInv, NEW i \in 1 .. sent, ServerStep(i)
  PROVE  LET r == requests'[i] IN
         /\ r.kind = "self" /\ r.pc \in {"sent", "authentic"} => r.record = 0
         /\ r.kind = "ke3" /\ r.pc \in {"found", "verified"} => Begun(r.ref)
         /\ r.kind = "ke3" /\ r.pc = "verified" => r.record # 0
         /\ r.kind = "self" /\ r.pc = "rotating" =>
              /\ r.ref \in Issued /\ r.record = LoginOf(r.ref)
              /\ Begun(r.record) /\ account # NoAccount
  <1>1. TypeInv /\ HandlersKnow /\ RowsKnown
    BY DEF TokenInv, EnrolInv
  <1>2. /\ requests \in [1 .. MaxRequests -> Request] /\ i \in 1 .. MaxRequests
    BY <1>1, DeviceSorts, Bounds DEF TypeInv, TypeOK
  <1>3. requests[i] \in Request
    BY <1>2
  <1>4. requests'[i].kind = requests[i].kind /\ requests'[i].ref = requests[i].ref
    <2>1. PICK r \in Request : Handled(i, r)
      BY <1>1, Handling
    <2> QED BY <1>2, <2>1 DEF Handled
  <1>5. CASE requests'[i].pc \in {"answered", "stalled"}
    BY <1>5
  <1>6. CASE requests[i].kind \notin {"self", "ke3"}
    BY <1>4, <1>6
  <1>7. CASE LoginRead(i)
    <2>1. requests[i].kind = "ke3"
      BY <1>7 DEF LoginRead, At
    <2>2. ASSUME NEW p \in pendLog, p.id = requests[i].ref,
                 requests' = [requests EXCEPT ![i].pc = "found", ![i].record = p.record]
          PROVE  Begun(requests[i].ref) /\ requests'[i].pc = "found"
      <3>1. requests' = [requests EXCEPT ![i] = [@ EXCEPT !.pc = "found", !.record = p.record]]
        BY <1>2, <2>2
      <3> QED BY <1>1, <1>2, <1>3, <2>2, <3>1 DEF RowsKnown, Request
    <2>3. CASE Answer(i, "400")
      BY <1>1, <1>5, <2>3, AnswerSets
    <2> QED BY <1>4, <1>7, <2>1, <2>2, <2>3 DEF LoginRead
  <1>8. CASE LoginDelete(i)
    <2>1. requests[i].kind = "ke3" /\ Begun(requests[i].ref)
      BY <1>1, <1>8 DEF LoginDelete, At, HandlersKnow
    <2>2. CASE requests[i].record # 0 /\ Goto(i, "verified")
      BY <1>1, <1>4, <2>1, <2>2, GotoSets
    <2> QED BY <1>1, <1>5, <1>8, <2>2, AnswerSets DEF LoginDelete, MacVerifies, FakeRecord
  <1>9. CASE Authenticate(i)
    <2>1. requests[i].kind = "self" /\ requests[i].record = 0
      BY <1>1, <1>9 DEF Authenticate, At, HandlersKnow
    <2>2. CASE Goto(i, "authentic")
      BY <1>1, <1>4, <2>1, <2>2, GotoSets
    <2> QED BY <1>1, <1>5, <1>9, <2>2, AnswerSets DEF Authenticate
  <1>10. CASE RotateRead(i)
    <2>1. requests[i].kind = "self"
      BY <1>10 DEF RotateRead, At
    <2>2. ASSUME NEW s \in sessions, s.token = requests[i].ref,
                 requests' = [requests EXCEPT ![i].pc = "rotating", ![i].record = s.login]
          PROVE  /\ requests'[i].pc = "rotating" /\ requests'[i].record = s.login
                 /\ s.token \in Issued /\ s.login = LoginOf(s.token) /\ Begun(s.login)
                 /\ account # NoAccount
      <3>1. requests' = [requests EXCEPT ![i] = [@ EXCEPT !.pc = "rotating", !.record = s.login]]
        BY <1>2, <2>2
      <3> QED BY <1>1, <1>2, <1>3, <2>2, <3>1 DEF RowsKnown, Request
    <2>3. CASE Answer(i, "ok")
      BY <1>1, <1>5, <2>3, AnswerSets
    <2> QED BY <1>4, <1>10, <2>1, <2>2, <2>3 DEF RotateRead, Session
  <1>11. CASE InsertSession(i) \/ RotateBatch(i) \/ Refuse(i)
    BY <1>1, <1>5, <1>11, AnswerSets DEF InsertSession, RotateBatch, Refuse
  <1>12. CASE Stall(i)
    BY <1>1, <1>5, <1>12, GotoSets DEF Stall
  <1>13. CASE Break(i)
    BY <1>2, <1>5, <1>13 DEF Break
  <1> QED BY <1>6, <1>7, <1>8, <1>9, <1>10, <1>11, <1>12, <1>13
          DEF ServerStep, Handle, At, RegisterRequest, RegisterRead, RegisterDelete,
              RegisterInsert, GetAccount, PutPendingLogin, Logout


(* What a server step adds to the tables. *)
LEMMA RowMoves ==
  ASSUME TokenInv, NEW i \in 1 .. sent, ServerStep(i), [Next]_vars
  PROVE  /\ \A p \in pendLog' : p \in pendLog \/ (p.id = i /\ Begun(i)')
         /\ \A s \in sessions' :
              \/ s \in sessions
              \/ /\ InsertSession(i) \/ RotateBatch(i)
                 /\ s.token = i /\ i \in Issued' /\ s.login = LoginOf(i)'
                 /\ Begun(s.login) /\ account # NoAccount
         /\ \A l \in ended' : l \in ended \/ \E s \in sessions : l = s.login
  <1>1. /\ TypeInv /\ HandlersKnow /\ RowsKnown /\ Steady
        /\ requests'[i].kind = requests[i].kind /\ requests'[i].ref = requests[i].ref
        /\ i \in 1 .. sent'
    BY NextSteady, DeviceSorts DEF TokenInv, EnrolInv, Steady
  <1>2. CASE PutPendingLogin(i)
    BY <1>1, <1>2, AnswerSets DEF PutPendingLogin, At, Begun, Served
  <1>3. CASE LoginDelete(i)
    BY <1>3 DEF LoginDelete, DropPendingLogin
  <1>4. CASE InsertSession(i)
    <2>1. /\ requests[i].kind = "ke3" /\ requests[i].pc = "verified"
          /\ requests[i].record # 0 /\ Begun(requests[i].ref)
      BY <1>1, <1>4 DEF InsertSession, At, HandlersKnow
    <2>2. Answer(i, "ok") /\ account # NoAccount
          /\ UNCHANGED <<pendLog, ended>>
          /\ sessions' = sessions \cup
                {[token |-> i, expires |-> now + SessionTtl, login |-> requests[i].ref]}
      BY <1>4 DEF InsertSession
    <2>3. i \in Issued'
      BY <1>1, <2>1, <2>2, AnswerSets DEF Issued
    <2>4. LoginOf(i)' = requests[i].ref
      BY <1>1, <2>1 DEF LoginOf
    <2> QED BY <1>4, <2>1, <2>2, <2>3, <2>4
  <1>5. CASE RotateBatch(i)
    <2>1. /\ requests[i].kind = "self" /\ requests[i].pc = "rotating"
          /\ Begun(requests[i].record) /\ account # NoAccount
      BY <1>1, <1>5 DEF RotateBatch, At, HandlersKnow
    <2>2. /\ Answer(i, "ok")
          /\ UNCHANGED <<pendLog, ended>>
          /\ sessions' = (sessions \ {s \in sessions : s.token = requests[i].ref}) \cup
                {[token |-> i, expires |-> now + SessionTtl, login |-> requests[i].record]}
      BY <1>5 DEF RotateBatch
    <2>3. requests[i].record # 0
      BY <2>1 DEF Begun
    <2>4. i \in Issued'
      BY <1>1, <2>1, <2>2, <2>3, AnswerSets DEF Issued
    <2>5. LoginOf(i)' = requests[i].record
      BY <1>1, <2>1, <2>2, AnswerSets DEF LoginOf
    <2> QED BY <1>5, <2>1, <2>2, <2>4, <2>5
  <1>6. CASE Logout(i)
    BY <1>6 DEF Logout
  <1>7. UNCHANGED <<pendLog, sessions, ended>> \/ PutPendingLogin(i) \/ LoginDelete(i)
          \/ InsertSession(i) \/ RotateBatch(i) \/ Logout(i)
    BY DEF ServerStep, Handle, RegisterRequest, RegisterRead, RegisterDelete, RegisterInsert,
           GetAccount, LoginRead, Authenticate, RotateRead, Refuse, Break, Stall
  <1> QED BY <1>2, <1>3, <1>4, <1>5, <1>6, <1>7

LEMMA NextToken == TokenInv /\ [Next]_vars => TokenInv'
  <1> SUFFICES ASSUME TokenInv, [Next]_vars PROVE TokenInv'
    OBVIOUS
  <1>1. /\ EnrolInv /\ TypeInv /\ HandlersKnow /\ RowsKnown /\ Steady /\ EnrolInv'
        /\ RegistrationStands /\ sent \in Nat
    BY NextEnrol, NextSteady, DeviceSorts DEF TokenInv, EnrolInv
  <1>2. /\ \A l \in Nat : Begun(l) => Begun(l)'
        /\ \A t \in Issued : t \in Issued' /\ LoginOf(t)' = LoginOf(t)
    BY <1>1, IssuedStays
  <1>3. account # NoAccount => account' # NoAccount
    BY <1>1, StandsNext
  <1>4. \A l : Begun(l) => l \in Nat
    BY <1>1 DEF Begun
  <1> DEFINE Knows(j) ==
        LET r == requests'[j] IN
         /\ r.kind = "self" /\ r.pc \in {"sent", "authentic"} => r.record = 0
         /\ r.kind = "ke3" /\ r.pc \in {"found", "verified"} => Begun(r.ref)
         /\ r.kind = "ke3" /\ r.pc = "verified" => r.record # 0
         /\ r.kind = "self" /\ r.pc = "rotating" =>
              /\ r.ref \in Issued /\ r.record = LoginOf(r.ref)
              /\ Begun(r.record) /\ account # NoAccount
  <1>5. \A j \in 1 .. sent : requests'[j] = requests[j] => Knows(j)
    BY <1>1 DEF HandlersKnow
  <1>6. \A j \in 1 .. sent' : Knows(j)
    <2>1. ASSUME NEW i \in 1 .. sent, ServerStep(i)
          PROVE  \A j \in 1 .. sent' : Knows(j)
      <3>1. \A j \in 1 .. sent : j # i => requests'[j] = requests[j]
        BY <1>1, <2>1, AccountWrites
      <3>2. sent' = sent
        BY <1>1, <2>1, Handling DEF Handled
      <3>3. Knows(i)
        BY <2>1, HandlerMoves
      <3> HIDE DEF Knows
      <3> QED BY <1>5, <3>1, <3>2, <3>3
    <2>2. CASE UNCHANGED <<requests, sent>>
      <3> HIDE DEF Knows
      <3> QED BY <1>5, <2>2
    <2>3. CASE Appended /\ IsNew
      <3>1. requests'[sent + 1].pc = "sent" /\ \A j \in 1 .. sent : requests'[j] = requests[j]
        BY <2>3 DEF Appended
      <3>2. requests'[sent + 1].kind = "self" => requests'[sent + 1].record = 0
        BY <1>1, <2>3 DEF IsNew, HandlersKnow
      <3>3. Knows(sent + 1)
        BY <3>1, <3>2
      <3>4. \A j \in 1 .. sent' : j \in 1 .. sent \/ j = sent + 1
        BY <1>1, <2>3 DEF Appended
      <3> HIDE DEF Knows
      <3> QED BY <1>5, <3>1, <3>3, <3>4
    <2> QED BY <1>1, <2>1, <2>2, <2>3, Steps, DeviceKeeps, HouseTables DEF Kept
  <1>7. HandlersKnow'
    <2>1. ASSUME NEW t, t \in Issued PROVE t \in Issued' /\ LoginOf(t)' = LoginOf(t)
      BY <1>2, <2>1
    <2>2. ASSUME NEW l, Begun(l) PROVE Begun(l)'
      BY <1>2, <1>4, <2>2
    <2> SUFFICES ASSUME NEW j \in 1 .. sent', NEW r, r = requests'[j]
                 PROVE  /\ r.kind = "self" /\ r.pc \in {"sent", "authentic"} => r.record = 0
                        /\ r.kind = "ke3" /\ r.pc \in {"found", "verified"} => Begun(r.ref)'
                        /\ r.kind = "ke3" /\ r.pc = "verified" => r.record # 0
                        /\ r.kind = "self" /\ r.pc = "rotating" =>
                             /\ r.ref \in Issued' /\ r.record = LoginOf(r.ref)'
                             /\ Begun(r.record)' /\ account' # NoAccount
      BY DEF HandlersKnow, LoginOf, Begun, Served, Issued
    <2>3. Knows(j)
      BY <1>6
    <2> QED BY <1>3, <2>1, <2>2, <2>3
  <1>8. RowsKnown'
    <2>1. ASSUME NEW t, t \in Issued PROVE t \in Issued' /\ LoginOf(t)' = LoginOf(t)
      BY <1>2, <2>1
    <2>2. ASSUME NEW l, Begun(l) PROVE Begun(l)'
      BY <1>2, <1>4, <2>2
    <2>3. ASSUME NEW s, s.token \in Issued /\ s.login = LoginOf(s.token) /\ Begun(s.login)
          PROVE  s.token \in Issued' /\ s.login = LoginOf(s.token)' /\ Begun(s.login)'
      BY <2>1, <2>2, <2>3
    <2>4. ASSUME NEW i \in 1 .. sent, ServerStep(i)
          PROVE  RowsKnown'
      <3>1. \A p \in pendLog' : Begun(p.id)'
        <4>1. ASSUME NEW p \in pendLog'
              PROVE  Begun(p.id)'
          BY <1>1, <2>2, <2>4, <4>1, RowMoves DEF RowsKnown
        <4> QED BY <4>1
      <3>2. ASSUME NEW s \in sessions'
            PROVE  /\ s.token \in Issued' /\ s.login = LoginOf(s.token)' /\ Begun(s.login)'
                   /\ account # NoAccount
        <4>1. CASE s \in sessions
          BY <1>1, <2>3, <4>1 DEF RowsKnown
        <4>2. CASE /\ s.token = i /\ i \in Issued' /\ s.login = LoginOf(i)'
                   /\ Begun(s.login) /\ account # NoAccount
          BY <2>2, <4>2
        <4> QED BY <2>4, <3>2, <4>1, <4>2, RowMoves
      <3>3. \A l \in ended' : Begun(l)'
        <4>1. ASSUME NEW l \in ended'
              PROVE  Begun(l)'
          BY <1>1, <2>2, <2>4, <4>1, RowMoves DEF RowsKnown
        <4> QED BY <4>1
      <3> QED BY <1>3, <3>1, <3>2, <3>3 DEF RowsKnown
    <2>5. ASSUME pendLog' \subseteq pendLog, sessions' \subseteq sessions, ended' = ended
          PROVE  RowsKnown'
      BY <1>1, <1>3, <2>2, <2>3, <2>5 DEF RowsKnown
    <2>6. CASE DeviceStep
      BY <1>1, <2>5, <2>6, DeviceTables
    <2>7. CASE HouseStep
      BY <1>1, <2>5, <2>7, HouseTables DEF HouseStep, Sweep, Tick, vars
    <2> QED BY <2>4, <2>6, <2>7, Steps
  <1> QED BY <1>1, <1>7, <1>8 DEF TokenInv


-----------------------------------------------------------------------------
(* A login is in one place. *)

LEMMA Shrinking ==
  ASSUME NEW l, InOnePlace(l), l \in ended' => l \in ended,
         \A p \in pendLog' : p.id = l => Pending(l),
         \A s \in sessions' : s.login = l => s \in sessions,
         \A j \in 1 .. sent' : Verified(j, l)' => j \in 1 .. sent /\ Verified(j, l)
  PROVE  InOnePlace(l)'
  <1>1. Pending(l)' => Pending(l)
    BY DEF Pending
  <1>2. InSession(l)' => InSession(l)
    BY DEF InSession
  <1> QED BY <1>1, <1>2 DEF InOnePlace

(* Only LoginDelete makes a KE3 verified; its session ends that.           *)
LEMMA VerifiedMoves ==
  ASSUME TypeInv, NEW i \in 1 .. sent, ServerStep(i), NEW l,
         NEW j \in 1 .. sent', Verified(j, l)'
  PROVE  /\ j \in 1 .. sent
         /\ \/ Verified(j, l)
            \/ j = i /\ LoginDelete(i) /\ requests[i].ref = l
         /\ InsertSession(i) => j # i
  <1>1. /\ requests \in [1 .. MaxRequests -> Request] /\ i \in 1 .. MaxRequests
        /\ \A k \in 1 .. sent : k # i => requests'[k] = requests[k]
        /\ sent' = sent
    <2>1. PICK r \in Request : Handled(i, r)
      BY Handling
    <2> QED BY <2>1, AccountWrites, DeviceSorts, Bounds DEF TypeInv, TypeOK, Handled
  <1>2. j \in 1 .. sent /\ (j # i => Verified(j, l))
    BY <1>1 DEF Verified, At
  <1>3. ASSUME j = i
        PROVE  LoginDelete(i) /\ requests[i].ref = l
    <2>1. requests'[i].pc = "verified" /\ requests[i].kind = "ke3" /\ requests[i].ref = l
      <3>1. PICK r \in Request : Handled(i, r)
        BY Handling
      <3>2. requests'[i] = r
        BY <1>1, <3>1 DEF Handled
      <3> QED BY <1>3, <3>1, <3>2 DEF Verified, At, Handled
    <2>2. CASE LoginRead(i)
      <3>1. requests[i] \in Request
        BY <1>1
      <3>2. ASSUME NEW p, requests' = [requests EXCEPT ![i].pc = "found", ![i].record = p.record]
            PROVE  FALSE
        <4>1. requests' = [requests EXCEPT ![i] = [@ EXCEPT !.pc = "found", !.record = p.record]]
          BY <1>1, <3>2
        <4> QED BY <1>1, <2>1, <3>1, <4>1 DEF Request
      <3> QED BY <2>1, <2>2, <3>2, AnswerSets DEF LoginRead
    <2>3. CASE InsertSession(i) \/ Refuse(i)
      BY <2>1, <2>3, AnswerSets DEF InsertSession, Refuse
    <2>4. CASE Stall(i)
      BY <2>1, <2>4, GotoSets DEF Stall
    <2>5. CASE Break(i)
      BY <1>1, <2>1, <2>5 DEF Break
    <2> QED BY <2>1, <2>2, <2>3, <2>4, <2>5
            DEF ServerStep, Handle, At, RegisterRequest, RegisterRead, RegisterDelete,
                RegisterInsert, GetAccount, PutPendingLogin, Authenticate, RotateRead,
                RotateBatch, Logout
  <1>4. ASSUME InsertSession(i), j = i
        PROVE  FALSE
    BY <1>3, <1>4 DEF InsertSession, LoginDelete, At
  <1> QED BY <1>2, <1>3, <1>4


LEMMA PlaceServer ==
  ASSUME TokenInv, [Next]_vars, NEW i \in 1 .. sent, ServerStep(i),
         NEW l, InOnePlace(l), l \notin raced'
  PROVE  InOnePlace(l)'
  <1>1. TypeInv /\ HandlersKnow /\ RowsKnown
    BY DEF TokenInv, EnrolInv
  <1>2. ASSUME NEW j \in 1 .. sent', Verified(j, l)', ~LoginDelete(i)
        PROVE  j \in 1 .. sent /\ Verified(j, l)
    BY <1>1, <1>2, VerifiedMoves
  <1>3. CASE PutPendingLogin(i)
    <2>1. /\ UNCHANGED <<sessions, ended>> /\ ~LoginDelete(i)
          /\ pendLog' = pendLog \cup {[id |-> i, born |-> now, record |-> requests[i].record]}
      BY <1>3 DEF PutPendingLogin, LoginDelete, At
    <2>2. CASE l = i
      <3>1. ~Begun(l)
        BY <1>3, <2>2 DEF PutPendingLogin, At, Begun, Served
      <3>2. ~InSession(l) /\ l \notin ended
        BY <1>1, <3>1 DEF RowsKnown, InSession
      <3>3. \A j \in 1 .. sent : ~Verified(j, l)
        BY <1>1, <3>1 DEF HandlersKnow, Verified, At
      <3>4. \A j \in 1 .. sent' : ~Verified(j, l)'
        BY <1>2, <2>1, <3>3
      <3> QED BY <2>1, <3>2, <3>4 DEF InOnePlace, InSession
    <2>3. CASE l # i
      BY <1>2, <2>1, <2>3, Shrinking DEF Pending
    <2> QED BY <2>2, <2>3
  <1>4. CASE LoginDelete(i)
    <2>1. /\ UNCHANGED <<sessions, ended>>
          /\ pendLog' = {p \in pendLog : p.id # requests[i].ref}
          /\ requests[i].ref \in raced' \/ Pending(requests[i].ref)
      BY <1>4 DEF LoginDelete, DropPendingLogin, Pending
    <2>2. CASE l = requests[i].ref
      <3>1. Pending(l) /\ ~InSession(l) /\ l \notin ended
            /\ \A j \in 1 .. sent : ~Verified(j, l)
        BY <2>1, <2>2 DEF InOnePlace
      <3>2. ASSUME NEW j \in 1 .. sent', Verified(j, l)'
            PROVE  j = i
        BY <1>1, <3>1, <3>2, VerifiedMoves
      <3>3. ~Pending(l)' /\ ~InSession(l)' /\ l \notin ended'
        BY <2>1, <2>2, <3>1 DEF Pending, InSession
      <3> QED BY <3>2, <3>3 DEF InOnePlace, InSession
    <2>3. CASE l # requests[i].ref
      <3>1. ASSUME NEW j \in 1 .. sent', Verified(j, l)'
            PROVE  j \in 1 .. sent /\ Verified(j, l)
        BY <1>1, <2>3, <3>1, VerifiedMoves
      <3> QED BY <2>1, <3>1, Shrinking DEF Pending
    <2> QED BY <2>2, <2>3
  <1>5. CASE InsertSession(i)
    <2> DEFINE s0 == [token |-> i, expires |-> now + SessionTtl, login |-> requests[i].ref]
    <2>1. /\ UNCHANGED <<pendLog, ended>> /\ sessions' = sessions \cup {s0}
          /\ At(i, "ke3", "verified") /\ ~LoginDelete(i)
      BY <1>5 DEF InsertSession, LoginDelete, At
    <2>2. s0.login = requests[i].ref
      OBVIOUS
    <2> HIDE DEF s0
    <2>3. CASE l = requests[i].ref
      <3>1. Verified(i, l)
        BY <2>1, <2>3 DEF Verified
      <3>2. ~Pending(l) /\ ~InSession(l) /\ l \notin ended
            /\ \A j \in 1 .. sent : Verified(j, l) => j = i
        BY <3>1 DEF InOnePlace
      <3>3. \A j \in 1 .. sent' : ~Verified(j, l)'
        BY <1>1, <1>5, <3>2, VerifiedMoves, <2>1
      <3>4. \A s \in sessions' : s.login = l => s = s0
        BY <2>1, <3>2 DEF InSession
      <3>5. ~Pending(l)' /\ l \notin ended'
        BY <2>1, <3>2 DEF Pending
      <3> QED BY <3>3, <3>4, <3>5 DEF InOnePlace
    <2>4. CASE l # requests[i].ref
      BY <1>2, <2>1, <2>2, <2>4, Shrinking DEF Pending
    <2> QED BY <2>3, <2>4
  <1>6. CASE RotateBatch(i)
    <2> DEFINE old == {s \in sessions : s.token = requests[i].ref}
               s0 == [token |-> i, expires |-> now + SessionTtl, login |-> requests[i].record]
    <2>1. /\ UNCHANGED <<pendLog, ended>> /\ sessions' = (sessions \ old) \cup {s0}
          /\ At(i, "self", "rotating") /\ ~LoginDelete(i)
          /\ old = {} => requests[i].record \in raced'
      BY <1>6 DEF RotateBatch, LoginDelete, At
    <2>2. s0.login = requests[i].record
      OBVIOUS
    <2>3. \A s \in old : s \in sessions /\ s.login = requests[i].record
      BY <1>1, <2>1 DEF RowsKnown, HandlersKnow, At
    <2> HIDE DEF s0, old
    <2>4. CASE l = requests[i].record
      <3>1. PICK s1 \in old : TRUE
        BY <2>1, <2>4
      <3>2. s1 \in sessions /\ s1.login = l
        BY <2>3, <2>4, <3>1
      <3>3. InSession(l)
        BY <3>2 DEF InSession
      <3>4. ~Pending(l) /\ l \notin ended /\ \A j \in 1 .. sent : ~Verified(j, l)
        BY <3>3 DEF InOnePlace
      <3>5. \A s \in sessions : s.login = l => s = s1
        BY <3>2 DEF InOnePlace
      <3>6. \A s \in sessions' : s.login = l => s = s0
        BY <2>1, <3>1, <3>5
      <3>7. \A j \in 1 .. sent' : ~Verified(j, l)'
        BY <1>2, <2>1, <3>4
      <3>8. ~Pending(l)' /\ l \notin ended'
        BY <2>1, <3>4 DEF Pending
      <3> QED BY <3>6, <3>7, <3>8 DEF InOnePlace
    <2>5. CASE l # requests[i].record
      BY <1>2, <2>1, <2>2, <2>5, Shrinking DEF Pending
    <2> QED BY <2>4, <2>5
  <1>7. CASE Logout(i)
    <2> DEFINE old == {s \in sessions : s.token = requests[i].ref}
    <2>1. /\ UNCHANGED pendLog /\ sessions' = sessions \ old
          /\ ended' = ended \cup {s.login : s \in old} /\ ~LoginDelete(i)
      BY <1>7 DEF Logout, LoginDelete, At
    <2>2. old \subseteq sessions
      OBVIOUS
    <2> HIDE DEF old
    <2>3. CASE \E s1 \in old : s1.login = l
      <3>1. PICK s1 \in old : s1.login = l
        BY <2>3
      <3>2. InSession(l)
        BY <2>2, <3>1 DEF InSession
      <3>3. ~Pending(l) /\ \A j \in 1 .. sent : ~Verified(j, l)
        BY <3>2 DEF InOnePlace
      <3>4. \A s \in sessions : s.login = l => s = s1
        BY <2>2, <3>1 DEF InOnePlace
      <3>5. ~InSession(l)' /\ ~Pending(l)'
        BY <2>1, <3>1, <3>3, <3>4 DEF InSession, Pending
      <3>6. \A j \in 1 .. sent' : ~Verified(j, l)'
        BY <1>2, <2>1, <3>3
      <3> QED BY <3>5, <3>6 DEF InOnePlace, InSession
    <2>4. CASE ~\E s1 \in old : s1.login = l
      BY <1>2, <2>1, <2>4, Shrinking DEF Pending
    <2> QED BY <2>3, <2>4
  <1>8. CASE UNCHANGED <<pendLog, sessions, ended>> /\ ~LoginDelete(i)
    BY <1>2, <1>8, Shrinking DEF Pending
  <1> QED BY <1>3, <1>4, <1>5, <1>6, <1>7, <1>8
          DEF ServerStep, Handle, RegisterRequest, RegisterRead, RegisterDelete, RegisterInsert,
              GetAccount, LoginRead, Authenticate, RotateRead, Refuse, Break, Stall, At

LEMMA NextLogin == LoginInv /\ [Next]_vars => LoginInv'
  <1> SUFFICES ASSUME LoginInv, [Next]_vars PROVE LoginInv'
    OBVIOUS
  <1>1. TokenInv /\ TokenInv' /\ TypeInv /\ LoginsApart /\ sent \in Nat
    BY NextToken, DeviceSorts DEF LoginInv, TokenInv, EnrolInv
  <1>2. raced \subseteq raced'
    <2>1. ASSUME NEW i \in 1 .. sent, ServerStep(i)
          PROVE  raced \subseteq raced'
      BY <2>1 DEF ServerStep, Handle, RegisterRequest, RegisterRead, RegisterDelete,
         RegisterInsert, GetAccount, PutPendingLogin, LoginRead, LoginDelete, InsertSession,
         Authenticate, RotateRead, RotateBatch, Logout, Refuse, Break, Stall
    <2> QED BY <1>1, <2>1, Steps, DeviceTables, HouseTables
  <1>3. ASSUME NEW l \in 1 .. MaxRequests, l \notin raced'
        PROVE  InOnePlace(l)'
    <2>1. InOnePlace(l)
      BY <1>1, <1>2, <1>3 DEF LoginsApart
    <2>2. ASSUME NEW i \in 1 .. sent, ServerStep(i)
          PROVE  InOnePlace(l)'
      BY <1>1, <1>3, <2>1, <2>2, PlaceServer
    <2>3. ASSUME DeviceStep
          PROVE  InOnePlace(l)'
      <3>1. UNCHANGED <<pendLog, sessions, ended>>
        BY <1>1, <2>3, DeviceTables
      <3>2. UNCHANGED <<requests, sent>> \/ Appended
        BY <1>1, <2>3, DeviceKeeps DEF Kept
      <3>3. ASSUME NEW j \in 1 .. sent', Verified(j, l)'
            PROVE  j \in 1 .. sent /\ Verified(j, l)
        BY <1>1, <3>2, <3>3 DEF Appended, Verified, At
      <3> QED BY <2>1, <3>1, <3>3, Shrinking DEF Pending
    <2>4. ASSUME HouseStep
          PROVE  InOnePlace(l)'
      <3>1. /\ UNCHANGED <<requests, sent, ended>>
            /\ pendLog' \subseteq pendLog /\ sessions' \subseteq sessions
        BY <1>1, <2>4, HouseTables DEF HouseStep, Sweep, Tick, vars
      <3>2. ASSUME NEW j \in 1 .. sent', Verified(j, l)'
            PROVE  j \in 1 .. sent /\ Verified(j, l)
        BY <3>1, <3>2 DEF Verified, At
      <3> QED BY <2>1, <3>1, <3>2, Shrinking DEF Pending
    <2> QED BY <2>2, <2>3, <2>4, Steps
  <1> QED BY <1>1, <1>3 DEF LoginInv, LoginsApart

LEMMA InitLogin == Init => LoginInv
  <1> SUFFICES ASSUME Init PROVE LoginInv
    OBVIOUS
  <1>1. sent = 0 /\ pendLog = {} /\ sessions = {} /\ ended = {}
    BY DEF Init
  <1>2. LoginsApart
    BY <1>1 DEF LoginsApart, InOnePlace, Pending, InSession
  <1> QED BY <1>2, InitToken DEF LoginInv

LEMMA LoginAlways == Spec => []LoginInv
  BY InitLogin, NextLogin, PTL DEF Spec

(* A login has one live session at most, through all its rotations, unless *)
(* two of its requests overlapped (server-opaque.ts finishLogin,           *)
(* auth-token.ts rotateToken).                                             *)
THEOREM OneSession == Spec => []OneSessionPerLogin
  <1>1. LoginInv => OneSessionPerLogin
    <2> SUFFICES ASSUME LoginInv, NEW s \in sessions, NEW t \in sessions,
                        s.login = t.login, s.login \notin raced
                 PROVE  s = t
      BY DEF OneSessionPerLogin
    <2>1. Begun(s.login) /\ sent <= MaxRequests /\ sent \in Nat
      BY DeviceSorts DEF LoginInv, TokenInv, EnrolInv, RowsKnown
    <2>2. s.login \in 1 .. MaxRequests
      BY <2>1, Bounds DEF Begun
    <2> QED BY <2>2 DEF LoginInv, LoginsApart, InOnePlace
  <1> QED BY <1>1, LoginAlways, PTL

(* A login whose token was logged out has no session, unless two of its    *)
(* requests overlapped (sessions/logout and auth-token.ts).                *)
THEOREM LogoutEnds == Spec => []LogoutEndsLogin
  <1>1. LoginInv => LogoutEndsLogin
    <2> SUFFICES ASSUME LoginInv, NEW s \in sessions, s.login \in ended,
                        s.login \notin raced
                 PROVE  FALSE
      BY DEF LogoutEndsLogin
    <2>1. Begun(s.login) /\ sent <= MaxRequests /\ sent \in Nat
      BY DeviceSorts DEF LoginInv, TokenInv, EnrolInv, RowsKnown
    <2>2. s.login \in 1 .. MaxRequests
      BY <2>1, Bounds DEF Begun
    <2> QED BY <2>2 DEF LoginInv, LoginsApart, InOnePlace, InSession
  <1> QED BY <1>1, LoginAlways, PTL


-----------------------------------------------------------------------------
(* The tables implement a registry. *)

LEMMA IssuedMoves ==
  ASSUME TokenInv, [Next]_vars, NEW i \in 1 .. sent, ServerStep(i)
  PROVE  /\ ~InsertSession(i) /\ ~RotateBatch(i) => Issued' = Issued
         /\ InsertSession(i) \/ RotateBatch(i) => i \notin Issued /\ Issued' = Issued \cup {i}
  <1>1. /\ EnrolInv /\ TypeInv /\ HandlersKnow /\ RowsKnown /\ RegistrationStands /\ Steady
        /\ sent \in Nat
    BY NextSteady, DeviceSorts DEF TokenInv, EnrolInv
  <1>2. PICK r \in Request : Handled(i, r)
    BY <1>1, Handling
  <1>3. sent' = sent /\ requests'[i].kind = requests[i].kind
    BY <1>1, <1>2 DEF Handled, Steady
  <1>4. \A j \in 1 .. sent : j # i => requests'[j] = requests[j]
    BY <1>1, AccountWrites
  <1>5. \A j : j # i => (j \in Issued' <=> j \in Issued)
    BY <1>3, <1>4 DEF Issued
  <1>6. i \in Issued => i \in Issued'
    BY <1>1, IssuedStays
  <1>7. ASSUME i \in Issued', i \notin Issued
        PROVE  InsertSession(i) \/ RotateBatch(i)
    <2>1. /\ requests[i].kind \in {"ke3", "self"} /\ requests'[i].answer = "ok"
          /\ requests'[i].record # 0
      BY <1>3, <1>7 DEF Issued
    <2>2. ~Served(i) /\ requests[i].answer = "none"
      BY <1>1, <1>7, <2>1 DEF Steady, Issued, RegistrationStands
    <2>3. /\ requests \in [1 .. MaxRequests -> Request] /\ i \in 1 .. MaxRequests
          /\ requests[i] \in Request
      BY <1>1, DeviceSorts, Bounds DEF TypeInv, TypeOK
    <2>4. ~(LoginDelete(i) \/ Authenticate(i))
      BY <1>1, <2>1, <2>2, AnswerSets, GotoSets DEF LoginDelete, Authenticate
    <2>5. ASSUME NEW pc \in {"found", "rotating"}, NEW rec,
                 requests' = [requests EXCEPT ![i].pc = pc, ![i].record = rec]
          PROVE  FALSE
      <3>1. requests' = [requests EXCEPT ![i] = [@ EXCEPT !.pc = pc, !.record = rec]]
        BY <2>3, <2>5
      <3>2. requests'[i] = [requests[i] EXCEPT !.pc = pc, !.record = rec]
        BY <2>3, <3>1
      <3> QED BY <2>1, <2>2, <2>3, <3>2 DEF Request
    <2>6. ~LoginRead(i)
      BY <1>1, <2>1, <2>5, AnswerSets DEF LoginRead
    <2>7. ~RotateRead(i)
      <3>1. RotateRead(i) => requests[i].record = 0
        BY <1>1 DEF RotateRead, At, HandlersKnow
      <3> QED BY <1>1, <2>1, <2>5, <3>1, AnswerSets DEF RotateRead
    <2>8. ~(Refuse(i) \/ Stall(i))
      BY <1>1, <2>1, <2>2, AnswerSets, GotoSets DEF Refuse, Stall
    <2>9. ~Break(i)
      <3>1. ASSUME NEW a, requests' = [requests EXCEPT ![i].pc = "answered", ![i].answer = a,
                                                       ![i].record = 0, ![i].broken = TRUE]
            PROVE  FALSE
        <4>1. requests'[i] = [requests[i] EXCEPT !.pc = "answered", !.answer = a,
                                                 !.record = 0, !.broken = TRUE]
          BY <2>3, <3>1
        <4> QED BY <2>1, <2>3, <4>1 DEF Request
      <3> QED BY <3>1 DEF Break
    <2> QED BY <2>1, <2>4, <2>6, <2>7, <2>8, <2>9
            DEF ServerStep, Handle, At, RegisterRequest, RegisterRead, RegisterDelete,
                RegisterInsert, GetAccount, PutPendingLogin, Logout
  <1>8. ASSUME InsertSession(i) \/ RotateBatch(i)
        PROVE  i \notin Issued /\ i \in Issued'
    <2>1. ~Served(i)
      BY <1>8 DEF InsertSession, RotateBatch, At, Served
    <2>2. i \notin Issued
      BY <1>1, <2>1 DEF RegistrationStands, Issued
    <2>3. \E s \in sessions' : s.token = i
      <3> DEFINE row(l) == [token |-> i, expires |-> now + SessionTtl, login |-> l]
      <3>1. row(requests[i].ref) \in sessions' \/ row(requests[i].record) \in sessions'
        BY <1>8 DEF InsertSession, RotateBatch
      <3>2. row(requests[i].ref).token = i /\ row(requests[i].record).token = i
        OBVIOUS
      <3> HIDE DEF row
      <3> QED BY <3>1, <3>2
    <2>4. \A s \in sessions : s.token # i
      BY <1>1, <2>2 DEF RowsKnown
    <2> QED BY <2>2, <2>3, <2>4, RowMoves
  <1>9. ~InsertSession(i) /\ ~RotateBatch(i) => Issued' = Issued
    BY <1>5, <1>6, <1>7
  <1>10. InsertSession(i) \/ RotateBatch(i) => Issued' = Issued \cup {i}
    BY <1>5, <1>8
  <1> QED BY <1>8, <1>9, <1>10

LEMMA InitRegistry == Init => Registry!RegistryInit
  <1> SUFFICES ASSUME Init PROVE Registry!RegistryInit
    OBVIOUS
  <1>1. sent = 0 /\ sessions = {}
    BY DEF Init
  <1>2. account.id \in (1 .. MaxRequests) \cup {0}
    <2>1. PICK enrolled \in Start :
            account = [id |-> IF enrolled THEN MaxRequests ELSE 0,
                       record |-> IF enrolled THEN MaxRequests ELSE 0]
      BY DEF Init
    <2> QED BY <2>1, Bounds
  <1>3. Issued = {}
    BY <1>1 DEF Issued
  <1> QED BY <1>1, <1>2, <1>3 DEF Registry!RegistryInit

LEMMA StepRegistry ==
  ASSUME TokenInv, [Next]_vars
  PROVE  [Registry!RegistryNext]_(Registry!registry)
  <1> DEFINE live == {s.token : s \in sessions}
  <1>1. TypeInv /\ HandlersKnow /\ RowsKnown /\ RegistrationStands /\ sent \in Nat
    BY DeviceSorts DEF TokenInv, EnrolInv
  <1>2. ASSUME Issued' = Issued, account'.id = account.id, sessions' \subseteq sessions
        PROVE  Registry!EndTokens
    BY <1>2 DEF Registry!EndTokens
  <1>3. ASSUME NEW i \in 1 .. sent, ServerStep(i)
        PROVE  [Registry!RegistryNext]_(Registry!registry)
    <2>1. i \in 1 .. MaxRequests
      BY <1>1, DeviceSorts, Bounds
    <2>2. CASE RegisterInsert(i)
      <3>1. sessions' = sessions /\ Issued' = Issued
        BY <1>3, <2>2, IssuedMoves DEF RegisterInsert, InsertSession, RotateBatch, At
      <3>2. CASE account = NoAccount /\ account' = Registration(i)
        BY <2>1, <3>1, <3>2 DEF Registry!RegistryNext, Registry!Register, NoAccount, Registration
      <3>3. CASE account' = account
        BY <1>2, <3>1, <3>3 DEF Registry!RegistryNext
      <3> QED BY <2>2, <3>2, <3>3 DEF RegisterInsert, InsertAccount
    <2>3. CASE InsertSession(i) \/ RotateBatch(i)
      <3>1. i \notin Issued /\ Issued' = Issued \cup {i}
        BY <1>3, <2>3, IssuedMoves
      <3>2. account' = account /\ account # NoAccount
        BY <1>1, <2>3 DEF InsertSession, RotateBatch, At, HandlersKnow
      <3>3. account.id # 0
        BY <1>1, <3>2 DEF TypeInv, TypeOK
      <3>4. \E old \in live \cup {i} :
              {s.token : s \in sessions'} = (live \ {old}) \cup {i}
        <4>1. CASE InsertSession(i)
          <5> DEFINE s0 == [token |-> i, expires |-> now + SessionTtl, login |-> requests[i].ref]
          <5>1. sessions' = sessions \cup {s0} /\ s0.token = i
            BY <4>1 DEF InsertSession
          <5> HIDE DEF s0
          <5>2. {s.token : s \in sessions'} = live \cup {i}
            BY <5>1
          <5> QED BY <5>2
        <4>2. CASE RotateBatch(i)
          <5>1. {s.token : s \in sessions'} = (live \ {requests[i].ref}) \cup {i}
            <6> DEFINE s0 == [token |-> i, expires |-> now + SessionTtl,
                              login |-> requests[i].record]
            <6>1. /\ sessions' = (sessions \ {s \in sessions : s.token = requests[i].ref}) \cup {s0}
                  /\ s0.token = i
              BY <4>2 DEF RotateBatch
            <6> HIDE DEF s0
            <6> QED BY <6>1
          <5>2. CASE requests[i].ref \in live
            BY <5>1, <5>2
          <5>3. CASE requests[i].ref \notin live
            BY <5>1, <5>3
          <5> QED BY <5>2, <5>3
        <4> QED BY <2>3, <4>1, <4>2
      <3> QED BY <2>1, <3>1, <3>2, <3>3, <3>4 DEF Registry!RegistryNext, Registry!IssueToken
    <2>4. CASE Logout(i)
      <3>1. account' = account /\ sessions' \subseteq sessions
        BY <2>4 DEF Logout
      <3>2. Issued' = Issued
        BY <1>3, <2>4, IssuedMoves DEF Logout, InsertSession, RotateBatch, At
      <3> QED BY <1>2, <3>1, <3>2 DEF Registry!RegistryNext
    <2>5. CASE UNCHANGED <<account, sessions>> /\ ~InsertSession(i) /\ ~RotateBatch(i)
      BY <1>2, <1>3, <2>5, IssuedMoves DEF Registry!RegistryNext
    <2> QED BY <1>3, <2>2, <2>3, <2>4, <2>5
            DEF ServerStep, Handle, RegisterRequest, RegisterRead, RegisterDelete, GetAccount,
                PutPendingLogin, LoginRead, LoginDelete, Authenticate, RotateRead, Refuse,
                Break, Stall, At
  <1>4. CASE DeviceStep
    <2>1. account' = account /\ sessions' = sessions
      BY <1>1, <1>4, DeviceTables
    <2>2. Issued' = Issued
      <3>1. CASE UNCHANGED <<requests, sent>>
        BY <3>1 DEF Issued
      <3>2. CASE Appended /\ IsNew
        <4>1. requests'[sent + 1].answer # "ok"
          BY <1>1, <3>2 DEF IsNew, RegistrationStands, Served
        <4>2. \A j \in 1 .. sent' : j \in 1 .. sent \/ j = sent + 1
          BY <1>1, <3>2 DEF Appended
        <4>3. \A j \in 1 .. sent : j \in 1 .. sent' /\ requests'[j] = requests[j]
          BY <1>1, <3>2 DEF Appended
        <4> QED BY <4>1, <4>2, <4>3 DEF Issued
      <3> QED BY <1>1, <1>4, <3>1, <3>2, DeviceKeeps DEF Kept
    <2> QED BY <1>2, <2>1, <2>2 DEF Registry!RegistryNext
  <1>5. CASE HouseStep
    <2>1. /\ UNCHANGED <<requests, sent, account>> /\ sessions' \subseteq sessions
      BY <1>1, <1>5, HouseTables DEF HouseStep, Sweep, Tick, vars
    <2>2. Issued' = Issued
      BY <2>1 DEF Issued
    <2> QED BY <1>2, <2>1, <2>2 DEF Registry!RegistryNext
  <1> QED BY <1>3, <1>4, <1>5, Steps

(* The tables of d1-storage.ts are a registry: the account of a client id  *)
(* is written once, and a token is issued once, for a registered account.  *)
THEOREM Implements == Spec => ImplementsRegistry
  <1>1. Spec => []TokenInv
    BY InitToken, NextToken, PTL DEF Spec
  <1> QED BY <1>1, InitRegistry, StepRegistry, PTL
          DEF Spec, ImplementsRegistry, Registry!RegistrySpec

-----------------------------------------------------------------------------
(* The sweep. *)

(* A step that is none of a request or of the device, the sweep of         *)
(* cleanup.ts above all, takes no row that could still be used.            *)
THEOREM SweepInvisible == Spec => SweepIsInvisible
  <1> DEFINE Step == (requests' = requests /\ dev' = dev) =>
                       /\ \A p \in pendReg \ pendReg' : ~Fresh(p)
                       /\ \A p \in pendLog \ pendLog' : ~Fresh(p)
                       /\ \A s \in sessions \ sessions' : ~Live(s)
  <1>1. ASSUME TypeInv, [Next]_vars
        PROVE  Step
    <2>1. ASSUME NEW i \in 1 .. sent, ServerStep(i), requests' = requests
          PROVE  pendReg \subseteq pendReg' /\ pendLog \subseteq pendLog'
                   /\ sessions \subseteq sessions'
      <3>1. ~(RegisterDelete(i) \/ LoginDelete(i) \/ RotateBatch(i) \/ Logout(i))
        BY <1>1, <2>1, GotoSets, AnswerSets
           DEF RegisterDelete, LoginDelete, RotateBatch, Logout, At
      <3> QED BY <2>1, <3>1
              DEF ServerStep, Handle, RegisterRequest, RegisterRead, RegisterInsert, GetAccount,
                  PutPendingLogin, LoginRead, InsertSession, Authenticate, RotateRead, Refuse,
                  Break, Stall
    <2>2. CASE DeviceStep
      BY <1>1, <2>2, DeviceTables
    <2>3. CASE HouseStep
      <3>1. /\ now \in Nat /\ \A p \in pendReg : p.born \in Nat
            /\ \A p \in pendLog : p.born \in Nat
        BY <1>1 DEF TypeInv, TypeOK
      <3>2. /\ \A p \in pendReg \ pendReg' : Expired(p)
            /\ \A p \in pendLog \ pendLog' : Expired(p)
            /\ \A s \in sessions \ sessions' : ~Live(s)
        BY <2>3 DEF HouseStep, Sweep, Tick, vars
      <3> QED BY <3>1, <3>2 DEF Expired, Fresh, PendingTtl
    <2> QED BY <1>1, <2>1, <2>2, <2>3, Steps
  <1>2. TypeInv /\ [Next]_vars => [Step]_vars
    BY <1>1
  <1>3. Spec => []TypeInv
    BY InitType, NextType, PTL DEF Spec
  <1>4. []TypeInv /\ [][Next]_vars => [][Step]_vars
    BY <1>2, PTL
  <1> QED BY <1>3, <1>4, PTL DEF Spec, SweepIsInvisible
-----------------------------------------------------------------------------
(* The setup wizard: the types of its records. *)

KeyNumbers == 0 .. MaxKeys
SaltNumbers == 0 .. MaxSalts
BindNumbers == 0 .. MaxBinds
Modes == {"none", "production", "demo"}
StepNames == {"welcome", "identity", "secret", "recovery", "touch", "provision"}
Saved == {"enrolling", "registering", "rotating", "resealing", "login", "stretching", "quick"}
RunPcs == {"gate", "loading", "saving"} \cup Saved \cup Ended

ObRec ==
  [label : BOOLEAN, key : KeyNumbers, confirmed : BOOLEAN, pwd : BOOLEAN, pwdOk : BOOLEAN,
   bound : BOOLEAN, mode : Modes, salt : SaltNumbers, prf : BindNumbers, cred : BindNumbers,
   quick : BOOLEAN, provisioned : BOOLEAN]
RunRec ==
  [pc : RunPcs, key : KeyNumbers, salt : SaltNumbers, prf : BindNumbers, cred : BindNumbers,
   mode : Modes, password : Contents, vault : Contents \X Contents \X Contents,
   mounted : BOOLEAN]
DiskRec ==
  [exists : BOOLEAN, key : Contents, prf : Contents, derived : Contents, salt : Contents,
   cred : BindNumbers, mode : Modes, opaque : Contents, envelope : Contents, quick : Contents]
SecretRec == [mine : Nat, old : Nat, generating : BOOLEAN]
TouchRec ==
  [phase : {"idle", "scanning", "success", "error"}, pending : SaltNumbers, mine : BOOLEAN,
   ask : BOOLEAN]

Provisionings == 1 .. MaxRuns

ObOK == ob \in ObRec /\ ob.key <= made /\ ob.salt <= salts /\ ob.prf <= Len(binds)
RunsOK ==
  /\ runs \in [Provisionings -> RunRec]
  /\ \A r \in Provisionings : runs[r].prf <= Len(binds)
CountersOK ==
  /\ binds \in Seq(SaltNumbers) /\ Len(binds) <= MaxBinds
  /\ salts \in SaltNumbers /\ made \in KeyNumbers
PlaceOK ==
  /\ page \in {"home", "setup", "unlock", "vault"} /\ step \in StepNames
  /\ sync \in BOOLEAN /\ loaded \in BOOLEAN
  /\ exposure \subseteq {"key replaced", "left provisioning", "stale passkey"}
(* The steps after the secret key's are reached with a key confirmed.      *)
StepOK == step \in {"recovery", "touch", "provision"} => ob.confirmed
WorkOK == secret \in SecretRec /\ touch \in TouchRec
DiskOK ==
  /\ disk \in DiskRec
  /\ disk.exists <=> disk.mode # "none"
  /\ disk.opaque # 0 \/ disk.envelope # 0 \/ disk.quick # 0 => disk.exists
  /\ loaded => disk.exists
  /\ \A r \in Provisionings :
       /\ runs[r].pc = "saving" => runs[r].mode # "none"
       /\ runs[r].pc \in Saved => disk.exists

(* No buffer that was filled with zeros is in the store, nor will be.      *)
WipedOK ==
  /\ \A k \in KeyNumbers : <<"key", k>> \in wiped => 0 < k /\ k <= made /\ k # ob.key
  /\ \A s \in SaltNumbers : <<"salt", s>> \in wiped => 0 < s /\ s <= salts /\ s # ob.salt
  /\ \A n \in BindNumbers : <<"prf", n>> \in wiped => 0 < n /\ n <= Len(binds) /\ n # ob.prf

SetupTypeInv == PlaceOK /\ StepOK /\ CountersOK /\ ObOK /\ WorkOK /\ RunsOK /\ DiskOK /\ WipedOK

-----------------------------------------------------------------------------
(* What a provisioning relies on. *)

Calm == exposure \subseteq {"stale passkey"}
Quiet == exposure = {}
Underway(r) == runs[r].pc \notin Ended

(* One provisioning at a time, on its own step.                            *)
GoingInv ==
  Calm => \A r \in Provisionings : Underway(r) =>
            /\ page = "setup" /\ step = "provision"
            /\ \A q \in Provisionings : Underway(q) \/ runs[q].mounted => q = r

ConfirmedInv == Calm /\ ob.confirmed => ob.key \in kept \cup {0}

(* What a run has gathered is what the store holds, and what it has written. *)
HoldsKey(d, o, in) ==
  ~in /\ o.key # 0 /\ d.key = o.key /\ d.quick = 0 /\ d.opaque \in {0, o.key}
RunKey(run, o, d, in) ==
  /\ run.pc = "saving" => run.vault[1] = o.key /\ o.key # 0
  /\ run.pc \in Saved => HoldsKey(d, o, in)
  /\ run.pc \in {"registering", "rotating", "resealing"} => run.password = o.key
  /\ run.pc \in {"rotating", "stretching", "quick"} => run.key = o.key
  /\ run.pc = "resealing" => run.vault[1] = o.key
  /\ run.pc = "quick" => d.envelope = d.key
KeyInv == Calm => \A r \in Provisionings : RunKey(runs[r], ob, disk, loaded)

HoldsPasskey(d, o) ==
  /\ d.prf = o.cred /\ d.derived = o.salt /\ o.mode # "none"
  /\ d.salt = o.salt /\ d.cred = o.cred /\ d.mode = o.mode
RunPasskey(run, o, d) ==
  /\ run.pc = "saving" /\ ~d.exists =>
       /\ run.vault[2] = o.cred /\ run.vault[3] = o.salt /\ o.mode # "none"
       /\ run.salt = o.salt /\ run.cred = o.cred /\ run.mode = o.mode /\ run.prf = o.prf
  /\ run.pc \in Saved => HoldsPasskey(d, o) /\ run.prf = o.prf
  /\ run.pc = "resealing" => run.vault[2] = o.cred /\ run.vault[3] = o.salt
PasskeyInv == Quiet => \A r \in Provisionings : RunPasskey(runs[r], ob, disk)

(* The passkey in the store was evaluated at the salt in the store, until  *)
(* the vault is made.                                                      *)
Bound(o, b) ==
  o.mode # "none" =>
    /\ o.cred \in DOMAIN b /\ b[o.cred] = o.salt /\ o.salt # 0
    /\ o.mode = "production" => o.prf = o.cred
Making == ~disk.exists \/ \E r \in Provisionings : runs[r].pc \in Saved
BoundInv == Quiet /\ Making => Bound(ob, binds)

SetupInv ==
  /\ SetupTypeInv /\ GoingInv /\ ConfirmedInv /\ KeyInv /\ PasskeyInv /\ BoundInv
  /\ OpensUnlessDisturbed /\ DoneMeansRecoverable

-----------------------------------------------------------------------------
(* Numbers and buffers. *)

LEMMA BoundsAreNatural ==
  ASSUME OnboardingAssumption
  PROVE  MaxKeys \in Nat /\ MaxSalts \in Nat /\ MaxBinds \in Nat /\ MaxRuns \in Nat
BY DEF OnboardingAssumption

LEMMA ContentsHold ==
  ASSUME OnboardingAssumption
  PROVE  /\ KeyNumbers \subseteq Contents /\ SaltNumbers \subseteq Contents
         /\ BindNumbers \subseteq Contents
         /\ 0 \in KeyNumbers /\ 0 \in SaltNumbers /\ 0 \in BindNumbers
         /\ \A kind, n : n \in Contents => Read(kind, n) \in Contents
BY DEF OnboardingAssumption, KeyNumbers, SaltNumbers, BindNumbers, Contents, Read, Zeros

LEMMA EmptyIsOb ==
  ASSUME OnboardingAssumption
  PROVE  Empty \in ObRec /\ NoRun \in RunRec /\ NoRows \in DiskRec
<1>1. <<0, 0, 0>> \in Contents \X Contents \X Contents
  BY ContentsHold
<1>2. NoRun \in RunRec
  BY <1>1, ContentsHold DEF NoRun, RunRec, RunPcs, Ended, Modes
<1>. QED  BY <1>2, ContentsHold DEF Empty, ObRec, NoRows, DiskRec, Modes

(* What the store holds is read as it is.                                  *)
LEMMA StoreUnwiped ==
  ASSUME SetupTypeInv
  PROVE  /\ Read("key", ob.key) = ob.key
         /\ Read("salt", ob.salt) = ob.salt
         /\ Read("prf", ob.prf) = ob.prf
BY DEF SetupTypeInv, ObOK, ObRec, WipedOK, Read

LEMMA BuffersDiffer ==
  /\ \A m, n : <<"key", m>> # <<"salt", n>> /\ <<"key", m>> # <<"prf", n>>
  /\ \A m, n : <<"salt", m>> # <<"prf", n>>
  /\ \A kind, m, n : <<kind, m>> = <<kind, n>> <=> m = n
OBVIOUS

LEMMA ResetWipes ==
  ASSUME SetupTypeInv, ob' = Empty, wiped' = WipedByReset, UNCHANGED counters
  PROVE  WipedOK'
<1>1. /\ Empty.key = 0 /\ Empty.salt = 0 /\ Empty.prf = 0
  BY DEF Empty
<1>2. /\ ob.key \in KeyNumbers /\ ob.key <= made
      /\ ob.salt \in SaltNumbers /\ ob.salt <= salts
      /\ ob.prf \in BindNumbers /\ ob.prf <= Len(binds)
  BY DEF SetupTypeInv, ObOK, ObRec
<1>3. \A b \in wiped' :
        \/ b \in wiped
        \/ /\ b \in {<<"key", ob.key>>, <<"salt", ob.salt>>, <<"prf", ob.prf>>}
           /\ b[2] # 0
  BY DEF WipedByReset, Wiping
<1>4. ASSUME NEW k \in KeyNumbers, <<"key", k>> \in wiped'
      PROVE  0 < k /\ k <= made
  <2>1. CASE <<"key", k>> \in wiped
    BY <2>1 DEF SetupTypeInv, WipedOK
  <2>2. CASE <<"key", k>> \notin wiped
    <3>1. k = ob.key /\ k # 0
      BY <1>3, <1>4, <2>2, BuffersDiffer
    <3>. QED  BY <1>2, <3>1 DEF KeyNumbers
  <2>. QED  BY <2>1, <2>2
<1>5. ASSUME NEW s \in SaltNumbers, <<"salt", s>> \in wiped'
      PROVE  0 < s /\ s <= salts
  <2>1. CASE <<"salt", s>> \in wiped
    BY <2>1 DEF SetupTypeInv, WipedOK
  <2>2. CASE <<"salt", s>> \notin wiped
    <3>1. s = ob.salt /\ s # 0
      BY <1>3, <1>5, <2>2, BuffersDiffer
    <3>. QED  BY <1>2, <3>1 DEF SaltNumbers
  <2>. QED  BY <2>1, <2>2
<1>6. ASSUME NEW n \in BindNumbers, <<"prf", n>> \in wiped'
      PROVE  0 < n /\ n <= Len(binds)
  <2>1. CASE <<"prf", n>> \in wiped
    BY <2>1 DEF SetupTypeInv, WipedOK
  <2>2. CASE <<"prf", n>> \notin wiped
    <3>1. n = ob.prf /\ n # 0
      BY <1>3, <1>6, <2>2, BuffersDiffer
    <3>. QED  BY <1>2, <3>1 DEF BindNumbers
  <2>. QED  BY <2>1, <2>2
<1>. QED
  BY <1>1, <1>4, <1>5, <1>6 DEF WipedOK, counters, KeyNumbers, SaltNumbers, BindNumbers

-----------------------------------------------------------------------------
(* Work of the steps beside a provisioning: it leaves the rows and the     *)
(* runs alone, and what a run is going on with, unless it is flagged.      *)

AnyGoing == \E r \in Provisionings : Underway(r)

LEMMA IdleRun ==
  ASSUME NEW run, run.pc \in Ended \cup {"gate", "loading"}, NEW o, NEW d, NEW in
  PROVE  RunKey(run, o, d, in) /\ RunPasskey(run, o, d) /\ run.pc \notin Saved \cup {"saving"}
BY DEF Ended, RunKey, RunPasskey, Saved

LEMMA OpensStill ==
  ASSUME OpensUnlessDisturbed, disk' = disk, kept \subseteq kept', exposure \subseteq exposure',
         CountersOK, binds' = binds \/ \E s : binds' = Append(binds, s)
  PROVE  OpensUnlessDisturbed'
<1>. SUFFICES ASSUME exposure' = {}, disk.exists
              PROVE  AccountOpens'
  BY DEF OpensUnlessDisturbed, AccountOpens
<1>1. AccountOpens
  BY DEF OpensUnlessDisturbed
<1>2. \A i \in DOMAIN binds : i \in DOMAIN binds' /\ binds'[i] = binds[i]
  BY DEF CountersOK
<1>. QED  BY <1>1, <1>2 DEF AccountOpens

LEMMA AsideKeeps ==
  ASSUME SetupInv, SetupTypeInv', UNCHANGED <<page, step, runs, disk, sync, loaded>>,
         exposure \subseteq exposure', kept \subseteq kept',
         binds' = binds \/ \E s : binds' = Append(binds, s),
         ConfirmedInv', BoundInv',
         AnyGoing /\ Calm' => ob'.key = ob.key,
         AnyGoing /\ Quiet' => /\ ob'.salt = ob.salt /\ ob'.prf = ob.prf
                               /\ ob'.cred = ob.cred /\ ob'.mode = ob.mode
  PROVE  SetupInv'
<1>1. (Calm' => Calm) /\ (Quiet' => Quiet)
  BY DEF Calm, Quiet
<1>2. GoingInv'
  BY <1>1 DEF SetupInv, GoingInv, Underway
<1>3. KeyInv'
  <2>. SUFFICES ASSUME Calm', NEW r \in Provisionings
                PROVE  RunKey(runs[r], ob', disk, loaded)
    BY DEF KeyInv
  <2>1. CASE Underway(r)
    <3>1. RunKey(runs[r], ob, disk, loaded) /\ ob'.key = ob.key
      BY <1>1, <2>1 DEF SetupInv, KeyInv, AnyGoing
    <3>. QED  BY <3>1 DEF RunKey, HoldsKey
  <2>2. CASE ~Underway(r)
    BY <2>2, IdleRun DEF Underway
  <2>. QED  BY <2>1, <2>2
<1>4. PasskeyInv'
  <2>. SUFFICES ASSUME Quiet', NEW r \in Provisionings
                PROVE  RunPasskey(runs[r], ob', disk)
    BY DEF PasskeyInv
  <2>1. CASE Underway(r)
    <3>1. /\ RunPasskey(runs[r], ob, disk)
          /\ ob'.salt = ob.salt /\ ob'.prf = ob.prf
          /\ ob'.cred = ob.cred /\ ob'.mode = ob.mode
      BY <1>1, <2>1 DEF SetupInv, PasskeyInv, AnyGoing
    <3>. QED  BY <3>1 DEF RunPasskey, HoldsPasskey
  <2>2. CASE ~Underway(r)
    BY <2>2, IdleRun DEF Underway
  <2>. QED  BY <2>1, <2>2
<1>5. OpensUnlessDisturbed'
  BY OpensStill DEF SetupInv, SetupTypeInv
<1>6. DoneMeansRecoverable'
  BY DEF SetupInv, DoneMeansRecoverable
<1>. QED  BY <1>2, <1>3, <1>4, <1>5, <1>6 DEF SetupInv

LEMMA BoundStill ==
  ASSUME BoundInv, UNCHANGED <<runs, disk, binds>>, exposure \subseteq exposure',
         ob'.salt = ob.salt, ob'.prf = ob.prf, ob'.cred = ob.cred, ob'.mode = ob.mode
  PROVE  BoundInv'
BY DEF BoundInv, Quiet, Making, Bound

(* An edit that touches neither the key nor the passkey.                   *)
LEMMA EditKeeps ==
  ASSUME SetupInv, secret' \in SecretRec, touch' \in TouchRec, ob' \in ObRec,
         ob'.key = ob.key, ob'.confirmed = ob.confirmed,
         ob'.salt = ob.salt, ob'.prf = ob.prf, ob'.cred = ob.cred, ob'.mode = ob.mode,
         UNCHANGED <<page, step, runs, counters, wiped, disk, sync, loaded, kept, exposure>>
  PROVE  SetupInv'
<1>1. UNCHANGED <<binds, salts, made>>
  BY DEF counters
<1>2. PlaceOK' /\ StepOK' /\ CountersOK' /\ ObOK' /\ WorkOK'
  BY <1>1 DEF SetupInv, SetupTypeInv, PlaceOK, StepOK, CountersOK, ObOK, WorkOK
<1>3. RunsOK' /\ DiskOK' /\ WipedOK'
  BY <1>1 DEF SetupInv, SetupTypeInv, RunsOK, DiskOK, WipedOK
<1>4. ConfirmedInv' /\ BoundInv'
  BY <1>1, BoundStill DEF SetupInv, ConfirmedInv, Calm
<1>. QED  BY <1>1, <1>2, <1>3, <1>4, AsideKeeps DEF SetupTypeInv

-----------------------------------------------------------------------------
(* The steps. *)

LEMMA LabelKeeps == ASSUME SetupInv, pickSuggestion  PROVE SetupInv'
<1>1. /\ ob \in ObRec /\ secret \in SecretRec /\ touch \in TouchRec
  BY DEF SetupInv, SetupTypeInv, ObOK, WorkOK
<1>. QED  BY <1>1, EditKeeps DEF pickSuggestion, ObRec, work

LEMMA PasswordKeeps == ASSUME SetupInv, syncState \/ toggleRecovery  PROVE SetupInv'
<1>1. /\ ob \in ObRec /\ secret \in SecretRec /\ touch \in TouchRec
  BY DEF SetupInv, SetupTypeInv, ObOK, WorkOK
<1>2. CASE syncState
  BY <1>1, <1>2, EditKeeps DEF syncState, ObRec, work
<1>3. CASE toggleRecovery
  BY <1>1, <1>3, EditKeeps DEF toggleRecovery, ObRec, work
<1>. QED  BY <1>2, <1>3

LEMMA QuickKeeps == ASSUME SetupInv, toggleQuick  PROVE SetupInv'
<1>1. /\ ob \in ObRec /\ secret \in SecretRec /\ touch \in TouchRec
  BY DEF SetupInv, SetupTypeInv, ObOK, WorkOK
<1>. QED  BY <1>1, EditKeeps DEF toggleQuick, ObRec, work

LEMMA TouchKeeps ==
  ASSUME SetupInv, OnboardingAssumption, chooseDemoMode \/ BindFails
  PROVE  SetupInv'
<1>1. /\ ob \in ObRec /\ secret \in SecretRec /\ touch \in TouchRec
  BY DEF SetupInv, SetupTypeInv, ObOK, WorkOK
<1>2. CASE chooseDemoMode
  BY <1>1, <1>2, EditKeeps DEF chooseDemoMode, TouchRec, store
<1>3. CASE BindFails
  BY <1>1, <1>3, ContentsHold, EditKeeps DEF BindFails, TouchRec, store
<1>. QED  BY <1>2, <1>3

(* On the secret key's step nothing is being made. *)
LEMMA NothingGoing ==
  ASSUME SetupInv, step # "provision" \/ page # "setup", Calm
  PROVE  ~AnyGoing
BY DEF SetupInv, GoingInv, AnyGoing

LEMMA ControlsOn ==
  /\ \A c : c \in SecretControls => page = "setup" /\ step = "secret"
  /\ \A c : c \in TouchControls => page = "setup" /\ step = "touch"
  /\ "confirm" \in SecretControls => ob.key # 0
BY DEF SecretControls, TouchControls, On, If

LEMMA GeneratingTyped ==
  ASSUME NEW s \in SecretRec
  PROVE  Generating(s) \in SecretRec
<1>1. s.mine + 1 \in Nat
  BY DEF SecretRec
<1>. QED  BY <1>1 DEF Generating, SecretRec

LEMMA RegenerateKeeps ==
  ASSUME SetupInv, OnboardingAssumption, Regenerate
  PROVE  SetupInv'
<1>1. /\ ob \in ObRec /\ secret \in SecretRec /\ touch \in TouchRec
      /\ step = "secret"
      /\ ob' = WithoutKey(ob) /\ secret' = Generating(Generating(secret))
      /\ UNCHANGED <<page, step, touch, runs, binds, salts, made, wiped, disk, sync, loaded,
                     kept, exposure>>
  BY ControlsOn DEF Regenerate, SetupInv, SetupTypeInv, ObOK, WorkOK, counters
<1>2. /\ ob' \in ObRec /\ ob'.key = 0 /\ ob'.confirmed = FALSE
      /\ ob'.salt = ob.salt /\ ob'.prf = ob.prf /\ ob'.cred = ob.cred /\ ob'.mode = ob.mode
  BY <1>1, ContentsHold DEF WithoutKey, ObRec
<1>3. secret' \in SecretRec
  <2>1. Generating(secret) \in SecretRec
    BY <1>1, GeneratingTyped
  <2>. QED  BY <1>1, <2>1, GeneratingTyped
<1>4. PlaceOK' /\ StepOK' /\ CountersOK' /\ WorkOK'
  BY <1>1, <1>3 DEF SetupInv, SetupTypeInv, PlaceOK, StepOK, CountersOK, WorkOK
<1>5. ObOK' /\ RunsOK' /\ DiskOK'
  BY <1>1, <1>2 DEF SetupInv, SetupTypeInv, CountersOK, ObOK, RunsOK, DiskOK, KeyNumbers
<1>6. WipedOK'
  BY <1>1, <1>2 DEF SetupInv, SetupTypeInv, WipedOK, KeyNumbers
<1>7. ConfirmedInv' /\ BoundInv'
  BY <1>1, <1>2, BoundStill DEF SetupInv, ConfirmedInv
<1>8. AnyGoing /\ Calm' => ob'.key = ob.key
  BY <1>1, NothingGoing DEF Calm
<1>. QED  BY <1>1, <1>2, <1>4, <1>5, <1>6, <1>7, <1>8, AsideKeeps DEF SetupTypeInv

LEMMA generateKeeps ==
  ASSUME SetupInv, OnboardingAssumption, generate
  PROVE  SetupInv'
<1>1. /\ ob \in ObRec /\ made < MaxKeys /\ made \in KeyNumbers
      /\ made' = made + 1 /\ ob' = [ob EXCEPT !.key = made + 1]
      /\ UNCHANGED <<page, step, touch, runs, binds, salts, wiped, disk, sync, loaded, kept>>
  BY DEF generate, SetupInv, SetupTypeInv, CountersOK, ObOK, WorkOK
<1>2. /\ exposure \subseteq exposure'
      /\ exposure' \subseteq exposure \cup {"key replaced"}
      /\ ob.confirmed => "key replaced" \in exposure'
  BY DEF generate
<1>3. made + 1 \in KeyNumbers
  BY <1>1, BoundsAreNatural DEF KeyNumbers
<1>4. /\ ob' \in ObRec /\ ob'.key = made + 1 /\ ob'.confirmed = ob.confirmed
      /\ ob'.salt = ob.salt /\ ob'.prf = ob.prf /\ ob'.cred = ob.cred /\ ob'.mode = ob.mode
  BY <1>1, <1>3 DEF ObRec
<1>5. secret' \in SecretRec
  <2>1. secret \in SecretRec
    BY DEF SetupInv, SetupTypeInv, WorkOK
  <2>2. CASE /\ secret.mine > 0
             /\ secret' = [secret EXCEPT !.mine = @ - 1, !.generating = FALSE]
    <3>1. secret.mine - 1 \in Nat
      BY <2>1, <2>2 DEF SecretRec
    <3> DEFINE mine == secret.mine - 1
    <3>2. secret' = [secret EXCEPT !.mine = mine, !.generating = FALSE]
      BY <2>2
    <3>. HIDE DEF mine
    <3>. QED  BY <2>1, <3>1, <3>2 DEF SecretRec, mine
  <2>3. CASE /\ secret.old > 0
             /\ secret' = [secret EXCEPT !.old = @ - 1]
    BY <2>1, <2>3 DEF SecretRec
  <2>. QED  BY <2>2, <2>3 DEF generate
<1>6. PlaceOK' /\ StepOK'
  BY <1>1, <1>2, <1>4 DEF SetupInv, SetupTypeInv, PlaceOK, StepOK
<1>7. CountersOK' /\ WorkOK'
  BY <1>1, <1>3, <1>5 DEF SetupInv, SetupTypeInv, CountersOK, WorkOK
<1>8. ObOK'
  BY <1>1, <1>3, <1>4 DEF SetupInv, SetupTypeInv, ObOK, KeyNumbers
<1>9. RunsOK' /\ DiskOK'
  BY <1>1 DEF SetupInv, SetupTypeInv, RunsOK, DiskOK
<1>10. WipedOK'
  <2>1. ASSUME NEW k \in KeyNumbers, <<"key", k>> \in wiped
        PROVE  0 < k /\ k <= made + 1 /\ k # made + 1
    <3>1. 0 < k /\ k <= made
      BY <2>1 DEF SetupInv, SetupTypeInv, WipedOK
    <3>. QED  BY <1>1, <3>1 DEF KeyNumbers
  <2>. QED  BY <1>1, <1>4, <2>1 DEF SetupInv, SetupTypeInv, WipedOK
<1>11. Calm' => Calm /\ ~ob.confirmed
  BY <1>2 DEF Calm
<1>12. ConfirmedInv'
  BY <1>4, <1>11 DEF ConfirmedInv
<1>13. BoundInv'
  BY <1>1, <1>2, <1>4, BoundStill DEF SetupInv
<1>14. Calm' => ~AnyGoing
  <2>. SUFFICES ASSUME Calm'  PROVE ~AnyGoing
    OBVIOUS
  <2>1. step # "provision"
    BY <1>11 DEF SetupInv, SetupTypeInv, StepOK
  <2>. QED  BY <1>11, <2>1, NothingGoing
<1>15. Quiet' => Calm'
  BY DEF Quiet, Calm
<1>. QED
  BY <1>1, <1>2, <1>4, <1>6, <1>7, <1>8, <1>9, <1>10, <1>12, <1>13, <1>14, <1>15, AsideKeeps
  DEF SetupTypeInv

LEMMA ConfirmKeeps == ASSUME SetupInv, OnboardingAssumption, toggleConfirm  PROVE SetupInv'
<1>1. /\ ob \in ObRec /\ ob.key # 0 /\ step = "secret"
      /\ ob' = [ob EXCEPT !.confirmed = ~@]
      /\ kept' = IF ob.confirmed THEN kept ELSE kept \cup {ob.key}
      /\ UNCHANGED <<page, step, secret, touch, runs, binds, salts, made, wiped, disk, sync,
                     loaded, exposure>>
  BY ControlsOn DEF toggleConfirm, SetupInv, SetupTypeInv, ObOK, work, counters
<1>2. /\ ob' \in ObRec /\ ob'.key = ob.key /\ ob'.confirmed = ~ob.confirmed
      /\ ob'.salt = ob.salt /\ ob'.prf = ob.prf /\ ob'.cred = ob.cred /\ ob'.mode = ob.mode
  BY <1>1 DEF ObRec
<1>3. PlaceOK' /\ StepOK' /\ CountersOK' /\ ObOK' /\ WorkOK'
  BY <1>1, <1>2 DEF SetupInv, SetupTypeInv, PlaceOK, StepOK, CountersOK, ObOK, WorkOK
<1>4. RunsOK' /\ DiskOK' /\ WipedOK'
  BY <1>1, <1>2 DEF SetupInv, SetupTypeInv, RunsOK, DiskOK, WipedOK
<1>5. BoundInv'
  BY <1>1, <1>2, BoundStill DEF SetupInv
<1>6. ob'.confirmed => ob'.key \in kept'
  <2>1. CASE ob.confirmed
    BY <1>2, <2>1
  <2>2. CASE ~ob.confirmed
    BY <1>1, <1>2, <2>2
  <2>. QED  BY <2>1, <2>2
<1>7. ConfirmedInv' /\ kept \subseteq kept'
  BY <1>1, <1>6 DEF ConfirmedInv
<1>. QED  BY <1>1, <1>2, <1>3, <1>4, <1>5, <1>7, AsideKeeps DEF SetupTypeInv

(* A salt is made once, with the first passkey asked for.                  *)
LEMMA bindKeeps == ASSUME SetupInv, OnboardingAssumption, bind  PROVE SetupInv'
<1> DEFINE salt == IF ob.salt = 0 THEN salts + 1 ELSE ob.salt
<1>1. /\ ob \in ObRec /\ touch \in TouchRec /\ salts \in SaltNumbers /\ ob.salt <= salts
      /\ step = "touch" /\ (ob.salt = 0 => salts < MaxSalts)
      /\ salts' = IF ob.salt = 0 THEN salts + 1 ELSE salts
      /\ ob' = [ob EXCEPT !.salt = salt]
      /\ touch' = IF touch.pending = 0
                   THEN [touch EXCEPT !.phase = "scanning", !.mine = TRUE, !.pending = ob'.salt]
                   ELSE [touch EXCEPT !.phase = "error"]
      /\ UNCHANGED <<page, step, secret, runs, binds, made, wiped, disk, sync, loaded, kept,
                     exposure>>
  BY ControlsOn DEF bind, SetupInv, SetupTypeInv, ObOK, ObRec, WorkOK, CountersOK
<1>2. salt \in SaltNumbers /\ salt # 0 /\ salts' \in SaltNumbers /\ salt <= salts'
  BY <1>1, OnboardingAssumption DEF OnboardingAssumption, SaltNumbers, ObRec
<1>3. /\ ob' \in ObRec /\ ob'.salt = salt
      /\ ob'.key = ob.key /\ ob'.confirmed = ob.confirmed
      /\ ob'.prf = ob.prf /\ ob'.cred = ob.cred /\ ob'.mode = ob.mode
  BY <1>1, <1>2 DEF ObRec
<1>4. touch' \in TouchRec
  BY <1>1, <1>2, <1>3 DEF TouchRec
<1>5. PlaceOK' /\ StepOK' /\ CountersOK' /\ ObOK' /\ WorkOK'
  BY <1>1, <1>2, <1>3, <1>4
  DEF SetupInv, SetupTypeInv, PlaceOK, StepOK, CountersOK, ObOK, WorkOK
<1>6. RunsOK' /\ DiskOK'
  BY <1>1 DEF SetupInv, SetupTypeInv, RunsOK, DiskOK
<1>7. WipedOK'
  <2>1. ASSUME NEW s \in SaltNumbers, <<"salt", s>> \in wiped
        PROVE  0 < s /\ s <= salts' /\ s # salt
    <3>1. 0 < s /\ s <= salts /\ s # ob.salt
      BY <2>1 DEF SetupInv, SetupTypeInv, WipedOK
    <3>. QED  BY <1>1, <3>1 DEF SaltNumbers
  <2>. QED  BY <1>1, <1>3, <2>1 DEF SetupInv, SetupTypeInv, WipedOK
<1>8. ConfirmedInv' /\ BoundInv'
  <2>1. BoundInv /\ (ob.salt # 0 => ob'.salt = ob.salt)
    BY <1>3 DEF SetupInv
  <2>2. BoundInv'
    BY <1>1, <1>3, <2>1 DEF BoundInv, Quiet, Making, Bound
  <2>. QED  BY <1>1, <1>3, <2>2 DEF SetupInv, ConfirmedInv, Calm
<1>9. Calm' => ~AnyGoing
  BY <1>1, NothingGoing DEF Calm
<1>10. Quiet' => Calm'
  BY DEF Quiet, Calm
<1>. QED
  BY <1>1, <1>3, <1>5, <1>6, <1>7, <1>8, <1>9, <1>10, AsideKeeps DEF SetupTypeInv

(* One more passkey. *)
LEMMA Bind ==
  ASSUME SetupInv, OnboardingAssumption, NEW s \in SaltNumbers, Len(binds) < MaxBinds,
         binds' = Append(binds, s)
  PROVE  /\ Len(binds') = Len(binds) + 1 /\ Len(binds') \in BindNumbers
         /\ binds' \in Seq(SaltNumbers)
         /\ Len(binds') \in DOMAIN binds' /\ binds'[Len(binds')] = s
BY DEF SetupInv, SetupTypeInv, CountersOK, OnboardingAssumption, BindNumbers

LEMMA BoundKeeps ==
  ASSUME SetupInv, OnboardingAssumption, BindSucceeds
  PROVE  SetupInv'
<1> DEFINE n == Len(binds')
<1>1. /\ ob \in ObRec /\ touch \in TouchRec /\ touch.pending # 0
      /\ touch.pending \in SaltNumbers
      /\ Len(binds) < MaxBinds /\ binds' = Append(binds, touch.pending)
      /\ ob' = [ob EXCEPT !.cred = n, !.prf = n, !.bound = TRUE, !.mode = "production",
                          !.quick = TRUE]
      /\ touch' = [touch EXCEPT !.pending = 0, !.mine = FALSE,
                               !.phase = IF touch.mine THEN "success" ELSE @]
      /\ exposure' = exposure \cup
           {e \in {"stale passkey"} : touch.pending # ob.salt \/ Running # {}}
      /\ UNCHANGED <<page, step, secret, runs, salts, made, wiped, disk, sync, loaded, kept>>
  BY DEF BindSucceeds, SetupInv, SetupTypeInv, ObOK, WorkOK, TouchRec
<1>2. /\ n = Len(binds) + 1 /\ n \in BindNumbers /\ binds' \in Seq(SaltNumbers)
      /\ n \in DOMAIN binds' /\ binds'[n] = touch.pending
  BY <1>1, Bind
<1>. HIDE DEF n
<1>3. /\ ob' \in ObRec /\ ob'.cred = n /\ ob'.prf = n /\ ob'.mode = "production"
      /\ ob'.key = ob.key /\ ob'.confirmed = ob.confirmed /\ ob'.salt = ob.salt
  BY <1>1, <1>2 DEF ObRec, Modes
<1>4. touch' \in TouchRec
  BY <1>1, ContentsHold DEF TouchRec
<1>5. Len(binds) \in Nat /\ Len(binds') = n /\ n <= MaxBinds
  <2>1. binds \in Seq(SaltNumbers)
    BY DEF SetupInv, SetupTypeInv, CountersOK
  <2>. QED  BY <1>2, <2>1, BoundsAreNatural DEF n, BindNumbers
<1>6. PlaceOK' /\ StepOK' /\ CountersOK' /\ ObOK' /\ WorkOK'
  <2>1. exposure' \subseteq exposure \cup {"stale passkey"}
    BY <1>1
  <2>2. PlaceOK' /\ StepOK'
    BY <1>1, <1>3, <2>1 DEF SetupInv, SetupTypeInv, PlaceOK, StepOK
  <2>3. CountersOK' /\ WorkOK'
    BY <1>1, <1>2, <1>4, <1>5 DEF SetupInv, SetupTypeInv, CountersOK, WorkOK
  <2>4. n <= Len(binds')
    BY <1>2, <1>5 DEF BindNumbers
  <2>5. ObOK'
    BY <1>1, <1>3, <2>4 DEF SetupInv, SetupTypeInv, ObOK
  <2>. QED  BY <2>2, <2>3, <2>5
<1>7. RunsOK'
  <2>. SUFFICES ASSUME NEW r \in Provisionings  PROVE runs[r].prf <= n
    BY <1>1, <1>5 DEF SetupInv, SetupTypeInv, RunsOK
  <2>1. runs[r].prf \in BindNumbers /\ runs[r].prf <= Len(binds)
    BY DEF SetupInv, SetupTypeInv, RunsOK, RunRec
  <2>. QED  BY <1>2, <1>5, <2>1 DEF BindNumbers
<1>8. DiskOK'
  BY <1>1 DEF SetupInv, SetupTypeInv, DiskOK
<1>9. WipedOK'
  <2>1. ASSUME NEW m \in BindNumbers, <<"prf", m>> \in wiped
        PROVE  0 < m /\ m <= n /\ m # n
    <3>1. 0 < m /\ m <= Len(binds)
      BY <2>1 DEF SetupInv, SetupTypeInv, WipedOK
    <3>. QED  BY <1>2, <1>5, <3>1 DEF BindNumbers
  <2>. QED  BY <1>1, <1>3, <1>5, <2>1 DEF SetupInv, SetupTypeInv, WipedOK
<1>10. ConfirmedInv'
  BY <1>1, <1>3 DEF SetupInv, ConfirmedInv, Calm
<1>11. Quiet' => touch.pending = ob.salt /\ Running = {}
  BY <1>1 DEF Quiet
<1>12. BoundInv'
  BY <1>1, <1>2, <1>3, <1>11 DEF BoundInv, Bound
<1>13. Quiet' => ~AnyGoing
  BY <1>11 DEF Running, AnyGoing, Underway, Provisionings
<1>. QED
  BY <1>1, <1>3, <1>6, <1>7, <1>8, <1>9, <1>10, <1>12, <1>13, AsideKeeps DEF SetupTypeInv

LEMMA DemoKeeps == ASSUME SetupInv, OnboardingAssumption, confirmDemoMode  PROVE SetupInv'
<1> DEFINE salt == IF ob.salt = 0 THEN salts + 1 ELSE ob.salt
           n == Len(binds) + 1
<1>1. /\ ob \in ObRec /\ touch \in TouchRec /\ salts \in SaltNumbers /\ ob.salt <= salts
      /\ step = "touch" /\ (ob.salt = 0 => salts < MaxSalts)
      /\ salts' = IF ob.salt = 0 THEN salts + 1 ELSE salts
      /\ ob' = [ob EXCEPT !.salt = salt, !.cred = n,
                      !.bound = TRUE, !.mode = "demo", !.quick = FALSE, !.prf = 0]
      /\ Len(binds) < MaxBinds /\ binds' = Append(binds, ob'.salt)
      /\ touch' = [touch EXCEPT !.phase = "success"]
      /\ UNCHANGED <<page, step, secret, runs, made, wiped, disk, sync, loaded, kept, exposure>>
  BY ControlsOn DEF confirmDemoMode, SetupInv, SetupTypeInv, ObOK, ObRec, WorkOK, CountersOK
<1>2. salt \in SaltNumbers /\ salt # 0 /\ salts' \in SaltNumbers /\ salt <= salts'
  BY <1>1, OnboardingAssumption DEF OnboardingAssumption, SaltNumbers, ObRec
<1>3. ob'.salt = salt
  BY <1>1 DEF ObRec
<1>4. /\ n = Len(binds') /\ n \in BindNumbers /\ binds' \in Seq(SaltNumbers)
      /\ n \in DOMAIN binds' /\ binds'[n] = salt
  BY <1>1, <1>2, <1>3, Bind
<1>5. Len(binds) \in Nat /\ n <= MaxBinds /\ 0 <= Len(binds')
  <2>1. binds \in Seq(SaltNumbers)
    BY DEF SetupInv, SetupTypeInv, CountersOK
  <2>. QED  BY <1>4, <2>1, BoundsAreNatural DEF BindNumbers
<1>. HIDE DEF salt
<1>6. /\ ob' \in ObRec /\ ob'.salt = salt /\ ob'.cred = n /\ ob'.mode = "demo" /\ ob'.prf = 0
      /\ ob'.key = ob.key /\ ob'.confirmed = ob.confirmed
  BY <1>1, <1>2, <1>4, ContentsHold DEF ObRec, Modes
<1>7. touch' \in TouchRec
  BY <1>1 DEF TouchRec
<1>8. PlaceOK' /\ StepOK' /\ CountersOK' /\ ObOK' /\ WorkOK'
  <2>1. PlaceOK' /\ StepOK'
    BY <1>1, <1>6 DEF SetupInv, SetupTypeInv, PlaceOK, StepOK
  <2>2. CountersOK' /\ WorkOK'
    BY <1>1, <1>2, <1>4, <1>5, <1>7 DEF SetupInv, SetupTypeInv, CountersOK, WorkOK
  <2>3. ObOK'
    BY <1>1, <1>2, <1>5, <1>6 DEF SetupInv, SetupTypeInv, ObOK
  <2>. QED  BY <2>1, <2>2, <2>3
<1>9. RunsOK'
  <2>. SUFFICES ASSUME NEW r \in Provisionings  PROVE runs[r].prf <= Len(binds')
    BY <1>1 DEF SetupInv, SetupTypeInv, RunsOK
  <2>1. runs[r].prf \in BindNumbers /\ runs[r].prf <= Len(binds)
    BY DEF SetupInv, SetupTypeInv, RunsOK, RunRec
  <2>. QED  BY <1>4, <1>5, <2>1 DEF BindNumbers
<1>10. DiskOK'
  BY <1>1 DEF SetupInv, SetupTypeInv, DiskOK
<1>11. WipedOK'
  <2>1. ASSUME NEW m \in BindNumbers, <<"prf", m>> \in wiped
        PROVE  0 < m /\ m <= Len(binds') /\ m # 0
    <3>1. 0 < m /\ m <= Len(binds)
      BY <2>1 DEF SetupInv, SetupTypeInv, WipedOK
    <3>. QED  BY <1>4, <1>5, <3>1 DEF BindNumbers
  <2>2. ASSUME NEW s \in SaltNumbers, <<"salt", s>> \in wiped
        PROVE  0 < s /\ s <= salts' /\ s # salt
    <3>1. 0 < s /\ s <= salts /\ s # ob.salt
      BY <2>2 DEF SetupInv, SetupTypeInv, WipedOK
    <3>. QED  BY <1>1, <3>1 DEF SaltNumbers, salt
  <2>. QED  BY <1>1, <1>6, <2>1, <2>2 DEF SetupInv, SetupTypeInv, WipedOK
<1>12. ConfirmedInv'
  BY <1>1, <1>6 DEF SetupInv, ConfirmedInv, Calm
<1>13. BoundInv'
  BY <1>2, <1>4, <1>6 DEF BoundInv, Bound
<1>14. Calm' => ~AnyGoing
  BY <1>1, NothingGoing DEF Calm
<1>15. Quiet' => Calm'
  BY DEF Quiet, Calm
<1>. QED
  BY <1>1, <1>6, <1>8, <1>9, <1>10, <1>11, <1>12, <1>13, <1>14, <1>15, AsideKeeps
  DEF SetupTypeInv


-----------------------------------------------------------------------------
(* The wizard: a step is left, and the calls of its component go on unseen. *)

LEMMA OldWorkTyped ==
  ASSUME SetupTypeInv
  PROVE  OldSecret \in SecretRec /\ OldTouch \in TouchRec
<1>1. secret \in SecretRec /\ touch \in TouchRec
  BY DEF SetupTypeInv, WorkOK
<1>2. secret.old + secret.mine \in Nat
  BY <1>1 DEF SecretRec
<1>3. OldSecret \in SecretRec
  BY <1>2 DEF OldSecret, SecretRec
<1>. QED  BY <1>1, <1>3 DEF OldTouch, TouchRec

LEMMA OldRunsAre ==
  ASSUME SetupTypeInv
  PROVE  /\ OldRuns \in [Provisionings -> RunRec]
         /\ \A r \in Provisionings :
              /\ OldRuns[r].pc = runs[r].pc /\ OldRuns[r].prf = runs[r].prf
              /\ OldRuns[r].mode = runs[r].mode /\ OldRuns[r].mounted = FALSE
<1>1. runs \in [Provisionings -> RunRec]
  BY DEF SetupTypeInv, RunsOK
<1>2. \A r \in Provisionings : OldRuns[r] = [runs[r] EXCEPT !.mounted = FALSE]
  BY DEF OldRuns, Provisionings
<1>3. ASSUME NEW r \in Provisionings  PROVE OldRuns[r] \in RunRec
  <2>1. runs[r] \in RunRec /\ OldRuns[r] = [runs[r] EXCEPT !.mounted = FALSE]
    BY <1>1, <1>2
  <2>. QED  BY <2>1 DEF RunRec
<1>. QED  BY <1>1, <1>2, <1>3 DEF OldRuns, Provisionings, RunRec

LEMMA StartRunIs ==
  ASSUME SetupTypeInv, OnboardingAssumption, \E r \in Provisionings : runs[r].pc = "unused"
  PROVE  \E r \in Provisionings :
           /\ StartRun(OldRuns) \in [Provisionings -> RunRec]
           /\ StartRun(OldRuns)[r].pc \in {"gate", "failed"} /\ StartRun(OldRuns)[r].prf = 0
           /\ \A q \in Provisionings \ {r} : StartRun(OldRuns)[q] = OldRuns[q]
<1> DEFINE r == CHOOSE r \in 1 .. MaxRuns : runs[r].pc = "unused"
           complete == ob.key # 0 /\ ob.cred # 0 /\ ob.mode # "none" /\ ob.salt # 0
           new == [NoRun EXCEPT !.pc = IF complete THEN "gate" ELSE "failed",
                                !.mounted = TRUE]
<1>1. r \in Provisionings
  BY DEF Provisionings
<1>2. StartRun(OldRuns) = [OldRuns EXCEPT ![r] = new]
  BY DEF StartRun
<1>3. new \in RunRec /\ new.pc \in {"gate", "failed"} /\ new.prf = 0
  BY EmptyIsOb DEF NoRun, RunRec, RunPcs, Ended
<1>. HIDE DEF new, r
<1>. QED  BY <1>1, <1>2, <1>3, OldRunsAre

(* What happens to the runs when a step is left or entered.                *)
Turned(new, run) ==
  /\ new.prf \in {0, run.prf}
  /\ \/ new.pc = run.pc /\ new.mode = run.mode
     \/ new.pc \in Ended \cup {"gate"}

LEMMA CountersNatural ==
  ASSUME CountersOK, OnboardingAssumption
  PROVE  0 <= Len(binds) /\ 0 <= salts /\ 0 <= made
<1>1. Len(binds) \in Nat
  BY DEF CountersOK
<1>2. salts \in Nat /\ made \in Nat
  BY BoundsAreNatural DEF CountersOK, SaltNumbers, KeyNumbers
<1>. QED  BY <1>1, <1>2

LEMMA TurnTyped ==
  ASSUME SetupTypeInv, OnboardingAssumption, UNCHANGED <<counters, disk, sync>>,
         page' \in {"home", "setup", "unlock", "vault"}, step' \in StepNames, StepOK',
         loaded' \in BOOLEAN, loaded' => loaded,
         exposure \subseteq exposure', exposure' \subseteq exposure \cup {"left provisioning"},
         secret' \in SecretRec, touch' \in TouchRec, ob' \in ObRec,
         ob'.key \in {0, ob.key}, ob'.salt \in {0, ob.salt}, ob'.prf \in {0, ob.prf},
         WipedOK', runs' \in [Provisionings -> RunRec],
         \A r \in Provisionings : Turned(runs'[r], runs[r])
  PROVE  SetupTypeInv'
<1>1. UNCHANGED <<binds, salts, made>>
  BY DEF counters
<1>2. PlaceOK' /\ CountersOK' /\ WorkOK'
  BY <1>1 DEF SetupTypeInv, PlaceOK, CountersOK, WorkOK
<1>3. 0 <= Len(binds) /\ 0 <= salts /\ 0 <= made
  BY CountersNatural DEF SetupTypeInv
<1>4. ObOK'
  <2>1. ob.key <= made /\ ob.salt <= salts /\ ob.prf <= Len(binds)
    BY DEF SetupTypeInv, ObOK
  <2>. QED  BY <1>1, <1>3, <2>1 DEF ObOK
<1>5. RunsOK'
  <2>. SUFFICES ASSUME NEW r \in Provisionings  PROVE runs'[r].prf <= Len(binds)
    BY <1>1 DEF RunsOK
  <2>1. runs'[r].prf \in {0, runs[r].prf}
    BY DEF Turned
  <2>. QED  BY <1>3, <2>1 DEF SetupTypeInv, RunsOK
<1>6. DiskOK'
  <2>1. ASSUME NEW r \in Provisionings
        PROVE  /\ runs'[r].pc = "saving" => runs'[r].mode # "none"
               /\ runs'[r].pc \in Saved => disk.exists
    BY DEF Turned, SetupTypeInv, DiskOK, Ended, Saved
  <2>. QED  BY <2>1 DEF SetupTypeInv, DiskOK
<1>. QED  BY <1>2, <1>4, <1>5, <1>6 DEF SetupTypeInv

LEMMA TurnKeeps ==
  ASSUME SetupInv, SetupTypeInv', UNCHANGED <<counters, disk, kept>>,
         exposure \subseteq exposure', loaded' => loaded,
         ConfirmedInv', GoingInv', BoundInv',
         Calm' => \A r \in Provisionings : runs'[r].pc \in Ended \cup {"gate"}
  PROVE  SetupInv'
<1>1. (Calm' => Calm) /\ (Quiet' => Calm')
  BY DEF Calm, Quiet
<1>2. KeyInv' /\ PasskeyInv'
  BY <1>1, IdleRun DEF KeyInv, PasskeyInv
<1>3. OpensUnlessDisturbed'
  BY OpensStill DEF SetupInv, SetupTypeInv, counters
<1>4. DoneMeansRecoverable'
  BY DEF SetupInv, DoneMeansRecoverable
<1>. QED  BY <1>2, <1>3, <1>4 DEF SetupInv

(* Nothing is bound anew: by the rows and the runs a vault is still made.  *)
LEMMA BoundTurns ==
  ASSUME BoundInv, UNCHANGED <<counters, disk>>, exposure \subseteq exposure',
         \A r \in Provisionings : Turned(runs'[r], runs[r]),
         \/ ob' = Empty
         \/ ob'.salt = ob.salt /\ ob'.prf = ob.prf /\ ob'.cred = ob.cred /\ ob'.mode = ob.mode
  PROVE  BoundInv'
<1>1. Making' => Making
  BY DEF Making, Turned, Saved, Ended
<1>2. Empty.mode = "none"
  BY DEF Empty
<1>. QED  BY <1>1, <1>2 DEF BoundInv, Quiet, Bound, counters

LEMMA MountIs ==
  ASSUME SetupInv, OnboardingAssumption, NEW s \in StepNames, Mount(s),
         s = "provision" => \E r \in Provisionings : runs[r].pc = "unused"
  PROVE  /\ step' = s /\ secret' \in SecretRec /\ touch' \in TouchRec
         /\ ob' \in ObRec /\ ob'.key = ob.key
         /\ ob'.salt = ob.salt /\ ob'.prf = ob.prf /\ ob'.cred = ob.cred /\ ob'.mode = ob.mode
         /\ ob'.confirmed => ob.confirmed
         /\ s # "secret" => ob'.confirmed = ob.confirmed
         /\ runs' = IF s = "provision" THEN StartRun(OldRuns) ELSE OldRuns
<1>1. ob \in ObRec
  BY DEF SetupInv, SetupTypeInv, ObOK
<1>2. secret' \in SecretRec /\ touch' \in TouchRec
  <2>1. OldSecret \in SecretRec /\ OldTouch \in TouchRec
    BY OldWorkTyped DEF SetupInv
  <2>. QED  BY <2>1, GeneratingTyped DEF Mount
<1>3. CASE s = "secret" /\ ob.key = 0
  <2>1. ob' = WithoutKey(ob)
    BY <1>3 DEF Mount
  <2>. QED  BY <1>1, <1>2, <1>3, <2>1 DEF WithoutKey, ObRec, Mount
<1>4. CASE s = "recovery"
  <2>1. ob' = [ob EXCEPT !.pwd = FALSE, !.pwdOk = FALSE]
    BY <1>4 DEF Mount
  <2>. QED  BY <1>1, <1>2, <1>4, <2>1 DEF ObRec, Mount
<1>5. CASE s # "recovery" /\ ~(s = "secret" /\ ob.key = 0)
  <2>1. ob' = ob
    BY <1>5 DEF Mount
  <2>. QED  BY <1>1, <1>2, <1>5, <2>1 DEF Mount
<1>. QED  BY <1>3, <1>4, <1>5

LEMMA StepsIndexed ==
  ASSUME NEW s \in StepNames
  PROVE  /\ Len(STEPS) = 6 /\ DOMAIN STEPS = 1 .. 6
         /\ Index(s) \in 1 .. 6 /\ STEPS[Index(s)] = s
         /\ (Index(s) < 6 => STEPS[Index(s) + 1] \in StepNames)
         /\ (Index(s) > 1 => STEPS[Index(s) - 1] \in StepNames)
         /\ \A i \in 1 .. 6 : STEPS[i] \in {"recovery", "touch", "provision"} <=> i >= 4
         /\ \A i \in 1 .. 6 : STEPS[i] = "provision" <=> i = 6
         /\ \A i \in 1 .. 6 : STEPS[i] = "secret" <=> i = 3
         /\ \A i \in 1 .. 6 : STEPS[i] = "touch" <=> i = 5
<1>1. DOMAIN STEPS = 1 .. 6 /\ Len(STEPS) = 6
  BY DEF STEPS
<1>2. \E i \in DOMAIN STEPS : STEPS[i] = s
  <2>1. /\ STEPS[1] = "welcome" /\ STEPS[2] = "identity" /\ STEPS[3] = "secret"
        /\ STEPS[4] = "recovery" /\ STEPS[5] = "touch" /\ STEPS[6] = "provision"
    BY DEF STEPS
  <2>. QED  BY <1>1, <2>1 DEF StepNames
<1>3. Index(s) \in 1 .. 6 /\ STEPS[Index(s)] = s
  BY <1>1, <1>2 DEF Index
<1>4. \A i \in 1 .. 6 : STEPS[i] \in StepNames
  BY DEF STEPS, StepNames
<1>5. /\ \A i \in 1 .. 6 : STEPS[i] \in {"recovery", "touch", "provision"} <=> i >= 4
      /\ \A i \in 1 .. 6 : STEPS[i] = "provision" <=> i = 6
      /\ \A i \in 1 .. 6 : STEPS[i] = "secret" <=> i = 3
      /\ \A i \in 1 .. 6 : STEPS[i] = "touch" <=> i = 5
  BY DEF STEPS
<1>. QED  BY <1>1, <1>3, <1>4, <1>5

LEMMA LeavingFlagged ==
  ASSUME LeftProvisioning
  PROVE  /\ exposure \subseteq exposure'
         /\ exposure' \subseteq exposure \cup {"left provisioning"}
         /\ Calm' => ~AnyGoing /\ Calm
<1>1. Running # {} => "left provisioning" \in exposure'
  BY DEF LeftProvisioning
<1>2. AnyGoing => Running # {}
  BY DEF AnyGoing, Underway, Running, Provisionings
<1>. QED  BY <1>1, <1>2 DEF LeftProvisioning, Calm

(* A mounted step, from a place where nothing is being made.               *)
LEMMA MountKeeps ==
  ASSUME SetupInv, OnboardingAssumption, NEW s \in StepNames, Mount(s), page = "setup",
         s = "provision" => \E r \in Provisionings : runs[r].pc = "unused",
         s \in {"recovery", "touch", "provision"} => ob.confirmed,
         UNCHANGED <<page, counters, wiped, disk, sync, loaded, kept>>,
         exposure \subseteq exposure', exposure' \subseteq exposure \cup {"left provisioning"},
         Calm' => ~AnyGoing /\ Calm
  PROVE  SetupInv'
<1>1. /\ step' = s /\ secret' \in SecretRec /\ touch' \in TouchRec
      /\ ob' \in ObRec /\ ob'.key = ob.key
      /\ ob'.salt = ob.salt /\ ob'.prf = ob.prf /\ ob'.cred = ob.cred /\ ob'.mode = ob.mode
      /\ ob'.confirmed => ob.confirmed
      /\ s # "secret" => ob'.confirmed = ob.confirmed
      /\ runs' = IF s = "provision" THEN StartRun(OldRuns) ELSE OldRuns
  BY MountIs
<1>2. SetupTypeInv
  BY DEF SetupInv
<1>3. /\ runs' \in [Provisionings -> RunRec]
      /\ \A r \in Provisionings : Turned(runs'[r], runs[r])
      /\ ~AnyGoing => \A r \in Provisionings : runs'[r].pc \in Ended \cup {"gate"}
      /\ ~AnyGoing /\ s # "provision" => ~AnyGoing'
      /\ ~AnyGoing /\ s = "provision" =>
           \A r, q \in Provisionings : Underway(r)' /\ (Underway(q)' \/ runs'[q].mounted) => q = r
  <2>1. CASE s # "provision"
    BY <1>1, <1>2, <2>1, OldRunsAre DEF Turned, AnyGoing, Underway
  <2>2. CASE s = "provision"
    <3>1. PICK n \in Provisionings :
            /\ runs' \in [Provisionings -> RunRec]
            /\ runs'[n].pc \in {"gate", "failed"} /\ runs'[n].prf = 0
            /\ \A q \in Provisionings \ {n} : runs'[q] = OldRuns[q]
      BY <1>1, <1>2, <2>2, StartRunIs
    <3>2. \A r \in Provisionings \ {n} :
            /\ runs'[r].pc = runs[r].pc /\ runs'[r].prf = runs[r].prf
            /\ runs'[r].mode = runs[r].mode /\ runs'[r].mounted = FALSE
      BY <1>2, <3>1, OldRunsAre
    <3>3. \A r \in Provisionings : Turned(runs'[r], runs[r])
      BY <3>1, <3>2 DEF Turned, Ended
    <3>. QED  BY <2>2, <3>1, <3>2, <3>3 DEF AnyGoing, Underway, Ended
  <2>. QED  BY <2>1, <2>2
<1>4. StepOK'
  BY <1>1 DEF StepOK
<1>5. WipedOK'
  BY <1>1, <1>2 DEF SetupTypeInv, WipedOK, counters
<1>6. SetupTypeInv'
  BY <1>1, <1>2, <1>3, <1>4, <1>5, TurnTyped DEF SetupTypeInv, PlaceOK
<1>7. ConfirmedInv'
  BY <1>1 DEF SetupInv, ConfirmedInv
<1>8. GoingInv'
  BY <1>1, <1>3 DEF GoingInv, AnyGoing
<1>9. BoundInv'
  BY <1>1, <1>3, BoundTurns DEF SetupInv
<1>. QED  BY <1>3, <1>6, <1>7, <1>8, <1>9, TurnKeeps

LEMMA NextKeeps == ASSUME SetupInv, OnboardingAssumption, next  PROVE SetupInv'
<1>1. step \in StepNames /\ (step \in {"recovery", "touch", "provision"} => ob.confirmed)
  BY DEF SetupInv, SetupTypeInv, PlaceOK, StepOK
<1> DEFINE i == Index(step)
           s == STEPS[i + 1]
<1>2. /\ i \in 1 .. 6 /\ i < 6 /\ i + 1 \in 1 .. 6 /\ STEPS[i] = step /\ s \in StepNames
      /\ CanAdvance /\ Mount(s) /\ page = "setup"
      /\ UNCHANGED <<page, counters, wiped, disk, sync, loaded, kept, exposure>>
  <2>1. i \in 1 .. 6 /\ STEPS[i] = step /\ (i < 6 => s \in StepNames) /\ Len(STEPS) = 6
    BY <1>1, StepsIndexed
  <2>. QED  BY <2>1 DEF next
<1>3. s = "provision" => step = "touch"
  BY <1>1, <1>2, StepsIndexed
<1>4. s = "provision" => \E r \in Provisionings : runs[r].pc = "unused"
  BY <1>3 DEF next, Provisionings
<1>5. s \in {"recovery", "touch", "provision"} => ob.confirmed
  <2>1. s \in {"recovery", "touch", "provision"} =>
          step \in {"secret", "recovery", "touch", "provision"}
    BY <1>1, <1>2, StepsIndexed
  <2>2. step = "secret" => ob.confirmed
    BY <1>2 DEF CanAdvance
  <2>. QED  BY <1>1, <2>1, <2>2
<1>6. Calm' => ~AnyGoing /\ Calm
  <2>1. step # "provision"
    BY <1>1, <1>2, StepsIndexed
  <2>. QED  BY <1>2, <2>1, NothingGoing DEF Calm
<1>. HIDE DEF s
<1>. QED  BY <1>2, <1>4, <1>5, <1>6, MountKeeps

LEMMA PrevKeeps == ASSUME SetupInv, OnboardingAssumption, prev  PROVE SetupInv'
<1>1. step \in StepNames /\ (step \in {"recovery", "touch", "provision"} => ob.confirmed)
  BY DEF SetupInv, SetupTypeInv, PlaceOK, StepOK
<1> DEFINE i == Index(step)
           s == STEPS[i - 1]
<1>2. /\ i \in 1 .. 6 /\ i > 1 /\ i - 1 \in 1 .. 6 /\ STEPS[i] = step /\ s \in StepNames
      /\ Mount(s) /\ page = "setup" /\ LeftProvisioning
      /\ UNCHANGED <<page, counters, wiped, disk, sync, loaded, kept>>
  BY <1>1, StepsIndexed DEF prev
<1>3. s # "provision"
  BY <1>1, <1>2, StepsIndexed
<1>4. s \in {"recovery", "touch", "provision"} => ob.confirmed
  BY <1>1, <1>2, StepsIndexed
<1>. HIDE DEF s
<1>. QED  BY <1>2, <1>3, <1>4, LeavingFlagged, MountKeeps

-----------------------------------------------------------------------------
(* The wizard is left, or begun again. *)

LEMMA LeaveKeeps ==
  ASSUME SetupInv, OnboardingAssumption,
         page' \in {"home", "setup", "unlock", "vault"},
         secret' \in SecretRec, touch' \in TouchRec,
         UNCHANGED <<store, counters, wiped, disk, sync, loaded, kept, exposure>>,
         runs' \in [Provisionings -> RunRec],
         \A r \in Provisionings : Turned(runs'[r], runs[r]),
         Calm => ~AnyGoing'
  PROVE  SetupInv'
<1>1. SetupTypeInv /\ UNCHANGED <<step, ob, binds, salts, made>>
  BY DEF SetupInv, store, counters
<1>2. /\ step' \in StepNames /\ StepOK' /\ WipedOK'
      /\ ob' \in ObRec /\ loaded \in BOOLEAN
  BY <1>1 DEF SetupTypeInv, PlaceOK, StepOK, WipedOK, ObOK
<1>3. SetupTypeInv'
  BY <1>1, <1>2, TurnTyped
<1>4. ConfirmedInv' /\ GoingInv'
  BY <1>1 DEF SetupInv, ConfirmedInv, GoingInv, Calm, AnyGoing
<1>5. BoundInv'
  BY <1>1, BoundTurns DEF SetupInv
<1>6. Calm' => \A r \in Provisionings : runs'[r].pc \in Ended
  BY DEF Calm, AnyGoing, Underway
<1>. QED  BY <1>3, <1>4, <1>5, <1>6, TurnKeeps

LEMMA EnterKeeps == ASSUME SetupInv, OnboardingAssumption, enterVault  PROVE SetupInv'
<1>1. SetupTypeInv
  BY DEF SetupInv
<1>2. PICK q \in Provisionings : runs[q].mounted /\ runs[q].pc = "done"
  BY DEF enterVault, ProvisionControls, On, Provisionings
<1>3. Calm => ~AnyGoing
  BY <1>2 DEF SetupInv, GoingInv, AnyGoing, Underway, Ended
<1>4. \A r \in Provisionings : Turned(OldRuns[r], runs[r])
  BY <1>1, OldRunsAre DEF Turned
<1>5. ~AnyGoing => ~AnyGoing'
  BY <1>1, OldRunsAre DEF enterVault, AnyGoing, Underway
<1>. QED
  BY <1>1, <1>3, <1>4, <1>5, OldWorkTyped, OldRunsAre, LeaveKeeps DEF enterVault

LEMMA ExistsKeeps ==
  ASSUME SetupInv, OnboardingAssumption, NEW r \in Provisionings, AccountExists(r)
  PROVE  SetupInv'
<1>1. SetupTypeInv
  BY DEF SetupInv
<1>2. /\ runs' = [OldRuns EXCEPT ![r].pc = "redirected"] /\ page' = "unlock"
      /\ secret' = OldSecret /\ touch' = OldTouch /\ Underway(r)
      /\ UNCHANGED <<store, counters, wiped, disk, sync, loaded, kept, exposure>>
  BY DEF AccountExists, Underway, Ended
<1>3. OldRuns \in [Provisionings -> RunRec]
  BY <1>1, OldRunsAre
<1>4. /\ runs' \in [Provisionings -> RunRec]
      /\ runs'[r].pc = "redirected" /\ runs'[r].prf = OldRuns[r].prf
      /\ \A q \in Provisionings \ {r} : runs'[q] = OldRuns[q]
  <2>1. OldRuns[r] \in RunRec
    BY <1>3
  <2>2. [OldRuns[r] EXCEPT !.pc = "redirected"] \in RunRec
    BY <2>1 DEF RunRec, RunPcs, Ended
  <2>3. /\ runs' = [OldRuns EXCEPT ![r] = [OldRuns[r] EXCEPT !.pc = "redirected"]]
        /\ [OldRuns[r] EXCEPT !.pc = "redirected"].pc = "redirected"
        /\ [OldRuns[r] EXCEPT !.pc = "redirected"].prf = OldRuns[r].prf
    BY <1>2, <1>3, <2>1 DEF RunRec
  <2>. QED  BY <1>3, <2>2, <2>3
<1>5. ASSUME NEW q \in Provisionings  PROVE Turned(runs'[q], runs[q])
  <2>1. /\ OldRuns[q].pc = runs[q].pc /\ OldRuns[q].prf = runs[q].prf
        /\ OldRuns[q].mode = runs[q].mode
    BY <1>1, OldRunsAre
  <2>. QED  BY <1>4, <2>1 DEF Turned, Ended
<1>6. Calm => \A q \in Provisionings : Underway(q) => q = r
  BY <1>2 DEF SetupInv, GoingInv
<1>7. Calm => ~AnyGoing'
  <2>1. \A q \in Provisionings : OldRuns[q].pc = runs[q].pc
    BY <1>1, OldRunsAre
  <2>2. Calm => \A q \in Provisionings : runs'[q].pc \in Ended
    BY <1>4, <1>6, <2>1 DEF Underway, Ended
  <2>. QED  BY <2>2 DEF AnyGoing, Underway
<1>. QED  BY <1>1, <1>2, <1>4, <1>5, <1>7, OldWorkTyped, LeaveKeeps

LEMMA ResetKeeps ==
  ASSUME SetupInv, OnboardingAssumption, reset, page' \in {"home", "setup", "unlock", "vault"},
         UNCHANGED <<counters, disk, sync, loaded, kept>>,
         exposure \subseteq exposure', exposure' \subseteq exposure \cup {"left provisioning"},
         Calm' => ~AnyGoing
  PROVE  SetupInv'
<1>1. /\ SetupTypeInv /\ loaded \in BOOLEAN
      /\ step' = "welcome" /\ ob' = Empty /\ wiped' = WipedByReset
      /\ secret' = OldSecret /\ touch' = OldTouch /\ runs' = OldRuns
  BY DEF reset, SetupInv, SetupTypeInv, PlaceOK
<1>2. WipedOK'
  BY <1>1, ResetWipes
<1>3. /\ Empty \in ObRec /\ Empty.key = 0 /\ Empty.salt = 0 /\ Empty.prf = 0
      /\ Empty.confirmed = FALSE
  BY EmptyIsOb DEF Empty
<1>4. step' \in StepNames /\ StepOK'
  BY <1>1 DEF StepNames, StepOK
<1>5. /\ runs' \in [Provisionings -> RunRec]
      /\ \A r \in Provisionings : Turned(runs'[r], runs[r])
      /\ ~AnyGoing => ~AnyGoing'
  BY <1>1, OldRunsAre DEF Turned, AnyGoing, Underway
<1>6. SetupTypeInv'
  BY <1>1, <1>2, <1>3, <1>4, <1>5, OldWorkTyped, TurnTyped
<1>7. ConfirmedInv' /\ GoingInv'
  BY <1>1, <1>3, <1>5 DEF ConfirmedInv, GoingInv, AnyGoing
<1>8. BoundInv'
  BY <1>1, <1>5, BoundTurns DEF SetupInv
<1>9. Calm' => \A r \in Provisionings : runs'[r].pc \in Ended
  BY <1>5 DEF AnyGoing, Underway
<1>. QED  BY <1>6, <1>7, <1>8, <1>9, TurnKeeps

LEMMA ExitKeeps ==
  ASSUME SetupInv, OnboardingAssumption, confirmExit \/ retryOnboarding
  PROVE  SetupInv'
<1>1. page' \in {"home", "setup", "unlock", "vault"}
  BY DEF confirmExit, retryOnboarding, SetupInv, SetupTypeInv, PlaceOK
<1>. QED  BY <1>1, LeavingFlagged, ResetKeeps DEF confirmExit, retryOnboarding

LEMMA RouteKeeps ==
  ASSUME SetupInv, OnboardingAssumption, routeExistingAccount
  PROVE  SetupInv'
<1>1. SetupTypeInv /\ (Calm => ~AnyGoing)
  BY NothingGoing DEF SetupInv, routeExistingAccount
<1>2. CASE disk.exists
  <2>1. /\ page' \in {"unlock", "vault"}
        /\ UNCHANGED <<store, secret, touch, runs, wiped>>
        /\ UNCHANGED <<counters, disk, sync, loaded, kept, exposure>>
    BY <1>2 DEF routeExistingAccount, work
  <2>2. /\ secret' \in SecretRec /\ touch' \in TouchRec
        /\ runs' \in [Provisionings -> RunRec]
    BY <1>1, <2>1 DEF SetupTypeInv, WorkOK, RunsOK
  <2>3. \A r \in Provisionings : Turned(runs'[r], runs[r])
    BY <2>1 DEF Turned
  <2>4. Calm => ~AnyGoing'
    BY <1>1, <2>1 DEF AnyGoing, Underway
  <2>. QED  BY <2>1, <2>2, <2>3, <2>4, LeaveKeeps
<1>3. CASE ~disk.exists
  <2>1. /\ page' = "setup" /\ reset
        /\ UNCHANGED <<counters, disk, sync, loaded, kept, exposure>>
    BY <1>3 DEF routeExistingAccount
  <2>2. Calm' => ~AnyGoing
    BY <1>1, <2>1 DEF Calm
  <2>. QED  BY <2>1, <2>2, ResetKeeps
<1>. QED  BY <1>2, <1>3

LEMMA ReloadKeeps == ASSUME SetupInv, OnboardingAssumption, Reload  PROVE SetupInv'
<1>1. /\ SetupTypeInv /\ page' = "home" /\ step' = "welcome" /\ ob' = Empty
      /\ secret' = IdleSecret /\ touch' = IdleTouch /\ loaded' = FALSE
      /\ UNCHANGED <<counters, wiped, disk, sync, kept, exposure>>
      /\ UNCHANGED <<binds, salts, made>>
  BY DEF Reload, SetupInv, counters
<1>2. /\ Empty \in ObRec /\ Empty.key = 0 /\ Empty.salt = 0 /\ Empty.prf = 0
      /\ Empty.confirmed = FALSE
  BY EmptyIsOb DEF Empty
<1>3. IdleSecret \in SecretRec /\ IdleTouch \in TouchRec
  BY ContentsHold DEF IdleSecret, SecretRec, IdleTouch, TouchRec
<1>4. /\ runs' \in [Provisionings -> RunRec]
      /\ \A r \in Provisionings : Turned(runs'[r], runs[r]) /\ runs'[r].pc \in Ended
  <2> DEFINE lost == [NoRun EXCEPT !.pc = "failed"]
  <2>1. lost \in RunRec /\ lost.pc = "failed" /\ lost.prf = 0
    BY EmptyIsOb DEF NoRun, RunRec, RunPcs, Ended
  <2>2. runs' = [r \in Provisionings |-> IF r \in Running THEN lost ELSE OldRuns[r]]
    BY DEF Reload, OldRuns, Provisionings
  <2>3. \A r \in Provisionings : r \notin Running => OldRuns[r].pc \in Ended
    BY <1>1, OldRunsAre DEF Running, Provisionings
  <2>. HIDE DEF lost
  <2>. QED  BY <1>1, <2>1, <2>2, <2>3, OldRunsAre DEF Turned, Ended
<1>5. step' \in StepNames /\ StepOK' /\ ~AnyGoing'
  BY <1>1, <1>4 DEF StepNames, StepOK, AnyGoing, Underway
<1>6. WipedOK'
  <2>1. /\ \A k \in KeyNumbers : <<"key", k>> \in wiped => k # 0
        /\ \A n \in SaltNumbers : <<"salt", n>> \in wiped => n # 0
        /\ \A n \in BindNumbers : <<"prf", n>> \in wiped => n # 0
    BY <1>1 DEF SetupTypeInv, WipedOK
  <2>. QED  BY <1>1, <1>2, <2>1 DEF SetupTypeInv, WipedOK
<1>7. SetupTypeInv'
  BY <1>1, <1>2, <1>3, <1>4, <1>5, <1>6, TurnTyped
<1>8. ConfirmedInv' /\ GoingInv'
  BY <1>1, <1>2, <1>5 DEF ConfirmedInv, GoingInv, AnyGoing
<1>9. BoundInv'
  BY <1>1, <1>4, BoundTurns DEF SetupInv
<1>. QED  BY <1>1, <1>4, <1>7, <1>8, <1>9, TurnKeeps

-----------------------------------------------------------------------------
(* A provisioning goes on by one stretch. *)

LEMMA OnwardKeeps ==
  ASSUME SetupInv, OnboardingAssumption, NEW r \in Provisionings, NEW new \in RunRec,
         KeepPage, exposure' = exposure, Underway(r), runs' = [runs EXCEPT ![r] = new],
         new.mounted = runs[r].mounted, new.prf <= Len(binds),
         disk' \in DiskRec, disk'.exists <=> disk'.mode # "none",
         disk'.opaque # 0 \/ disk'.envelope # 0 \/ disk'.quick # 0 => disk'.exists,
         disk.exists => disk'.exists,
         new.pc = "saving" => new.mode # "none",
         new.pc \in Saved => disk'.exists /\ (disk.exists => runs[r].pc \in Saved),
         Calm => RunKey(new, ob, disk', loaded) /\ (disk' = disk \/ ~loaded),
         Quiet => RunPasskey(new, ob, disk') /\ (disk' = disk \/ AccountOpens')
  PROVE  SetupInv'
<1>1. /\ SetupTypeInv
      /\ UNCHANGED <<page, step, ob, secret, touch, binds, salts, made, wiped, sync, loaded,
                     kept, exposure>>
  BY DEF SetupInv, KeepPage, store, counters
<1>2. (Calm' => Calm) /\ (Quiet' => Quiet) /\ (Quiet => Calm)
  BY <1>1 DEF Calm, Quiet
<1>3. /\ runs \in [Provisionings -> RunRec] /\ runs' \in [Provisionings -> RunRec]
      /\ runs'[r] = new /\ \A q \in Provisionings \ {r} : runs'[q] = runs[q]
  BY <1>1 DEF SetupTypeInv, RunsOK
<1>4. PlaceOK' /\ StepOK' /\ CountersOK' /\ ObOK' /\ WorkOK' /\ WipedOK'
  BY <1>1 DEF SetupTypeInv, PlaceOK, StepOK, CountersOK, ObOK, WorkOK, WipedOK
<1>5. RunsOK'
  <2>1. \A q \in Provisionings : runs'[q].prf <= Len(binds)
    BY <1>1, <1>3 DEF SetupTypeInv, RunsOK
  <2>. QED  BY <1>1, <1>3, <2>1 DEF RunsOK
<1>6. DiskOK'
  <2>1. ASSUME NEW q \in Provisionings
        PROVE  /\ runs'[q].pc = "saving" => runs'[q].mode # "none"
               /\ runs'[q].pc \in Saved => disk'.exists
    BY <1>1, <1>3 DEF SetupTypeInv, DiskOK
  <2>. QED  BY <1>1, <2>1 DEF SetupTypeInv, DiskOK
<1>7. Calm => \A q \in Provisionings \ {r} : runs'[q].pc \in Ended /\ ~runs'[q].mounted
  BY <1>3 DEF SetupInv, GoingInv, Underway
<1>8. GoingInv'
  <2>. SUFFICES ASSUME Calm
                PROVE  /\ page = "setup" /\ step = "provision"
                       /\ \A p, q \in Provisionings :
                            Underway(p)' /\ (Underway(q)' \/ runs'[q].mounted) => q = p
    BY <1>1, <1>2 DEF GoingInv
  <2>1. page = "setup" /\ step = "provision"
    BY DEF SetupInv, GoingInv
  <2>. QED  BY <1>3, <1>7, <2>1 DEF Underway
<1>9. KeyInv' /\ PasskeyInv'
  <2>1. ASSUME Calm, NEW q \in Provisionings
        PROVE  RunKey(runs'[q], ob', disk', loaded')
    BY <1>1, <1>3, <1>7, <2>1, IdleRun
  <2>2. ASSUME Quiet, NEW q \in Provisionings
        PROVE  RunPasskey(runs'[q], ob', disk')
    BY <1>1, <1>2, <1>3, <1>7, <2>2, IdleRun
  <2>. QED  BY <1>2, <2>1, <2>2 DEF KeyInv, PasskeyInv
<1>10. ConfirmedInv'
  BY <1>1, <1>2 DEF SetupInv, ConfirmedInv
<1>11. BoundInv'
  <2>1. Making' => Making
    BY <1>3 DEF Making
  <2>. QED  BY <1>1, <1>2, <2>1 DEF SetupInv, BoundInv
<1>12. OpensUnlessDisturbed'
  <2>1. CASE disk' = disk
    BY <1>1, <2>1, OpensStill DEF SetupInv, SetupTypeInv
  <2>2. CASE disk' # disk
    BY <1>2, <2>2 DEF OpensUnlessDisturbed, Quiet
  <2>. QED  BY <2>1, <2>2
<1>13. DoneMeansRecoverable'
  BY <1>1 DEF SetupInv, DoneMeansRecoverable, Calm
<1>. QED
  BY <1>4, <1>5, <1>6, <1>8, <1>9, <1>10, <1>11, <1>12, <1>13 DEF SetupInv, SetupTypeInv

(* The same, with the rows left as they are.                               *)
LEMMA StretchKeeps ==
  ASSUME SetupInv, OnboardingAssumption, NEW r \in Provisionings, NEW new \in RunRec,
         KeepPage, exposure' = exposure, disk' = disk, Underway(r),
         runs' = [runs EXCEPT ![r] = new], new.mounted = runs[r].mounted, new.prf <= Len(binds),
         new.pc = "saving" => new.mode # "none",
         new.pc \in Saved => runs[r].pc \in Saved,
         Calm => RunKey(new, ob, disk, loaded),
         Quiet => RunPasskey(new, ob, disk)
  PROVE  SetupInv'
<1>1. /\ disk \in DiskRec
      /\ disk.exists <=> disk.mode # "none"
      /\ disk.opaque # 0 \/ disk.envelope # 0 \/ disk.quick # 0 => disk.exists
      /\ runs[r].pc \in Saved => disk.exists
  BY DEF SetupInv, SetupTypeInv, DiskOK
<1>2. /\ disk' \in DiskRec
      /\ disk'.exists <=> disk'.mode # "none"
      /\ disk'.opaque # 0 \/ disk'.envelope # 0 \/ disk'.quick # 0 => disk'.exists
      /\ disk.exists => disk'.exists
      /\ new.pc \in Saved => disk'.exists /\ (disk.exists => runs[r].pc \in Saved)
  BY <1>1
<1>3. /\ Calm => RunKey(new, ob, disk', loaded) /\ (disk' = disk \/ ~loaded)
      /\ Quiet => RunPasskey(new, ob, disk') /\ (disk' = disk \/ AccountOpens')
  OBVIOUS
<1>. QED  BY <1>2, <1>3, OnwardKeeps

LEMMA RunTyped ==
  ASSUME SetupInv, NEW r \in Provisionings
  PROVE  /\ runs[r] \in RunRec /\ runs[r].prf <= Len(binds)
         /\ ob \in ObRec /\ disk \in DiskRec /\ ob.prf <= Len(binds)
         /\ Calm => RunKey(runs[r], ob, disk, loaded)
         /\ Quiet => Calm /\ RunPasskey(runs[r], ob, disk)
         /\ runs[r].pc \in Saved => disk.exists
         /\ SetupTypeInv
BY DEF SetupInv, SetupTypeInv, RunsOK, ObOK, DiskOK, KeyInv, PasskeyInv, Quiet, Calm

(* It waits, or fails, where it is not yet at the rows.                    *)
LEMMA EarlyKeeps ==
  ASSUME SetupInv, OnboardingAssumption, NEW r \in Provisionings,
         NEW pc \in {"loading", "failed"}, Underway(r), Continue(r, pc),
         KeepPage, UNCHANGED <<exposure, disk>>
  PROVE  SetupInv'
<1> DEFINE new == [runs[r] EXCEPT !.pc = pc]
<1>1. runs[r] \in RunRec /\ runs[r].prf <= Len(binds)
  BY RunTyped
<1>2. /\ new \in RunRec /\ new.pc = pc /\ new.mounted = runs[r].mounted
      /\ new.prf = runs[r].prf
  BY <1>1 DEF RunRec, RunPcs, Ended
<1>3. runs' = [runs EXCEPT ![r] = new]
  BY DEF Continue
<1>4. /\ RunKey(new, ob, disk, loaded) /\ RunPasskey(new, ob, disk)
      /\ new.pc \notin Saved \cup {"saving"}
  BY <1>2, IdleRun DEF Ended
<1>. HIDE DEF new
<1>. QED  BY <1>1, <1>2, <1>3, <1>4, StretchKeeps

(* The recovery envelope is next: its stretch begins with the store's key. *)
LEMMA EnvelopingIs ==
  ASSUME OnboardingAssumption, ob \in ObRec, NEW run \in RunRec, NEW d, NEW in
  PROVE  /\ Enveloping(run) \in RunRec
         /\ Enveloping(run).pc \in {"stretching", "failed"}
         /\ Enveloping(run).prf = run.prf /\ Enveloping(run).mounted = run.mounted
         /\ HoldsKey(d, ob, in) => RunKey(Enveloping(run), ob, d, in)
         /\ HoldsPasskey(d, ob) /\ run.prf = ob.prf => RunPasskey(Enveloping(run), ob, d)
<1>1. CASE ob.pwd /\ ob.key # 0
  <2>1. Enveloping(run) = [run EXCEPT !.pc = "stretching", !.key = ob.key]
    BY <1>1 DEF Enveloping
  <2>2. /\ Enveloping(run) \in RunRec
        /\ Enveloping(run).pc = "stretching" /\ Enveloping(run).key = ob.key
        /\ Enveloping(run).prf = run.prf /\ Enveloping(run).mounted = run.mounted
    BY <2>1 DEF RunRec, RunPcs, Saved, ObRec
  <2>. QED  BY <2>2 DEF RunKey, RunPasskey
<1>2. CASE ~(ob.pwd /\ ob.key # 0)
  <2>1. Enveloping(run) = [run EXCEPT !.pc = "failed"]
    BY <1>2 DEF Enveloping
  <2>2. /\ Enveloping(run) \in RunRec /\ Enveloping(run).pc = "failed"
        /\ Enveloping(run).prf = run.prf /\ Enveloping(run).mounted = run.mounted
    BY <2>1 DEF RunRec, RunPcs, Ended
  <2>. QED  BY <2>2, IdleRun DEF Ended
<1>. QED  BY <1>1, <1>2

LEMMA EnvelopingKeeps ==
  ASSUME SetupInv, OnboardingAssumption, NEW r \in Provisionings,
         runs[r].pc \in Saved, ToEnvelope(r), KeepPage, UNCHANGED <<exposure, disk>>
  PROVE  SetupInv'
<1> DEFINE new == Enveloping(runs[r])
<1>1. /\ runs[r] \in RunRec /\ runs[r].prf <= Len(binds) /\ ob \in ObRec
      /\ Calm => RunKey(runs[r], ob, disk, loaded)
      /\ Quiet => Calm /\ RunPasskey(runs[r], ob, disk)
  BY RunTyped
<1>2. /\ Calm => HoldsKey(disk, ob, loaded)
      /\ Quiet => HoldsPasskey(disk, ob) /\ runs[r].prf = ob.prf
  BY <1>1 DEF RunKey, RunPasskey
<1>3. /\ new \in RunRec /\ new.pc \in {"stretching", "failed"}
      /\ new.prf = runs[r].prf /\ new.mounted = runs[r].mounted
      /\ Calm => RunKey(new, ob, disk, loaded)
      /\ Quiet => RunPasskey(new, ob, disk)
  BY <1>1, <1>2, EnvelopingIs
<1>4. runs' = [runs EXCEPT ![r] = new] /\ Underway(r)
  BY DEF ToEnvelope, Underway, Saved, Ended
<1>. HIDE DEF new
<1>. QED  BY <1>1, <1>3, <1>4, StretchKeeps

(* The rows name what the store holds: the vault opens.                    *)
LEMMA SavingIs ==
  ASSUME SetupInv, OnboardingAssumption, NEW r \in Provisionings, Underway(r)
  PROVE  /\ Calm /\ ob.key # 0 => ob.key \in kept
         /\ Quiet /\ ~disk.exists => Bound(ob, binds)
         /\ Quiet /\ runs[r].pc \in Saved => Bound(ob, binds)
<1>1. Calm => step = "provision" /\ ob.confirmed
  BY DEF SetupInv, SetupTypeInv, GoingInv, StepOK
<1>. QED  BY <1>1 DEF SetupInv, ConfirmedInv, BoundInv, Making

LEMMA ProvisionKeeps ==
  ASSUME SetupInv, OnboardingAssumption, NEW r \in Provisionings, provisionVault(r)
  PROVE  SetupInv'
<1> DEFINE prf == IF ob.mode = "demo" THEN ob.cred ELSE Read("prf", ob.prf)
           ready == ob.key # 0 /\ ob.salt # 0 /\ ob.mode # "none"
                      /\ (ob.mode = "production" => ob.prf # 0)
           sealed == <<Read("key", ob.key), prf, Read("salt", ob.salt)>>
           new == [runs[r] EXCEPT !.pc = "saving", !.salt = ob.salt, !.prf = ob.prf,
                                  !.cred = ob.cred, !.mode = ob.mode, !.vault = sealed]
<1>1. /\ runs[r].pc = "loading" /\ KeepPage /\ UNCHANGED <<disk, exposure>> /\ Underway(r)
      /\ runs' = [runs EXCEPT ![r] = IF ~ready THEN [runs[r] EXCEPT !.pc = "failed"] ELSE new]
  BY DEF provisionVault, Underway, Ended
<1>2. CASE ~ready
  <2>1. Continue(r, "failed")
    BY <1>1, <1>2 DEF Continue
  <2>. QED  BY <1>1, <2>1, EarlyKeeps
<1>3. CASE ready
  <2>1. /\ runs[r] \in RunRec /\ ob \in ObRec /\ ob.prf <= Len(binds)
        /\ Read("key", ob.key) = ob.key /\ Read("salt", ob.salt) = ob.salt
        /\ Read("prf", ob.prf) = ob.prf
    BY RunTyped, StoreUnwiped
  <2>2. /\ ob.key \in KeyNumbers /\ ob.salt \in SaltNumbers /\ ob.prf \in BindNumbers
        /\ ob.cred \in BindNumbers /\ ob.mode \in Modes
    BY <2>1 DEF ObRec
  <2>3. sealed \in Contents \X Contents \X Contents
    BY <2>1, <2>2, ContentsHold
  <2>4. sealed[1] = ob.key /\ sealed[3] = ob.salt
    BY <2>1
  <2>5. Quiet /\ ~disk.exists => sealed[2] = ob.cred
    <3>1. Quiet /\ ~disk.exists => Bound(ob, binds)
      BY <1>1, SavingIs
    <3>. QED  BY <1>3, <2>1, <2>2, <3>1 DEF Bound, Modes
  <2>. HIDE DEF sealed
  <2>6. /\ new \in RunRec /\ new.pc = "saving" /\ new.mounted = runs[r].mounted
        /\ new.prf = ob.prf /\ new.salt = ob.salt /\ new.cred = ob.cred /\ new.mode = ob.mode
        /\ new.vault = sealed
    BY <2>1, <2>2, <2>3 DEF RunRec, RunPcs
  <2>7. runs' = [runs EXCEPT ![r] = new]
    BY <1>1, <1>3
  <2>. HIDE DEF new
  <2>8. Calm => RunKey(new, ob, disk, loaded)
    BY <1>3, <2>4, <2>6 DEF RunKey, Saved
  <2>9. Quiet => RunPasskey(new, ob, disk)
    BY <1>3, <2>4, <2>5, <2>6 DEF RunPasskey, Saved
  <2>10. new.pc \notin Saved
    BY <2>6 DEF Saved
  <2>. QED  BY <1>1, <1>3, <2>1, <2>6, <2>7, <2>8, <2>9, <2>10, StretchKeeps
<1>. QED  BY <1>2, <1>3

LEMMA SaveKeeps ==
  ASSUME SetupInv, OnboardingAssumption, NEW r \in Provisionings, saveAccountAndVault(r)
  PROVE  SetupInv'
<1> DEFINE run == runs[r]
           new == IF sync /\ ob.mode = "production" THEN [run EXCEPT !.pc = "enrolling"]
                                                    ELSE Enveloping(run)
<1>1. /\ run.pc = "saving" /\ ~disk.exists /\ KeepPage /\ exposure' = exposure /\ Underway(r)
      /\ disk' = [NoRows EXCEPT !.exists = TRUE, !.key = run.vault[1],
                    !.prf = run.vault[2], !.derived = run.vault[3],
                    !.salt = Read("salt", run.salt), !.cred = run.cred, !.mode = run.mode]
      /\ runs' = [runs EXCEPT ![r] = new]
  BY DEF saveAccountAndVault, ToEnvelope, Continue, Underway, Ended
<1>2. /\ run \in RunRec /\ run.prf <= Len(binds) /\ ob \in ObRec
      /\ Calm => RunKey(run, ob, disk, loaded)
      /\ Quiet => Calm /\ RunPasskey(run, ob, disk)
      /\ Read("salt", ob.salt) = ob.salt
  BY RunTyped, StoreUnwiped
<1>3. ~loaded /\ run.mode # "none"
  BY <1>1 DEF SetupInv, SetupTypeInv, DiskOK
<1>4. /\ run.vault[1] \in Contents /\ run.vault[2] \in Contents /\ run.vault[3] \in Contents
      /\ Read("salt", run.salt) \in Contents /\ run.cred \in BindNumbers /\ run.mode \in Modes
  BY <1>2, ContentsHold DEF RunRec
<1>. HIDE DEF new
<1>5. /\ disk' \in DiskRec /\ disk'.exists = TRUE /\ disk'.key = run.vault[1]
      /\ disk'.prf = run.vault[2] /\ disk'.derived = run.vault[3]
      /\ disk'.salt = Read("salt", run.salt) /\ disk'.cred = run.cred /\ disk'.mode = run.mode
      /\ disk'.opaque = 0 /\ disk'.quick = 0 /\ disk'.envelope = 0
  BY <1>1, <1>4, ContentsHold DEF NoRows, DiskRec
<1>6. Calm => HoldsKey(disk', ob, loaded)
  BY <1>1, <1>2, <1>3, <1>5 DEF HoldsKey, RunKey
<1>7. Quiet => HoldsPasskey(disk', ob) /\ run.prf = ob.prf
  BY <1>1, <1>2, <1>5 DEF HoldsPasskey, RunPasskey
<1>8. /\ new \in RunRec /\ new.mounted = run.mounted /\ new.prf = run.prf
      /\ new.pc \in {"enrolling", "stretching", "failed"}
      /\ Calm => RunKey(new, ob, disk', loaded)
      /\ Quiet => RunPasskey(new, ob, disk')
  <2>1. CASE sync /\ ob.mode = "production"
    <3>1. new = [run EXCEPT !.pc = "enrolling"]
      BY <2>1 DEF new
    <3>2. /\ new \in RunRec /\ new.pc = "enrolling" /\ new.mounted = run.mounted
          /\ new.prf = run.prf
      BY <1>2, <3>1 DEF RunRec, RunPcs, Saved
    <3>. QED  BY <1>6, <1>7, <3>2 DEF RunKey, RunPasskey
  <2>2. CASE ~(sync /\ ob.mode = "production")
    <3>1. new = Enveloping(run)
      BY <2>2 DEF new
    <3>. QED  BY <1>2, <1>6, <1>7, <3>1, EnvelopingIs
  <2>. QED  BY <2>1, <2>2
<1>9. Quiet => AccountOpens'
  <2>. SUFFICES ASSUME Quiet  PROVE AccountOpens'
    OBVIOUS
  <2>1. Bound(ob, binds) /\ (ob.key # 0 => ob.key \in kept)
    BY <1>1, <1>2, SavingIs
  <2>2. /\ disk'.key = ob.key /\ ob.key # 0 /\ disk'.prf = ob.cred /\ disk'.cred = ob.cred
        /\ disk'.derived = ob.salt /\ disk'.salt = ob.salt /\ ob.mode # "none"
    BY <1>2, <1>6, <1>7 DEF HoldsKey, HoldsPasskey
  <2>. QED  BY <1>1, <1>5, <2>1, <2>2 DEF AccountOpens, Bound, KeepPage, counters
<1>10. /\ new.pc # "saving" /\ run.pc \notin Ended
       /\ disk'.exists <=> disk'.mode # "none"
  BY <1>1, <1>3, <1>5, <1>8 DEF Ended
<1>. HIDE DEF run
<1>. QED
  <2>1. run = runs[r]
    BY DEF run
  <2>. QED  BY <1>1, <1>2, <1>3, <1>5, <1>8, <1>9, <1>10, <2>1, OnwardKeeps

(* The steps of the enrolment, and of the envelope, that leave the rows.   *)
LEMMA EnrolKeeps ==
  ASSUME SetupInv, OnboardingAssumption, NEW r \in Provisionings,
         register(r) \/ Registered(r) \/ rotateAuth(r)
  PROVE  SetupInv'
<1>1. /\ runs \in [Provisionings -> RunRec]
      /\ runs[r] \in RunRec /\ runs[r].prf <= Len(binds) /\ ob \in ObRec /\ disk \in DiskRec
      /\ Calm => RunKey(runs[r], ob, disk, loaded)
      /\ Quiet => Calm /\ RunPasskey(runs[r], ob, disk)
      /\ Read("key", ob.key) = ob.key /\ Read("prf", ob.prf) = ob.prf
  BY RunTyped, StoreUnwiped DEF SetupInv, SetupTypeInv, RunsOK
<1>2. /\ KeepPage /\ exposure' = exposure /\ disk' = disk
      /\ runs[r].pc \in Saved /\ Underway(r)
  BY DEF register, Registered, rotateAuth, Underway, Saved, Ended
<1>3. /\ Calm => HoldsKey(disk, ob, loaded)
      /\ Quiet => HoldsPasskey(disk, ob) /\ runs[r].prf = ob.prf
  BY <1>1, <1>2 DEF RunKey, RunPasskey
<1>4. ob.key \in Contents /\ Read("key", ob.key) \in Contents /\ ob.key \in KeyNumbers
  BY <1>1, ContentsHold DEF ObRec
<1>5. CASE register(r) /\ ob.key # 0
  <2> DEFINE new == [runs[r] EXCEPT !.pc = "registering", !.password = Read("key", ob.key)]
  <2>1. runs' = [runs EXCEPT ![r] = new]
    BY <1>1, <1>5 DEF register
  <2>2. /\ new \in RunRec /\ new.pc = "registering" /\ new.password = ob.key
        /\ new.mounted = runs[r].mounted /\ new.prf = runs[r].prf
    BY <1>1, <1>4 DEF RunRec, RunPcs, Saved
  <2>. HIDE DEF new
  <2>3. /\ Calm => RunKey(new, ob, disk, loaded)
        /\ Quiet => RunPasskey(new, ob, disk)
    BY <1>3, <2>2 DEF RunKey, RunPasskey
  <2>. QED  BY <1>1, <1>2, <2>1, <2>2, <2>3, StretchKeeps
<1>6. CASE Registered(r) /\ ob.key # 0
  <2> DEFINE new == [runs[r] EXCEPT !.pc = "rotating", !.key = ob.key]
  <2>1. runs' = [runs EXCEPT ![r] = new] /\ runs[r].pc = "registering"
    BY <1>1, <1>6 DEF Registered
  <2>2. /\ new \in RunRec /\ new.pc = "rotating" /\ new.key = ob.key
        /\ new.password = runs[r].password
        /\ new.mounted = runs[r].mounted /\ new.prf = runs[r].prf
    BY <1>1, <1>4 DEF RunRec, RunPcs, Saved
  <2>. HIDE DEF new
  <2>3. /\ Calm => RunKey(new, ob, disk, loaded)
        /\ Quiet => RunPasskey(new, ob, disk)
    BY <1>1, <1>3, <2>1, <2>2 DEF RunKey, RunPasskey
  <2>. QED  BY <1>1, <1>2, <2>1, <2>2, <2>3, StretchKeeps
<1>7. CASE rotateAuth(r)
  <2> DEFINE sealed == <<Read("key", runs[r].key),
                         IF disk.mode = "demo" THEN disk.cred ELSE Read("prf", runs[r].prf),
                         disk.salt>>
             new == [runs[r] EXCEPT !.pc = "resealing", !.vault = sealed]
  <2>1. runs' = [runs EXCEPT ![r] = new] /\ runs[r].pc = "rotating"
    BY <1>1, <1>7 DEF rotateAuth
  <2>2. sealed \in Contents \X Contents \X Contents
    <3>1. /\ runs[r].key \in Contents /\ runs[r].prf \in Contents
          /\ disk.cred \in Contents /\ disk.salt \in Contents
      BY <1>1, ContentsHold DEF RunRec, DiskRec
    <3>. QED  BY <3>1, ContentsHold
  <2>3. Calm => sealed[1] = ob.key
    BY <1>1, <2>1 DEF RunKey
  <2>4. Quiet => sealed[2] = ob.cred /\ sealed[3] = ob.salt
    <3>1. Quiet => Bound(ob, binds)
      BY <1>2, SavingIs
    <3>2. ob.mode \in Modes
      BY <1>1 DEF ObRec
    <3>. QED  BY <1>1, <1>3, <3>1, <3>2 DEF HoldsPasskey, Bound, Modes
  <2>. HIDE DEF sealed
  <2>5. /\ new \in RunRec /\ new.pc = "resealing" /\ new.vault = sealed
        /\ new.password = runs[r].password
        /\ new.mounted = runs[r].mounted /\ new.prf = runs[r].prf
    BY <1>1, <2>2 DEF RunRec, RunPcs, Saved
  <2>. HIDE DEF new
  <2>6. /\ Calm => RunKey(new, ob, disk, loaded)
        /\ Quiet => RunPasskey(new, ob, disk)
    BY <1>1, <1>3, <2>1, <2>3, <2>4, <2>5 DEF RunKey, RunPasskey
  <2>. QED  BY <1>1, <1>2, <2>1, <2>5, <2>6, StretchKeeps
<1>8. CASE ob.key = 0 /\ (register(r) \/ Registered(r))
  <2>1. ToEnvelope(r)
    BY <1>8 DEF register, Registered
  <2>. QED  BY <1>2, <2>1, EnvelopingKeeps
<1>. QED  BY <1>5, <1>6, <1>7, <1>8

LEMMA ResealKeeps ==
  ASSUME SetupInv, OnboardingAssumption, NEW r \in Provisionings, Resealed(r)
  PROVE  SetupInv'
<1> DEFINE run == runs[r]
           new == [run EXCEPT !.pc = "login"]
<1>1. /\ run \in RunRec /\ run.prf <= Len(binds) /\ ob \in ObRec /\ disk \in DiskRec
      /\ Calm => RunKey(run, ob, disk, loaded)
      /\ Quiet => Calm /\ RunPasskey(run, ob, disk)
      /\ run.pc \in Saved => disk.exists
  BY RunTyped
<1>2. /\ run.pc = "resealing" /\ run.pc \in Saved /\ KeepPage /\ exposure' = exposure /\ Underway(r)
      /\ disk' = [disk EXCEPT !.key = run.vault[1], !.prf = run.vault[2],
                              !.derived = run.vault[3], !.opaque = run.password]
      /\ runs' = [runs EXCEPT ![r] = new]
  BY DEF Resealed, Continue, Underway, Saved, Ended
<1>3. disk.exists /\ disk.mode # "none"
  BY <1>1, <1>2 DEF SetupInv, SetupTypeInv, DiskOK
<1>4. /\ run.vault[1] \in Contents /\ run.vault[2] \in Contents /\ run.vault[3] \in Contents
      /\ run.password \in Contents
  BY <1>1 DEF RunRec
<1>5. /\ disk' \in DiskRec /\ disk'.exists = disk.exists /\ disk'.mode = disk.mode
      /\ disk'.key = run.vault[1] /\ disk'.prf = run.vault[2] /\ disk'.derived = run.vault[3]
      /\ disk'.opaque = run.password /\ disk'.salt = disk.salt /\ disk'.cred = disk.cred
      /\ disk'.quick = disk.quick
  BY <1>1, <1>2, <1>4 DEF DiskRec
<1>6. /\ new \in RunRec /\ new.pc = "login" /\ new.mounted = run.mounted /\ new.prf = run.prf
  BY <1>1 DEF RunRec, RunPcs, Saved
<1>. HIDE DEF new
<1>7. Calm => HoldsKey(disk', ob, loaded)
  BY <1>1, <1>2, <1>5 DEF HoldsKey, RunKey
<1>8. Quiet => HoldsPasskey(disk', ob) /\ new.prf = ob.prf
  BY <1>1, <1>2, <1>5, <1>6 DEF HoldsPasskey, RunPasskey
<1>9. /\ Calm => RunKey(new, ob, disk', loaded) /\ ~loaded
      /\ Quiet => RunPasskey(new, ob, disk')
  BY <1>6, <1>7, <1>8 DEF RunKey, RunPasskey, HoldsKey
<1>10. Quiet => AccountOpens'
  <2>. SUFFICES ASSUME Quiet  PROVE AccountOpens'
    OBVIOUS
  <2>1. Bound(ob, binds) /\ ob.key \in kept
    BY <1>1, <1>2, <1>7, SavingIs DEF HoldsKey
  <2>2. /\ disk'.key = ob.key /\ disk'.prf = ob.cred /\ disk'.cred = ob.cred
        /\ disk'.derived = ob.salt /\ disk'.salt = ob.salt /\ ob.mode # "none"
        /\ disk'.opaque \in {0, disk'.key}
    BY <1>1, <1>7, <1>8 DEF HoldsKey, HoldsPasskey
  <2>. QED  BY <1>2, <2>1, <2>2 DEF AccountOpens, Bound, KeepPage, counters
<1>11. /\ disk'.exists <=> disk'.mode # "none"
       /\ disk'.exists /\ new.pc # "saving"
  BY <1>3, <1>5, <1>6
<1>. HIDE DEF run
<1>. QED
  <2>1. run = runs[r]
    BY DEF run
  <2>. QED  BY <1>1, <1>2, <1>5, <1>6, <1>9, <1>10, <1>11, <2>1, OnwardKeeps

LEMMA EnvelopeKeeps ==
  ASSUME SetupInv, OnboardingAssumption, NEW r \in Provisionings, enableRecoveryEnvelope(r)
  PROVE  SetupInv'
<1> DEFINE run == runs[r]
           new == [run EXCEPT !.pc = "quick", !.key = ob.key]
<1>1. /\ run \in RunRec /\ run.prf <= Len(binds) /\ ob \in ObRec /\ disk \in DiskRec
      /\ Calm => RunKey(run, ob, disk, loaded)
      /\ Quiet => Calm /\ RunPasskey(run, ob, disk)
      /\ run.pc \in Saved => disk.exists
      /\ runs \in [Provisionings -> RunRec]
      /\ Read("key", ob.key) = ob.key
  BY RunTyped, StoreUnwiped DEF SetupInv, SetupTypeInv, RunsOK
<1>2. /\ run.pc = "stretching" /\ run.pc \in Saved /\ KeepPage /\ exposure' = exposure
      /\ Underway(r) /\ disk' = [disk EXCEPT !.envelope = Read("key", run.key)]
      /\ runs' = [runs EXCEPT ![r] = new]
  BY <1>1 DEF enableRecoveryEnvelope, Underway, Saved, Ended
<1>3. disk.exists /\ disk.mode # "none"
  BY <1>1, <1>2 DEF SetupInv, SetupTypeInv, DiskOK
<1>4. Read("key", run.key) \in Contents /\ ob.key \in KeyNumbers
  BY <1>1, ContentsHold DEF RunRec, ObRec
<1>5. /\ disk' \in DiskRec /\ disk'.exists = disk.exists /\ disk'.mode = disk.mode
      /\ disk'.key = disk.key /\ disk'.prf = disk.prf /\ disk'.derived = disk.derived
      /\ disk'.opaque = disk.opaque /\ disk'.salt = disk.salt /\ disk'.cred = disk.cred
      /\ disk'.quick = disk.quick /\ disk'.envelope = Read("key", run.key)
  BY <1>1, <1>2, <1>4 DEF DiskRec
<1>6. /\ new \in RunRec /\ new.pc = "quick" /\ new.mounted = run.mounted /\ new.prf = run.prf
      /\ new.key = ob.key
  BY <1>1, <1>4 DEF RunRec, RunPcs, Saved
<1>. HIDE DEF new
<1>7. Calm => HoldsKey(disk', ob, loaded) /\ disk'.envelope = ob.key
  BY <1>1, <1>2, <1>5 DEF HoldsKey, RunKey
<1>8. Quiet => HoldsPasskey(disk', ob) /\ new.prf = ob.prf
  BY <1>1, <1>2, <1>5, <1>6 DEF HoldsPasskey, RunPasskey
<1>9. /\ Calm => RunKey(new, ob, disk', loaded) /\ ~loaded
      /\ Quiet => RunPasskey(new, ob, disk')
  BY <1>6, <1>7, <1>8 DEF RunKey, RunPasskey, HoldsKey
<1>10. Quiet => AccountOpens'
  <2>1. Quiet => AccountOpens
    BY DEF SetupInv, OpensUnlessDisturbed, Quiet
  <2>. QED  BY <1>2, <1>5, <2>1 DEF AccountOpens, KeepPage, counters
<1>11. /\ disk'.exists <=> disk'.mode # "none"
       /\ disk'.exists /\ new.pc # "saving"
  BY <1>3, <1>5, <1>6
<1>. HIDE DEF run
<1>. QED
  <2>1. run = runs[r]
    BY DEF run
  <2>. QED  BY <1>1, <1>2, <1>5, <1>6, <1>9, <1>10, <1>11, <2>1, OnwardKeeps

(* The end of a provisioning: the store's secrets are filled with zeros.   *)
LEMMA FinishWipes ==
  ASSUME SetupTypeInv, OnboardingAssumption, NEW r \in Provisionings, UNCHANGED counters,
         wiped' = Wiping({<<"prf", runs[r].prf>>, <<"prf", ob.prf>>, <<"key", ob.key>>}),
         ob'.key = 0, ob'.salt = 0, ob'.prf = 0
  PROVE  WipedOK'
<1>1. UNCHANGED <<binds, salts, made>>
  BY DEF counters
<1>2. /\ ob.key \in KeyNumbers /\ ob.key <= made
      /\ ob.prf \in BindNumbers /\ ob.prf <= Len(binds)
      /\ runs[r].prf \in BindNumbers /\ runs[r].prf <= Len(binds)
  BY DEF SetupTypeInv, ObOK, ObRec, RunsOK, RunRec
<1>3. \A b \in wiped' :
        \/ b \in wiped
        \/ /\ b \in {<<"prf", runs[r].prf>>, <<"prf", ob.prf>>, <<"key", ob.key>>}
           /\ b[2] # 0
  BY DEF Wiping
<1>4. ASSUME NEW k \in KeyNumbers, <<"key", k>> \in wiped'
      PROVE  0 < k /\ k <= made
  <2>1. CASE <<"key", k>> \in wiped
    BY <2>1 DEF SetupTypeInv, WipedOK
  <2>2. CASE <<"key", k>> \notin wiped
    <3>1. k = ob.key /\ k # 0
      BY <1>3, <1>4, <2>2, BuffersDiffer
    <3>. QED  BY <1>2, <3>1 DEF KeyNumbers
  <2>. QED  BY <2>1, <2>2
<1>5. ASSUME NEW s \in SaltNumbers, <<"salt", s>> \in wiped'
      PROVE  0 < s /\ s <= salts
  <2>1. <<"salt", s>> \in wiped
    BY <1>3, <1>5, BuffersDiffer
  <2>. QED  BY <2>1 DEF SetupTypeInv, WipedOK
<1>6. ASSUME NEW n \in BindNumbers, <<"prf", n>> \in wiped'
      PROVE  0 < n /\ n <= Len(binds)
  <2>1. CASE <<"prf", n>> \in wiped
    BY <2>1 DEF SetupTypeInv, WipedOK
  <2>2. CASE <<"prf", n>> \notin wiped
    <3>1. (n = ob.prf \/ n = runs[r].prf) /\ n # 0
      BY <1>3, <1>6, <2>2, BuffersDiffer
    <3>. QED  BY <1>2, <3>1 DEF BindNumbers
  <2>. QED  BY <2>1, <2>2
<1>7. /\ \A k \in KeyNumbers : 0 < k => k # 0
      /\ \A s \in SaltNumbers : 0 < s => s # 0
      /\ \A n \in BindNumbers : 0 < n => n # 0
  BY BoundsAreNatural DEF KeyNumbers, SaltNumbers, BindNumbers
<1>8. /\ made' = made /\ salts' = salts /\ Len(binds') = Len(binds)
      /\ ob'.key = 0 /\ ob'.salt = 0 /\ ob'.prf = 0
  BY <1>1
<1>. QED  BY <1>4, <1>5, <1>6, <1>7, <1>8 DEF WipedOK

LEMMA FinishKeeps ==
  ASSUME SetupInv, OnboardingAssumption, NEW r \in Provisionings, Finish(r)
  PROVE  SetupInv'
<1> DEFINE used == [ob EXCEPT !.key = 0, !.pwd = FALSE, !.prf = 0, !.salt = 0,
                              !.provisioned = TRUE]
           again == page = "setup" /\ step = "secret" /\ ob.key # 0
           new == [runs[r] EXCEPT !.pc = "done"]
<1>1. /\ SetupTypeInv /\ runs \in [Provisionings -> RunRec]
      /\ runs[r] \in RunRec /\ runs[r].prf <= Len(binds) /\ ob \in ObRec /\ disk \in DiskRec
      /\ Calm => RunKey(runs[r], ob, disk, loaded)
      /\ runs[r].pc \in Saved => disk.exists
      /\ Read("key", ob.key) = ob.key
  BY RunTyped, StoreUnwiped DEF SetupInv, SetupTypeInv, RunsOK
<1>2. /\ runs[r].pc = "quick" /\ runs[r].pc \in Saved /\ Underway(r)
      /\ disk' = [disk EXCEPT !.quick = Read("key", runs[r].key)] \/ disk' = disk
      /\ wiped' = Wiping({<<"prf", runs[r].prf>>, <<"prf", ob.prf>>, <<"key", ob.key>>})
      /\ ob' = IF again THEN WithoutKey(used) ELSE used
      /\ secret' = IF again THEN Generating(secret) ELSE secret
      /\ loaded' = TRUE /\ runs' = [runs EXCEPT ![r] = new]
      /\ UNCHANGED <<page, step, touch, counters, sync, kept, exposure>>
      /\ UNCHANGED <<binds, salts, made>>
  BY DEF Finish, Continue, Underway, Saved, Ended, counters
<1>3. /\ used \in ObRec /\ used.key = 0 /\ used.salt = 0 /\ used.prf = 0
      /\ used.confirmed = ob.confirmed
  BY <1>1, ContentsHold DEF ObRec
<1>. HIDE DEF used
<1>4. /\ ob' \in ObRec /\ ob'.key = 0 /\ ob'.salt = 0 /\ ob'.prf = 0
      /\ step # "secret" => ob'.confirmed = ob.confirmed
  <2>1. CASE again
    <3>1. WithoutKey(used) \in ObRec /\ WithoutKey(used).key = 0
          /\ WithoutKey(used).salt = 0 /\ WithoutKey(used).prf = 0
      BY <1>3 DEF WithoutKey, ObRec
    <3>. QED  BY <1>2, <2>1, <3>1
  <2>2. CASE ~again
    BY <1>2, <1>3, <2>2
  <2>. QED  BY <2>1, <2>2
<1>5. secret' \in SecretRec /\ touch' \in TouchRec
  BY <1>1, <1>2, GeneratingTyped DEF SetupTypeInv, WorkOK
<1>6. disk.exists /\ disk.mode # "none"
  BY <1>1, <1>2 DEF SetupInv, SetupTypeInv, DiskOK
<1>7. /\ disk' \in DiskRec /\ disk'.exists = disk.exists /\ disk'.mode = disk.mode
      /\ disk'.key = disk.key /\ disk'.prf = disk.prf /\ disk'.derived = disk.derived
      /\ disk'.opaque = disk.opaque /\ disk'.salt = disk.salt /\ disk'.cred = disk.cred
      /\ disk'.envelope = disk.envelope
      /\ disk'.quick \in {disk.quick, Read("key", runs[r].key)}
  <2>1. Read("key", runs[r].key) \in Contents
    BY <1>1, ContentsHold DEF RunRec
  <2>. QED  BY <1>1, <1>2, <2>1 DEF DiskRec
<1>8. new \in RunRec /\ new.pc = "done" /\ new.mounted = runs[r].mounted /\ new.prf = runs[r].prf
  BY <1>1 DEF RunRec, RunPcs, Ended
<1>. HIDE DEF new
<1>9. /\ runs' \in [Provisionings -> RunRec]
      /\ runs'[r] = new /\ \A q \in Provisionings \ {r} : runs'[q] = runs[q]
  BY <1>1, <1>2, <1>8
<1>10. (Calm' <=> Calm) /\ (Quiet' <=> Quiet) /\ (Quiet => Calm)
  BY <1>2 DEF Calm, Quiet
<1>11. Calm => \A q \in Provisionings : runs'[q].pc \in Ended
  BY <1>2, <1>8, <1>9 DEF SetupInv, GoingInv, Underway, Ended
<1>12. PlaceOK' /\ CountersOK' /\ WorkOK' /\ StepOK'
  <2>1. PlaceOK' /\ CountersOK' /\ WorkOK'
    BY <1>1, <1>2, <1>5 DEF SetupTypeInv, PlaceOK, CountersOK, WorkOK
  <2>2. StepOK'
    BY <1>1, <1>2, <1>4 DEF SetupTypeInv, StepOK
  <2>. QED  BY <2>1, <2>2
<1>13. ObOK'
  <2>1. 0 <= Len(binds) /\ 0 <= salts /\ 0 <= made
    BY <1>1, CountersNatural DEF SetupTypeInv
  <2>. QED  BY <1>2, <1>4, <2>1 DEF ObOK
<1>14. RunsOK'
  <2>1. \A q \in Provisionings : runs'[q].prf <= Len(binds)
    BY <1>1, <1>8, <1>9 DEF SetupTypeInv, RunsOK
  <2>. QED  BY <1>2, <1>9, <2>1 DEF RunsOK
<1>15. DiskOK'
  <2>1. \A q \in Provisionings : runs'[q].pc = "saving" => runs'[q].mode # "none"
    BY <1>1, <1>8, <1>9 DEF SetupTypeInv, DiskOK
  <2>. QED  BY <1>6, <1>7, <2>1 DEF DiskOK
<1>16. WipedOK'
  BY <1>1, <1>2, <1>4, FinishWipes
<1>17. GoingInv' /\ ConfirmedInv'
  BY <1>4, <1>10, <1>11 DEF GoingInv, ConfirmedInv, Underway
<1>18. KeyInv' /\ PasskeyInv' /\ BoundInv'
  <2>1. KeyInv' /\ PasskeyInv'
    BY <1>10, <1>11, IdleRun DEF KeyInv, PasskeyInv
  <2>2. Quiet => ~Making'
    BY <1>6, <1>7, <1>10, <1>11 DEF Making, Saved, Ended
  <2>. QED  BY <1>10, <2>1, <2>2 DEF BoundInv
<1>19. OpensUnlessDisturbed'
  <2>1. Quiet => AccountOpens
    BY DEF SetupInv, OpensUnlessDisturbed, Quiet
  <2>. QED  BY <1>2, <1>7, <2>1 DEF AccountOpens, OpensUnlessDisturbed, Quiet
<1>20. DoneMeansRecoverable'
  <2>. SUFFICES ASSUME Calm
                PROVE  disk'.envelope = disk'.key /\ disk'.quick \in {0, disk'.key}
    BY <1>10 DEF DoneMeansRecoverable, Calm
  <2>1. /\ disk.key = ob.key /\ disk.quick = 0 /\ runs[r].key = ob.key
        /\ disk.envelope = disk.key
    BY <1>1, <1>2 DEF RunKey, HoldsKey
  <2>. QED  BY <1>1, <1>7, <2>1
<1>. QED
  BY <1>12, <1>13, <1>14, <1>15, <1>16, <1>17, <1>18, <1>19, <1>20 DEF SetupInv, SetupTypeInv

-----------------------------------------------------------------------------

LEMMA ProvisioningKeeps ==
  ASSUME SetupInv, OnboardingAssumption, NEW r \in Provisionings, Provision(r)
  PROVE  SetupInv'
<1>1. CASE PassGate(r)
  BY <1>1, EarlyKeeps DEF PassGate, Underway, Ended
<1>2. CASE Refused(r)
  BY <1>2, EarlyKeeps DEF Refused, Fail, Underway, Ended
<1>3. CASE EnvelopeFails(r)
  BY <1>3, EarlyKeeps DEF EnvelopeFails, Fail, Underway, Ended
<1>4. CASE LoggedIn(r)
  BY <1>4, EnvelopingKeeps DEF LoggedIn, Saved
<1>5. CASE EnrolmentFails(r)
  BY <1>5, EnvelopingKeeps DEF EnrolmentFails, Saved
<1>6. CASE provisionVault(r)
  BY <1>6, ProvisionKeeps
<1>7. CASE saveAccountAndVault(r)
  BY <1>7, SaveKeeps
<1>8. CASE AccountExists(r)
  BY <1>8, ExistsKeeps
<1>9. CASE register(r) \/ Registered(r) \/ rotateAuth(r)
  BY <1>9, EnrolKeeps
<1>10. CASE Resealed(r)
  BY <1>10, ResealKeeps
<1>11. CASE enableRecoveryEnvelope(r)
  BY <1>11, EnvelopeKeeps
<1>12. CASE Finish(r)
  BY <1>12, FinishKeeps
<1>. QED
  BY <1>1, <1>2, <1>3, <1>4, <1>5, <1>6, <1>7, <1>8, <1>9, <1>10, <1>11, <1>12 DEF Provision

LEMMA SetupBegins ==
  ASSUME OnboardingAssumption, SetupInit
  PROVE  SetupInv
<1>1. /\ Empty \in ObRec /\ NoRun \in RunRec /\ NoRows \in DiskRec
      /\ Empty.key = 0 /\ Empty.salt = 0 /\ Empty.prf = 0 /\ Empty.mode = "none"
      /\ Empty.confirmed = FALSE /\ NoRun.pc = "unused" /\ NoRun.prf = 0
      /\ NoRows.exists = FALSE /\ NoRows.mode = "none" /\ NoRows.opaque = 0
      /\ NoRows.envelope = 0 /\ NoRows.quick = 0
  BY EmptyIsOb DEF Empty, NoRun, NoRows
<1>2. /\ runs \in [Provisionings -> RunRec]
      /\ \A r \in Provisionings : runs[r].pc = "unused" /\ runs[r].prf = 0
  BY <1>1 DEF SetupInit, Provisionings
<1>3. /\ page = "home" /\ step = "welcome" /\ ob = Empty /\ binds = <<>> /\ salts = 0
      /\ made = 0 /\ wiped = {} /\ disk = NoRows /\ sync \in BOOLEAN /\ loaded = FALSE
      /\ kept = {} /\ exposure = {} /\ secret = IdleSecret /\ touch = IdleTouch
  BY DEF SetupInit, OnboardingAssumption
<1>4. IdleSecret \in SecretRec /\ IdleTouch \in TouchRec
  BY ContentsHold DEF IdleSecret, SecretRec, IdleTouch, TouchRec
<1>5. PlaceOK /\ StepOK /\ WorkOK
  BY <1>3, <1>4 DEF PlaceOK, StepOK, WorkOK, StepNames
<1>6. CountersOK /\ Len(binds) = 0
  BY <1>3, ContentsHold, BoundsAreNatural DEF CountersOK
<1>7. ObOK /\ RunsOK
  BY <1>1, <1>2, <1>3, <1>6 DEF ObOK, RunsOK
<1>8. DiskOK
  BY <1>1, <1>2, <1>3 DEF DiskOK, Saved
<1>9. WipedOK
  BY <1>3 DEF WipedOK
<1>10. \A r \in Provisionings : runs[r].pc \in Ended
  BY <1>2 DEF Ended
<1>11. GoingInv /\ ConfirmedInv
  BY <1>1, <1>3, <1>10 DEF GoingInv, Underway, ConfirmedInv
<1>12. KeyInv /\ PasskeyInv
  BY <1>10, IdleRun DEF KeyInv, PasskeyInv
<1>13. BoundInv
  BY <1>1, <1>3 DEF BoundInv, Bound
<1>14. OpensUnlessDisturbed /\ DoneMeansRecoverable
  BY <1>1, <1>3 DEF OpensUnlessDisturbed, AccountOpens, DoneMeansRecoverable
<1>. QED
  BY <1>5, <1>6, <1>7, <1>8, <1>9, <1>11, <1>12, <1>13, <1>14 DEF SetupInv, SetupTypeInv

LEMMA SetupStutters ==
  ASSUME SetupInv, UNCHANGED setupVars
  PROVE  SetupInv'
<1>1. UNCHANGED <<page, step, ob, secret, touch, runs, binds, salts, made, wiped, disk, sync,
                  loaded, kept, exposure>>
  BY DEF setupVars, store, work, counters
<1>2. SetupTypeInv'
  BY <1>1 DEF SetupInv, SetupTypeInv, PlaceOK, StepOK, CountersOK, ObOK, WorkOK, RunsOK,
              DiskOK, WipedOK
<1>3. ConfirmedInv' /\ BoundInv'
  BY <1>1, BoundStill DEF SetupInv, ConfirmedInv, Calm
<1>. QED  BY <1>1, <1>2, <1>3, AsideKeeps

LEMMA SetupSteps ==
  ASSUME OnboardingAssumption, SetupInv, [SetupNext]_setupVars
  PROVE  SetupInv'
<1>1. CASE Wizard
  BY <1>1, NextKeeps, PrevKeeps, ExitKeeps, RouteKeeps, EnterKeeps DEF Wizard
<1>2. CASE StepWork
  BY <1>2, LabelKeeps, RegenerateKeeps, generateKeeps, ConfirmKeeps, PasswordKeeps, bindKeeps,
     BoundKeeps, TouchKeeps, DemoKeeps, QuickKeeps DEF StepWork
<1>3. CASE Reload
  BY <1>3, ReloadKeeps
<1>4. CASE \E r \in 1 .. MaxRuns : Provision(r)
  BY <1>4, ProvisioningKeeps DEF Provisionings
<1>5. CASE UNCHANGED setupVars
  BY <1>5, SetupStutters
<1>. QED  BY <1>1, <1>2, <1>3, <1>4, <1>5 DEF SetupNext

LEMMA SetupCorrect == SetupSpec => []SetupInv
<1>1. SetupInit => SetupInv
  BY SetupBegins, OnboardingAssumption
<1>2. SetupInv /\ [SetupNext]_setupVars => SetupInv'
  BY SetupSteps, OnboardingAssumption
<1>. QED  BY <1>1, <1>2, PTL DEF SetupSpec

(* The wizard: every reachable state is well typed.                        *)
THEOREM SetupTyped == SetupSpec => []SetupTypeOK
<1>1. SetupInv => SetupTypeOK
  <2>. SUFFICES ASSUME SetupInv  PROVE SetupTypeOK
    OBVIOUS
  <2>1. /\ PlaceOK /\ CountersOK /\ ObOK /\ WorkOK /\ RunsOK /\ DiskOK
        /\ KeyNumbers \subseteq Contents /\ SaltNumbers \subseteq Contents
        /\ BindNumbers \subseteq Contents
    BY OnboardingAssumption, ContentsHold DEF SetupInv, SetupTypeInv
  <2>2. step \in {STEPS[i] : i \in DOMAIN STEPS}
    <3>1. step \in StepNames
      BY <2>1 DEF PlaceOK
    <3>2. Index(step) \in DOMAIN STEPS /\ STEPS[Index(step)] = step
      BY <3>1, StepsIndexed
    <3>. QED  BY <3>2
  <2>3. ob \in [label : BOOLEAN, key : Contents, confirmed : BOOLEAN, pwd : BOOLEAN,
                pwdOk : BOOLEAN, bound : BOOLEAN, mode : {"none", "production", "demo"},
                salt : Contents, prf : Contents, cred : Contents, quick : BOOLEAN,
                provisioned : BOOLEAN]
    BY <2>1 DEF ObOK, ObRec, Modes
  <2>4. /\ secret.mine \in Nat /\ secret.old \in Nat /\ secret.generating \in BOOLEAN
        /\ touch.phase \in {"idle", "scanning", "success", "error"}
        /\ touch.pending \in 0 .. MaxSalts
    BY <2>1 DEF WorkOK, SecretRec, TouchRec, SaltNumbers
  <2>5. \A r \in 1 .. MaxRuns :
          runs[r].pc \in {"gate", "loading", "saving", "enrolling", "registering", "rotating",
                          "resealing", "login", "stretching", "quick"} \cup Ended
    BY <2>1 DEF RunsOK, RunRec, RunPcs, Saved, Provisionings
  <2>6. /\ disk.exists = (disk.mode # "none")
        /\ disk.opaque # 0 \/ disk.envelope # 0 \/ disk.quick # 0 => disk.exists
    BY <2>1 DEF DiskOK, DiskRec
  <2>7. made <= MaxKeys /\ salts <= MaxSalts /\ Len(binds) <= MaxBinds
    BY <2>1, OnboardingAssumption, BoundsAreNatural DEF CountersOK, KeyNumbers, SaltNumbers
  <2>. QED  BY <2>1, <2>2, <2>3, <2>4, <2>5, <2>6, <2>7 DEF SetupTypeOK, PlaceOK
<1>. QED  BY <1>1, SetupCorrect, PTL

(* The vault the wizard makes opens with the key the user confirmed and    *)
(* this device's passkey, whatever steps, resets, failures and reloads     *)
(* interleave, but for the three coincidences (StepProvision.svelte).      *)
THEOREM SetupOpens == SetupSpec => []OpensUnlessDisturbed
<1>1. SetupInv => OpensUnlessDisturbed
  BY DEF SetupInv
<1>. QED  BY <1>1, SetupCorrect, PTL

(* When the wizard says the vault is provisioned, its recovery envelope    *)
(* and its cached key are those of the row.                                *)
THEOREM DoneIsRecoverable == SetupSpec => []DoneMeansRecoverable
<1>1. SetupInv => DoneMeansRecoverable
  BY DEF SetupInv
<1>. QED  BY <1>1, SetupCorrect, PTL

=============================================================================
