-------------------------- MODULE VaultSession_proofs --------------------------
(* Theorems about the keys of a vault, for any tabs, calls, salts, changes *)
(* of the factors and data keys.                                           *)
EXTENDS VaultSession, TLAPS

-----------------------------------------------------------------------------
(* The inductive invariant, in three layers. *)

(* A call in flight has its tab, and only a written row shares a buffer.   *)
TypeInv ==
  /\ TypeOK
  /\ \A c \in Calls : Active(c) => call[c].tab \in Tabs
  /\ \A c \in Calls : call[c].shared =>
       call[c].kind \in {"save", "rebind"} /\ call[c].pc = "after"

(* As long as no change has overlapped: which keys open which rows.        *)
NoOverlap == "change overlap" \notin exposure
Keyed(row) == row.format # 0 => row.kek # NoKek
Rotating(c) == call[c].kind = "rotate" /\ call[c].pc = "after"
AccountOpens ==
  account # NoAccount =>
    account.salt # 0 /\ account.format # 0 /\ OpensWith(account, KekOf(account), vault)
NothingLeft ==
  account = NoAccount =>
    /\ vault = NoRow
    /\ \A t \in Tabs : tab[t] = LockedTab
    /\ \A c \in Calls : Active(c) => call[c].kind = "provision" /\ call[c].pc = "account"
TabsHaveKek ==
  \A t \in Tabs : Unlocked(t) =>
    \/ tab[t].vk = KekOf(account)
    \/ \E c \in Calls : Rotating(c) /\ call[c].tab = t
CallSafe(c) ==
  LET d == call[c] IN
  /\ d.kind # "provision" /\ d.pc # "after" => d.acct = account
  /\ d.kind \in {"sync", "recover"} => d.acct.format >= 2
  /\ d.kind = "envelope" => d.pc = "account"
  /\ d.kind = "rotate" /\ d.pc = "row" =>
       d.kek = KekOf(d.next) /\ d.next.salt = d.acct.salt /\ d.next.format = CurrentFormat
  /\ d.kind \in {"provision", "rotate", "rebind"} /\ d.pc = "after" => d.kek = KekOf(account)
  /\ d.kind = "rebind" => ~Unlocked(d.tab)
  /\ Keyed(d.row)
KekBody ==
  /\ ~ChangeOverlap
  /\ AccountOpens /\ NothingLeft /\ TabsHaveKek
  /\ \A c \in Calls : Active(c) => CallSafe(c)
  /\ Keyed(remote)
KekInv == NoOverlap => KekBody

(* As long as nothing has overlapped at all: where the data key is.        *)
Known(row) ==
  row.format >= 2 /\ account # NoAccount /\ row.salt = account.salt =>
    account.format >= 2 /\ row.dk = dataKey
Holds(row) == Known(row) /\ row.salt <= salts
Minting(c) == call[c].kind = "save" /\ call[c].pc = "after" /\ call[c].acct.format < CurrentFormat
AccountHasKey ==
  /\ dataKey <= keys
  /\ account.format >= 2 => vault.dk = dataKey /\ dataKey # 0
  /\ account.format = 1 => dataKey = 0
TabsHaveKey ==
  \A t \in Tabs :
    /\ tab[t].dk \in {0, dataKey}
    /\ Unlocked(t) /\ account.format >= 2 =>
         \/ tab[t].dk = dataKey
         \/ \E c \in Calls : Minting(c) /\ call[c].tab = t
CallHasKey(c) ==
  LET d == call[c] IN
  /\ d.kind \in {"provision", "save", "sync", "rebind"} /\ d.pc = "after" => d.dk = dataKey
  /\ Rotating(c) => tab[d.tab].dk = dataKey
  /\ Holds(d.row)
EnvelopeHasKey ==
  envelope # NoEnvelope =>
    /\ account # NoAccount /\ envelope.salt <= salts
    /\ envelope.salt = account.salt => account.format >= 2 /\ envelope.dk = dataKey
DataBody ==
  /\ ~ZeroedSave
  /\ AccountHasKey /\ TabsHaveKey
  /\ \A c \in Calls : Active(c) => CallHasKey(c)
  /\ Holds(remote) /\ account.salt <= salts
  /\ EnvelopeHasKey
DataInv == exposure = {} => DataBody

-----------------------------------------------------------------------------
(* Sorts, and the shapes of a step. *)

LEMMA Bounds ==
  /\ MaxSalts \in Nat \ {0} /\ MaxChanges \in Nat /\ MaxKeys \in Nat \ {0}
  /\ OldFormats \subseteq 0 .. 3 /\ NoTab \notin Tabs
  BY BoundsAssumption, NoTabAssumption DEF BoundsAssumption, NoTabAssumption

LEMMA Nones ==
  /\ NoKek \in Kek /\ NoAccount \in Account /\ NoRow \in Row /\ NoEnvelope \in Envelope
  /\ LockedTab \in Tab /\ FreeCall \in Call
  /\ FreeCall.kind = "none" /\ FreeCall.shared = FALSE
  /\ NoRow.format = 0 /\ NoRow.salt = 0 /\ NoAccount.format = 0 /\ NoAccount.salt = 0
  /\ LockedTab.vk = NoKek /\ LockedTab.dk = 0 /\ NoKek.salt = 0 /\ FreeCall.tab = NoTab
  <1>1. 0 \in Salt /\ 0 \in Factor /\ 0 \in Format /\ 0 \in DataKey
    BY Bounds DEF Salt, Factor, Format, DataKey, Zeroed
  <1>2. NoKek \in Kek /\ NoKek.salt = 0
    BY <1>1 DEF NoKek, Kek
  <1>3. NoAccount \in Account /\ NoAccount.format = 0 /\ NoAccount.salt = 0
    BY <1>1 DEF NoAccount, Account
  <1>4. NoRow \in Row /\ NoRow.format = 0 /\ NoRow.salt = 0
    BY <1>1, <1>2 DEF NoRow, Row
  <1>5. NoEnvelope \in Envelope
    BY <1>1 DEF NoEnvelope, Envelope
  <1>6. LockedTab \in Tab /\ LockedTab.vk = NoKek /\ LockedTab.dk = 0
    BY <1>1, <1>2 DEF LockedTab, Tab
  <1>7. FreeCall \in Call /\ FreeCall.kind = "none" /\ FreeCall.shared = FALSE
        /\ FreeCall.tab = NoTab
    BY <1>1, <1>2, <1>3, <1>4, <1>5 DEF FreeCall, Call
  <1> QED BY <1>2, <1>3, <1>4, <1>5, <1>6, <1>7

LEMMA CallIs ==
  ASSUME TypeOK, NEW c \in Calls
  PROVE  /\ call[c] \in Call /\ call[c].acct \in Account /\ call[c].row \in Row
         /\ call[c].env \in Envelope /\ call[c].next \in Account /\ call[c].kek \in Kek
         /\ call[c].dk \in DataKey /\ call[c].shared \in BOOLEAN
         /\ call[c].pc \in {"account", "row", "after"} /\ call[c].tab \in Tabs \cup {NoTab}
         /\ call[c].kind \in {"none", "open", "recover", "save", "sync", "rotate", "rebind",
                              "provision", "envelope"}
  <1>1. call[c] \in Call
    BY DEF TypeOK
  <1> QED BY <1>1 DEF Call

LEMMA TabIs ==
  ASSUME TypeOK, NEW t \in Tabs
  PROVE  tab[t] \in Tab /\ tab[t].vk \in Kek /\ tab[t].dk \in DataKey
  <1>1. tab[t] \in Tab
    BY DEF TypeOK
  <1> QED BY <1>1 DEF Tab

(* Call d goes on as it was, but for the buffer of its data key.           *)
Same(d) ==
  /\ call'[d].kind = call[d].kind /\ call'[d].pc = call[d].pc /\ call'[d].tab = call[d].tab
  /\ call'[d].acct = call[d].acct /\ call'[d].row = call[d].row
  /\ call'[d].env = call[d].env /\ call'[d].next = call[d].next
  /\ call'[d].kek = call[d].kek

(* Only call c moves; or it ends, and the buffers of tab t are dropped, or *)
(* filled with zeros.                                                      *)
Moves(c) == call' \in [Calls -> Call] /\ \A d \in Calls \ {c} : call'[d] = call[d]
Loosens(d, zeroed) ==
  /\ Same(d) /\ call'[d] \in Call
  /\ call'[d].shared => call[d].shared /\ call'[d].dk = call[d].dk
  /\ \/ call'[d].dk = call[d].dk
     \/ call'[d].dk = Zeroed /\ call[d].shared /\ call[d].tab \in zeroed
Drops(t) == \A d \in Calls : call'[d].shared => call'[d].tab # t
Ends(c, zeroed) ==
  /\ call' \in [Calls -> Call] /\ call'[c] = FreeCall
  /\ \A d \in Calls \ {c} : Loosens(d, zeroed)

LEMMA Updating ==
  ASSUME TypeOK, NEW c \in Calls, NEW j \in Call, call' = [call EXCEPT ![c] = j]
  PROVE  Moves(c) /\ call'[c] = j
  BY DEF Moves, TypeOK

LEMMA Ending ==
  ASSUME TypeOK, NEW c \in Calls, End(c)
  PROVE  Ends(c, {})
  <1>1. Moves(c) /\ call'[c] = FreeCall
    BY Nones, Updating DEF End
  <1>2. \A d \in Calls : call[d] \in Call
    BY CallIs
  <1> QED BY <1>1, <1>2 DEF Moves, Ends, Loosens, Same

LEMMA Releasing ==
  ASSUME TypeOK, NEW c \in Calls, NEW t \in Tabs,
         call' = Released([call EXCEPT ![c] = FreeCall], t)
  PROVE  Ends(c, {}) /\ Drops(t)
  <1> DEFINE ended == [call EXCEPT ![c] = FreeCall]
  <1>1. /\ ended \in [Calls -> Call] /\ ended[c] = FreeCall
        /\ \A d \in Calls \ {c} : ended[d] = call[d]
    BY Nones DEF TypeOK
  <1> DEFINE loosed(d) == [ended[d] EXCEPT !.shared = FALSE]
  <1>2. call' = [d \in Calls |-> IF ended[d].tab = t THEN loosed(d) ELSE ended[d]]
    BY DEF Released
  <1> HIDE DEF ended
  <1>3. \A d \in Calls :
          LET j == loosed(d) IN
          /\ j \in Call /\ j.shared = FALSE /\ j.kind = ended[d].kind /\ j.pc = ended[d].pc
          /\ j.tab = ended[d].tab /\ j.acct = ended[d].acct /\ j.row = ended[d].row
          /\ j.env = ended[d].env /\ j.next = ended[d].next /\ j.kek = ended[d].kek
          /\ j.dk = ended[d].dk
    <2> SUFFICES ASSUME NEW d \in Calls
                 PROVE  LET j == loosed(d) IN
                        /\ j \in Call /\ j.shared = FALSE /\ j.kind = ended[d].kind
                        /\ j.pc = ended[d].pc /\ j.tab = ended[d].tab
                        /\ j.acct = ended[d].acct /\ j.row = ended[d].row
                        /\ j.env = ended[d].env /\ j.next = ended[d].next
                        /\ j.kek = ended[d].kek /\ j.dk = ended[d].dk
      OBVIOUS
    <2>1. ended[d] \in Call
      BY <1>1
    <2> QED BY <2>1 DEF Call
  <1> HIDE DEF loosed
  <1>4. call' \in [Calls -> Call]
    <2>1. \A d \in Calls : ended[d] \in Call
      BY <1>1
    <2>2. \A d \in Calls : loosed(d) \in Call
      BY <1>3
    <2> QED BY <1>2, <2>1, <2>2
  <1>5. call'[c] = FreeCall
    <2>1. FreeCall.tab # t
      BY Nones, Bounds
    <2> QED BY <1>1, <1>2, <2>1
  <1>6. ASSUME NEW d \in Calls \ {c} PROVE Loosens(d, {})
    <2>1. CASE ended[d].tab = t
      <3>1. call'[d] = loosed(d)
        BY <1>2, <2>1
      <3> QED BY <1>1, <1>3, <3>1 DEF Loosens, Same
    <2>2. CASE ended[d].tab # t
      <3>1. call'[d] = ended[d]
        BY <1>2, <2>2
      <3> QED BY <1>1, <3>1 DEF Loosens, Same
    <2> QED BY <2>1, <2>2
  <1>7. ASSUME NEW d \in Calls, call'[d].tab = t PROVE ~call'[d].shared
    <2>1. CASE ended[d].tab = t
      <3>1. call'[d] = loosed(d)
        BY <1>2, <2>1
      <3> QED BY <1>3, <3>1
    <2>2. CASE ended[d].tab # t
      BY <1>2, <1>7, <2>2
    <2> QED BY <2>1, <2>2
  <1> QED BY <1>4, <1>5, <1>6, <1>7 DEF Ends, Drops

(* Call i after the buffer of its data key is filled with zeros.           *)
Filled(j, i) ==
  /\ j.shared = FALSE /\ j.dk = Zeroed
  /\ j.kind = i.kind /\ j.pc = i.pc /\ j.tab = i.tab /\ j.acct = i.acct /\ j.row = i.row
  /\ j.env = i.env /\ j.next = i.next /\ j.kek = i.kek

LEMMA Zeroing ==
  ASSUME NEW calls \in [Calls -> Call], NEW t, call' = ZeroShared(calls, t)
  PROVE  /\ call' \in [Calls -> Call]
         /\ Drops(t)
         /\ \A d \in Calls :
              call'[d] # calls[d] => calls[d].tab = t /\ calls[d].shared /\ Filled(call'[d], calls[d])
  <1>1. call' = [d \in Calls |-> IF calls[d].tab = t /\ calls[d].shared
                                 THEN [calls[d] EXCEPT !.dk = Zeroed, !.shared = FALSE]
                                 ELSE calls[d]]
    BY DEF ZeroShared
  <1>2. Zeroed \in DataKey
    BY Bounds DEF DataKey, Zeroed
  <1> DEFINE filled(d) == [calls[d] EXCEPT !.dk = Zeroed, !.shared = FALSE]
  <1>3. \A d \in Calls :
          LET j == filled(d) IN
          /\ j \in Call /\ j.shared = FALSE /\ j.kind = calls[d].kind /\ j.pc = calls[d].pc
          /\ j.tab = calls[d].tab /\ j.acct = calls[d].acct /\ j.row = calls[d].row
          /\ j.env = calls[d].env /\ j.next = calls[d].next /\ j.kek = calls[d].kek
          /\ j.dk = Zeroed
    <2> SUFFICES ASSUME NEW d \in Calls
                 PROVE  LET j == filled(d) IN
                        /\ j \in Call /\ j.shared = FALSE /\ j.kind = calls[d].kind
                        /\ j.pc = calls[d].pc /\ j.tab = calls[d].tab
                        /\ j.acct = calls[d].acct /\ j.row = calls[d].row
                        /\ j.env = calls[d].env /\ j.next = calls[d].next
                        /\ j.kek = calls[d].kek /\ j.dk = Zeroed
      OBVIOUS
    <2>1. calls[d] \in Call
      OBVIOUS
    <2> QED BY <1>2, <2>1 DEF Call
  <1>0. call' = [d \in Calls |-> IF calls[d].tab = t /\ calls[d].shared
                                 THEN filled(d) ELSE calls[d]]
    BY <1>1
  <1> HIDE DEF filled
  <1>4. call' \in [Calls -> Call]
    BY <1>0, <1>3
  <1>5. ASSUME NEW d \in Calls
        PROVE  \/ call'[d] = calls[d] /\ ~(calls[d].tab = t /\ calls[d].shared)
               \/ /\ calls[d].tab = t /\ calls[d].shared
                  /\ call'[d] = filled(d)
    BY <1>0
  <1>6. Drops(t)
    BY <1>3, <1>5 DEF Drops
  <1>7. ASSUME NEW d \in Calls, call'[d] # calls[d]
        PROVE  calls[d].tab = t /\ calls[d].shared /\ Filled(call'[d], calls[d])
    <2>1. /\ calls[d].tab = t /\ calls[d].shared
          /\ call'[d] = filled(d)
      BY <1>5, <1>7
    <2> QED BY <1>3, <2>1 DEF Filled
  <1> QED BY <1>4, <1>6, <1>7

LEMMA EndingZeroed ==
  ASSUME TypeOK, NEW c \in Calls, NEW t \in Tabs,
         call' = ZeroShared([call EXCEPT ![c] = FreeCall], t)
  PROVE  Ends(c, {t}) /\ Drops(t)
  <1> DEFINE ended == [call EXCEPT ![c] = FreeCall]
  <1>1. /\ ended \in [Calls -> Call] /\ ended[c] = FreeCall
        /\ \A d \in Calls \ {c} : ended[d] = call[d]
    BY Nones DEF TypeOK
  <1> HIDE DEF ended
  <1>2. call' = ZeroShared(ended, t)
    BY DEF ended
  <1>3. /\ call' \in [Calls -> Call] /\ Drops(t)
        /\ call'[c] = FreeCall
    BY <1>1, <1>2, Zeroing, Nones
  <1>5. \A d \in Calls :
          call'[d] # ended[d] => ended[d].tab = t /\ ended[d].shared /\ Filled(call'[d], ended[d])
    BY <1>1, <1>2, Zeroing
  <1>4. ASSUME NEW d \in Calls \ {c} PROVE Loosens(d, {t})
    <2>1. call'[d] \in Call /\ ended[d] = call[d]
      BY <1>1, <1>3
    <2>2. CASE call'[d] = ended[d]
      BY <2>1, <2>2 DEF Loosens, Same
    <2>3. CASE call'[d] # ended[d]
      <3>1. ended[d].tab = t /\ ended[d].shared /\ Filled(call'[d], ended[d])
        BY <1>5, <2>3
      <3> QED BY <2>1, <3>1 DEF Loosens, Same, Filled
    <2> QED BY <2>2, <2>3
  <1> QED BY <1>3, <1>4 DEF Ends

-----------------------------------------------------------------------------
(* Types. *)

LEMMA NoteType ==
  ASSUME TypeOK, NEW seen \in SUBSET Exposures, Note(seen)
  PROVE  exposure' \in SUBSET Exposures
  <1>1. \A b \in {TRUE, FALSE} :
          /\ (IF b THEN {"change overlap"} ELSE {}) \subseteq Exposures
          /\ (IF b THEN {"zeroed under a save"} ELSE {}) \subseteq Exposures
    BY DEF Exposures
  <1>2. exposure \in SUBSET Exposures
    BY DEF TypeOK
  <1> QED BY <1>1, <1>2 DEF Note, Exposures

(* The rows, the counters and the history have their sorts after a step.   *)
RowsTyped ==
  /\ account \in Account /\ vault \in Row /\ envelope \in Envelope /\ remote \in Row
  /\ salts \in Salt /\ changes \in Factor /\ keys \in 0 .. MaxKeys
  /\ dataKey \in 0 .. MaxKeys /\ exposure \in SUBSET Exposures

LEMMA MovedType ==
  ASSUME TypeInv, RowsTyped', NEW c \in Calls, Moves(c), tab' = tab,
         call'[c].tab \in Tabs,
         call'[c].shared => /\ call'[c].kind \in {"save", "rebind"} /\ call'[c].pc = "after"
                            /\ call'[c].dk = tab[call'[c].tab].dk
  PROVE  TypeInv'
  <1>1. tab' \in [Tabs -> Tab] /\ call' \in [Calls -> Call]
    BY DEF TypeInv, TypeOK, Moves
  <1>2. \A d \in Calls : call'[d].shared => call'[d].dk = tab'[call'[d].tab].dk
    BY DEF TypeInv, TypeOK, Moves
  <1>3. TypeOK'
    BY <1>1, <1>2 DEF TypeOK, RowsTyped
  <1>4. \A d \in Calls : Active(d)' => call'[d].tab \in Tabs
    BY DEF TypeInv, Moves, Active
  <1>5. \A d \in Calls : call'[d].shared =>
          call'[d].kind \in {"save", "rebind"} /\ call'[d].pc = "after"
    BY DEF TypeInv, Moves
  <1> QED BY <1>3, <1>4, <1>5 DEF TypeInv

(* Call c ends and only tab t changes.                                     *)
TabOnly(t) == tab' \in [Tabs -> Tab] /\ \A u \in Tabs \ {t} : tab'[u] = tab[u]

LEMMA EndedType ==
  ASSUME TypeInv, RowsTyped', NEW c \in Calls, NEW t \in Tabs, NEW zeroed, Ends(c, zeroed),
         TabOnly(t), Drops(t) \/ tab'[t].dk = tab[t].dk
  PROVE  TypeInv'
  <1>1. tab' \in [Tabs -> Tab] /\ call' \in [Calls -> Call]
    BY DEF Ends, TabOnly
  <1>2. call'[c].shared = FALSE /\ ~Active(c)'
    BY Nones DEF Ends, Active
  <1>3. ASSUME NEW d \in Calls, call'[d].shared
        PROVE  /\ call'[d].dk = tab'[call'[d].tab].dk
               /\ call'[d].kind \in {"save", "rebind"} /\ call'[d].pc = "after"
    <2>1. d # c
      BY <1>2, <1>3
    <2>2. /\ call[d].shared /\ call'[d].dk = call[d].dk /\ call'[d].tab = call[d].tab
          /\ call'[d].kind = call[d].kind /\ call'[d].pc = call[d].pc
      BY <1>3, <2>1 DEF Ends, Loosens, Same
    <2>3. /\ call[d].dk = tab[call[d].tab].dk
          /\ call[d].kind \in {"save", "rebind"} /\ call[d].pc = "after"
      BY <2>2 DEF TypeInv, TypeOK
    <2>4. call[d].tab \in Tabs
      BY <2>3 DEF TypeInv, Active
    <2>5. tab'[call[d].tab].dk = tab[call[d].tab].dk
      BY <1>3, <2>2, <2>4 DEF TabOnly, Drops
    <2> QED BY <2>2, <2>3, <2>5
  <1>4. \A d \in Calls : call'[d].shared => call'[d].dk = tab'[call'[d].tab].dk
    BY <1>3
  <1>5. TypeOK'
    BY <1>1, <1>4 DEF TypeOK, RowsTyped
  <1>6. ASSUME NEW d \in Calls, Active(d)' PROVE call'[d].tab \in Tabs
    <2>1. d # c
      BY <1>2, <1>6
    <2>2. call'[d].kind = call[d].kind /\ call'[d].tab = call[d].tab
      BY <2>1 DEF Ends, Loosens, Same
    <2> QED BY <1>6, <2>2 DEF TypeInv, Active
  <1> QED BY <1>3, <1>5, <1>6 DEF TypeInv

-----------------------------------------------------------------------------
(* What the history says of a step. *)

Inv == TypeInv /\ KekInv /\ DataInv

LEMMA Noted ==
  ASSUME NEW seen, Note(seen)
  PROVE  /\ exposure \subseteq exposure' /\ seen \subseteq exposure'
         /\ NoOverlap' => NoOverlap /\ ~ChangeOverlap'
         /\ exposure' = {} => exposure = {} /\ seen = {} /\ ~ZeroedSave' /\ NoOverlap'
  <1>1. exposure \subseteq exposure' /\ seen \subseteq exposure'
    BY DEF Note
  <1>2. ChangeOverlap' => "change overlap" \in exposure'
    BY DEF Note
  <1>3. ZeroedSave' => "zeroed under a save" \in exposure'
    BY DEF Note
  <1> QED BY <1>1, <1>2, <1>3 DEF NoOverlap

(* A step keeps the invariant if it keeps each body while the history      *)
(* stays clear of what excuses it.                                         *)
LEMMA Layers ==
  ASSUME Inv, NEW seen, Note(seen), TypeInv',
         KekBody /\ ~ChangeOverlap' /\ "change overlap" \notin seen => KekBody',
         KekBody /\ KekBody' /\ DataBody /\ ~ZeroedSave' /\ seen = {} => DataBody'
  PROVE  Inv'
  <1>1. NoOverlap' => KekBody'
    BY Noted DEF Inv, KekInv, NoOverlap
  <1>2. exposure' = {} => DataBody'
    <2> SUFFICES ASSUME exposure' = {} PROVE DataBody'
      OBVIOUS
    <2>1. exposure = {} /\ seen = {} /\ ~ZeroedSave' /\ NoOverlap' /\ NoOverlap
      BY Noted
    <2> QED BY <1>1, <2>1 DEF Inv, KekInv, DataInv
  <1> QED BY <1>1, <1>2 DEF Inv, KekInv, DataInv

(* A change runs alone unless it overlaps with something.                  *)
LEMMA Alone ==
  ASSUME ~ChangeOverlap, NEW c \in Calls, Changes(c)
  PROVE  /\ \A d \in Calls \ {c} : ~Active(d)
         /\ \A t \in Tabs \ {call[c].tab} : tab[t] = LockedTab
  BY DEF ChangeOverlap

(* The same for the excuses: neither goes with another call in flight.     *)
LEMMA NoExcuse ==
  ASSUME ~ChangeOverlap, NEW c \in Calls, Active(c), NEW d \in Calls \ {c}
  PROVE  ~Rotating(d) /\ ~Minting(d) /\ call[d].kind \notin {"rotate", "rebind"}
  BY DEF ChangeOverlap, Changes, Rotating, Minting

LEMMA KekSorts ==
  ASSUME TypeInv, KekBody
  PROVE  /\ Keyed(vault)
         /\ account # NoAccount => KekOf(account) # NoKek /\ vault # NoRow /\ vault.format # 0
  <1>1. account # NoAccount => KekOf(account) # NoKek /\ vault.kek = KekOf(account) /\ vault.format # 0
    BY Nones DEF KekBody, AccountOpens, KekOf, OpensWith, NoKek
  <1>2. account = NoAccount => vault.format = 0
    BY Nones DEF KekBody, NothingLeft
  <1> QED BY <1>1, <1>2, Nones DEF Keyed

(* The written row holds the data key of the account, as any row must that *)
(* may come back.                                                          *)
LEMMA VaultHolds ==
  ASSUME TypeInv, KekBody, DataBody
  PROVE  Holds(vault)
  <1>1. CASE account = NoAccount
    <2>1. vault = NoRow /\ salts \in Nat
      BY <1>1, Bounds DEF KekBody, NothingLeft, TypeInv, TypeOK, Salt
    <2> QED BY <2>1, Nones DEF Holds, Known
  <1>2. CASE account # NoAccount
    <2>1. vault.salt = account.salt /\ vault.format = account.format
      BY <1>2 DEF KekBody, AccountOpens, OpensWith, AadMatches
    <2> QED BY <2>1 DEF Holds, Known, DataBody, AccountHasKey
  <1> QED BY <1>1, <1>2

(* The vault key of an unlocked tab, seen from a call in flight.           *)
LEMMA TabHasKek ==
  ASSUME TypeInv, KekBody, NEW c \in Calls, Active(c), ~Rotating(c), NEW t \in Tabs, Unlocked(t)
  PROVE  tab[t].vk = KekOf(account)
  <1>1. ~ChangeOverlap /\ TabsHaveKek
    BY DEF KekBody
  <1>2. \A d \in Calls : ~Rotating(d)
    BY <1>1, NoExcuse
  <1> QED BY <1>1, <1>2 DEF TabsHaveKek

LEMMA TabHasKey ==
  ASSUME TypeInv, KekBody, DataBody, NEW c \in Calls, Active(c), ~Minting(c),
         NEW t \in Tabs, Unlocked(t), account.format >= 2
  PROVE  tab[t].dk = dataKey
  <1>1. ~ChangeOverlap /\ TabsHaveKey
    BY DEF KekBody, DataBody
  <1>2. \A d \in Calls : ~Minting(d)
    BY <1>1, NoExcuse
  <1> QED BY <1>1, <1>2 DEF TabsHaveKey

-----------------------------------------------------------------------------
(* Steps that begin a call. *)

Begun(c, t) ==
  LET j == call'[c] IN
  /\ ~Active(c) /\ Moves(c) /\ t \in Tabs
  /\ j \in Call /\ j.kind # "none" /\ j.pc = "account" /\ j.tab = t /\ j.acct = account
  /\ j.row = NoRow /\ j.shared = FALSE
  /\ j.kind = "provision" <=> account = NoAccount
  /\ j.kind \in {"sync", "recover"} => account.format >= 2
  /\ j.kind = "rebind" => ~Unlocked(t)
  /\ UNCHANGED <<account, vault, envelope, remote, tab, counters, dataKey>>

LEMMA BeginIs ==
  ASSUME TypeOK, NEW c \in Calls, NEW t \in Tabs,
         NEW kind \in {"open", "save", "sync", "rotate", "rebind", "provision", "envelope"},
         Begin(c, t, kind)
  PROVE  /\ ~Active(c) /\ Moves(c) /\ call'[c] \in Call
         /\ call'[c].kind = kind /\ call'[c].pc = "account" /\ call'[c].tab = t
         /\ call'[c].acct = account /\ call'[c].row = NoRow /\ call'[c].shared = FALSE
  <1> DEFINE j == [FreeCall EXCEPT !.kind = kind, !.tab = t, !.acct = account]
  <1>1. /\ j \in Call /\ j.kind = kind /\ j.pc = "account" /\ j.tab = t /\ j.acct = account
        /\ j.row = NoRow /\ j.shared = FALSE
    BY Nones DEF FreeCall, Call, TypeOK
  <1>2. ~Active(c) /\ call' = [call EXCEPT ![c] = j]
    BY DEF Begin
  <1> HIDE DEF j
  <1>3. Moves(c) /\ call'[c] = j
    BY <1>1, <1>2, Updating
  <1> QED BY <1>1, <1>2, <1>3

LEMMA BegunSafe ==
  ASSUME Inv, NEW c \in Calls, NEW t \in Tabs, Begun(c, t), Note({})
  PROVE  Inv'
  <1> USE DEF Inv
  <1>1. TypeInv'
    <2>1. RowsTyped'
      BY NoteType DEF Begun, RowsTyped, TypeInv, TypeOK, counters
    <2> QED BY <2>1, MovedType DEF Begun
  <1>2. \A d \in Calls \ {c} : call'[d] = call[d]
    BY DEF Begun, Moves
  <1>3. /\ call'[c].pc = "account" /\ call'[c].row = NoRow /\ call'[c].acct = account
        /\ account' = account /\ vault' = vault /\ remote' = remote /\ tab' = tab
        /\ envelope' = envelope /\ salts' = salts /\ keys' = keys /\ dataKey' = dataKey
    BY DEF Begun, counters
  <1>4. ASSUME KekBody, ~ChangeOverlap' PROVE KekBody'
    <2>1. AccountOpens' /\ Keyed(remote)'
      BY <1>3, <1>4 DEF KekBody, AccountOpens, Keyed, OpensWith, AadMatches, KekOf
    <2>2. NothingLeft'
      <3> SUFFICES ASSUME account = NoAccount, NEW d \in Calls, Active(d)'
                   PROVE  call'[d].kind = "provision" /\ call'[d].pc = "account"
        BY <1>3, <1>4 DEF KekBody, NothingLeft
      <3>1. CASE d = c
        BY <3>1 DEF Begun
      <3>2. CASE d # c
        BY <1>2, <1>4, <3>2 DEF KekBody, NothingLeft, Active
      <3> QED BY <3>1, <3>2
    <2>3. TabsHaveKek'
      <3> SUFFICES ASSUME NEW u \in Tabs, Unlocked(u), tab[u].vk # KekOf(account)
                   PROVE  \E d \in Calls : Rotating(d)' /\ call'[d].tab = u
        BY <1>3 DEF TabsHaveKek, Unlocked, KekOf
      <3>1. PICK d \in Calls : Rotating(d) /\ call[d].tab = u
        BY <1>4 DEF KekBody, TabsHaveKek
      <3>2. d # c
        BY <3>1 DEF Begun, Active, Rotating
      <3> QED BY <1>2, <3>1, <3>2 DEF Rotating
    <2>4. ASSUME NEW d \in Calls, Active(d)' PROVE CallSafe(d)'
      <3>1. CASE d = c
        BY <1>3, <3>1, Nones DEF CallSafe, Begun, Keyed, Unlocked
      <3>2. CASE d # c
        <4>1. call'[d] = call[d] /\ CallSafe(d)
          BY <1>2, <1>4, <2>4, <3>2 DEF KekBody, Active
        <4> QED BY <1>3, <4>1 DEF CallSafe, Unlocked, Keyed, KekOf
      <3> QED BY <3>1, <3>2
    <2> QED BY <1>4, <2>1, <2>2, <2>3, <2>4 DEF KekBody
  <1>5. ASSUME KekBody, DataBody, ~ZeroedSave' PROVE DataBody'
    <2>1. /\ AccountHasKey' /\ Holds(remote)' /\ account'.salt <= salts' /\ EnvelopeHasKey'
      BY <1>3, <1>5 DEF DataBody, AccountHasKey, Holds, Known, EnvelopeHasKey
    <2>2. TabsHaveKey'
      <3>1. ASSUME NEW u \in Tabs, Unlocked(u), account.format >= 2, tab[u].dk # dataKey
            PROVE  \E d \in Calls : Minting(d)' /\ call'[d].tab = u
        <4>1. PICK d \in Calls : Minting(d) /\ call[d].tab = u
          BY <1>5, <3>1 DEF DataBody, TabsHaveKey
        <4>2. d # c
          BY <4>1 DEF Begun, Active, Minting
        <4> QED BY <1>2, <4>1, <4>2 DEF Minting
      <3> QED BY <1>3, <1>5, <3>1 DEF DataBody, TabsHaveKey, Unlocked
    <2>3. ASSUME NEW d \in Calls, Active(d)' PROVE CallHasKey(d)'
      <3>1. CASE d = c
        <4>1. salts \in Nat
          BY Bounds DEF TypeInv, TypeOK, Salt
        <4> QED BY <1>3, <3>1, <4>1, Nones DEF CallHasKey, Rotating, Holds, Known
      <3>2. CASE d # c
        <4>1. call'[d] = call[d] /\ CallHasKey(d)
          BY <1>2, <1>5, <2>3, <3>2 DEF DataBody, Active
        <4> QED BY <1>3, <4>1 DEF CallHasKey, Rotating, Holds, Known
      <3> QED BY <3>1, <3>2
    <2> QED BY <1>5, <2>1, <2>2, <2>3 DEF DataBody
  <1> QED BY <1>1, <1>4, <1>5, Layers

LEMMA Beginning ==
  ASSUME Inv, NEW c \in Calls, NEW t \in Tabs,
         \/ BeginOpen(c, t) \/ BeginProvision(c, t) \/ BeginSave(c, t) \/ BeginSync(c, t)
         \/ BeginRotate(c, t) \/ BeginEnvelope(c, t) \/ BeginRecover(c, t) \/ BeginRebind(c, t)
  PROVE  Inv'
  <1>0. TypeOK
    BY DEF Inv, TypeInv
  <1>1. CASE BeginOpen(c, t)
    <2>1. Begun(c, t)
      BY <1>0, <1>1, BeginIs DEF BeginOpen, Begun
    <2> QED BY <1>1, <2>1, BegunSafe DEF BeginOpen
  <1>2. CASE BeginProvision(c, t)
    <2>1. Begun(c, t)
      BY <1>0, <1>2, BeginIs DEF BeginProvision, Begun
    <2> QED BY <1>2, <2>1, BegunSafe DEF BeginProvision
  <1>3. CASE BeginSave(c, t)
    <2>1. Begun(c, t)
      BY <1>0, <1>3, BeginIs DEF BeginSave, Begun
    <2> QED BY <1>3, <2>1, BegunSafe DEF BeginSave
  <1>4. CASE BeginSync(c, t)
    <2>0. account # NoAccount
      BY <1>4, Nones DEF BeginSync
    <2>1. Begun(c, t)
      BY <1>0, <1>4, <2>0, BeginIs DEF BeginSync, Begun
    <2> QED BY <1>4, <2>1, BegunSafe DEF BeginSync
  <1>5. CASE BeginRotate(c, t)
    <2>1. Begun(c, t)
      BY <1>0, <1>5, BeginIs DEF BeginRotate, Begun
    <2> QED BY <1>5, <2>1, BegunSafe DEF BeginRotate
  <1>6. CASE BeginEnvelope(c, t)
    <2>1. Begun(c, t)
      BY <1>0, <1>6, BeginIs DEF BeginEnvelope, Begun
    <2> QED BY <1>6, <2>1, BegunSafe DEF BeginEnvelope
  <1>7. CASE BeginRecover(c, t)
    <2> DEFINE j == [FreeCall EXCEPT !.kind = "recover", !.tab = t, !.acct = account,
                                     !.env = envelope]
    <2>1. /\ j \in Call /\ j.kind = "recover" /\ j.pc = "account" /\ j.tab = t
          /\ j.acct = account /\ j.row = NoRow /\ j.shared = FALSE
      BY <1>0, Nones DEF FreeCall, Call, TypeOK
    <2>2. call' = [call EXCEPT ![c] = j]
      BY <1>7 DEF BeginRecover
    <2> HIDE DEF j
    <2>3. Moves(c) /\ call'[c] = j
      BY <1>0, <2>1, <2>2, Updating
    <2>4. account # NoAccount
      BY <1>7, Nones DEF BeginRecover
    <2>5. Begun(c, t)
      BY <1>7, <2>1, <2>3, <2>4 DEF BeginRecover, Begun
    <2> QED BY <1>7, <2>5, BegunSafe DEF BeginRecover
  <1>8. CASE BeginRebind(c, t)
    <2>1. Begun(c, t)
      BY <1>0, <1>8, BeginIs DEF BeginRebind, Begun
    <2> QED BY <1>8, <2>1, BegunSafe DEF BeginRebind
  <1> QED BY <1>1, <1>2, <1>3, <1>4, <1>5, <1>6, <1>7, <1>8

-----------------------------------------------------------------------------
(* Steps that end a call, and set the keys of its tab or nothing. *)

Ended(c, t, zeroed) ==
  /\ Active(c) /\ t = call[c].tab /\ zeroed \subseteq {t}
  /\ Ends(c, zeroed) /\ TabOnly(t) /\ (Drops(t) \/ tab'[t].dk = tab[t].dk)
  /\ remote' \in Row /\ envelope' \in Envelope
  /\ UNCHANGED <<account, vault, counters, dataKey>>

(* The vault key the tab is left with opens the vault row.                 *)
LeavesKek(c, t) ==
  /\ account # NoAccount \/ tab' = tab
  /\ \/ tab'[t].vk \in {NoKek, KekOf(account)}
     \/ tab'[t].vk = tab[t].vk /\ ~Rotating(c)
(* The data key it is left with is the account's.                          *)
LeavesKey(c, t) ==
  \/ tab'[t].dk = dataKey
  \/ tab'[t] = tab[t] /\ ~Minting(c)
  \/ tab'[t].dk = 0 /\ (tab'[t].vk = NoKek \/ account.format < 2)

LEMMA EndedSafe ==
  ASSUME Inv, NEW c \in Calls, NEW t \in Tabs, NEW zeroed, Ended(c, t, zeroed), Note({}),
         KekBody => LeavesKek(c, t) /\ Keyed(remote'),
         KekBody /\ DataBody => LeavesKey(c, t) /\ Holds(remote') /\ EnvelopeHasKey'
  PROVE  Inv'
  <1> USE DEF Inv
  <1>1. TypeInv'
    <2>1. RowsTyped'
      BY NoteType DEF Ended, RowsTyped, TypeInv, TypeOK, counters
    <2> QED BY <2>1, EndedType DEF Ended
  <1>2. ~Active(c)' /\ \A d \in Calls \ {c} : Loosens(d, zeroed)
    BY Nones DEF Ended, Ends, Active
  <1>3. /\ account' = account /\ vault' = vault
        /\ salts' = salts /\ keys' = keys /\ dataKey' = dataKey
        /\ Active(c) /\ t = call[c].tab /\ \A u \in Tabs \ {t} : tab'[u] = tab[u]
    BY DEF Ended, counters, TabOnly
  <1>4. ASSUME KekBody, ~ChangeOverlap' PROVE KekBody'
    <2>1. AccountOpens' /\ Keyed(remote)'
      BY <1>3, <1>4 DEF KekBody, AccountOpens, Keyed, OpensWith, AadMatches, KekOf
    <2>2. NothingLeft'
      <3> SUFFICES ASSUME account = NoAccount
                   PROVE  /\ vault' = NoRow /\ \A u \in Tabs : tab'[u] = LockedTab
                          /\ \A d \in Calls : Active(d)' =>
                               call'[d].kind = "provision" /\ call'[d].pc = "account"
        BY <1>3 DEF NothingLeft
      <3>1. tab' = tab
        BY <1>4 DEF LeavesKek
      <3>2. ASSUME NEW d \in Calls, Active(d)'
            PROVE  call'[d].kind = "provision" /\ call'[d].pc = "account"
        <4>1. d # c /\ Same(d)
          BY <1>2, <3>2 DEF Loosens
        <4> QED BY <1>4, <3>2, <4>1 DEF KekBody, NothingLeft, Active, Same
      <3> QED BY <1>3, <1>4, <3>1, <3>2 DEF KekBody, NothingLeft
    <2>3. TabsHaveKek'
      <3> SUFFICES ASSUME NEW u \in Tabs, tab'[u].vk # NoKek, tab'[u].vk # KekOf(account)
                   PROVE  \E d \in Calls : Rotating(d)' /\ call'[d].tab = u
        BY <1>3 DEF TabsHaveKek, Unlocked, KekOf
      <3>1. tab'[u].vk = tab[u].vk /\ (u = t => ~Rotating(c))
        BY <1>3, <1>4 DEF LeavesKek
      <3>2. PICK d \in Calls : Rotating(d) /\ call[d].tab = u
        BY <1>4, <3>1 DEF KekBody, TabsHaveKek, Unlocked
      <3>3. d # c
        BY <1>3, <3>1, <3>2
      <3>4. Same(d)
        BY <1>2, <3>3 DEF Loosens
      <3> QED BY <3>2, <3>4 DEF Rotating, Same
    <2>4. ASSUME NEW d \in Calls, Active(d)' PROVE CallSafe(d)'
      <3>1. d # c /\ Same(d)
        BY <1>2, <2>4 DEF Loosens
      <3>2. Active(d) /\ CallSafe(d)
        BY <1>4, <2>4, <3>1 DEF KekBody, Active, Same
      <3>3. call[d].kind # "rebind"
        BY <1>3, <1>4, <3>1, NoExcuse DEF KekBody
      <3> QED BY <1>3, <3>1, <3>2, <3>3 DEF CallSafe, Keyed, KekOf, Same
    <2> QED BY <1>4, <2>1, <2>2, <2>3, <2>4 DEF KekBody
  <1>5. ASSUME KekBody, DataBody, ~ZeroedSave' PROVE DataBody'
    <2>1. /\ AccountHasKey' /\ Holds(remote)' /\ account'.salt <= salts' /\ EnvelopeHasKey'
      BY <1>3, <1>5 DEF DataBody, AccountHasKey, Holds, Known
    <2>2. ASSUME NEW u \in Tabs
          PROVE  /\ tab'[u].dk \in {0, dataKey}
                 /\ tab'[u].vk # NoKek /\ account.format >= 2 /\ tab'[u].dk # dataKey =>
                      \E d \in Calls : Minting(d)' /\ call'[d].tab = u
      <3>1. CASE tab'[u] = tab[u] /\ (u = t => ~Minting(c))
        <4> SUFFICES ASSUME tab[u].vk # NoKek, account.format >= 2, tab[u].dk # dataKey
                     PROVE  \E d \in Calls : Minting(d)' /\ call'[d].tab = u
          BY <1>5, <3>1 DEF DataBody, TabsHaveKey
        <4>1. PICK d \in Calls : Minting(d) /\ call[d].tab = u
          BY <1>5 DEF DataBody, TabsHaveKey, Unlocked
        <4>2. d # c
          BY <1>3, <3>1, <4>1
        <4>3. Same(d)
          BY <1>2, <4>2 DEF Loosens
        <4> QED BY <4>1, <4>3 DEF Minting, Same
      <3>2. CASE ~(tab'[u] = tab[u] /\ (u = t => ~Minting(c)))
        <4>1. u = t
          BY <1>3, <3>2
        <4>2. \/ tab'[t].dk = dataKey
              \/ tab'[t].dk = 0 /\ (tab'[t].vk = NoKek \/ account.format < 2)
          BY <1>5, <3>2, <4>1 DEF LeavesKey
        <4>3. account.format \in Nat
          BY DEF TypeInv, TypeOK, Account, Format
        <4> QED BY <4>1, <4>2, <4>3
      <3> QED BY <3>1, <3>2
    <2>3. TabsHaveKey'
      BY <1>3, <2>2 DEF TabsHaveKey, Unlocked
    <2>4. ASSUME NEW d \in Calls, Active(d)' PROVE CallHasKey(d)'
      <3>1. d # c /\ Same(d) /\ Loosens(d, zeroed)
        BY <1>2, <2>4 DEF Loosens
      <3>2. Active(d) /\ CallHasKey(d)
        BY <1>5, <2>4, <3>1 DEF DataBody, Active, Same
      <3>3. call[d].kind \notin {"rebind", "rotate"}
        BY <1>3, <1>5, <3>1, NoExcuse DEF KekBody
      <3>4. call'[d].dk = call[d].dk
        <4> SUFFICES ASSUME call'[d].dk = Zeroed, call[d].shared PROVE FALSE
          BY <3>1 DEF Loosens
        <4>1. call'[d].kind = "save" /\ call'[d].pc = "after"
          BY <3>1, <3>3 DEF TypeInv, Same
        <4> QED BY <1>5, <4>1 DEF ZeroedSave
      <3>5. Holds(call[d].row)'
        BY <1>3, <3>1, <3>2 DEF CallHasKey, Holds, Known, Same
      <3> QED BY <1>3, <3>1, <3>2, <3>3, <3>4, <3>5 DEF CallHasKey, Rotating, Same
    <2> QED BY <1>5, <2>1, <2>3, <2>4 DEF DataBody
  <1> QED BY <1>1, <1>4, <1>5, Layers

(* What the bodies say of a call in flight.                                *)
LEMMA InFlight ==
  ASSUME Inv, NEW c \in Calls, Active(c)
  PROVE  /\ call[c].tab \in Tabs /\ call[c].kind # "none"
         /\ KekBody => CallSafe(c)
         /\ KekBody /\ ~(call[c].kind = "provision" /\ call[c].pc = "account") => account # NoAccount
         /\ KekBody /\ DataBody => CallHasKey(c)
  BY DEF Inv, TypeInv, KekBody, NothingLeft, DataBody, Active

LEMMA FailSafe ==
  ASSUME Inv, NEW c \in Calls, Fail(c)
  PROVE  Inv'
  <1>0. TypeOK
    BY DEF Inv, TypeInv
  <1>1. Ends(c, {})
    BY <1>0, Ending DEF Fail
  <1>2. call[c].tab \in Tabs
    BY InFlight DEF Fail
  <1>3. Ended(c, call[c].tab, {})
    BY <1>0, <1>1, <1>2 DEF Fail, Ended, TabOnly, TypeOK
  <1>4. LeavesKek(c, call[c].tab) /\ LeavesKey(c, call[c].tab) /\ Note({})
    BY DEF Fail, LeavesKek, LeavesKey, Rotating, Minting
  <1>5. UNCHANGED <<account, remote, envelope, salts, dataKey>>
    BY DEF Fail, counters
  <1>6. KekBody => Keyed(remote')
    BY <1>5 DEF KekBody
  <1>7. DataBody => Holds(remote') /\ EnvelopeHasKey'
    BY <1>5 DEF DataBody, EnvelopeHasKey
  <1> QED BY <1>2, <1>3, <1>4, <1>6, <1>7, EndedSafe

LEMMA PushLocalSafe ==
  ASSUME Inv, NEW c \in Calls, PushLocal(c)
  PROVE  Inv'
  <1>0. TypeOK /\ TypeInv
    BY DEF Inv, TypeInv
  <1>1. Ends(c, {})
    BY <1>0, Ending DEF PushLocal
  <1>2. Active(c)
    BY DEF PushLocal, Active
  <1>3. call[c].tab \in Tabs
    BY <1>2, InFlight
  <1>4. Ended(c, call[c].tab, {})
    BY <1>0, <1>1, <1>2, <1>3 DEF PushLocal, Ended, TabOnly, TypeOK
  <1>5. LeavesKek(c, call[c].tab) /\ LeavesKey(c, call[c].tab) /\ Note({})
    BY DEF PushLocal, LeavesKek, LeavesKey, Rotating, Minting
  <1>6. UNCHANGED <<account, envelope, salts, dataKey>> /\ remote' = vault
    BY DEF PushLocal, counters
  <1>7. KekBody => Keyed(remote')
    BY <1>0, <1>6, KekSorts
  <1>8. KekBody /\ DataBody => Holds(remote') /\ EnvelopeHasKey'
    BY <1>0, <1>6, VaultHolds DEF DataBody, EnvelopeHasKey
  <1> QED BY <1>3, <1>4, <1>5, <1>7, <1>8, EndedSafe

LEMMA FinishOpenSafe ==
  ASSUME Inv, NEW c \in Calls, FinishOpen(c)
  PROVE  Inv'
  <1>0. TypeOK /\ TypeInv
    BY DEF Inv, TypeInv
  <1> DEFINE t == call[c].tab
             k == [vk |-> KekOf(call[c].acct),
                   dk |-> IF call[c].acct.format = 1 THEN 0 ELSE call[c].row.dk]
  <1>1. Active(c) /\ call[c].kind = "open" /\ call[c].pc = "row" /\ Note({})
    BY DEF FinishOpen, Active
  <1>2. t \in Tabs
    BY <1>1, InFlight
  <1>3. Ends(c, {}) /\ Drops(t)
    BY <1>0, <1>2, Releasing DEF FinishOpen
  <1>4. k \in Tab /\ k.vk = KekOf(call[c].acct)
    <2>1. call[c].acct \in Account /\ call[c].row \in Row /\ 0 \in DataKey
      BY <1>0, CallIs, Nones DEF NoEnvelope, Envelope
    <2> QED BY <2>1 DEF Tab, Kek, KekOf, Account, Row
  <1>5. tab' = [tab EXCEPT ![t] = k]
    BY DEF FinishOpen
  <1>6. /\ call[c].acct.format = 1 => k.dk = 0
        /\ call[c].acct.format # 1 => k.dk = call[c].row.dk
    OBVIOUS
  <1>7. /\ UNCHANGED <<account, vault, envelope, counters, dataKey>>
        /\ remote' \in {remote, call[c].row}
        /\ OpensWith(call[c].acct, KekOf(call[c].acct), call[c].row)
    BY DEF FinishOpen
  <1> HIDE DEF k
  <1>8. TabOnly(t) /\ tab'[t] = k
    BY <1>0, <1>2, <1>4, <1>5 DEF TypeOK, TabOnly
  <1>9. remote' \in Row /\ envelope' \in Envelope
    BY <1>0, <1>7, CallIs DEF TypeOK
  <1>10. ASSUME KekBody
         PROVE  /\ account # NoAccount /\ call[c].acct = account
                /\ LeavesKek(c, t) /\ Keyed(remote')
    <2>1. CallSafe(c) /\ account # NoAccount
      BY <1>1, <1>10, InFlight
    <2>2. call[c].acct = account /\ Keyed(call[c].row)
      BY <1>1, <2>1 DEF CallSafe
    <2> QED BY <1>4, <1>7, <1>8, <1>10, <2>1, <2>2 DEF LeavesKek, KekBody
  <1>11. ASSUME KekBody, DataBody
         PROVE  LeavesKey(c, t) /\ Holds(remote') /\ EnvelopeHasKey'
    <2>1. Holds(call[c].row) /\ account # NoAccount /\ call[c].acct = account
      BY <1>1, <1>10, <1>11, InFlight DEF CallHasKey
    <2>2. Holds(remote') /\ EnvelopeHasKey'
      BY <1>7, <1>11, <2>1 DEF DataBody, EnvelopeHasKey, counters
    <2>3. account.format \in Nat /\ account.format # 0
      BY <1>0, <1>11, <2>1 DEF KekBody, AccountOpens, TypeOK, Account, Format
    <2>4. CASE account.format = 1
      <3>1. tab'[t].dk = 0
        BY <1>6, <1>8, <2>1, <2>4
      <3>2. account.format < 2
        BY <2>4
      <3> QED BY <2>2, <3>1, <3>2 DEF LeavesKey
    <2>5. CASE account.format >= 2
      <3>1. tab'[t].dk = call[c].row.dk
        BY <1>6, <1>8, <2>1, <2>5
      <3>2. call[c].row.dk = dataKey
        BY <1>7, <2>1, <2>5 DEF Holds, Known, OpensWith, AadMatches
      <3> QED BY <2>2, <3>1, <3>2 DEF LeavesKey
    <2> QED BY <2>2, <2>3, <2>4, <2>5
  <1>12. Ended(c, t, {})
    BY <1>1, <1>3, <1>7, <1>8, <1>9 DEF Ended
  <1> QED BY <1>1, <1>2, <1>10, <1>11, <1>12, EndedSafe

(* A call that finishes with nothing but the data key of its tab changed.  *)
LEMMA FinishSaveSafe ==
  ASSUME Inv, NEW c \in Calls, FinishSave(c)
  PROVE  Inv'
  <1>0. TypeOK /\ TypeInv
    BY DEF Inv, TypeInv
  <1> DEFINE t == call[c].tab
  <1>1. Active(c) /\ call[c].kind = "save" /\ call[c].pc = "after" /\ Note({})
    BY DEF FinishSave, Active
  <1>2. t \in Tabs
    BY <1>1, InFlight
  <1>3. /\ TabOnly(t) /\ tab'[t].dk = call[c].dk /\ tab'[t].vk = tab[t].vk
    BY <1>0, <1>2, CallIs, TabIs DEF FinishSave, TypeOK, TabOnly, Tab
  <1>4. Ends(c, {}) /\ (Drops(t) \/ tab'[t].dk = tab[t].dk)
    <2>1. CASE call[c].shared
      <3>1. End(c)
        BY <2>1 DEF FinishSave, End
      <3>2. call[c].dk = tab[t].dk
        BY <1>0, <2>1 DEF TypeOK
      <3> QED BY <1>0, <1>3, <3>1, <3>2, Ending
    <2>2. CASE ~call[c].shared
      BY <1>0, <1>2, <2>2, Releasing DEF FinishSave
    <2> QED BY <2>1, <2>2
  <1>5. /\ UNCHANGED <<account, vault, envelope, counters, dataKey>>
        /\ remote' \in {remote, call[c].row}
    BY DEF FinishSave
  <1>6. remote' \in Row /\ envelope' \in Envelope
    BY <1>0, <1>5, CallIs DEF TypeOK
  <1>7. Ended(c, t, {})
    BY <1>1, <1>3, <1>4, <1>5, <1>6 DEF Ended
  <1>8. KekBody => LeavesKek(c, t) /\ Keyed(remote')
    BY <1>1, <1>3, <1>5, InFlight DEF LeavesKek, Rotating, CallSafe, KekBody
  <1>9. KekBody /\ DataBody => LeavesKey(c, t) /\ Holds(remote') /\ EnvelopeHasKey'
    BY <1>1, <1>3, <1>5, InFlight DEF LeavesKey, CallHasKey, DataBody, EnvelopeHasKey, counters
  <1> QED BY <1>1, <1>2, <1>7, <1>8, <1>9, EndedSafe

LEMMA InstallKeysSafe ==
  ASSUME Inv, NEW c \in Calls, InstallKeys(c)
  PROVE  Inv'
  <1>0. TypeOK /\ TypeInv
    BY DEF Inv, TypeInv
  <1> DEFINE t == call[c].tab
  <1>1. /\ Active(c) /\ call[c].kind \in {"provision", "rebind"} /\ call[c].pc = "after"
        /\ Note({})
    BY DEF InstallKeys, Active
  <1>2. t \in Tabs
    BY <1>1, InFlight
  <1>3. /\ TabOnly(t) /\ tab'[t].dk = call[c].dk /\ tab'[t].vk = call[c].kek
    BY <1>0, <1>2, CallIs, TabIs DEF InstallKeys, TypeOK, TabOnly, Tab
  <1>4. Ends(c, {}) /\ (Drops(t) \/ tab'[t].dk = tab[t].dk)
    <2>1. CASE call[c].shared
      <3>1. End(c)
        BY <2>1 DEF InstallKeys, End
      <3>2. call[c].dk = tab[t].dk
        BY <1>0, <2>1 DEF TypeOK
      <3> QED BY <1>0, <1>3, <3>1, <3>2, Ending
    <2>2. CASE ~call[c].shared
      BY <1>0, <1>2, <2>2, Releasing DEF InstallKeys
    <2> QED BY <2>1, <2>2
  <1>5. /\ UNCHANGED <<account, vault, envelope, counters, dataKey>>
        /\ remote' \in {remote, call[c].row}
    BY DEF InstallKeys
  <1>6. remote' \in Row /\ envelope' \in Envelope
    BY <1>0, <1>5, CallIs DEF TypeOK
  <1>7. Ended(c, t, {})
    BY <1>1, <1>3, <1>4, <1>5, <1>6 DEF Ended
  <1>8. KekBody => LeavesKek(c, t) /\ Keyed(remote')
    BY <1>1, <1>3, <1>5, InFlight DEF LeavesKek, CallSafe, KekBody
  <1>9. KekBody /\ DataBody => LeavesKey(c, t) /\ Holds(remote') /\ EnvelopeHasKey'
    BY <1>1, <1>3, <1>5, InFlight DEF LeavesKey, CallHasKey, DataBody, EnvelopeHasKey, counters
  <1> QED BY <1>1, <1>2, <1>7, <1>8, <1>9, EndedSafe

LEMMA FinishSyncSafe ==
  ASSUME Inv, NEW c \in Calls, FinishSync(c)
  PROVE  Inv'
  <1>0. TypeOK /\ TypeInv
    BY DEF Inv, TypeInv
  <1> DEFINE t == call[c].tab
  <1>1. Active(c) /\ call[c].kind = "sync" /\ call[c].pc = "after" /\ Note({})
    BY DEF FinishSync, Active
  <1>2. t \in Tabs
    BY <1>1, InFlight
  <1>3. /\ TabOnly(t) /\ tab'[t].dk = call[c].dk /\ tab'[t].vk = tab[t].vk
    BY <1>0, <1>2, CallIs, TabIs DEF FinishSync, TypeOK, TabOnly, Tab
  <1>4. Ends(c, {t}) /\ Drops(t)
    BY <1>0, <1>2, EndingZeroed DEF FinishSync
  <1>5. UNCHANGED <<account, vault, envelope, remote, counters, dataKey>>
    BY DEF FinishSync
  <1>6. remote' \in Row /\ envelope' \in Envelope
    BY <1>0, <1>5 DEF TypeOK
  <1>7. Ended(c, t, {t})
    BY <1>1, <1>3, <1>4, <1>5, <1>6 DEF Ended
  <1>8. KekBody => LeavesKek(c, t) /\ Keyed(remote')
    BY <1>1, <1>3, <1>5, InFlight DEF LeavesKek, Rotating, KekBody
  <1>9. KekBody /\ DataBody => LeavesKey(c, t) /\ Holds(remote') /\ EnvelopeHasKey'
    BY <1>1, <1>3, <1>5, InFlight DEF LeavesKey, CallHasKey, DataBody, EnvelopeHasKey, counters
  <1> QED BY <1>1, <1>2, <1>7, <1>8, <1>9, EndedSafe

LEMMA FinishRotationSafe ==
  ASSUME Inv, NEW c \in Calls, FinishRotation(c)
  PROVE  Inv'
  <1>0. TypeOK /\ TypeInv
    BY DEF Inv, TypeInv
  <1> DEFINE t == call[c].tab
  <1>1. /\ Active(c) /\ call[c].kind = "rotate" /\ call[c].pc = "after" /\ Note({})
        /\ End(c)
    BY DEF FinishRotation, Active
  <1>2. t \in Tabs
    BY <1>1, InFlight
  <1>3. /\ TabOnly(t) /\ tab'[t].dk = tab[t].dk /\ tab'[t].vk = call[c].kek
    BY <1>0, <1>2, CallIs, TabIs DEF FinishRotation, TypeOK, TabOnly, Tab
  <1>4. Ends(c, {})
    BY <1>0, <1>1, Ending
  <1>5. UNCHANGED <<account, vault, envelope, remote, counters, dataKey>>
    BY DEF FinishRotation
  <1>6. remote' \in Row /\ envelope' \in Envelope
    BY <1>0, <1>5 DEF TypeOK
  <1>7. Ended(c, t, {})
    BY <1>1, <1>3, <1>4, <1>5, <1>6 DEF Ended
  <1>8. KekBody => LeavesKek(c, t) /\ Keyed(remote')
    BY <1>1, <1>3, <1>5, InFlight DEF LeavesKek, CallSafe, KekBody
  <1>9. KekBody /\ DataBody => LeavesKey(c, t) /\ Holds(remote') /\ EnvelopeHasKey'
    BY <1>1, <1>3, <1>5, InFlight DEF LeavesKey, CallHasKey, Rotating, DataBody,
       EnvelopeHasKey, counters
  <1> QED BY <1>1, <1>2, <1>7, <1>8, <1>9, EndedSafe

LEMMA CommitEnvelopeSafe ==
  ASSUME Inv, NEW c \in Calls, CommitEnvelope(c)
  PROVE  Inv'
  <1>0. TypeOK /\ TypeInv
    BY DEF Inv, TypeInv
  <1> DEFINE t == call[c].tab
  <1>1. Active(c) /\ call[c].kind = "envelope" /\ tab[t].dk # 0 /\ Note({}) /\ End(c)
    BY DEF CommitEnvelope, Active
  <1>2. t \in Tabs
    BY <1>1, InFlight
  <1>3. /\ UNCHANGED <<account, vault, remote, tab, counters, dataKey>>
        /\ envelope' = [salt |-> call[c].acct.salt, dk |-> tab[t].dk]
    BY DEF CommitEnvelope
  <1>4. TabOnly(t)
    BY <1>0, <1>3 DEF TypeOK, TabOnly
  <1>5. Ends(c, {})
    BY <1>0, <1>1, Ending
  <1>6. remote' \in Row /\ envelope' \in Envelope
    BY <1>0, <1>2, <1>3, CallIs, TabIs DEF TypeOK, Envelope, Account
  <1>7. Ended(c, t, {})
    BY <1>1, <1>3, <1>4, <1>5, <1>6 DEF Ended
  <1>8. LeavesKek(c, t) /\ LeavesKey(c, t)
    BY <1>1, <1>3 DEF LeavesKek, LeavesKey, Rotating, Minting
  <1>9. KekBody => Keyed(remote')
    BY <1>3 DEF KekBody
  <1>10. ASSUME KekBody, DataBody PROVE Holds(remote') /\ EnvelopeHasKey'
    <2>1. CallSafe(c) /\ account # NoAccount
      BY <1>1, <1>10, InFlight
    <2>2. call[c].acct = account
      BY <1>1, <2>1 DEF CallSafe
    <2>3. tab[t].dk = dataKey /\ dataKey # 0
      BY <1>1, <1>2, <1>10 DEF DataBody, TabsHaveKey
    <2>4. account.format \in 0 .. 3 /\ account.format # 0 /\ account.format # 1
      BY <1>0, <1>10, <2>1, <2>3
      DEF TypeOK, Account, Format, KekBody, AccountOpens, DataBody, AccountHasKey
    <2>5. envelope'.salt = account.salt /\ envelope'.dk = dataKey
      BY <1>3, <2>2, <2>3
    <2> QED BY <1>3, <1>10, <2>1, <2>4, <2>5 DEF DataBody, EnvelopeHasKey, counters
  <1> QED BY <1>1, <1>2, <1>7, <1>8, <1>9, <1>10, EndedSafe

LEMMA FinishRecoverSafe ==
  ASSUME Inv, NEW c \in Calls, FinishRecover(c)
  PROVE  Inv'
  <1>0. TypeOK /\ TypeInv
    BY DEF Inv, TypeInv
  <1> DEFINE t == call[c].tab
             k == [vk |-> NoKek, dk |-> call[c].env.dk]
  <1>1. /\ Active(c) /\ call[c].kind = "recover" /\ call[c].pc = "row" /\ Note({})
        /\ OpensWithData(call[c].acct, call[c].env.dk, call[c].row)
    BY DEF FinishRecover, Active
  <1>2. t \in Tabs
    BY <1>1, InFlight
  <1>3. Ends(c, {t}) /\ Drops(t)
    BY <1>0, <1>2, EndingZeroed DEF FinishRecover
  <1>4. k \in Tab /\ k.vk = NoKek /\ k.dk = call[c].env.dk
    BY <1>0, CallIs, Nones DEF Tab, Envelope
  <1>5. tab' = [tab EXCEPT ![t] = k] /\ UNCHANGED <<account, vault, envelope, remote, counters, dataKey>>
    BY DEF FinishRecover
  <1> HIDE DEF k
  <1>6. TabOnly(t) /\ tab'[t] = k
    BY <1>0, <1>2, <1>4, <1>5 DEF TypeOK, TabOnly
  <1>7. remote' \in Row /\ envelope' \in Envelope
    BY <1>0, <1>5 DEF TypeOK
  <1>8. Ended(c, t, {t})
    BY <1>1, <1>3, <1>5, <1>6, <1>7 DEF Ended
  <1>9. KekBody => LeavesKek(c, t) /\ Keyed(remote')
    BY <1>1, <1>4, <1>5, <1>6, InFlight DEF LeavesKek, KekBody
  <1>10. ASSUME KekBody, DataBody PROVE LeavesKey(c, t) /\ Holds(remote') /\ EnvelopeHasKey'
    <2>1. CallSafe(c) /\ account # NoAccount /\ Holds(call[c].row)
      BY <1>1, <1>10, InFlight DEF CallHasKey
    <2>2. call[c].acct = account /\ account.format >= 2
      BY <1>1, <2>1 DEF CallSafe
    <2>3. call[c].env.dk = dataKey
      BY <1>1, <2>1, <2>2 DEF OpensWithData, AadMatches, Holds, Known
    <2>4. LeavesKey(c, t)
      BY <1>4, <1>6, <2>3 DEF LeavesKey
    <2> QED BY <1>5, <1>10, <2>4 DEF DataBody, EnvelopeHasKey, counters
  <1> QED BY <1>1, <1>2, <1>8, <1>9, <1>10, EndedSafe

-----------------------------------------------------------------------------
(* Steps of a call that leave the account and the tabs as they are. *)

Stepped(c) ==
  LET j == call'[c] IN
  /\ Active(c) /\ call[c].pc # "after" /\ Moves(c)
  /\ j.kind = call[c].kind /\ j.tab = call[c].tab /\ j.acct = call[c].acct
  /\ call[c].kind \notin {"provision", "envelope"}
  /\ vault' \in Row /\ changes' \in Factor /\ keys' \in 0 .. MaxKeys /\ dataKey' \in 0 .. MaxKeys
  /\ j.shared => /\ j.kind \in {"save", "rebind"} /\ j.pc = "after"
                 /\ j.dk = tab[j.tab].dk
  /\ UNCHANGED <<account, envelope, remote, tab, salts>>

LEMMA SteppedType ==
  ASSUME Inv, NEW c \in Calls, Stepped(c), Note({})
  PROVE  TypeInv'
  <1>1. TypeInv /\ TypeOK
    BY DEF Inv, TypeInv
  <1>2. RowsTyped'
    BY <1>1, NoteType DEF Stepped, RowsTyped, TypeOK
  <1>3. call'[c].tab \in Tabs
    BY InFlight DEF Stepped
  <1> QED BY <1>1, <1>2, <1>3, MovedType DEF Stepped

LEMMA SteppedKek ==
  ASSUME Inv, NEW c \in Calls, Stepped(c), ~ChangeOverlap', KekBody,
         OpensWith(account, KekOf(account), vault'), CallSafe(c)'
  PROVE  KekBody'
  <1>1. \A d \in Calls \ {c} : call'[d] = call[d]
    BY DEF Stepped, Moves
  <1>2. account' = account /\ remote' = remote /\ tab' = tab
    BY DEF Stepped
  <1>3. account # NoAccount
    BY InFlight DEF Stepped
  <1>4. AccountOpens' /\ Keyed(remote)' /\ NothingLeft'
    BY <1>2, <1>3 DEF KekBody, AccountOpens, Keyed, OpensWith, AadMatches, KekOf, NothingLeft
  <1>5. TabsHaveKek'
    <2>1. ASSUME NEW u \in Tabs, Unlocked(u), tab[u].vk # KekOf(account)
          PROVE  FALSE
      BY <2>1, TabHasKek DEF Inv, Stepped, Rotating
    <2> QED BY <1>2, <2>1 DEF TabsHaveKek, Unlocked, KekOf
  <1>6. ASSUME NEW d \in Calls, Active(d)' PROVE CallSafe(d)'
    <2>1. CASE d # c
      <3>1. call'[d] = call[d] /\ CallSafe(d)
        BY <1>1, <1>6, <2>1 DEF KekBody, Active
      <3> QED BY <1>2, <3>1 DEF CallSafe, Unlocked, Keyed, KekOf
    <2> QED BY <2>1
  <1> QED BY <1>4, <1>5, <1>6 DEF KekBody

(* A step that writes no row of another data key.                          *)
LEMMA SteppedData ==
  ASSUME Inv, NEW c \in Calls, Stepped(c), KekBody, KekBody', DataBody, ~ZeroedSave',
         keys' = keys, dataKey' = dataKey, account.format >= 2 => vault'.dk = dataKey,
         call[c].kind \in {"save", "sync"} /\ call'[c].pc = "after" => call'[c].dk = dataKey,
         ~Rotating(c)', call[c].kind = "rebind" => call'[c].pc # "after",
         Holds(call'[c].row)
  PROVE  DataBody'
  <1>1. \A d \in Calls \ {c} : call'[d] = call[d]
    BY DEF Stepped, Moves
  <1>2. account' = account /\ remote' = remote /\ tab' = tab /\ envelope' = envelope /\ salts' = salts
    BY DEF Stepped
  <1>3. AccountHasKey' /\ Holds(remote)' /\ account'.salt <= salts' /\ EnvelopeHasKey'
    BY <1>2 DEF DataBody, AccountHasKey, Holds, Known, EnvelopeHasKey
  <1>4. ASSUME NEW u \in Tabs, Unlocked(u), account.format >= 2 PROVE tab[u].dk = dataKey
    BY <1>4, TabHasKey DEF Inv, Stepped, Minting
  <1>5. TabsHaveKey'
    BY <1>2, <1>4 DEF DataBody, TabsHaveKey, Unlocked
  <1>6. ASSUME NEW d \in Calls, Active(d)' PROVE CallHasKey(d)'
    <2>1. CASE d = c
      <3>1. Holds(call[c].row)'
        BY <1>2 DEF Holds, Known
      <3> QED BY <2>1, <3>1 DEF CallHasKey, Stepped
    <2>2. CASE d # c
      <3>1. call'[d] = call[d] /\ CallHasKey(d)
        BY <1>1, <1>6, <2>2 DEF DataBody, Active
      <3> QED BY <1>2, <3>1 DEF CallHasKey, Rotating, Holds, Known
    <2> QED BY <2>1, <2>2
  <1> QED BY <1>3, <1>5, <1>6 DEF DataBody

LEMMA ReadRowSafe ==
  ASSUME Inv, NEW c \in Calls, ReadRow(c)
  PROVE  Inv'
  <1>0. TypeOK /\ TypeInv
    BY DEF Inv, TypeInv
  <1> DEFINE j == [call[c] EXCEPT !.pc = "row", !.row = vault]
  <1>1. /\ j \in Call /\ j.pc = "row" /\ j.row = vault /\ j.kind = call[c].kind
        /\ j.tab = call[c].tab /\ j.acct = call[c].acct /\ j.shared = call[c].shared
    <2>1. call[c] \in Call /\ vault \in Row
      BY <1>0, CallIs DEF TypeOK
    <2> QED BY <2>1 DEF Call
  <1>2. call' = [call EXCEPT ![c] = j]
    BY <1>0 DEF ReadRow, TypeOK
  <1> HIDE DEF j
  <1>3. Moves(c) /\ call'[c] = j
    BY <1>0, <1>1, <1>2, Updating
  <1>4. /\ call[c].kind \in {"open", "recover", "rebind"} /\ call[c].pc = "account" /\ Note({})
        /\ UNCHANGED <<account, vault, envelope, remote, tab, counters, dataKey>>
    BY DEF ReadRow
  <1>5. Active(c) /\ ~call[c].shared
    BY <1>0, <1>4, CallIs DEF Active, TypeInv
  <1>6. Stepped(c)
    BY <1>0, <1>1, <1>3, <1>4, <1>5 DEF Stepped, counters, TypeOK
  <1>7. TypeInv'
    BY <1>4, <1>6, SteppedType
  <1>8. ASSUME KekBody, ~ChangeOverlap' PROVE KekBody'
    <2>1. CallSafe(c) /\ account # NoAccount /\ Keyed(vault)
      BY <1>0, <1>4, <1>5, <1>8, InFlight, KekSorts
    <2>2. OpensWith(account, KekOf(account), vault')
      BY <1>4, <1>8, <2>1 DEF KekBody, AccountOpens
    <2>3. CallSafe(c)'
      BY <1>1, <1>3, <1>4, <2>1 DEF CallSafe, Unlocked, Keyed
    <2> QED BY <1>6, <1>8, <2>2, <2>3, SteppedKek
  <1>9. ASSUME KekBody, KekBody', DataBody, ~ZeroedSave' PROVE DataBody'
    <2>1. Holds(vault)
      BY <1>0, <1>9, VaultHolds
    <2> QED BY <1>1, <1>3, <1>4, <1>6, <1>9, <2>1, SteppedData
            DEF counters, Rotating, DataBody, AccountHasKey
  <1> QED BY <1>4, <1>7, <1>8, <1>9, Layers

LEMMA CommitSyncSafe ==
  ASSUME Inv, NEW c \in Calls, CommitSync(c)
  PROVE  Inv'
  <1>0. TypeOK /\ TypeInv
    BY DEF Inv, TypeInv
  <1> DEFINE j == [call[c] EXCEPT !.pc = "after", !.dk = remote.dk]
             t == call[c].tab
  <1>1. /\ j \in Call /\ j.pc = "after" /\ j.dk = remote.dk /\ j.kind = call[c].kind
        /\ j.tab = t /\ j.acct = call[c].acct /\ j.shared = call[c].shared /\ j.row = call[c].row
    <2>1. call[c] \in Call /\ remote.dk \in DataKey
      BY <1>0, CallIs DEF TypeOK, Row
    <2> QED BY <2>1 DEF Call
  <1>2. call' = [call EXCEPT ![c] = j]
    BY <1>0 DEF CommitSync, TypeOK
  <1> HIDE DEF j
  <1>3. Moves(c) /\ call'[c] = j
    BY <1>0, <1>1, <1>2, Updating
  <1>4. /\ call[c].kind = "sync" /\ call[c].pc = "account" /\ Note({})
        /\ OpensWith(call[c].acct, tab[t].vk, remote) /\ vault' = remote
        /\ UNCHANGED <<account, envelope, remote, tab, counters, dataKey>>
    BY DEF CommitSync
  <1>5. Active(c) /\ ~call[c].shared /\ t \in Tabs
    BY <1>0, <1>4, CallIs, InFlight DEF Active, TypeInv
  <1>6. Stepped(c)
    BY <1>0, <1>1, <1>3, <1>4, <1>5 DEF Stepped, counters, TypeOK
  <1>7. TypeInv'
    BY <1>4, <1>6, SteppedType
  <1>8. ASSUME KekBody, ~ChangeOverlap' PROVE KekBody'
    <2>1. CallSafe(c) /\ account # NoAccount
      BY <1>4, <1>5, <1>8, InFlight
    <2>2. call[c].acct = account
      BY <1>4, <2>1 DEF CallSafe
    <2>3. Unlocked(t)
      BY <1>4, <1>8 DEF KekBody, Keyed, OpensWith, Unlocked
    <2>4. tab[t].vk = KekOf(account)
      BY <1>0, <1>4, <1>5, <1>8, <2>3, TabHasKek DEF Rotating
    <2>5. OpensWith(account, KekOf(account), vault')
      BY <1>4, <2>2, <2>4
    <2>6. CallSafe(c)'
      BY <1>1, <1>3, <1>4, <2>1 DEF CallSafe, Unlocked, Keyed
    <2> QED BY <1>6, <1>8, <2>5, <2>6, SteppedKek
  <1>9. ASSUME KekBody, KekBody', DataBody, ~ZeroedSave' PROVE DataBody'
    <2>1. CallSafe(c) /\ account # NoAccount /\ Holds(call[c].row)
      BY <1>4, <1>5, <1>9, InFlight DEF CallHasKey
    <2>2. remote.format >= 2 /\ remote.salt = account.salt
      BY <1>4, <2>1 DEF CallSafe, OpensWith, AadMatches
    <2>3. remote.dk = dataKey
      BY <1>9, <2>1, <2>2 DEF DataBody, Holds, Known
    <2> QED BY <1>1, <1>3, <1>4, <1>6, <1>9, <2>1, <2>3, SteppedData DEF counters, Rotating
  <1> QED BY <1>4, <1>7, <1>8, <1>9, Layers

LEMMA DeriveRotationSafe ==
  ASSUME Inv, NEW c \in Calls, DeriveRotation(c)
  PROVE  Inv'
  <1>0. TypeOK /\ TypeInv /\ changes \in Nat /\ changes < MaxChanges
    BY Bounds DEF Inv, TypeInv, TypeOK, Factor, DeriveRotation
  <1> DEFINE a == call[c].acct
             kek(mp, op) == [salt |-> a.salt,
                             mp |-> IF mp = "on" THEN changes + 1 ELSE 0,
                             op |-> IF op = "on" THEN changes + 1 ELSE 0]
             next(mp, op) == [salt |-> a.salt, mp |-> NextFactor(a.mp, mp),
                              op |-> NextFactor(a.op, op), format |-> CurrentFormat]
             j(mp, op) == [call[c] EXCEPT !.pc = "row", !.row = vault, !.kek = kek(mp, op),
                                          !.next = next(mp, op)]
  <1>14. PICK mp \in Choice, op \in Choice :
          /\ RotationAllowed(a, mp, op)
          /\ call' = [call EXCEPT ![c].pc = "row", ![c].row = vault, ![c].kek = kek(mp, op),
                                  ![c].next = next(mp, op)]
    BY DEF DeriveRotation
  <1>1. RotationAllowed(a, mp, op) /\ call' = [call EXCEPT ![c] = j(mp, op)]
    BY <1>0, <1>14 DEF TypeOK
  <1>2. a \in Account /\ a.mp \in Factor /\ a.op \in Factor /\ a.salt \in Salt
        /\ changes + 1 \in Factor /\ 0 \in Factor /\ CurrentFormat \in Format
    BY <1>0, CallIs, Bounds DEF Account, Factor, CurrentFormat, Format
  <1>3. kek(mp, op) \in Kek /\ kek(mp, op).salt = a.salt
        /\ kek(mp, op).mp = (IF mp = "on" THEN changes + 1 ELSE 0)
        /\ kek(mp, op).op = (IF op = "on" THEN changes + 1 ELSE 0)
    BY <1>2 DEF Kek
  <1>4. next(mp, op) \in Account /\ next(mp, op).salt = a.salt
        /\ next(mp, op).format = CurrentFormat
        /\ next(mp, op).mp = NextFactor(a.mp, mp) /\ next(mp, op).op = NextFactor(a.op, op)
    <2>1. NextFactor(a.mp, mp) \in Factor /\ NextFactor(a.op, op) \in Factor
      BY <1>2 DEF NextFactor
    <2> QED BY <1>2, <2>1 DEF Account
  <1>5. kek(mp, op) = KekOf(next(mp, op))
    <2>1. NextFactor(a.mp, mp) = (IF mp = "on" THEN changes + 1 ELSE 0)
      BY <1>1 DEF NextFactor, RotationAllowed, Choice
    <2>2. NextFactor(a.op, op) = (IF op = "on" THEN changes + 1 ELSE 0)
      BY <1>1 DEF NextFactor, RotationAllowed, Choice
    <2> QED BY <1>3, <1>4, <2>1, <2>2 DEF KekOf
  <1> HIDE DEF kek, next
  <1> DEFINE i == j(mp, op)
  <1>6. /\ i \in Call /\ i.pc = "row" /\ i.row = vault /\ i.kind = call[c].kind
        /\ i.tab = call[c].tab /\ i.acct = call[c].acct /\ i.shared = call[c].shared
        /\ i.kek = kek(mp, op) /\ i.next = next(mp, op)
    <2>1. call[c] \in Call /\ vault \in Row
      BY <1>0, CallIs DEF TypeOK
    <2> QED BY <1>3, <1>4, <2>1 DEF Call
  <1> HIDE DEF i, j
  <1>7. Moves(c) /\ call'[c] = i
    BY <1>0, <1>1, <1>6, Updating DEF i
  <1>8. /\ call[c].kind = "rotate" /\ call[c].pc = "account" /\ Note({}) /\ changes' = changes + 1
        /\ UNCHANGED <<account, vault, envelope, remote, tab, salts, keys, dataKey>>
    BY DEF DeriveRotation
  <1>9. Active(c) /\ ~call[c].shared
    BY <1>0, <1>8, CallIs DEF Active, TypeInv
  <1>10. Stepped(c)
    BY <1>0, <1>2, <1>6, <1>7, <1>8, <1>9 DEF Stepped, TypeOK
  <1>11. TypeInv'
    BY <1>8, <1>10, SteppedType
  <1>12. ASSUME KekBody, ~ChangeOverlap' PROVE KekBody'
    <2>1. CallSafe(c) /\ account # NoAccount /\ Keyed(vault)
      BY <1>0, <1>8, <1>9, <1>12, InFlight, KekSorts
    <2>2. OpensWith(account, KekOf(account), vault')
      BY <1>8, <1>12, <2>1 DEF KekBody, AccountOpens
    <2>3. CallSafe(c)'
      BY <1>4, <1>5, <1>6, <1>7, <1>8, <2>1 DEF CallSafe, Unlocked, Keyed
    <2> QED BY <1>10, <1>12, <2>2, <2>3, SteppedKek
  <1>13. ASSUME KekBody, KekBody', DataBody, ~ZeroedSave' PROVE DataBody'
    <2>1. Holds(vault)
      BY <1>0, <1>13, VaultHolds
    <2> QED BY <1>6, <1>7, <1>8, <1>10, <1>13, <2>1, SteppedData
            DEF Rotating, DataBody, AccountHasKey
  <1> QED BY <1>8, <1>11, <1>12, <1>13, Layers

-----------------------------------------------------------------------------
(* Steps of a call that write the account: it runs alone. *)

Rewrites(c) ==
  /\ Changes(c) /\ Moves(c)
  /\ call'[c].tab = call[c].tab
  /\ UNCHANGED <<envelope, remote, tab>>

LEMMA RewriteAlone ==
  ASSUME KekBody, NEW c \in Calls, Rewrites(c)
  PROVE  /\ \A d \in Calls \ {c} : ~Active(d)'
         /\ \A t \in Tabs : Unlocked(t) \/ tab[t].dk # 0 => t = call[c].tab
  <1>1. /\ \A d \in Calls \ {c} : ~Active(d)
        /\ \A t \in Tabs \ {call[c].tab} : tab[t] = LockedTab
    BY Alone DEF KekBody, Rewrites
  <1>2. \A d \in Calls \ {c} : ~Active(d)'
    BY <1>1 DEF Rewrites, Moves, Active
  <1> QED BY <1>1, <1>2, Nones DEF Unlocked

LEMMA RewrittenKek ==
  ASSUME KekBody, ~ChangeOverlap', NEW c \in Calls, Rewrites(c),
         account'.salt # 0, account'.format # 0, OpensWith(account', KekOf(account'), vault'),
         LET t == call[c].tab IN Unlocked(t) => tab[t].vk = KekOf(account') \/ Rotating(c)',
         CallSafe(c)'
  PROVE  KekBody'
  <1>1. AccountOpens'
    BY DEF AccountOpens, OpensWith, AadMatches, KekOf
  <1>2. NothingLeft'
    BY Nones DEF NothingLeft
  <1>3. tab' = tab /\ remote' = remote
    BY DEF Rewrites
  <1>4. TabsHaveKek'
    <2> SUFFICES ASSUME NEW u \in Tabs, Unlocked(u), tab[u].vk # KekOf(account')
                 PROVE  Rotating(c)' /\ call'[c].tab = u
      BY <1>3 DEF TabsHaveKek, Unlocked, KekOf
    <2>1. u = call[c].tab
      BY RewriteAlone
    <2> QED BY <2>1 DEF Rewrites
  <1>5. \A d \in Calls : Active(d)' => CallSafe(d)'
    BY RewriteAlone
  <1> QED BY <1>1, <1>2, <1>3, <1>4, <1>5 DEF KekBody, Keyed

LEMMA RewrittenData ==
  ASSUME KekBody, ~ZeroedSave', NEW c \in Calls, Rewrites(c),
         AccountHasKey', account'.salt <= salts', Holds(remote)', EnvelopeHasKey',
         LET t == call[c].tab IN
           /\ tab[t].dk \in {0, dataKey'}
           /\ Unlocked(t) => tab[t].dk = dataKey' \/ Minting(c)',
         CallHasKey(c)'
  PROVE  DataBody'
  <1>1. tab' = tab
    BY DEF Rewrites
  <1>2. ASSUME NEW u \in Tabs
        PROVE  /\ tab[u].dk \in {0, dataKey'}
               /\ Unlocked(u) /\ tab[u].dk # dataKey' => Minting(c)' /\ call'[c].tab = u
    <2>1. CASE Unlocked(u) \/ tab[u].dk # 0
      <3>1. u = call[c].tab
        BY <2>1, RewriteAlone
      <3> QED BY <3>1 DEF Rewrites
    <2> QED BY <2>1
  <1>3. TabsHaveKey'
    BY <1>1, <1>2 DEF TabsHaveKey, Unlocked
  <1>4. \A d \in Calls : Active(d)' => CallHasKey(d)'
    BY RewriteAlone
  <1> QED BY <1>3, <1>4 DEF DataBody

(* The facts of CommitSave that its cases share.                           *)
LEMMA SaveFacts ==
  ASSUME Inv, NEW c \in Calls, CommitSave(c)
  PROVE  LET t == call[c].tab
             a == call[c].acct
             dk == SaveKey(c)
             upgraded == [a EXCEPT !.format = CurrentFormat]
             j == call'[c]
         IN
         /\ t \in Tabs /\ Unlocked(t) /\ Active(c)
         /\ call[c].kind = "save" /\ call[c].pc = "account" /\ Note({})
         /\ dk \in DataKey /\ (dk > keys => dk \in 1 .. MaxKeys)
         /\ dk > keys /\ dk # tab[t].dk => dk = keys + 1
         /\ tab[t].dk # 0 => dk = tab[t].dk
         /\ tab[t].dk = 0 => dk = keys + 1
         /\ vault' \in Row /\ vault'.kek = tab[t].vk /\ vault'.salt = a.salt
         /\ vault'.format = CurrentFormat /\ vault'.dk = dk
         /\ upgraded \in Account /\ KekOf(upgraded) = KekOf(a) /\ upgraded.salt = a.salt
         /\ upgraded.format = CurrentFormat
         /\ account' = IF a.format # CurrentFormat THEN upgraded ELSE account
         /\ keys' = IF dk > keys THEN keys + 1 ELSE keys
         /\ dataKey' = IF dk > keys /\ dataKey = 0 THEN dk ELSE dataKey
         /\ Moves(c) /\ j \in Call /\ j.kind = "save" /\ j.pc = "after" /\ j.tab = t /\ j.acct = a
         /\ j.dk = dk /\ j.row = vault' /\ (j.shared => dk = tab[t].dk)
         /\ keys' \in 0 .. MaxKeys /\ dataKey' \in 0 .. MaxKeys
         /\ UNCHANGED <<envelope, remote, tab, salts, changes>>
  <1> DEFINE t == call[c].tab
             a == call[c].acct
             dk == SaveKey(c)
             upgraded == [a EXCEPT !.format = CurrentFormat]
             i == [call[c] EXCEPT !.pc = "after", !.dk = dk, !.shared = ~(dk > keys),
                                  !.row = vault']
  <1>0. TypeOK /\ TypeInv /\ keys \in 0 .. MaxKeys /\ dataKey \in 0 .. MaxKeys /\ MaxKeys \in Nat
    BY Bounds DEF Inv, TypeInv, TypeOK
  <1>1. Active(c) /\ call[c].kind = "save" /\ call[c].pc = "account" /\ Note({}) /\ Unlocked(t)
    BY DEF CommitSave, Active
  <1>2. t \in Tabs
    BY <1>1, InFlight
  <1>3. tab[t].vk \in Kek /\ tab[t].dk \in DataKey /\ tab[t].dk \in Int
    BY <1>0, <1>2, TabIs DEF DataKey, Zeroed
  <1>4. (tab[t].dk # 0 => dk = tab[t].dk) /\ (tab[t].dk = 0 => dk = keys + 1)
    BY DEF SaveKey
  <1>5. dk > keys => keys < MaxKeys
    BY DEF CommitSave
  <1> HIDE DEF dk
  <1>6. dk \in DataKey /\ (dk > keys => dk \in 1 .. MaxKeys) /\ dk \in Int
    BY <1>0, <1>3, <1>4, <1>5 DEF DataKey, Zeroed
  <1>7. vault' = Sealed(tab[t].vk, a, dk)
    BY DEF CommitSave, dk
  <1>8. a \in Account /\ CurrentFormat \in Format /\ call[c] \in Call
    BY <1>0, CallIs DEF CurrentFormat, Format
  <1>9. /\ vault' \in Row /\ vault'.kek = tab[t].vk /\ vault'.salt = a.salt
        /\ vault'.format = CurrentFormat /\ vault'.dk = dk
    BY <1>3, <1>6, <1>7, <1>8 DEF Sealed, Row, Account
  <1>10. /\ upgraded \in Account /\ KekOf(upgraded) = KekOf(a) /\ upgraded.salt = a.salt
         /\ upgraded.format = CurrentFormat
    BY <1>8 DEF Account, KekOf
  <1>11. /\ account' = IF a.format # CurrentFormat THEN upgraded ELSE account
         /\ keys' = IF dk > keys THEN keys + 1 ELSE keys
         /\ dataKey' = IF dk > keys /\ dataKey = 0 THEN dk ELSE dataKey
         /\ UNCHANGED <<envelope, remote, tab, salts, changes>>
    BY DEF CommitSave, dk
  <1>12. call' = [call EXCEPT ![c] = i]
    BY <1>0 DEF CommitSave, TypeOK, dk
  <1>13. /\ i \in Call /\ i.kind = "save" /\ i.pc = "after" /\ i.tab = t /\ i.acct = a
         /\ i.dk = dk /\ i.row = vault' /\ (i.shared => ~(dk > keys))
    BY <1>1, <1>6, <1>8, <1>9 DEF Call
  <1> HIDE DEF i, upgraded
  <1>14. Moves(c) /\ call'[c] = i
    BY <1>0, <1>12, <1>13, Updating
  <1>15. i.shared => dk = tab[t].dk
    <2>1. tab[t].dk = 0 => dk > keys
      BY <1>0, <1>4
    <2> QED BY <1>4, <1>13, <2>1
  <1>16. keys' \in 0 .. MaxKeys /\ dataKey' \in 0 .. MaxKeys
    BY <1>0, <1>5, <1>6, <1>11
  <1>17. dk > keys /\ dk # tab[t].dk => dk = keys + 1
    BY <1>4
  <1> QED BY <1>1, <1>2, <1>4, <1>6, <1>9, <1>10, <1>11, <1>13, <1>14, <1>15, <1>16, <1>17
          DEF dk, upgraded

LEMMA CommitSaveSafe ==
  ASSUME Inv, NEW c \in Calls, CommitSave(c)
  PROVE  Inv'
  <1> DEFINE t == call[c].tab
             a == call[c].acct
             dk == SaveKey(c)
             upgraded == [a EXCEPT !.format = CurrentFormat]
             j == call'[c]
  <1>0. TypeOK /\ TypeInv /\ keys \in Nat /\ account \in Account /\ a \in Account
    BY Bounds, CallIs DEF Inv, TypeInv, TypeOK
  <1>1. /\ t \in Tabs /\ Unlocked(t) /\ Active(c)
        /\ call[c].kind = "save" /\ call[c].pc = "account" /\ Note({})
        /\ dk \in DataKey /\ (dk > keys => dk \in 1 .. MaxKeys)
        /\ tab[t].dk # 0 => dk = tab[t].dk
        /\ tab[t].dk = 0 => dk = keys + 1
    BY SaveFacts
  <1>2. /\ vault' \in Row /\ vault'.kek = tab[t].vk /\ vault'.salt = a.salt
        /\ vault'.format = CurrentFormat /\ vault'.dk = dk
        /\ upgraded \in Account /\ KekOf(upgraded) = KekOf(a) /\ upgraded.salt = a.salt
        /\ upgraded.format = CurrentFormat
        /\ a.format # CurrentFormat => account' = upgraded
        /\ a.format = CurrentFormat => account' = account
    BY SaveFacts
  <1>3. /\ dk > keys => keys' = keys + 1
        /\ ~(dk > keys) => keys' = keys
        /\ dk > keys /\ dataKey = 0 => dataKey' = dk
        /\ ~(dk > keys /\ dataKey = 0) => dataKey' = dataKey
    BY SaveFacts
  <1>4. /\ Moves(c) /\ j \in Call /\ j.kind = "save" /\ j.pc = "after" /\ j.tab = t /\ j.acct = a
        /\ j.dk = dk /\ j.row = vault' /\ (j.shared => dk = tab[t].dk)
        /\ keys' \in 0 .. MaxKeys /\ dataKey' \in 0 .. MaxKeys
        /\ UNCHANGED <<envelope, remote, tab, salts, changes>>
    BY SaveFacts
  <1> HIDE DEF dk, upgraded, j
  <1>5. TypeInv'
    <2>1. RowsTyped'
      BY <1>0, <1>1, <1>2, <1>4, NoteType DEF RowsTyped, TypeOK
    <2> QED BY <1>0, <1>1, <1>4, <2>1, MovedType DEF j
  <1>6. ASSUME KekBody
        PROVE  /\ a = account /\ account # NoAccount /\ account.format \in 1 .. 3
               /\ account.salt # 0 /\ tab[t].vk = KekOf(account) /\ KekOf(account) # NoKek
               /\ CallSafe(c)
    <2>1. CallSafe(c) /\ account # NoAccount
      BY <1>1, <1>6, InFlight
    <2>2. a = account
      BY <1>1, <2>1 DEF CallSafe
    <2>3. account.salt # 0 /\ account.format \in 1 .. 3
      BY <1>0, <1>6, <2>1 DEF KekBody, AccountOpens, Account, Format
    <2>4. tab[t].vk = KekOf(account)
      BY <1>0, <1>1, <1>6, TabHasKek DEF Rotating
    <2> QED BY <1>1, <2>1, <2>2, <2>3, <2>4 DEF Unlocked
  <1>7. ASSUME KekBody PROVE CallSafe(c)'
    BY <1>2, <1>4, <1>6, <1>7 DEF CallSafe, Keyed, j
  <1>8. ASSUME KekBody, DataBody
        PROVE  /\ dataKey' = dk /\ dk # 0 /\ dk <= keys' /\ tab[t].dk \in {0, dk}
               /\ account.format >= 2 => dk = dataKey /\ dataKey' = dataKey /\ keys' = keys
                                         /\ tab[t].dk = dk
    <2>1. dataKey <= keys /\ dataKey \in Nat
      BY <1>0, <1>8, Bounds DEF DataBody, AccountHasKey, TypeOK
    <2>2. CASE account.format >= 2
      <3>1. tab[t].dk = dataKey /\ dataKey # 0
        BY <1>0, <1>1, <1>8, <2>2, TabHasKey DEF Minting, DataBody, AccountHasKey
      <3> QED BY <1>0, <1>1, <1>3, <2>1, <3>1
    <2>3. CASE account.format = 1
      <3>1. dataKey = 0 /\ tab[t].dk = 0
        BY <1>1, <1>8, <2>3 DEF DataBody, AccountHasKey, TabsHaveKey
      <3> QED BY <1>0, <1>1, <1>3, <2>3, <3>1
    <2> QED BY <1>6, <1>8, <2>2, <2>3
  <1>9. CASE a.format # CurrentFormat
    <2>1. account' = upgraded
      BY <1>2, <1>9
    <2>2. ASSUME KekBody PROVE Rewrites(c)
      BY <1>1, <1>4, <1>6, <1>9, <2>2 DEF Rewrites, Changes, CurrentFormat, j
    <2>3. ASSUME KekBody, ~ChangeOverlap' PROVE KekBody'
      <3>1. account'.salt # 0 /\ account'.format # 0 /\ KekOf(account') = KekOf(account)
        BY <1>2, <1>6, <2>1, <2>3 DEF CurrentFormat
      <3>2. OpensWith(account', KekOf(account'), vault')
        BY <1>2, <1>6, <2>1, <2>3, <3>1 DEF OpensWith, AadMatches, CurrentFormat
      <3> QED BY <1>6, <1>7, <2>2, <2>3, <3>1, <3>2, RewrittenKek
    <2>4. ASSUME KekBody, KekBody', DataBody, ~ZeroedSave' PROVE DataBody'
      <3>1. /\ account'.salt = account.salt /\ account'.format = CurrentFormat
            /\ account # NoAccount /\ account' # NoAccount /\ salts' = salts
        BY <1>2, <1>4, <1>6, <2>1, <2>4, Nones DEF CurrentFormat
      <3>2. AccountHasKey' /\ account'.salt <= salts'
        BY <1>2, <1>8, <2>4, <3>1 DEF AccountHasKey, CurrentFormat, DataBody
      <3>3. Holds(remote)'
        BY <1>4, <1>8, <2>4, <3>1 DEF DataBody, Holds, Known, CurrentFormat
      <3>4. EnvelopeHasKey'
        BY <1>4, <1>8, <2>4, <3>1 DEF DataBody, EnvelopeHasKey, CurrentFormat
      <3>5. Minting(c)'
        BY <1>4, <1>6, <1>9, <2>4 DEF Minting, CurrentFormat, j
      <3>6. Holds(call[c].row)'
        BY <1>2, <1>4, <1>6, <1>8, <2>4, <3>1 DEF Holds, Known, DataBody, CurrentFormat, j
      <3>7. CallHasKey(c)'
        BY <1>4, <1>8, <2>4, <3>6 DEF CallHasKey, Rotating, j
      <3> QED BY <1>8, <2>2, <2>4, <3>2, <3>3, <3>4, <3>5, <3>7, RewrittenData
    <2> QED BY <1>1, <1>5, <2>3, <2>4, Layers
  <1>10. CASE a.format = CurrentFormat
    <2>1. account' = account
      BY <1>2, <1>10
    <2>2. Stepped(c)
      BY <1>0, <1>1, <1>2, <1>4, <2>1 DEF Stepped, TypeOK, j
    <2>3. ASSUME KekBody, ~ChangeOverlap' PROVE KekBody'
      <3>1. OpensWith(account, KekOf(account), vault')
        BY <1>2, <1>6, <1>10, <2>3 DEF OpensWith, AadMatches, CurrentFormat
      <3> QED BY <1>7, <2>2, <2>3, <3>1, SteppedKek
    <2>4. ASSUME KekBody, KekBody', DataBody, ~ZeroedSave' PROVE DataBody'
      <3>1. account.format >= 2 /\ account # NoAccount
        BY <1>6, <1>10, <2>4 DEF CurrentFormat
      <3>2. dk = dataKey /\ dataKey' = dataKey /\ keys' = keys
        BY <1>8, <2>4, <3>1
      <3>3. Holds(call'[c].row)
        BY <1>2, <1>4, <1>6, <2>4, <3>1, <3>2 DEF Holds, Known, DataBody, j
      <3> QED BY <1>1, <1>2, <1>4, <2>2, <2>4, <3>2, <3>3, SteppedData DEF Rotating, j
    <2> QED BY <1>1, <1>5, <2>3, <2>4, Layers
  <1> QED BY <1>9, <1>10

LEMMA CommitRotationSafe ==
  ASSUME Inv, NEW c \in Calls, CommitRotation(c)
  PROVE  Inv'
  <1> DEFINE t == call[c].tab
             j == [call[c] EXCEPT !.pc = "after"]
             a == call[c].next
  <1>0. TypeOK /\ TypeInv /\ a \in Account /\ call[c].kek \in Kek
    BY CallIs DEF Inv, TypeInv
  <1>1. /\ call[c].kind = "rotate" /\ call[c].pc = "row" /\ Note({}) /\ tab[t].dk # 0
        /\ OpensWithData(call[c].acct, tab[t].dk, call[c].row)
        /\ account' = a /\ vault' = Sealed(call[c].kek, a, tab[t].dk)
        /\ UNCHANGED <<envelope, remote, tab, counters, dataKey>>
    BY DEF CommitRotation
  <1>2. Active(c) /\ t \in Tabs /\ ~call[c].shared
    BY <1>0, <1>1, InFlight, CallIs DEF Active, TypeInv
  <1>3. /\ j \in Call /\ j.pc = "after" /\ j.kind = "rotate" /\ j.tab = t
        /\ j.acct = call[c].acct /\ j.shared = call[c].shared /\ j.row = call[c].row
        /\ j.kek = call[c].kek
    BY <1>0, <1>1, CallIs DEF Call
  <1>4. call' = [call EXCEPT ![c] = j]
    BY <1>0 DEF CommitRotation, TypeOK
  <1> HIDE DEF j
  <1>5. Moves(c) /\ call'[c] = j
    BY <1>0, <1>3, <1>4, Updating
  <1>6. /\ vault' \in Row /\ vault'.kek = call[c].kek /\ vault'.salt = a.salt
        /\ vault'.format = CurrentFormat /\ vault'.dk = tab[t].dk
    BY <1>0, <1>1, <1>2, TabIs DEF Sealed, Row, Account, CurrentFormat, Format
  <1>7. TypeInv'
    <2>1. RowsTyped'
      BY <1>0, <1>1, <1>6, NoteType DEF RowsTyped, TypeOK, counters
    <2> QED BY <1>0, <1>1, <1>2, <1>3, <1>5, <2>1, MovedType
  <1>8. Rewrites(c) /\ Rotating(c)'
    BY <1>1, <1>3, <1>5 DEF Rewrites, Changes, Rotating
  <1>9. ASSUME KekBody
        PROVE  /\ CallSafe(c) /\ account # NoAccount /\ call[c].acct = account
               /\ account.salt # 0 /\ account.format \in 1 .. 3
               /\ a.salt = account.salt /\ a.format = CurrentFormat /\ call[c].kek = KekOf(a)
    <2>1. CallSafe(c) /\ account # NoAccount
      BY <1>1, <1>2, <1>9, InFlight
    <2>2. account.salt # 0 /\ account.format \in 1 .. 3
      BY <1>0, <1>9, <2>1 DEF KekBody, AccountOpens, TypeOK, Account, Format
    <2> QED BY <1>1, <2>1, <2>2 DEF CallSafe
  <1>10. ASSUME KekBody, ~ChangeOverlap' PROVE KekBody'
    <2>1. account'.salt # 0 /\ account'.format # 0 /\ OpensWith(account', KekOf(account'), vault')
      BY <1>1, <1>6, <1>9, <1>10 DEF OpensWith, AadMatches, CurrentFormat
    <2>2. CallSafe(c)'
      BY <1>1, <1>3, <1>5, <1>9, <1>10 DEF CallSafe, Keyed
    <2> QED BY <1>8, <1>10, <2>1, <2>2, RewrittenKek
  <1>11. ASSUME KekBody, KekBody', DataBody, ~ZeroedSave' PROVE DataBody'
    <2>1. tab[t].dk = dataKey /\ dataKey # 0
      BY <1>1, <1>2, <1>11 DEF DataBody, TabsHaveKey
    <2>2. /\ account.format >= 2 /\ account'.salt = account.salt /\ account'.format = CurrentFormat
          /\ account # NoAccount /\ account' # NoAccount /\ salts' = salts /\ dataKey' = dataKey
          /\ keys' = keys
      BY <1>1, <1>9, <1>11, <2>1, Nones DEF DataBody, AccountHasKey, CurrentFormat, counters
    <2>3. AccountHasKey' /\ account'.salt <= salts'
      BY <1>6, <1>11, <2>1, <2>2 DEF DataBody, AccountHasKey, CurrentFormat
    <2>4. Holds(remote)' /\ EnvelopeHasKey'
      BY <1>1, <1>11, <2>2 DEF DataBody, Holds, Known, EnvelopeHasKey, CurrentFormat
    <2>5. Holds(call[c].row)
      BY <1>2, <1>11, InFlight DEF CallHasKey
    <2>6. Holds(call[c].row)'
      BY <1>3, <1>5, <2>2, <2>5 DEF Holds, Known, CurrentFormat
    <2>7. CallHasKey(c)'
      BY <1>1, <1>3, <1>5, <2>1, <2>2, <2>6 DEF CallHasKey
    <2> QED BY <1>8, <1>11, <2>1, <2>2, <2>3, <2>4, <2>7, RewrittenData
  <1> QED BY <1>1, <1>7, <1>10, <1>11, Layers

LEMMA CommitRebindSafe ==
  ASSUME Inv, NEW c \in Calls, CommitRebind(c)
  PROVE  Inv'
  <1> DEFINE t == call[c].tab
             a == [NoAccount EXCEPT !.salt = salts + 1, !.format = CurrentFormat]
             j == [call[c] EXCEPT !.pc = "after", !.kek = KekOf(a), !.row = vault',
                                  !.dk = tab[t].dk, !.shared = TRUE]
  <1>0. TypeOK /\ TypeInv /\ call[c] \in Call /\ salts \in Nat
    BY CallIs, Bounds DEF Inv, TypeInv, TypeOK, Salt
  <1>1. /\ call[c].kind = "rebind" /\ call[c].pc = "row" /\ Note({}) /\ tab[t].dk # 0
        /\ account' = a /\ vault' = Sealed(KekOf(a), a, tab[t].dk)
        /\ salts < MaxSalts /\ salts' = salts + 1
        /\ UNCHANGED <<envelope, remote, tab, changes, keys, dataKey>>
    BY DEF CommitRebind
  <1>2. Active(c) /\ t \in Tabs
    BY <1>1, InFlight DEF Active
  <1>3. a \in Account /\ a.salt = salts + 1 /\ a.format = CurrentFormat /\ salts + 1 \in Salt
    <2>1. salts + 1 \in Salt /\ CurrentFormat \in Format
      BY <1>0, <1>1, Bounds DEF Salt, CurrentFormat, Format
    <2> QED BY <2>1, Nones DEF NoAccount, Account
  <1>4. call' = [call EXCEPT ![c] = j]
    BY <1>0 DEF CommitRebind, TypeOK
  <1> HIDE DEF a
  <1>5. KekOf(a) \in Kek
    BY <1>3 DEF KekOf, Kek, Account
  <1>6. /\ vault' \in Row /\ vault'.kek = KekOf(a) /\ vault'.salt = a.salt
        /\ vault'.format = CurrentFormat /\ vault'.dk = tab[t].dk
    BY <1>0, <1>1, <1>2, <1>3, <1>5, TabIs DEF Sealed, Row, Account, CurrentFormat, Format
  <1>7. /\ j \in Call /\ j.pc = "after" /\ j.kind = "rebind" /\ j.tab = t
        /\ j.acct = call[c].acct /\ j.row = vault' /\ j.kek = KekOf(a) /\ j.dk = tab[t].dk
    BY <1>0, <1>1, <1>2, <1>5, <1>6, TabIs DEF Call
  <1> HIDE DEF j
  <1>8. Moves(c) /\ call'[c] = j
    BY <1>0, <1>4, <1>7, Updating
  <1>9. TypeInv'
    <2>1. RowsTyped'
      BY <1>0, <1>1, <1>3, <1>6, NoteType DEF RowsTyped, TypeOK
    <2> QED BY <1>0, <1>1, <1>2, <1>7, <1>8, <2>1, MovedType
  <1>10. Rewrites(c)
    BY <1>1, <1>7, <1>8 DEF Rewrites, Changes
  <1>11. account'.salt = salts + 1 /\ account'.format = CurrentFormat /\ account' # NoAccount
    BY <1>0, <1>1, <1>3, Nones
  <1>12. ASSUME KekBody PROVE ~Unlocked(t) /\ account # NoAccount
    BY <1>1, <1>2, <1>12, InFlight DEF CallSafe
  <1>13. ASSUME KekBody, ~ChangeOverlap' PROVE KekBody'
    <2>1. account'.salt # 0 /\ account'.format # 0 /\ OpensWith(account', KekOf(account'), vault')
      BY <1>0, <1>1, <1>6, <1>11 DEF OpensWith, AadMatches, CurrentFormat
    <2>2. Keyed(vault')
      BY <1>0, <1>3, <1>6, Nones DEF Keyed, KekOf
    <2>3. CallSafe(c)'
      BY <1>1, <1>7, <1>8, <1>12, <1>13, <2>2 DEF CallSafe, Unlocked, Keyed
    <2> QED BY <1>10, <1>12, <1>13, <2>1, <2>3, RewrittenKek
  <1>14. ASSUME KekBody, KekBody', DataBody, ~ZeroedSave' PROVE DataBody'
    <2>1. tab[t].dk = dataKey /\ dataKey # 0
      BY <1>1, <1>2, <1>14 DEF DataBody, TabsHaveKey
    <2>2. AccountHasKey' /\ account'.salt <= salts'
      BY <1>0, <1>1, <1>6, <1>11, <1>14, <2>1 DEF DataBody, AccountHasKey, CurrentFormat
    <2>3. remote.salt \in Nat /\ envelope.salt \in Nat
      BY <1>0, Bounds DEF TypeOK, Row, Envelope, Salt
    <2>4. remote.salt <= salts /\ (envelope # NoEnvelope => envelope.salt <= salts)
      BY <1>14 DEF DataBody, Holds, EnvelopeHasKey
    <2>5. Holds(remote)' /\ EnvelopeHasKey'
      BY <1>0, <1>1, <1>11, <2>3, <2>4 DEF Holds, Known, EnvelopeHasKey
    <2>6. Holds(call[c].row)'
      BY <1>0, <1>1, <1>3, <1>6, <1>7, <1>8, <1>11, <2>1 DEF Holds, Known, CurrentFormat
    <2>7. CallHasKey(c)'
      BY <1>1, <1>7, <1>8, <2>1, <2>6 DEF CallHasKey, Rotating
    <2> QED BY <1>1, <1>10, <1>12, <1>14, <2>1, <2>2, <2>5, <2>7, RewrittenData
  <1> QED BY <1>1, <1>9, <1>13, <1>14, Layers

(* The first account finds nothing: no keys in any tab, no other call that *)
(* could write.                                                            *)
LEMMA CommitProvisionSafe ==
  ASSUME Inv, NEW c \in Calls, CommitProvision(c)
  PROVE  Inv'
  <1> DEFINE t == call[c].tab
             a == [NoAccount EXCEPT !.salt = salts + 1, !.format = CurrentFormat]
             j == [call[c] EXCEPT !.pc = "after", !.kek = KekOf(a), !.dk = keys + 1]
  <1>0. /\ TypeOK /\ TypeInv /\ call[c] \in Call /\ salts \in Nat /\ keys \in Nat
        /\ dataKey \in Nat /\ MaxKeys \in Nat
    BY CallIs, Bounds DEF Inv, TypeInv, TypeOK, Salt
  <1>1. /\ call[c].kind = "provision" /\ call[c].pc = "account" /\ Note({})
        /\ account = NoAccount /\ salts < MaxSalts /\ keys < MaxKeys
        /\ account' = a /\ vault' = Sealed(KekOf(a), a, keys + 1)
        /\ salts' = salts + 1 /\ keys' = keys + 1 /\ dataKey' = keys + 1
        /\ UNCHANGED <<envelope, remote, tab, changes>>
    BY DEF CommitProvision
  <1>2. Active(c) /\ t \in Tabs /\ ~call[c].shared
    BY <1>0, <1>1, InFlight, CallIs DEF Active, TypeInv
  <1>3. a \in Account /\ a.salt = salts + 1 /\ a.format = CurrentFormat /\ salts + 1 \in Salt
    <2>1. salts + 1 \in Salt /\ CurrentFormat \in Format
      BY <1>0, <1>1, Bounds DEF Salt, CurrentFormat, Format
    <2> QED BY <2>1, Nones DEF NoAccount, Account
  <1>4. call' = [call EXCEPT ![c] = j]
    BY <1>0 DEF CommitProvision, TypeOK
  <1> HIDE DEF a
  <1>5. KekOf(a) \in Kek /\ keys + 1 \in DataKey /\ keys + 1 \in 0 .. MaxKeys
    BY <1>0, <1>1, <1>3 DEF KekOf, Kek, Account, DataKey, Zeroed
  <1>6. /\ vault' \in Row /\ vault'.kek = KekOf(a) /\ vault'.salt = a.salt
        /\ vault'.format = CurrentFormat /\ vault'.dk = keys + 1
    BY <1>1, <1>3, <1>5 DEF Sealed, Row, Account, CurrentFormat, Format
  <1>7. /\ j \in Call /\ j.pc = "after" /\ j.kind = "provision" /\ j.tab = t
        /\ j.acct = call[c].acct /\ j.row = call[c].row /\ j.kek = KekOf(a) /\ j.dk = keys + 1
        /\ j.shared = call[c].shared
    BY <1>0, <1>1, <1>5 DEF Call
  <1> HIDE DEF j
  <1>8. Moves(c) /\ call'[c] = j /\ \A d \in Calls \ {c} : call'[d] = call[d]
    BY <1>0, <1>4, <1>7, Updating DEF Moves
  <1>9. TypeInv'
    <2>1. RowsTyped'
      BY <1>0, <1>1, <1>3, <1>5, <1>6, NoteType DEF RowsTyped, TypeOK
    <2> QED BY <1>0, <1>1, <1>2, <1>7, <1>8, <2>1, MovedType
  <1>10. /\ account'.salt = salts + 1 /\ account'.format = CurrentFormat
         /\ account' # NoAccount /\ account'.salt # 0
    BY <1>0, <1>1, <1>3, Nones
  <1>11. ASSUME KekBody
         PROVE  /\ \A u \in Tabs : tab[u] = LockedTab
                /\ \A d \in Calls : Active(d) => call[d].kind = "provision" /\ call[d].pc = "account"
    BY <1>1, <1>11 DEF KekBody, NothingLeft
  <1>12. ASSUME KekBody, NEW d \in Calls, Active(d)'
         PROVE  /\ call'[d].kind = "provision" /\ call'[d].row = call[d].row /\ Active(d)
                /\ call'[d].pc = "after" => d = c
    <2>1. CASE d = c
      BY <1>2, <1>7, <1>8, <2>1
    <2>2. CASE d # c
      BY <1>8, <1>11, <1>12, <2>2 DEF Active
    <2> QED BY <2>1, <2>2
  <1>13. ASSUME KekBody, ~ChangeOverlap' PROVE KekBody'
    <2>1. AccountOpens' /\ NothingLeft'
      BY <1>1, <1>6, <1>10 DEF AccountOpens, NothingLeft, OpensWith, AadMatches, CurrentFormat
    <2>2. TabsHaveKek' /\ Keyed(remote)'
      BY <1>1, <1>11, <1>13, Nones DEF TabsHaveKek, Unlocked, KekBody, Keyed
    <2>3. ASSUME NEW d \in Calls, Active(d)' PROVE CallSafe(d)'
      <3>1. Keyed(call[d].row)'
        BY <1>12, <1>13, <2>3 DEF KekBody, CallSafe, Keyed
      <3> QED BY <1>1, <1>7, <1>8, <1>12, <1>13, <2>3, <3>1 DEF CallSafe
    <2> QED BY <1>13, <2>1, <2>2, <2>3 DEF KekBody
  <1>14. ASSUME KekBody, KekBody', DataBody, ~ZeroedSave' PROVE DataBody'
    <2>1. AccountHasKey' /\ account'.salt <= salts'
      BY <1>0, <1>1, <1>6, <1>10 DEF AccountHasKey, CurrentFormat
    <2>2. TabsHaveKey'
      BY <1>1, <1>11, <1>14, Nones DEF TabsHaveKey, Unlocked
    <2>3. envelope' = NoEnvelope
      BY <1>1, <1>14 DEF DataBody, EnvelopeHasKey
    <2>4. ASSUME NEW r \in Row, r.salt <= salts PROVE r.salt # account'.salt /\ r.salt <= salts'
      BY <1>0, <1>1, <1>10, <2>4, Bounds DEF Row, Salt
    <2>5. Holds(remote)'
      BY <1>0, <1>1, <1>14, <2>4 DEF DataBody, Holds, Known, TypeOK
    <2>6. ASSUME NEW d \in Calls, Active(d)' PROVE CallHasKey(d)'
      <3>1. call[d].row \in Row /\ call[d].row.salt <= salts
        BY <1>0, <1>12, <1>14, <2>6, CallIs DEF DataBody, CallHasKey, Holds
      <3>2. Holds(call[d].row)'
        BY <1>12, <1>14, <2>4, <2>6, <3>1 DEF Holds, Known
      <3> QED BY <1>1, <1>7, <1>8, <1>12, <1>14, <2>6, <3>2 DEF CallHasKey, Rotating
    <2> QED BY <1>14, <2>1, <2>2, <2>3, <2>5, <2>6 DEF DataBody, EnvelopeHasKey
  <1> QED BY <1>1, <1>9, <1>13, <1>14, Layers

-----------------------------------------------------------------------------
(* The end of a session, of a tab, of an account. *)

LEMMA LockSafe ==
  ASSUME Inv, NEW t \in Tabs, Lock(t)
  PROVE  Inv'
  <1> DEFINE seen == IF LockDuringChange(t) THEN {"lock during a change"} ELSE {}
  <1>0. TypeOK /\ TypeInv
    BY DEF Inv, TypeInv
  <1>1. /\ tab[t] # LockedTab /\ tab' = [tab EXCEPT ![t] = LockedTab]
        /\ call' = ZeroShared(call, t) /\ Note(seen)
        /\ UNCHANGED <<account, vault, envelope, remote, counters, dataKey>>
    BY DEF Lock
  <1>2. seen \in SUBSET Exposures /\ "change overlap" \notin seen
        /\ (seen = {} => ~LockDuringChange(t))
    BY DEF Exposures
  <1> HIDE DEF seen
  <1>3. /\ call' \in [Calls -> Call] /\ Drops(t)
        /\ \A d \in Calls :
             call'[d] # call[d] => call[d].tab = t /\ call[d].shared /\ Filled(call'[d], call[d])
    BY <1>0, <1>1, Zeroing DEF TypeOK
  <1>4. /\ tab' \in [Tabs -> Tab] /\ tab'[t] = LockedTab
        /\ \A u \in Tabs \ {t} : tab'[u] = tab[u]
    BY <1>0, <1>1, Nones DEF TypeOK
  <1>5. ASSUME NEW d \in Calls PROVE Same(d)
    BY <1>3 DEF Same, Filled
  <1>6. TypeInv'
    <2>1. RowsTyped'
      BY <1>0, <1>1, <1>2, NoteType DEF RowsTyped, TypeOK, counters
    <2>2. ASSUME NEW d \in Calls, call'[d].shared
          PROVE  /\ call'[d].dk = tab'[call'[d].tab].dk
                 /\ call'[d].kind \in {"save", "rebind"} /\ call'[d].pc = "after"
      <3>1. call'[d] = call[d]
        BY <1>3, <2>2 DEF Filled
      <3>2. call[d].tab \in Tabs \ {t}
        BY <1>0, <1>3, <2>2, <3>1 DEF Drops, TypeInv, Active
      <3> QED BY <1>0, <1>4, <2>2, <3>1, <3>2 DEF TypeInv, TypeOK
    <2>3. \A d \in Calls : call'[d].shared => call'[d].dk = tab'[call'[d].tab].dk
      BY <2>2
    <2>4. TypeOK'
      BY <1>3, <1>4, <2>1, <2>3 DEF TypeOK, RowsTyped
    <2>5. \A d \in Calls : Active(d)' => call'[d].tab \in Tabs
      BY <1>0, <1>5 DEF TypeInv, Active, Same
    <2> QED BY <2>2, <2>4, <2>5 DEF TypeInv
  <1>7. /\ account' = account /\ vault' = vault /\ remote' = remote /\ envelope' = envelope
        /\ salts' = salts /\ keys' = keys /\ dataKey' = dataKey
    BY <1>1 DEF counters
  <1>8. ASSUME KekBody, ~ChangeOverlap' PROVE KekBody'
    <2>1. account # NoAccount
      BY <1>1, <1>8 DEF KekBody, NothingLeft
    <2>2. AccountOpens' /\ NothingLeft' /\ Keyed(remote)'
      BY <1>7, <1>8, <2>1
      DEF KekBody, AccountOpens, NothingLeft, Keyed, OpensWith, AadMatches, KekOf
    <2>3. TabsHaveKek'
      <3> SUFFICES ASSUME NEW u \in Tabs, tab'[u].vk # NoKek, tab'[u].vk # KekOf(account)
                   PROVE  \E d \in Calls : Rotating(d)' /\ call'[d].tab = u
        BY <1>7 DEF TabsHaveKek, Unlocked, KekOf
      <3>1. tab'[u] = tab[u]
        BY <1>4, Nones
      <3>2. PICK d \in Calls : Rotating(d) /\ call[d].tab = u
        BY <1>8, <3>1 DEF KekBody, TabsHaveKek, Unlocked
      <3> QED BY <1>5, <3>2 DEF Rotating, Same
    <2>4. ASSUME NEW d \in Calls, Active(d)' PROVE CallSafe(d)'
      <3>1. Same(d) /\ Active(d) /\ CallSafe(d)
        BY <1>5, <1>8, <2>4 DEF KekBody, Active, Same
      <3>2. call[d].kind = "rebind" => ~Unlocked(call[d].tab)'
        <4> SUFFICES ASSUME call[d].kind = "rebind" PROVE tab'[call[d].tab].vk = NoKek
          BY <3>1 DEF Same, Unlocked
        <4>1. call[d].tab \in Tabs /\ tab[call[d].tab].vk = NoKek
          BY <1>0, <3>1 DEF TypeInv, CallSafe, Unlocked
        <4> QED BY <1>4, <4>1, Nones
      <3> QED BY <1>7, <3>1, <3>2 DEF CallSafe, Keyed, KekOf, Same
    <2> QED BY <1>8, <2>2, <2>3, <2>4 DEF KekBody
  <1>9. ASSUME KekBody, KekBody', DataBody, ~ZeroedSave', seen = {} PROVE DataBody'
    <2>1. \A d \in Calls : call[d].tab = t => ~Changes(d)
      BY <1>2, <1>9 DEF LockDuringChange
    <2>2. /\ AccountHasKey' /\ Holds(remote)' /\ account'.salt <= salts' /\ EnvelopeHasKey'
      BY <1>7, <1>9 DEF DataBody, AccountHasKey, Holds, Known, EnvelopeHasKey
    <2>3. ASSUME NEW u \in Tabs
          PROVE  /\ tab'[u].dk \in {0, dataKey}
                 /\ tab'[u].vk # NoKek /\ account.format >= 2 /\ tab'[u].dk # dataKey =>
                      \E d \in Calls : Minting(d)' /\ call'[d].tab = u
      <3>1. CASE u = t
        BY <1>4, <3>1, Nones
      <3>2. CASE u # t
        <4>1. tab'[u] = tab[u]
          BY <1>4, <3>2
        <4> SUFFICES ASSUME tab[u].vk # NoKek, account.format >= 2, tab[u].dk # dataKey
                     PROVE  \E d \in Calls : Minting(d)' /\ call'[d].tab = u
          BY <1>9, <4>1 DEF DataBody, TabsHaveKey
        <4>2. PICK d \in Calls : Minting(d) /\ call[d].tab = u
          BY <1>9 DEF DataBody, TabsHaveKey, Unlocked
        <4> QED BY <1>5, <4>2 DEF Minting, Same
      <3> QED BY <3>1, <3>2
    <2>4. TabsHaveKey'
      BY <1>7, <2>3 DEF TabsHaveKey, Unlocked
    <2>5. ASSUME NEW d \in Calls, Active(d)' PROVE CallHasKey(d)'
      <3>1. Same(d) /\ Active(d) /\ CallHasKey(d)
        BY <1>5, <1>9, <2>5 DEF DataBody, Active, Same
      <3>2. call'[d].dk = call[d].dk
        <4> SUFFICES ASSUME call'[d] # call[d] PROVE FALSE
          OBVIOUS
        <4>1. call[d].tab = t /\ call[d].shared /\ call'[d].dk = Zeroed
          BY <1>3 DEF Filled
        <4>2. call[d].kind \in {"save", "rebind"} /\ call[d].pc = "after"
          BY <1>0, <4>1 DEF TypeInv
        <4>3. call[d].kind = "save"
          BY <2>1, <4>1, <4>2 DEF Changes
        <4> QED BY <1>9, <3>1, <4>1, <4>2, <4>3 DEF ZeroedSave, Same
      <3>3. Rotating(d) => tab'[call[d].tab].dk = tab[call[d].tab].dk
        BY <1>0, <1>4, <2>1, <3>1 DEF Rotating, Changes, TypeInv
      <3>4. Holds(call[d].row)'
        BY <1>7, <3>1 DEF CallHasKey, Holds, Known, Same
      <3> QED BY <1>7, <3>1, <3>2, <3>3, <3>4 DEF CallHasKey, Rotating, Same
    <2> QED BY <1>9, <2>2, <2>4, <2>5 DEF DataBody
  <1> QED BY <1>1, <1>2, <1>6, <1>8, <1>9, Layers

LEMMA ReloadSafe ==
  ASSUME Inv, NEW t \in Tabs, Reload(t)
  PROVE  Inv'
  <1>0. TypeOK /\ TypeInv
    BY DEF Inv, TypeInv
  <1>1. /\ tab' = [tab EXCEPT ![t] = LockedTab] /\ Note({})
        /\ call' = [c \in Calls |-> IF call[c].tab = t THEN FreeCall ELSE call[c]]
        /\ UNCHANGED <<account, vault, envelope, remote, counters, dataKey>>
    BY DEF Reload
  <1>2. call' \in [Calls -> Call]
    BY <1>0, <1>1, Nones DEF TypeOK
  <1>3. \A d \in Calls : Active(d)' \/ call'[d].shared => call'[d] = call[d] /\ call[d].tab # t
    BY <1>1, Nones DEF Active
  <1>4. \A d \in Calls : call[d].tab # t => call'[d] = call[d]
    BY <1>1
  <1>5. /\ tab' \in [Tabs -> Tab] /\ tab'[t] = LockedTab
        /\ \A u \in Tabs \ {t} : tab'[u] = tab[u]
    BY <1>0, <1>1, Nones DEF TypeOK
  <1>6. TypeInv'
    <2>1. RowsTyped'
      BY <1>0, <1>1, NoteType DEF RowsTyped, TypeOK, counters
    <2>2. ASSUME NEW d \in Calls, call'[d].shared
          PROVE  /\ call'[d].dk = tab'[call'[d].tab].dk
                 /\ call'[d].kind \in {"save", "rebind"} /\ call'[d].pc = "after"
      <3>1. call'[d] = call[d] /\ call[d].tab \in Tabs \ {t}
        BY <1>0, <1>3, <2>2 DEF TypeInv, Active
      <3> QED BY <1>0, <1>5, <2>2, <3>1 DEF TypeInv, TypeOK
    <2>3. \A d \in Calls : call'[d].shared => call'[d].dk = tab'[call'[d].tab].dk
      BY <2>2
    <2>4. TypeOK'
      BY <1>2, <1>5, <2>1, <2>3 DEF TypeOK, RowsTyped
    <2>5. \A d \in Calls : Active(d)' => call'[d].tab \in Tabs
      BY <1>0, <1>3 DEF TypeInv, Active
    <2> QED BY <2>2, <2>4, <2>5 DEF TypeInv
  <1>7. /\ account' = account /\ vault' = vault /\ remote' = remote /\ envelope' = envelope
        /\ salts' = salts /\ keys' = keys /\ dataKey' = dataKey
    BY <1>1 DEF counters
  <1>8. ASSUME NEW d \in Calls, Active(d)'
        PROVE  /\ call'[d] = call[d] /\ Active(d) /\ call[d].tab \in Tabs
               /\ tab'[call[d].tab] = tab[call[d].tab]
    BY <1>0, <1>3, <1>5, <1>8 DEF Active, TypeInv
  <1>9. ASSUME KekBody, ~ChangeOverlap' PROVE KekBody'
    <2>1. AccountOpens' /\ Keyed(remote)'
      BY <1>7, <1>9 DEF KekBody, AccountOpens, Keyed, OpensWith, AadMatches, KekOf
    <2>2. NothingLeft'
      BY <1>5, <1>7, <1>8, <1>9 DEF KekBody, NothingLeft
    <2>3. TabsHaveKek'
      <3> SUFFICES ASSUME NEW u \in Tabs, tab'[u].vk # NoKek, tab'[u].vk # KekOf(account)
                   PROVE  \E d \in Calls : Rotating(d)' /\ call'[d].tab = u
        BY <1>7 DEF TabsHaveKek, Unlocked, KekOf
      <3>1. u # t /\ tab'[u] = tab[u]
        BY <1>5, Nones
      <3>2. PICK d \in Calls : Rotating(d) /\ call[d].tab = u
        BY <1>9, <3>1 DEF KekBody, TabsHaveKek, Unlocked
      <3> QED BY <1>4, <3>1, <3>2 DEF Rotating
    <2>4. ASSUME NEW d \in Calls, Active(d)' PROVE CallSafe(d)'
      <3>1. CallSafe(d)
        BY <1>8, <1>9, <2>4 DEF KekBody
      <3> QED BY <1>7, <1>8, <2>4, <3>1 DEF CallSafe, Keyed, KekOf, Unlocked
    <2> QED BY <1>9, <2>1, <2>2, <2>3, <2>4 DEF KekBody
  <1>10. ASSUME KekBody, KekBody', DataBody, ~ZeroedSave' PROVE DataBody'
    <2>1. /\ AccountHasKey' /\ Holds(remote)' /\ account'.salt <= salts' /\ EnvelopeHasKey'
      BY <1>7, <1>10 DEF DataBody, AccountHasKey, Holds, Known, EnvelopeHasKey
    <2>2. ASSUME NEW u \in Tabs
          PROVE  /\ tab'[u].dk \in {0, dataKey}
                 /\ tab'[u].vk # NoKek /\ account.format >= 2 /\ tab'[u].dk # dataKey =>
                      \E d \in Calls : Minting(d)' /\ call'[d].tab = u
      <3>1. CASE u = t
        BY <1>5, <3>1, Nones
      <3>2. CASE u # t
        <4>1. tab'[u] = tab[u]
          BY <1>5, <3>2
        <4> SUFFICES ASSUME tab[u].vk # NoKek, account.format >= 2, tab[u].dk # dataKey
                     PROVE  \E d \in Calls : Minting(d)' /\ call'[d].tab = u
          BY <1>10, <4>1 DEF DataBody, TabsHaveKey
        <4>2. PICK d \in Calls : Minting(d) /\ call[d].tab = u
          BY <1>10 DEF DataBody, TabsHaveKey, Unlocked
        <4> QED BY <1>4, <3>2, <4>2 DEF Minting
      <3> QED BY <3>1, <3>2
    <2>3. TabsHaveKey'
      BY <1>7, <2>2 DEF TabsHaveKey, Unlocked
    <2>4. ASSUME NEW d \in Calls, Active(d)' PROVE CallHasKey(d)'
      <3>1. CallHasKey(d)
        BY <1>8, <1>10, <2>4 DEF DataBody
      <3> QED BY <1>7, <1>8, <2>4, <3>1 DEF CallHasKey, Rotating, Holds, Known
    <2> QED BY <1>10, <2>1, <2>3, <2>4 DEF DataBody
  <1> QED BY <1>1, <1>6, <1>9, <1>10, Layers

LEMMA WipeSafe ==
  ASSUME Inv, NEW t \in Tabs, Wipe(t)
  PROVE  Inv'
  <1> DEFINE busy == \/ \E c \in Calls : Active(c)
                     \/ \E u \in Tabs : tab[u] # LockedTab
             seen == IF busy THEN {"change overlap"} ELSE {}
  <1>0. TypeOK /\ TypeInv
    BY DEF Inv, TypeInv
  <1>1. /\ account' = NoAccount /\ vault' = NoRow /\ envelope' = NoEnvelope /\ dataKey' = 0
        /\ Note(seen) /\ UNCHANGED <<remote, tab, call, counters>>
    BY DEF Wipe
  <1>2. seen \in SUBSET Exposures /\ ("change overlap" \notin seen => ~busy)
    BY DEF Exposures
  <1> HIDE DEF seen
  <1>3. TypeInv'
    <2>0. exposure' \in SUBSET Exposures
      BY <1>0, <1>1, <1>2, NoteType
    <2>4. 0 \in 0 .. MaxKeys
      BY Bounds
    <2>1. RowsTyped'
      BY <1>0, <1>1, <2>0, <2>4, Nones DEF RowsTyped, TypeOK, counters
    <2>2. tab' = tab /\ call' = call
      BY <1>1
    <2> QED BY <1>0, <2>1, <2>2 DEF TypeInv, TypeOK, RowsTyped, Active
  <1>4. ASSUME KekBody, ~ChangeOverlap', "change overlap" \notin seen PROVE KekBody'
    <2>1. (\A c \in Calls : ~Active(c)) /\ \A u \in Tabs : tab[u] = LockedTab
      BY <1>2, <1>4
    <2>2. tab' = tab /\ call' = call /\ remote' = remote
      BY <1>1
    <2>3. \A c \in Calls : ~Active(c)'
      BY <2>1, <2>2 DEF Active
    <2> QED BY <1>1, <1>4, <2>1, <2>2, <2>3, Nones
            DEF KekBody, AccountOpens, NothingLeft, TabsHaveKek, Unlocked, Keyed
  <1>5. ASSUME KekBody, KekBody', DataBody, ~ZeroedSave', seen = {} PROVE DataBody'
    <2>1. (\A c \in Calls : ~Active(c)) /\ \A u \in Tabs : tab[u] = LockedTab
      BY <1>2, <1>5
    <2>2. tab' = tab /\ call' = call /\ remote' = remote /\ salts' = salts /\ keys' = keys
      BY <1>1 DEF counters
    <2>3. \A c \in Calls : ~Active(c)'
      BY <2>1, <2>2 DEF Active
    <2>4. keys \in Nat /\ salts \in Nat
      BY <1>0, Bounds DEF TypeOK, Salt
    <2>5. AccountHasKey' /\ TabsHaveKey' /\ EnvelopeHasKey' /\ account'.salt <= salts'
      BY <1>1, <2>1, <2>2, <2>4, Nones
      DEF AccountHasKey, TabsHaveKey, EnvelopeHasKey, Unlocked
    <2>6. Holds(remote)'
      BY <1>1, <1>5, <2>2 DEF DataBody, Holds, Known
    <2> QED BY <1>5, <2>3, <2>5, <2>6 DEF DataBody
  <1> QED BY <1>1, <1>3, <1>4, <1>5, Layers

-----------------------------------------------------------------------------
(* The initial states, and every step. *)

LEMMA InitNothing ==
  ASSUME Init
  PROVE  /\ \A t \in Tabs : tab[t] = LockedTab
         /\ \A c \in Calls : call[c] = FreeCall /\ ~Active(c) /\ ~call[c].shared
         /\ tab \in [Tabs -> Tab] /\ call \in [Calls -> Call]
         /\ envelope = NoEnvelope /\ exposure = {} /\ keys = dataKey
         /\ ~ChangeOverlap /\ ~ZeroedSave
  <1>1. /\ tab = [t \in Tabs |-> LockedTab] /\ call = [c \in Calls |-> FreeCall]
        /\ envelope = NoEnvelope /\ exposure = {} /\ keys = dataKey
    BY DEF Init
  <1>2. \A c \in Calls : call[c].kind = "none" /\ ~call[c].shared
    BY <1>1, Nones
  <1>3. ~ChangeOverlap /\ ~ZeroedSave
    BY <1>2 DEF ChangeOverlap, Changes, ZeroedSave
  <1> QED BY <1>1, <1>2, <1>3, Nones DEF Active

LEMMA InitFound ==
  ASSUME Init
  PROVE  /\ account \in Account /\ vault \in Row
         /\ salts \in Salt /\ changes \in Factor /\ dataKey \in 0 .. MaxKeys
         /\ \/ account = NoAccount /\ vault = NoRow /\ dataKey = 0
            \/ /\ account.salt = 1 /\ salts = 1 /\ account.format \in 1 .. 3 /\ account # NoAccount
               /\ OpensWith(account, KekOf(account), vault)
               /\ vault.dk = dataKey
               /\ dataKey = IF account.format = 1 THEN 0 ELSE 1
  <1>0. 0 \in Salt /\ 1 \in Salt /\ 0 \in Factor /\ 0 \in 0 .. MaxKeys /\ 1 \in 0 .. MaxKeys
        /\ 0 \in DataKey /\ 1 \in DataKey
    BY Bounds DEF Salt, Factor, DataKey, Zeroed
  <1>1. CASE account = NoAccount /\ vault = NoRow /\ salts = 0 /\ changes = 0 /\ dataKey = 0
    BY <1>0, <1>1, Nones
  <1>2. CASE /\ \E format \in OldFormats \ {0} : \E mp \in FoundFactors(format) :
                  account = FoundAccount(format, mp)
             /\ vault = FoundRow(account) /\ salts = 1
             /\ changes = IF MaxChanges = 0 THEN 0 ELSE 1
             /\ dataKey = vault.dk
    <2>1. PICK format \in OldFormats \ {0} : \E mp \in FoundFactors(format) :
            account = FoundAccount(format, mp)
      BY <1>2
    <2>2. PICK mp \in FoundFactors(format) : account = FoundAccount(format, mp)
      BY <2>1
    <2>3. format \in Format /\ format \in 1 .. 3 /\ mp \in Factor
      BY <1>0, <2>1, <2>2, Bounds DEF Format, FoundFactors
    <2>4. /\ account \in Account /\ account.salt = 1 /\ account.format = format
      BY <1>0, <2>2, <2>3, Nones DEF FoundAccount, Account, NoAccount
    <2>5. KekOf(account) \in Kek
      BY <2>4 DEF KekOf, Kek, Account
    <2>6. /\ vault \in Row /\ vault.kek = KekOf(account) /\ vault.salt = 1
          /\ vault.format = format /\ vault.dk = IF format = 1 THEN 0 ELSE 1
      BY <1>0, <1>2, <2>3, <2>4, <2>5 DEF FoundRow, Row
    <2>7. changes \in Factor
      BY <1>2, Bounds DEF Factor
    <2>8. OpensWith(account, KekOf(account), vault)
      BY <2>3, <2>4, <2>6 DEF OpensWith, AadMatches
    <2> QED BY <1>0, <1>2, <2>3, <2>4, <2>6, <2>7, <2>8, Nones
  <1> QED BY <1>1, <1>2 DEF Init

LEMMA InitInv ==
  ASSUME Init
  PROVE  Inv
  <1>1. /\ account \in Account /\ vault \in Row
        /\ salts \in Salt /\ changes \in Factor /\ dataKey \in 0 .. MaxKeys
    BY InitFound
  <1>2. remote \in {NoRow, vault}
    BY DEF Init
  <1>3. TypeInv
    <2>1. envelope \in Envelope /\ remote \in Row /\ keys \in 0 .. MaxKeys
          /\ exposure \in SUBSET Exposures
      BY <1>1, <1>2, InitNothing, Nones
    <2> QED BY <1>1, <2>1, InitNothing DEF TypeInv, TypeOK
  <1>4. salts \in Nat /\ keys \in Nat
    BY <1>3, Bounds DEF TypeInv, TypeOK, Salt
  <1>5. CASE account = NoAccount /\ vault = NoRow /\ dataKey = 0
    <2>1. KekBody
      BY <1>2, <1>5, InitNothing, Nones
      DEF KekBody, AccountOpens, NothingLeft, TabsHaveKek, Unlocked, Keyed
    <2>2. Holds(remote) /\ account.salt <= salts
      BY <1>2, <1>4, <1>5, Nones DEF Holds, Known
    <2>3. DataBody
      BY <1>4, <1>5, <2>2, InitNothing, Nones
      DEF DataBody, AccountHasKey, TabsHaveKey, Unlocked, EnvelopeHasKey
    <2> QED BY <1>3, <2>1, <2>3 DEF Inv, KekInv, DataInv
  <1>6. CASE /\ account.salt = 1 /\ salts = 1 /\ account.format \in 1 .. 3 /\ account # NoAccount
             /\ OpensWith(account, KekOf(account), vault)
             /\ vault.dk = dataKey
             /\ dataKey = IF account.format = 1 THEN 0 ELSE 1
    <2>1. Keyed(vault) /\ Keyed(NoRow)
      BY <1>6, Nones DEF Keyed, OpensWith, KekOf, NoKek
    <2>2. AccountOpens
      BY <1>6 DEF AccountOpens
    <2>3. KekBody
      BY <1>2, <1>6, <2>1, <2>2, InitNothing, Nones
      DEF KekBody, NothingLeft, TabsHaveKek, Unlocked
    <2>4. vault.salt = 1 /\ vault.format = account.format
      BY <1>6 DEF OpensWith, AadMatches
    <2>5. Holds(remote) /\ account.salt <= salts
      BY <1>2, <1>4, <1>6, <2>4, Nones DEF Holds, Known
    <2>6. AccountHasKey
      BY <1>4, <1>6, InitNothing DEF AccountHasKey
    <2>7. DataBody
      BY <1>4, <2>5, <2>6, InitNothing, Nones
      DEF DataBody, TabsHaveKey, Unlocked, EnvelopeHasKey
    <2> QED BY <1>3, <2>3, <2>7 DEF Inv, KekInv, DataInv
  <1> QED BY <1>5, <1>6, InitFound

LEMMA StutterInv ==
  ASSUME Inv, UNCHANGED vars
  PROVE  Inv'
  <1>1. /\ account' = account /\ vault' = vault /\ envelope' = envelope /\ remote' = remote
        /\ tab' = tab /\ call' = call /\ salts' = salts /\ changes' = changes /\ keys' = keys
        /\ dataKey' = dataKey /\ exposure' = exposure
    BY DEF vars
  <1>2. TypeInv'
    BY <1>1 DEF Inv, TypeInv, TypeOK, Active
  <1>3. KekBody => KekBody'
    <2>1. ~ChangeOverlap => ~ChangeOverlap'
      BY <1>1 DEF ChangeOverlap, Changes, Active
    <2>2. AccountOpens => AccountOpens'
      BY <1>1 DEF AccountOpens, OpensWith, AadMatches, KekOf
    <2>3. NothingLeft => NothingLeft'
      BY <1>1 DEF NothingLeft, Active
    <2>4. TabsHaveKek => TabsHaveKek'
      BY <1>1 DEF TabsHaveKek, Unlocked, Rotating, KekOf
    <2>5. \A c \in Calls : (Active(c) => CallSafe(c)) => (Active(c) => CallSafe(c))'
      BY <1>1 DEF CallSafe, Keyed, KekOf, Unlocked, Active
    <2> QED BY <1>1, <2>1, <2>2, <2>3, <2>4, <2>5 DEF KekBody, Keyed
  <1>4. DataBody => DataBody'
    <2>1. ~ZeroedSave => ~ZeroedSave'
      BY <1>1 DEF ZeroedSave
    <2>2. AccountHasKey /\ EnvelopeHasKey => AccountHasKey' /\ EnvelopeHasKey'
      BY <1>1 DEF AccountHasKey, EnvelopeHasKey
    <2>3. TabsHaveKey => TabsHaveKey'
      BY <1>1 DEF TabsHaveKey, Unlocked, Minting
    <2>4. \A c \in Calls : (Active(c) => CallHasKey(c)) => (Active(c) => CallHasKey(c))'
      BY <1>1 DEF CallHasKey, Rotating, Holds, Known, Active
    <2>5. Holds(remote) => Holds(remote)'
      BY <1>1 DEF Holds, Known
    <2> QED BY <1>1, <2>1, <2>2, <2>3, <2>4, <2>5 DEF DataBody
  <1>5. KekInv' /\ DataInv'
    BY <1>1, <1>3, <1>4 DEF Inv, KekInv, DataInv, NoOverlap
  <1> QED BY <1>2, <1>5 DEF Inv

LEMMA StepInv ==
  ASSUME Inv, [Next]_vars
  PROVE  Inv'
  <1>1. CASE UNCHANGED vars
    BY <1>1, StutterInv
  <1>2. ASSUME NEW c \in Calls, NEW t \in Tabs,
               \/ BeginOpen(c, t) \/ BeginProvision(c, t) \/ BeginSave(c, t) \/ BeginSync(c, t)
               \/ BeginRotate(c, t) \/ BeginEnvelope(c, t) \/ BeginRecover(c, t)
               \/ BeginRebind(c, t)
        PROVE  Inv'
    BY <1>2, Beginning
  <1>3. ASSUME NEW c \in Calls,
               \/ Fail(c) \/ FinishOpen(c) \/ InstallKeys(c) \/ FinishSave(c) \/ PushLocal(c)
               \/ FinishSync(c) \/ FinishRotation(c) \/ CommitEnvelope(c) \/ FinishRecover(c)
        PROVE  Inv'
    BY <1>3, FailSafe, FinishOpenSafe, InstallKeysSafe, FinishSaveSafe, PushLocalSafe,
       FinishSyncSafe, FinishRotationSafe, CommitEnvelopeSafe, FinishRecoverSafe
  <1>4. ASSUME NEW c \in Calls,
               \/ ReadRow(c) \/ CommitProvision(c) \/ CommitSave(c) \/ CommitSync(c)
               \/ DeriveRotation(c) \/ CommitRotation(c) \/ CommitRebind(c)
        PROVE  Inv'
    BY <1>4, ReadRowSafe, CommitProvisionSafe, CommitSaveSafe, CommitSyncSafe,
       DeriveRotationSafe, CommitRotationSafe, CommitRebindSafe
  <1>5. ASSUME NEW t \in Tabs, Lock(t) \/ Reload(t) \/ Wipe(t)
        PROVE  Inv'
    BY <1>5, LockSafe, ReloadSafe, WipeSafe
  <1> QED BY <1>1, <1>2, <1>3, <1>4, <1>5 DEF Next

LEMMA Invariant == Spec => []Inv
  <1>1. Init => Inv
    BY InitInv
  <1>2. Inv /\ [Next]_vars => Inv'
    BY StepInv
  <1> QED BY <1>1, <1>2, PTL DEF Spec

-----------------------------------------------------------------------------
(* The theorems. *)

(* Every variable keeps its sort, and a call that shares the buffer of its *)
(* tab's data key holds the key the tab has.                               *)
THEOREM TypeCorrect == Spec => []TypeOK
  <1>1. Inv => TypeOK
    BY DEF Inv, TypeInv
  <1> QED BY <1>1, Invariant, PTL

(* Unless a change of the factors, the salt or the format overlapped       *)
(* another call or another tab's keys, the factors the account row asks    *)
(* for open the vault row: after any crash, failure, save, pull, upgrade,  *)
(* rotation, rebind or wipe, unlock works.                                 *)
THEOREM UnlockWorks == Spec => []UnlockAlwaysWorks
  <1>1. Inv => UnlockAlwaysWorks
    BY DEF Inv, KekInv, KekBody, NoOverlap, AccountOpens, UnlockAlwaysWorks, RowOpens
  <1> QED BY <1>1, Invariant, PTL

(* Under the same condition a tab that is unlocked, and not in the middle  *)
(* of a rotation, holds the vault key that opens the row, and a tab holds  *)
(* no key of an account that is gone.                                      *)
SessionsOpenRow ==
  exposure \cap {"change overlap"} = {} =>
    \A t \in Tabs :
      /\ Unlocked(t) /\ (\A c \in Calls : call[c].tab = t => ~Rotating(c)) =>
           OpensWith(account, tab[t].vk, vault)
      /\ account = NoAccount => tab[t] = LockedTab

THEOREM SessionsWork == Spec => []SessionsOpenRow
  <1>1. ASSUME Inv PROVE SessionsOpenRow
    <2> SUFFICES ASSUME KekBody, NEW t \in Tabs
                 PROVE  /\ Unlocked(t) /\ (\A c \in Calls : call[c].tab = t => ~Rotating(c)) =>
                             OpensWith(account, tab[t].vk, vault)
                        /\ account = NoAccount => tab[t] = LockedTab
      BY <1>1 DEF SessionsOpenRow, Inv, KekInv, NoOverlap
    <2>1. account = NoAccount => tab[t] = LockedTab
      BY DEF KekBody, NothingLeft
    <2>2. Unlocked(t) => account # NoAccount
      BY <2>1, Nones DEF Unlocked
    <2> QED BY <2>1, <2>2 DEF KekBody, TabsHaveKek, AccountOpens
  <1> QED BY <1>1, Invariant, PTL

(* "The data key never rotates": unless something overlapped, the row is   *)
(* sealed with the data key its account was given.                         *)
THEOREM KeyKept == Spec => []KeyKeptUnlessOverlap
  <1>1. Inv => KeyKeptUnlessOverlap
    BY DEF Inv, DataInv, DataBody, AccountHasKey, KeyKeptUnlessOverlap, DataKeyKept
  <1> QED BY <1>1, Invariant, PTL

(* A recovery envelope bound to the account's present salt opens the vault *)
(* row, whatever was saved, upgraded or rotated after it, unless something *)
(* overlapped.                                                             *)
THEOREM EnvelopeOpens == Spec => []EnvelopeRecovers
  <1>1. ASSUME Inv PROVE EnvelopeRecovers
    <2> SUFFICES ASSUME exposure = {}, envelope # NoEnvelope, envelope.salt = account.salt
                 PROVE  OpensWithData(account, envelope.dk, vault)
      BY DEF EnvelopeRecovers
    <2>1. KekBody /\ DataBody
      BY <1>1 DEF Inv, KekInv, DataInv, NoOverlap
    <2>2. account # NoAccount /\ account.format >= 2 /\ envelope.dk = dataKey
      BY <2>1 DEF DataBody, EnvelopeHasKey
    <2>3. vault.dk = dataKey
      BY <2>1, <2>2 DEF DataBody, AccountHasKey
    <2> QED BY <2>1, <2>2, <2>3 DEF KekBody, AccountOpens, OpensWith, OpensWithData
  <1> QED BY <1>1, Invariant, PTL
=============================================================================
