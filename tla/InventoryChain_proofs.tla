------------------------ MODULE InventoryChain_proofs ------------------------
(* Theorems about the save-and-push pipeline, for any number of tabs and   *)
(* pushes and any values of the bounds.                                    *)
EXTENDS InventoryChain, TLAPS

USE DEF Index, Save, rows, saving, server, factors, history

(* MoveForward returns one of its arguments, and never less than the first.*)
LEMMA MoveForwardFacts ==
  ASSUME NEW old \in Nat, NEW new \in Nat
  PROVE  /\ MoveForward(old, new) \in {old, new}
         /\ MoveForward(old, new) >= old
  BY DEF MoveForward

(* The calls that end leave the push table well typed.                     *)
LEMMA PushDone ==
  ASSUME TypeOK, NEW p \in Pushes,
         push' = [push EXCEPT ![p].pc = "done", ![p].tab = NoTab]
  PROVE  push' \in [Pushes -> Push]
  <1> DEFINE next == [push[p] EXCEPT !.pc = "done", !.tab = NoTab]
  <1>1. push[p] \in Push /\ push \in [Pushes -> Push]
    BY DEF TypeOK
  <1>2. next \in Push
    BY <1>1 DEF Push
  <1>3. push' = [push EXCEPT ![p] = next]
    BY <1>1 DEF Push
  <1> HIDE DEF next
  <1> QED BY <1>1, <1>2, <1>3

(* A push that begins keeps the push table and the wire well typed, and    *)
(* has its tab.                                                            *)
LEMMA BeginPushType ==
  ASSUME TypeOK, NEW t \in Tabs, NEW content \in Save, BeginPush(t, content)
  PROVE  /\ push' \in [Pushes -> Push]
         /\ wire' \in SUBSET Request
         /\ \A p \in Pushes : push'[p].pc \notin {"idle", "done"} => push'[p].tab \in Tabs
         /\ UNCHANGED pull => CallsBound'
  <1>1. CASE UNCHANGED <<push, wire>>
    BY <1>1 DEF TypeOK, CallsBound
  <1>2. ASSUME NEW p \in Pushes,
               push' = [push EXCEPT ![p] = [pc |-> "blob", tab |-> t,
                                            content |-> content, index |-> 0]],
               wire' = wire \cup {[kind |-> "blob", push |-> p]}
        PROVE  /\ push' \in [Pushes -> Push]
               /\ wire' \in SUBSET Request
               /\ \A q \in Pushes : push'[q].pc \notin {"idle", "done"} => push'[q].tab \in Tabs
               /\ UNCHANGED pull => CallsBound'
    <2>1. [pc |-> "blob", tab |-> t, content |-> content, index |-> 0] \in Push
      BY BoundsAssumption DEF Push
    <2>2. [kind |-> "blob", push |-> p] \in Request
      BY DEF Request
    <2>3. \A q \in Pushes : push'[q].pc \notin {"idle", "done"} => push'[q].tab \in Tabs
      BY <1>2 DEF TypeOK, CallsBound
    <2>4. UNCHANGED pull => CallsBound'
      BY <2>3 DEF TypeOK, CallsBound
    <2> QED BY <1>2, <2>1, <2>2, <2>3, <2>4 DEF TypeOK
  <1> QED BY <1>1, <1>2 DEF BeginPush

(* Moving a pull to another step keeps the pull table well typed.          *)
LEMMA PullStep ==
  ASSUME TypeOK, NEW t \in Tabs,
         NEW pc \in {"idle", "probe", "fetch", "acct", "promote", "repush"},
         pull' = [pull EXCEPT ![t].pc = pc]
  PROVE  /\ pull' \in [Tabs -> Pull]
         /\ pull'[t].pc = pc
         /\ pull'[t].blob = pull[t].blob
         /\ \A u \in Tabs \ {t} : pull'[u] = pull[u]
  <1> DEFINE next == [pull[t] EXCEPT !.pc = pc]
  <1>1. next \in Pull /\ next.pc = pc /\ next.blob = pull[t].blob
    BY DEF TypeOK, Pull
  <1>2. pull' = [pull EXCEPT ![t] = next]
    OBVIOUS
  <1> HIDE DEF next
  <1> QED BY <1>1, <1>2 DEF TypeOK

(* Ending the probe loop keeps the session and pull tables well typed.     *)
LEMMA AdoptType ==
  ASSUME TypeOK, NEW t \in Tabs, NEW newest \in Index,
         NEW blob \in Pushes \cup {NoPush}, Adopt(t, newest, blob)
  PROVE  /\ tab' \in [Tabs -> Tab]
         /\ pull' \in [Tabs -> Pull]
         /\ exposure' \in SUBSET Exposure
         /\ UNCHANGED push => CallsBound'
  <1>1. /\ pull' \in [Tabs -> Pull]
        /\ pull'[t].pc \in {"repush", "fetch"}
        /\ \A u \in Tabs \ {t} : pull'[u] = pull[u]
    <2>1. CASE newest = 0
      BY <2>1, PullStep DEF Adopt
    <2>2. CASE newest # 0
      <3> DEFINE next == [pull[t] EXCEPT !.pc = "fetch", !.newest = newest, !.blob = blob]
      <3>1. next \in Pull /\ next.pc = "fetch"
        BY DEF TypeOK, Pull
      <3>2. pull' = [pull EXCEPT ![t] = next]
        BY <2>2 DEF Adopt, TypeOK, Pull
      <3> HIDE DEF next
      <3> QED BY <3>1, <3>2 DEF TypeOK
    <2> QED BY <2>1, <2>2
  <1>2. tab' \in [Tabs -> Tab]
    <2>1. [tab[t] EXCEPT !.latest = newest] \in Tab
      BY DEF TypeOK, Tab
    <2> QED BY <2>1 DEF Adopt, TypeOK
  <1>3. exposure' \in SUBSET Exposure
    BY DEF Adopt, TypeOK, Exposure
  <1>4. ASSUME UNCHANGED push PROVE CallsBound'
    BY <1>1, <1>4 DEF TypeOK, CallsBound
  <1> QED BY <1>1, <1>2, <1>3, <1>4

(* A row written from a well-typed copy is well typed.                     *)
LEMMA WriteRowType ==
  ASSUME TypeOK, NEW row \in Row, NEW still \in SUBSET Outdated, WriteRow(row, still)
  PROVE  /\ inventoryIndex' \in Index
         /\ pushedRecently' \in BOOLEAN
         /\ lacks' \in SUBSET Outdated
         /\ unrecorded' \in SUBSET Pushes
  BY DEF WriteRow, Row, TypeOK

(* Copies that miss a push stay well typed.                                *)
LEMMA CopiesMissType ==
  ASSUME TypeOK, NEW p \in Pushes, CopiesMiss(p)
  PROVE  /\ save' \in [1 .. MaxSaves -> SaveCall]
         /\ rotate' \in [Tabs -> Rotate]
  <1>1. save' \in [1 .. MaxSaves -> SaveCall]
    <2>1. \A n \in 1 .. MaxSaves : save[n] \in SaveCall
      BY DEF TypeOK
    <2>2. \A n \in 1 .. MaxSaves : [save[n] EXCEPT !.row.missed = @ \cup {p}] \in SaveCall
      BY <2>1 DEF SaveCall, Row
    <2> QED BY <2>1, <2>2 DEF CopiesMiss
  <1>2. rotate' \in [Tabs -> Rotate]
    <2>1. \A t \in Tabs : rotate[t] \in Rotate
      BY DEF TypeOK
    <2>2. \A t \in Tabs : [rotate[t] EXCEPT !.row.missed = @ \cup {p}] \in Rotate
      BY <2>1 DEF Rotate, Row
    <2> QED BY <2>1, <2>2 DEF CopiesMiss
  <1> QED BY <1>1, <1>2

(* The variables hold values of their types in every reachable state, and  *)
(* calls in flight have the tab and the blob they go on with.              *)
THEOREM TypeCorrect == Spec => []TypeOK
<1>1. Init => TypeOK
  <2> SUFFICES ASSUME Init PROVE TypeOK
    OBVIOUS
  <2>1. LockedTab \in Tab
    BY BoundsAssumption DEF LockedTab, Tab
  <2>2. IdlePull \in Pull
    BY BoundsAssumption DEF IdlePull, Pull
  <2>3. IdlePush \in Push
    BY BoundsAssumption DEF IdlePush, Push
  <2>4. IdleRotate \in Rotate /\ IdleSave \in SaveCall
    BY BoundsAssumption DEF IdleRotate, Rotate, IdleSave, SaveCall, NoRow, Row
  <2>5. /\ tab \in [Tabs -> Tab]
        /\ push \in [Pushes -> Push]
        /\ pull \in [Tabs -> Pull]
        /\ rotate \in [Tabs -> Rotate]
        /\ save \in [1 .. MaxSaves -> SaveCall]
    BY <2>1, <2>2, <2>3, <2>4 DEF Init
  <2>6. CallsBound
    BY DEF Init, CallsBound, IdlePush, IdlePull
  <2>7. /\ inventoryIndex \in Index
        /\ vault \in Save
        /\ saves \in Save
        /\ starts \in 0 .. MaxStarts
        /\ rotations \in 0 .. MaxRotations
    BY BoundsAssumption DEF Init
  <2>8. inv \in [1 .. MaxIndex -> Pushes \cup {NoPush}]
    BY DEF Init
  <2> QED BY <2>5, <2>6, <2>7, <2>8 DEF Init, TypeOK
<1>2. TypeOK /\ [Next]_vars => TypeOK'
  <2> SUFFICES ASSUME TypeOK, [Next]_vars PROVE TypeOK'
    OBVIOUS
  <2> USE BoundsAssumption
  <2>a. LockedTab \in Tab
    BY DEF LockedTab, Tab
  <2>b. IdlePull \in Pull
    BY DEF IdlePull, Pull
  <2>c. IdleRotate \in Rotate /\ IdleSave \in SaveCall /\ NoRow \in Row
    BY DEF IdleRotate, Rotate, IdleSave, SaveCall, NoRow, Row
  <2>1. ASSUME NEW p \in Pushes, BlobFailed(p) PROVE TypeOK'
    <3>1. push' \in [Pushes -> Push]
      BY <2>1, PushDone DEF BlobFailed
    <3>2. CallsBound'
      BY <2>1 DEF BlobFailed, TypeOK, CallsBound
    <3> QED BY <2>1, <3>1, <3>2 DEF BlobFailed, TypeOK
  <2>2. ASSUME NEW p \in Pushes, Reserve(p) PROVE TypeOK'
    <3>1. push[p].tab \in Tabs
      BY <2>2 DEF Reserve, TypeOK, CallsBound
    <3>2. CASE Open(push[p].tab) /\ tab[push[p].tab].token
      <4> DEFINE t == push[p].tab
                 i == tab[t].latest + 1
      <4>1. i \in Index
        <5>1. tab[t] \in Tab /\ tab[t].latest < MaxIndex
          BY <2>2, <3>1, <3>2 DEF Reserve, TypeOK
        <5> QED BY <5>1 DEF Tab
      <4>t. t \in Tabs
        BY <3>1
      <4> HIDE DEF i, t
      <4>2. tab' \in [Tabs -> Tab]
        <5>1. [tab[t] EXCEPT !.latest = i] \in Tab
          BY <4>1, <4>t DEF TypeOK, Tab
        <5>2. tab' = [tab EXCEPT ![t] = [tab[t] EXCEPT !.latest = i]]
          BY <2>2, <3>2 DEF Reserve, i, t
        <5> QED BY <4>t, <5>1, <5>2 DEF TypeOK
      <4>3. push' \in [Pushes -> Push] /\ CallsBound'
        <5> DEFINE next == [push[p] EXCEPT !.pc = "inv", !.index = i]
        <5>1. next \in Push /\ next.tab = push[p].tab
          BY <4>1 DEF TypeOK, Push
        <5>2. push' = [push EXCEPT ![p] = next] /\ UNCHANGED pull
          BY <2>2, <3>2 DEF Reserve, i, t
        <5> HIDE DEF next
        <5> QED BY <3>1, <5>1, <5>2 DEF TypeOK, CallsBound
      <4>4. [kind |-> "inv", push |-> p] \in Request
        BY DEF Request
      <4> QED BY <2>2, <3>2, <4>2, <4>3, <4>4 DEF Reserve, TypeOK
    <3>3. CASE ~(Open(push[p].tab) /\ tab[push[p].tab].token)
      <4>0. /\ push' = [push EXCEPT ![p].pc = "done", ![p].tab = NoTab]
            /\ UNCHANGED pull
        BY <2>2, <3>3 DEF Reserve
      <4>1. push' \in [Pushes -> Push]
        BY <4>0, PushDone
      <4>2. CallsBound'
        BY <4>0 DEF TypeOK, CallsBound
      <4> QED BY <2>2, <3>3, <4>1, <4>2 DEF Reserve, TypeOK
    <3> QED BY <3>2, <3>3
  <2>3. ASSUME NEW p \in Pushes, InventoryReply(p) PROVE TypeOK'
    <3>1. PICK pc \in {"acctOk", "acctFail"} : push' = [push EXCEPT ![p].pc = pc]
      BY <2>3 DEF InventoryReply
    <3>2. push' \in [Pushes -> Push]
      <4>1. push[p] \in Push /\ push' = [push EXCEPT ![p] = [push[p] EXCEPT !.pc = pc]]
        BY <3>1 DEF TypeOK
      <4>2. [push[p] EXCEPT !.pc = pc] \in Push
        BY <4>1 DEF Push
      <4> QED BY <4>1, <4>2 DEF TypeOK
    <3>3. CallsBound'
      BY <2>3, <3>1 DEF InventoryReply, TypeOK, CallsBound
    <3> QED BY <2>3, <3>2, <3>3 DEF InventoryReply, TypeOK
  <2>4. ASSUME NEW p \in Pushes, PersistIndex(p) PROVE TypeOK'
    <3>1. MoveForward(inventoryIndex, push[p].index) \in Index
      BY DEF TypeOK, Push, MoveForward
    <3>2. push' \in [Pushes -> Push]
      BY <2>4, PushDone DEF PersistIndex
    <3>3. CallsBound'
      BY <2>4 DEF PersistIndex, TypeOK, CallsBound
    <3>4. save' \in [1 .. MaxSaves -> SaveCall] /\ rotate' \in [Tabs -> Rotate]
      BY <2>4, CopiesMissType DEF PersistIndex, TypeOK
    <3> QED BY <2>4, <3>1, <3>2, <3>3, <3>4 DEF PersistIndex, TypeOK
  <2>5. ASSUME NEW p \in Pushes, PutBlob(p) PROVE TypeOK'
    BY <2>5 DEF PutBlob, TypeOK, CallsBound
  <2>6. ASSUME NEW p \in Pushes, PutInventory(p) PROVE TypeOK'
    BY <2>6 DEF PutInventory, TypeOK, CallsBound
  <2>7. ASSUME NEW t \in Tabs, BeginSave(t) PROVE TypeOK'
    <3>1. saves + 1 \in Save
      BY <2>7 DEF BeginSave, TypeOK
    <3>2. ReadRow \in Row
      BY DEF ReadRow, Row, TypeOK
    <3>3. [tab |-> t, row |-> IF lacks = {} THEN NoRow ELSE ReadRow] \in SaveCall
      BY <2>c, <3>2 DEF SaveCall
    <3> QED BY <2>7, <3>1, <3>3 DEF BeginSave, TypeOK, CallsBound
  <2>25. ASSUME NEW n \in 1 .. MaxSaves, CommitSave(n) PROVE TypeOK'
    <3>1. save[n] \in SaveCall /\ save[n].row \in Row /\ n \in Save
      BY DEF TypeOK, SaveCall
    <3>2. /\ push' \in [Pushes -> Push]
          /\ wire' \in SUBSET Request
          /\ CallsBound'
      BY <2>25, <3>1, BeginPushType DEF CommitSave
    <3>3. /\ inventoryIndex' \in Index
          /\ pushedRecently' \in BOOLEAN
          /\ lacks' \in SUBSET Outdated
          /\ unrecorded' \in SUBSET Pushes
      BY <2>25, <3>1, WriteRowType DEF CommitSave, TypeOK
    <3> QED BY <2>25, <2>c, <3>1, <3>2, <3>3 DEF CommitSave, TypeOK
  <2>26. ASSUME NEW n \in 1 .. MaxSaves, SaveFailed(n) PROVE TypeOK'
    BY <2>26, <2>c DEF SaveFailed, TypeOK, CallsBound
  <2>8. ASSUME NEW t \in Tabs, BeginOpen(t) PROVE TypeOK'
    <3>1. tab' \in [Tabs -> Tab]
      BY <2>8 DEF BeginOpen, TypeOK, Tab
    <3> QED BY <2>8, <3>1 DEF BeginOpen, TypeOK, CallsBound
  <2>9. ASSUME NEW t \in Tabs, OpenFailed(t) PROVE TypeOK'
    <3>1. [LockedTab EXCEPT !.token = tab[t].token] \in Tab
      BY <2>a DEF TypeOK, Tab
    <3> QED BY <2>9, <3>1 DEF OpenFailed, TypeOK, CallsBound
  <2>10. ASSUME NEW t \in Tabs, FinishOpen(t) PROVE TypeOK'
    <3>1. [LockedTab EXCEPT !.status = "open", !.token = tab[t].token,
                            !.latest = tab[t].seenIndex] \in Tab
      BY <2>a DEF TypeOK, Tab
    <3>2. tab' \in [Tabs -> Tab]
      BY <2>10, <3>1 DEF FinishOpen, TypeOK
    <3>3. tab[t].seenVault \in Save
      BY DEF TypeOK, Tab
    <3>4. UNCHANGED pull
      BY <2>10 DEF FinishOpen
    <3>5. /\ push' \in [Pushes -> Push]
          /\ wire' \in SUBSET Request
          /\ CallsBound'
      <4>1. CASE UNCHANGED <<push, wire>>
        BY <3>4, <4>1 DEF TypeOK, CallsBound
      <4>2. CASE BeginPush(t, tab[t].seenVault)
        BY <3>3, <3>4, <4>2, BeginPushType
      <4> QED BY <2>10, <4>1, <4>2 DEF FinishOpen
    <3>6. exposure' \in SUBSET Exposure
      BY <2>10 DEF FinishOpen, TypeOK, Exposure
    <3> QED BY <2>10, <3>2, <3>5, <3>6 DEF FinishOpen, TypeOK
  <2>11. ASSUME NEW t \in Tabs, Lock(t) PROVE TypeOK'
    <3>1. pull' \in [Tabs -> Pull]
      <4>1. pull[t] \in Pull /\ pull' = [pull EXCEPT ![t].live = FALSE]
        BY <2>11 DEF Lock, TypeOK
      <4>2. [pull[t] EXCEPT !.live = FALSE] \in Pull
        BY <4>1 DEF Pull
      <4> QED BY <4>1, <4>2 DEF TypeOK
    <3>2. CallsBound'
      BY <2>11 DEF Lock, TypeOK, CallsBound
    <3> QED BY <2>11, <2>a, <3>1, <3>2 DEF Lock, TypeOK
  <2>12. ASSUME NEW t \in Tabs, Reload(t) PROVE TypeOK'
    <3>1. push' \in [Pushes -> Push]
      <4> DEFINE next(p) == [push[p] EXCEPT !.pc = "done", !.tab = NoTab]
      <4>1. \A p \in Pushes : push[p] \in Push
        BY DEF TypeOK
      <4>2. \A p \in Pushes : next(p) \in Push
        BY <4>1 DEF Push
      <4>3. push' = [p \in Pushes |-> IF push[p].tab = t THEN next(p) ELSE push[p]]
        BY <2>12 DEF Reload
      <4> HIDE DEF next
      <4> QED BY <4>1, <4>2, <4>3
    <3>2. CallsBound'
      <4>1. ASSUME NEW p \in Pushes, push'[p].pc \notin {"idle", "done"}
            PROVE  push'[p].tab \in Tabs
        <5>0. push'[p] = IF push[p].tab = t
                         THEN [push[p] EXCEPT !.pc = "done", !.tab = NoTab]
                         ELSE push[p]
          BY <2>12 DEF Reload
        <5>1. push'[p] = push[p]
          BY <4>1, <5>0 DEF TypeOK, Push
        <5> QED BY <4>1, <5>1 DEF TypeOK, CallsBound
      <4>2. ASSUME NEW u \in Tabs, pull'[u].pc \in {"acct", "promote"}
            PROVE  pull'[u].blob \in Pushes
        BY <2>12, <4>2 DEF Reload, TypeOK, CallsBound, IdlePull
      <4> QED BY <4>1, <4>2 DEF CallsBound
    <3> QED BY <2>12, <2>a, <2>b, <2>c, <3>1, <3>2 DEF Reload, TypeOK
  <2>13. ASSUME PushAges PROVE TypeOK'
    <3>1. tab' \in [Tabs -> Tab]
      <4>1. \A t \in Tabs : tab[t] \in Tab
        BY DEF TypeOK
      <4>2. \A t \in Tabs : [tab[t] EXCEPT !.seenFresh = FALSE] \in Tab
        BY <4>1 DEF Tab
      <4> QED BY <2>13, <4>2 DEF PushAges
    <3>2. rotate' \in [Tabs -> Rotate]
      <4>1. \A t \in Tabs : rotate[t] \in Rotate
        BY DEF TypeOK
      <4>2. \A row \in Row : [row EXCEPT !.fresh = FALSE] \in Row
        BY DEF Row
      <4>3. \A t \in Tabs :
              [rotate[t] EXCEPT !.row = [rotate[t].row EXCEPT !.fresh = FALSE]] \in Rotate
        BY <4>1, <4>2 DEF Rotate
      <4>4. \A t \in Tabs : [rotate[t] EXCEPT !.row.fresh = FALSE] \in Rotate
        BY <4>3
      <4> QED BY <2>13, <4>4 DEF PushAges
    <3>3. save' \in [1 .. MaxSaves -> SaveCall]
      <4>1. \A n \in 1 .. MaxSaves : save[n] \in SaveCall
        BY DEF TypeOK
      <4>2. \A n \in 1 .. MaxSaves : [save[n] EXCEPT !.row.fresh = FALSE] \in SaveCall
        BY <4>1 DEF SaveCall, Row
      <4> QED BY <2>13, <4>2 DEF PushAges
    <3> QED BY <2>13, <3>1, <3>2, <3>3 DEF PushAges, TypeOK, CallsBound
  <2>14. ASSUME NEW t \in Tabs, BeginRotate(t) PROVE TypeOK'
    <3>1. rotate' \in [Tabs -> Rotate]
      BY <2>14 DEF BeginRotate, ReadRow, TypeOK, Rotate, Row
    <3> QED BY <2>14, <3>1 DEF BeginRotate, TypeOK, CallsBound
  <2>15. ASSUME NEW t \in Tabs, RotateReadVault(t) PROVE TypeOK'
    <3>1. rotate' \in [Tabs -> Rotate]
      BY <2>15, <2>c DEF RotateReadVault, TypeOK, Rotate
    <3> QED BY <2>15, <3>1 DEF RotateReadVault, TypeOK, CallsBound
  <2>16. ASSUME NEW t \in Tabs, CommitRotate(t) PROVE TypeOK'
    <3>1. rotate[t].row \in Row /\ rotate[t].vault \in Save
      BY DEF TypeOK, Rotate
    <3>2. rotate[t].row.lacks \ {"format"} \in SUBSET Outdated
      BY <3>1 DEF Row
    <3>3. /\ inventoryIndex' \in Index
          /\ pushedRecently' \in BOOLEAN
          /\ lacks' \in SUBSET Outdated
          /\ unrecorded' \in SUBSET Pushes
      BY <2>16, <3>1, <3>2, WriteRowType DEF CommitRotate
    <3> QED BY <2>16, <2>c, <3>1, <3>3 DEF CommitRotate, TypeOK, CallsBound
  <2>17. ASSUME NEW t \in Tabs, BeginPull(t) PROVE TypeOK'
    <3>1. tab[t].latest + 1 \in Nat
      BY DEF TypeOK, Tab
    <3>2. pull' \in [Tabs -> Pull]
      BY <2>17, <2>b, <3>1 DEF BeginPull, TypeOK, Pull
    <3>3. CallsBound'
      BY <2>17 DEF BeginPull, TypeOK, CallsBound, IdlePull
    <3> QED BY <2>17, <3>2, <3>3 DEF BeginPull, TypeOK
  <2>18. ASSUME NEW t \in Tabs, ProbePresent(t) PROVE TypeOK'
    <3>1. /\ pull[t].at \in Index
          /\ inv[pull[t].at] \in Pushes \cup {NoPush}
      BY <2>18 DEF ProbePresent, TypeOK
    <3>2. CASE ProbesLeft(t)
      <4> DEFINE next == [pull[t] EXCEPT !.newest = pull[t].at,
                            !.blob = inv[pull[t].at], !.step = pull[t].step + 1,
                            !.at = tab[t].latest + pull[t].step + 1]
      <4>1. pull[t].step + 1 \in 1 .. MaxProbes
        BY <3>2 DEF ProbesLeft, TypeOK, Pull
      <4>2. tab[t].latest + pull[t].step + 1 \in Nat
        BY DEF TypeOK, Pull, Tab
      <4>3. /\ next \in Pull
            /\ next.pc = "probe"
        <5>1. /\ pull[t] \in Pull /\ pull[t].pc = "probe"
              /\ pull[t].at \in Index /\ inv[pull[t].at] \in Pushes \cup {NoPush}
          BY <2>18, <3>1 DEF ProbePresent, TypeOK
        <5> QED BY <4>1, <4>2, <5>1 DEF Pull
      <4>4. pull' = [pull EXCEPT ![t] = next]
        <5>1. pull' = [pull EXCEPT ![t].newest = pull[t].at,
                                   ![t].blob = inv[pull[t].at],
                                   ![t].step = pull[t].step + 1,
                                   ![t].at = tab[t].latest + pull[t].step + 1]
          BY <2>18, <3>2 DEF ProbePresent
        <5>2. pull \in [Tabs -> Pull]
          BY DEF TypeOK
        <5> QED BY <5>1, <5>2 DEF Pull
      <4> HIDE DEF next
      <4>5. /\ pull' \in [Tabs -> Pull]
            /\ CallsBound'
        BY <2>18, <4>3, <4>4 DEF ProbePresent, TypeOK, CallsBound
      <4> QED BY <2>18, <3>2, <4>5 DEF ProbePresent, TypeOK
    <3>3. CASE ~ProbesLeft(t)
      <4>1. Adopt(t, pull[t].at, inv[pull[t].at]) /\ UNCHANGED push
        BY <2>18, <3>3 DEF ProbePresent
      <4>2. /\ tab' \in [Tabs -> Tab]
            /\ pull' \in [Tabs -> Pull]
            /\ exposure' \in SUBSET Exposure
            /\ CallsBound'
        BY <3>1, <4>1, AdoptType
      <4> QED BY <2>18, <4>2 DEF ProbePresent, TypeOK
    <3> QED BY <3>2, <3>3
  <2>19. ASSUME NEW t \in Tabs, ProbeEnds(t) PROVE TypeOK'
    <3>1. /\ pull[t].newest \in Index
          /\ pull[t].blob \in Pushes \cup {NoPush}
      BY DEF TypeOK, Pull
    <3>2. /\ tab' \in [Tabs -> Tab]
          /\ pull' \in [Tabs -> Pull]
          /\ exposure' \in SUBSET Exposure
          /\ CallsBound'
      BY <2>19, <3>1, AdoptType DEF ProbeEnds
    <3> QED BY <2>19, <3>2 DEF ProbeEnds, TypeOK
  <2>20. ASSUME NEW t \in Tabs, FetchBlob(t) PROVE TypeOK'
    <3>1. PICK pc \in {"acct", "repush"} :
            /\ pull' = [pull EXCEPT ![t].pc = pc]
            /\ pc = "acct" => pull[t].blob \in blobs
      BY <2>20 DEF FetchBlob
    <3>2. /\ pull' \in [Tabs -> Pull]
          /\ pull'[t].pc = pc
          /\ pull'[t].blob = pull[t].blob
          /\ \A u \in Tabs \ {t} : pull'[u] = pull[u]
      BY <3>1, PullStep
    <3>3. CallsBound'
      BY <2>20, <3>1, <3>2 DEF FetchBlob, TypeOK, CallsBound
    <3> QED BY <2>20, <3>2, <3>3 DEF FetchBlob, TypeOK
  <2>21. ASSUME NEW t \in Tabs, AdoptIndex(t) PROVE TypeOK'
    <3>1. MoveForward(inventoryIndex, pull[t].newest) \in Index
      BY DEF TypeOK, Pull, MoveForward
    <3>2. /\ pull' \in [Tabs -> Pull]
          /\ pull'[t].blob = pull[t].blob
          /\ \A u \in Tabs \ {t} : pull'[u] = pull[u]
      BY <2>21, PullStep DEF AdoptIndex
    <3>3. CallsBound'
      BY <2>21, <3>2 DEF AdoptIndex, TypeOK, CallsBound
    <3> QED BY <2>21, <3>1, <3>2, <3>3 DEF AdoptIndex, TypeOK
  <2>22. ASSUME NEW t \in Tabs, Promote(t) PROVE TypeOK'
    <3>1. push[pull[t].blob].content \in Save
      BY <2>22 DEF Promote, TypeOK, CallsBound, Push
    <3>2. vault' \in Save
      BY <2>22, <3>1 DEF Promote, TypeOK
    <3>3. CallsBound'
      BY <2>22 DEF Promote, TypeOK, CallsBound, IdlePull
    <3> QED BY <2>22, <2>b, <3>2, <3>3 DEF Promote, TypeOK
  <2>23. ASSUME NEW t \in Tabs, SyncPush(t) PROVE TypeOK'
    <3>1. /\ push' \in [Pushes -> Push]
          /\ wire' \in SUBSET Request
          /\ \A p \in Pushes : push'[p].pc \notin {"idle", "done"} => push'[p].tab \in Tabs
      BY <2>23, BeginPushType DEF SyncPush, TypeOK, CallsBound
    <3>2. CallsBound'
      BY <2>23, <3>1 DEF SyncPush, TypeOK, CallsBound, IdlePull
    <3> QED BY <2>23, <2>b, <3>1, <3>2 DEF SyncPush, TypeOK
  <2>24. CASE UNCHANGED vars
    BY <2>24 DEF vars, TypeOK, CallsBound
  <2> QED
    BY <2>1, <2>2, <2>3, <2>4, <2>5, <2>6, <2>7, <2>8, <2>9, <2>10, <2>11,
       <2>12, <2>13, <2>14, <2>15, <2>16, <2>17, <2>18, <2>19, <2>20, <2>21,
       <2>22, <2>23, <2>24, <2>25, <2>26 DEF Next
<1> QED BY <1>1, <1>2, PTL DEF Spec

-----------------------------------------------------------------------------
(* What the server holds.                                                  *)

(* An inventory request on the wire, like an inventory stored, belongs to  *)
(* a push whose blob is stored.                                            *)
BlobBeforeInventory ==
  /\ InventoryNamesStoredBlob
  /\ \A p \in Pushes : [kind |-> "inv", push |-> p] \in wire => p \in blobs

(* The wire gains blob requests only.                                      *)
LEMMA BeginPushWire ==
  ASSUME NEW t \in Tabs, NEW content, BeginPush(t, content), NEW p \in Pushes,
         [kind |-> "inv", push |-> p] \in wire'
  PROVE  [kind |-> "inv", push |-> p] \in wire
  BY DEF BeginPush

(* Whatever fails, is reordered or is left behind by a reload, no stored   *)
(* inventory names a missing blob.                                         *)
THEOREM InventoriesReadable == Spec => []InventoryNamesStoredBlob
<1>1. Init => BlobBeforeInventory
  BY DEF Init, BlobBeforeInventory, InventoryNamesStoredBlob
<1>2. TypeOK /\ BlobBeforeInventory /\ [Next]_vars => BlobBeforeInventory'
  <2> SUFFICES ASSUME TypeOK, BlobBeforeInventory, [Next]_vars
               PROVE  BlobBeforeInventory'
    OBVIOUS
  <2> USE DEF BlobBeforeInventory, InventoryNamesStoredBlob
  <2>1. ASSUME NEW p \in Pushes, Reserve(p) PROVE BlobBeforeInventory'
    BY <2>1 DEF Reserve
  <2>2. ASSUME NEW p \in Pushes, PutBlob(p) PROVE BlobBeforeInventory'
    BY <2>2 DEF PutBlob
  <2>3. ASSUME NEW p \in Pushes, PutInventory(p) PROVE BlobBeforeInventory'
    BY <2>3 DEF PutInventory, TypeOK
  <2>4. ASSUME NEW n \in 1 .. MaxSaves, CommitSave(n) PROVE BlobBeforeInventory'
    BY <2>4, BeginPushWire DEF CommitSave
  <2>5. ASSUME NEW t \in Tabs, FinishOpen(t) PROVE BlobBeforeInventory'
    BY <2>5, BeginPushWire DEF FinishOpen
  <2>6. ASSUME NEW t \in Tabs, SyncPush(t) PROVE BlobBeforeInventory'
    BY <2>6, BeginPushWire DEF SyncPush
  <2>7. CASE UNCHANGED <<wire, blobs, inv>>
    BY <2>7
  <2>8. \/ \E p \in Pushes : Reserve(p) \/ PutBlob(p) \/ PutInventory(p)
        \/ \E n \in 1 .. MaxSaves : CommitSave(n)
        \/ \E t \in Tabs : FinishOpen(t) \/ SyncPush(t)
        \/ UNCHANGED <<wire, blobs, inv>>
    BY DEF Next, vars, BlobFailed, InventoryReply, PersistIndex, BeginSave,
       SaveFailed, BeginOpen, OpenFailed, Lock, Reload, PushAges, BeginRotate, RotateReadVault,
       CommitRotate, BeginPull, ProbePresent, ProbeEnds, FetchBlob, AdoptIndex,
       Promote
  <2> QED BY <2>1, <2>2, <2>3, <2>4, <2>5, <2>6, <2>7, <2>8
<1>3. BlobBeforeInventory => InventoryNamesStoredBlob
  BY DEF BlobBeforeInventory
<1> QED BY <1>1, <1>2, <1>3, TypeCorrect, PTL DEF Spec

-----------------------------------------------------------------------------
(* Drawing indexes.                                                        *)

(* As long as nothing exposed the chain there is one open tab at most, its *)
(* position is at or above every index drawn, and no index was drawn twice.*)
OneWriter ==
  exposure = {} =>
    /\ \A t, u \in Tabs : Open(t) /\ Open(u) => t = u
    /\ \A t \in Tabs, p \in Pushes : Open(t) => push[p].index <= tab[t].latest
    /\ IndexesDistinct

(* A push that has not come to its inventory has drawn nothing.            *)
NothingDrawnEarly == \A p \in Pushes : push[p].pc \in {"idle", "blob"} => push[p].index = 0

DrawInv == OneWriter /\ NothingDrawnEarly

(* A step that draws no index, opens no tab and moves no open tab's        *)
(* position keeps OneWriter.                                               *)
LEMMA QuietStep ==
  ASSUME OneWriter, exposure \subseteq exposure',
         \A p \in Pushes : push'[p].index = push[p].index,
         \A t \in Tabs : Open(t)' => Open(t) /\ tab'[t].latest = tab[t].latest
  PROVE  OneWriter'
  BY DEF OneWriter, IndexesDistinct, Open

(* No index drawn exceeds n when nothing reserved does.                    *)
LEMMA ReservedBound ==
  ASSUME TypeOK, NEW n \in Nat, \A i \in Reserved : ~(i > n), NEW p \in Pushes
  PROVE  push[p].index \in Nat /\ push[p].index <= n
  <1>1. push[p].index \in Nat
    BY BoundsAssumption DEF TypeOK, Push
  <1>2. CASE push[p].index = 0
    BY <1>2
  <1>3. CASE push[p].index # 0
    <2>1. push[p].index \in Reserved
      BY <1>3 DEF Reserved
    <2> QED BY <1>1, <2>1
  <1> QED BY <1>1, <1>2, <1>3

(* A push that begins draws no index.                                      *)
LEMMA BeginPushIndex ==
  ASSUME TypeOK, NothingDrawnEarly, NEW t \in Tabs, NEW content,
         BeginPush(t, content)
  PROVE  /\ \A p \in Pushes : push'[p].index = push[p].index
         /\ NothingDrawnEarly'
  BY DEF BeginPush, TypeOK, NothingDrawnEarly

(* Ending the probe loop keeps OneWriter: a position that falls behind an  *)
(* index drawn is an exposure.                                             *)
LEMMA AdoptWriter ==
  ASSUME TypeOK, OneWriter, NEW t \in Tabs, NEW newest \in Index, NEW blob,
         Adopt(t, newest, blob), UNCHANGED push
  PROVE  OneWriter'
  <1>1. CASE UNCHANGED <<tab, exposure>>
    BY <1>1, QuietStep DEF Open
  <1>2. CASE /\ tab' = [tab EXCEPT ![t].latest = newest]
             /\ exposure' = IF \E i \in Reserved : i > newest
                            THEN exposure \cup {"pull rewind"} ELSE exposure
    <2> SUFFICES ASSUME exposure' = {} PROVE OneWriter'
      BY DEF OneWriter
    <2>1. exposure = {} /\ \A i \in Reserved : ~(i > newest)
      BY <1>2
    <2>2. \A p \in Pushes : push[p].index \in Nat /\ push[p].index <= newest
      BY <2>1, BoundsAssumption, ReservedBound
    <2>3. \A u \in Tabs : /\ tab'[u].status = tab[u].status
                          /\ tab'[u].latest = IF u = t THEN newest ELSE tab[u].latest
      <3>1. tab[t] \in Tab /\ tab' = [tab EXCEPT ![t] = [tab[t] EXCEPT !.latest = newest]]
        BY <1>2 DEF TypeOK
      <3>2. /\ [tab[t] EXCEPT !.latest = newest].status = tab[t].status
            /\ [tab[t] EXCEPT !.latest = newest].latest = newest
        BY <3>1 DEF Tab
      <3> QED BY <3>1, <3>2 DEF TypeOK
    <2>4. \A u \in Tabs : Open(u)' = Open(u)
      BY <2>3 DEF Open
    <2> QED BY <2>1, <2>2, <2>3, <2>4 DEF OneWriter, IndexesDistinct
  <1> QED BY <1>1, <1>2 DEF Adopt

(* The inductive invariant behind the theorem on index reuse.              *)
LEMMA DrawInvariant == Spec => []DrawInv
<1>1. Init => DrawInv
  BY DEF Init, DrawInv, OneWriter, NothingDrawnEarly, IndexesDistinct, Open,
     LockedTab, IdlePush
<1>2. TypeOK /\ DrawInv /\ [Next]_vars => DrawInv'
  <2> SUFFICES ASSUME TypeOK, OneWriter, NothingDrawnEarly, [Next]_vars
               PROVE  OneWriter' /\ NothingDrawnEarly'
    BY DEF DrawInv
  <2>1. ASSUME NEW p \in Pushes, Reserve(p) PROVE OneWriter' /\ NothingDrawnEarly'
    <3>1. push[p].tab \in Tabs /\ push[p].index = 0
      BY <2>1 DEF Reserve, TypeOK, CallsBound, NothingDrawnEarly
    <3>2. CASE Open(push[p].tab) /\ tab[push[p].tab].token
      <4> DEFINE t == push[p].tab
      <4>1. /\ tab' = [tab EXCEPT ![t].latest = @ + 1]
            /\ push' = [push EXCEPT ![p].pc = "inv", ![p].index = tab[t].latest + 1]
            /\ UNCHANGED exposure
        BY <2>1, <3>2 DEF Reserve
      <4>2. t \in Tabs /\ Open(t)
        BY <3>1, <3>2
      <4> HIDE DEF t
      <4>3. tab[t].latest \in Nat
        BY <4>2, BoundsAssumption DEF TypeOK, Tab
      <4>4. \A u \in Tabs : Open(u)' = Open(u)
        BY <4>1 DEF Open, TypeOK, Tab
      <4>5. tab'[t].latest = tab[t].latest + 1
        BY <4>1, <4>2 DEF TypeOK, Tab
      <4>6. \A q \in Pushes :
              /\ push'[q].pc = IF q = p THEN "inv" ELSE push[q].pc
              /\ push'[q].index = IF q = p THEN tab[t].latest + 1 ELSE push[q].index
        BY <4>1 DEF TypeOK, Push
      <4>7. NothingDrawnEarly'
        BY <4>6 DEF NothingDrawnEarly
      <4>8. ASSUME exposure' = {} PROVE OneWriter'
        <5>1. \A q \in Pushes : push[q].index \in Nat /\ push[q].index <= tab[t].latest
          BY <4>1, <4>2, <4>8, BoundsAssumption DEF OneWriter, TypeOK, Push
        <5>2. \A u \in Tabs : Open(u) => u = t
          BY <4>1, <4>2, <4>8 DEF OneWriter
        <5>3. IndexesDistinct'
          BY <4>1, <4>3, <4>6, <4>8, <5>1 DEF OneWriter, IndexesDistinct
        <5>4. \A q \in Pushes : push'[q].index <= tab'[t].latest
          BY <4>3, <4>5, <4>6, <5>1
        <5> QED BY <4>4, <5>2, <5>3, <5>4 DEF OneWriter
      <4> QED BY <4>7, <4>8 DEF OneWriter
    <3>3. CASE ~(Open(push[p].tab) /\ tab[push[p].tab].token)
      <4>1. /\ push' = [push EXCEPT ![p].pc = "done", ![p].tab = NoTab]
            /\ UNCHANGED <<tab, exposure>>
        BY <2>1, <3>3 DEF Reserve
      <4>2. \A q \in Pushes : push'[q].index = push[q].index
        BY <4>1 DEF TypeOK, Push
      <4>3. OneWriter'
        BY <4>1, <4>2, QuietStep DEF Open
      <4> QED BY <4>1, <4>3 DEF NothingDrawnEarly, TypeOK
    <3> QED BY <3>2, <3>3
  <2>2. ASSUME NEW t \in Tabs, FinishOpen(t) PROVE OneWriter' /\ NothingDrawnEarly'
    <3>1. /\ \A p \in Pushes : push'[p].index = push[p].index
          /\ NothingDrawnEarly'
      <4>1. CASE UNCHANGED push
        BY <4>1 DEF NothingDrawnEarly
      <4>2. CASE BeginPush(t, tab[t].seenVault)
        BY <4>2, BeginPushIndex
      <4> QED BY <2>2, <4>1, <4>2 DEF FinishOpen
    <3>2. /\ tab'[t].latest = tab[t].seenIndex
          /\ \A u \in Tabs \ {t} : tab'[u] = tab[u]
      BY <2>2 DEF FinishOpen, TypeOK, LockedTab
    <3>3. ASSUME exposure' = {} PROVE OneWriter'
      <4>1. /\ exposure = {}
            /\ \A u \in Tabs \ {t} : ~Open(u)
            /\ \A i \in Reserved : ~(i > tab[t].seenIndex)
        BY <2>2, <3>3 DEF FinishOpen
      <4>2. \A p \in Pushes : push[p].index <= tab[t].seenIndex
        <5>1. tab[t].seenIndex \in Nat
          BY BoundsAssumption DEF TypeOK, Tab
        <5> QED BY <4>1, <5>1, ReservedBound
      <4>3. \A u \in Tabs : Open(u)' => u = t
        BY <3>2, <4>1 DEF Open
      <4> QED BY <3>1, <3>2, <4>1, <4>2, <4>3 DEF OneWriter, IndexesDistinct
    <3> QED BY <3>1, <3>3 DEF OneWriter
  <2>3. ASSUME NEW t \in Tabs, ProbePresent(t) PROVE OneWriter' /\ NothingDrawnEarly'
    <3>1. pull[t].at \in Index /\ UNCHANGED push
      BY <2>3 DEF ProbePresent
    <3>2. OneWriter'
      <4>1. CASE UNCHANGED <<tab, exposure>>
        BY <3>1, <4>1, QuietStep DEF Open
      <4>2. CASE Adopt(t, pull[t].at, inv[pull[t].at])
        BY <3>1, <4>2, AdoptWriter
      <4> QED BY <2>3, <4>1, <4>2 DEF ProbePresent
    <3> QED BY <3>1, <3>2 DEF NothingDrawnEarly
  <2>4. ASSUME NEW t \in Tabs, ProbeEnds(t) PROVE OneWriter' /\ NothingDrawnEarly'
    <3>1. pull[t].newest \in Index /\ UNCHANGED push
      BY <2>4 DEF ProbeEnds, TypeOK, Pull
    <3> QED BY <2>4, <3>1, AdoptWriter DEF ProbeEnds, NothingDrawnEarly
  <2>5. ASSUME NEW t \in Tabs, NEW content, BeginPush(t, content),
               UNCHANGED <<tab, exposure>>
        PROVE  OneWriter' /\ NothingDrawnEarly'
    <3>1. /\ \A p \in Pushes : push'[p].index = push[p].index
          /\ NothingDrawnEarly'
      BY <2>5, BeginPushIndex
    <3> QED BY <2>5, <3>1, QuietStep DEF Open
  <2>6. ASSUME NEW p \in Pushes, BlobFailed(p) \/ InventoryReply(p) \/ PersistIndex(p)
        PROVE  OneWriter' /\ NothingDrawnEarly'
    <3>1. /\ \A q \in Pushes : push'[q].index = push[q].index
          /\ \A q \in Pushes : push'[q].pc = push[q].pc \/ push'[q].pc \notin {"idle", "blob"}
      <4>1. CASE push' = [push EXCEPT ![p].pc = "done", ![p].tab = NoTab]
        BY <4>1 DEF TypeOK, Push
      <4>2. ASSUME NEW pc \in {"acctOk", "acctFail"}, push' = [push EXCEPT ![p].pc = pc]
            PROVE  \A q \in Pushes :
                     /\ push'[q].index = push[q].index
                     /\ push'[q].pc = push[q].pc \/ push'[q].pc \notin {"idle", "blob"}
        BY <4>2 DEF TypeOK, Push
      <4> QED BY <2>6, <4>1, <4>2 DEF BlobFailed, InventoryReply, PersistIndex
    <3>2. UNCHANGED <<tab, exposure>>
      BY <2>6 DEF BlobFailed, InventoryReply, PersistIndex
    <3> QED BY <3>1, <3>2, QuietStep DEF Open, NothingDrawnEarly
  <2>7. ASSUME NEW t \in Tabs, Reload(t) PROVE OneWriter' /\ NothingDrawnEarly'
    <3>1. \A q \in Pushes :
            /\ push'[q].index = push[q].index
            /\ push'[q].pc = push[q].pc \/ push'[q].pc = "done"
      BY <2>7 DEF Reload, TypeOK, Push
    <3>2. \A u \in Tabs : Open(u)' => Open(u) /\ tab'[u].latest = tab[u].latest
      BY <2>7 DEF Reload, Open, LockedTab, TypeOK
    <3>3. UNCHANGED exposure
      BY <2>7 DEF Reload
    <3> QED BY <3>1, <3>2, <3>3, QuietStep DEF NothingDrawnEarly
  <2>8. ASSUME NEW t \in Tabs, BeginOpen(t) \/ OpenFailed(t) \/ Lock(t)
        PROVE  OneWriter' /\ NothingDrawnEarly'
    <3>1. \A u \in Tabs : Open(u)' => Open(u) /\ tab'[u].latest = tab[u].latest
      BY <2>8 DEF BeginOpen, OpenFailed, Lock, Open, LockedTab, TypeOK
    <3>2. UNCHANGED <<push, exposure>>
      BY <2>8 DEF BeginOpen, OpenFailed, Lock
    <3> QED BY <3>1, <3>2, QuietStep DEF NothingDrawnEarly
  <2>9. ASSUME PushAges PROVE OneWriter' /\ NothingDrawnEarly'
    <3>1. \A u \in Tabs : Open(u)' => Open(u) /\ tab'[u].latest = tab[u].latest
      BY <2>9 DEF PushAges, Open, TypeOK, Tab
    <3> QED BY <2>9, <3>1, QuietStep DEF PushAges, NothingDrawnEarly
  <2>10. CASE UNCHANGED <<push, tab, exposure>>
    BY <2>10, QuietStep DEF Open, NothingDrawnEarly
  <2>11. \/ \E p \in Pushes : Reserve(p) \/ BlobFailed(p) \/ InventoryReply(p) \/ PersistIndex(p)
         \/ \E t \in Tabs : FinishOpen(t) \/ ProbePresent(t) \/ ProbeEnds(t)
         \/ \E n \in 1 .. MaxSaves : /\ save[n].tab \in Tabs
                                      /\ BeginPush(save[n].tab, n)
                                      /\ UNCHANGED <<tab, exposure>>
         \/ \E t \in Tabs : BeginPush(t, vault) /\ UNCHANGED <<tab, exposure>>
         \/ \E t \in Tabs : Reload(t)
         \/ \E t \in Tabs : BeginOpen(t) \/ OpenFailed(t) \/ Lock(t)
         \/ PushAges
         \/ UNCHANGED <<push, tab, exposure>>
    BY DEF Next, vars, BeginSave, CommitSave, SaveFailed, SyncPush, PutBlob, PutInventory, BeginRotate, RotateReadVault,
       CommitRotate, BeginPull, FetchBlob, AdoptIndex, Promote
  <2> QED BY <2>1, <2>2, <2>3, <2>4, <2>5, <2>6, <2>7, <2>8, <2>9, <2>10, <2>11
<1> QED BY <1>1, <1>2, TypeCorrect, PTL DEF Spec

(* Two pushes draw one index only after a second tab was open, a session   *)
(* started behind an index drawn, or a pull stepped the session back.      *)
THEOREM ReuseNeedsExposure == Spec => []ReuseHasCause
<1>1. DrawInv => ReuseHasCause
  BY DEF DrawInv, OneWriter, ReuseHasCause
<1> QED BY <1>1, DrawInvariant, PTL

-----------------------------------------------------------------------------
(* What the account row records.                                           *)

(* Of the pushes that are over, those above an index are among the named   *)
(* ones or unrecorded.                                                     *)
Covered(index, missed) ==
  \A p \in Pushes :
    push[p].pc = "done" /\ push[p].index > index => p \in unrecorded \cup missed

(* The row records every push that is over but the unrecorded ones; a copy *)
(* that will be written back records every one but those and the pushes    *)
(* recorded since it was read, which writing it makes unrecorded.          *)
RecordInv ==
  /\ Covered(inventoryIndex, {})
  /\ \A n \in 1 .. MaxSaves :
       save[n].row.lacks # {} => Covered(save[n].row.index, save[n].row.missed)
  /\ \A t \in Tabs :
       rotate[t].pc # "idle" => Covered(rotate[t].row.index, rotate[t].row.missed)

(* The pushes that a step ends with an index it makes unrecorded, or they  *)
(* are among the named ones.                                               *)
Ends(missed) ==
  \A p \in Pushes :
    push'[p].pc = "done" /\ push'[p].index > 0
      => \/ push[p].pc = "done" /\ push[p].index = push'[p].index
         \/ p \in unrecorded' \cup missed

(* An index that covers the pushes that are over goes on covering them.    *)
LEMMA StaysCovered ==
  ASSUME NEW index \in Nat, NEW later \in Nat, NEW missed, NEW more, NEW ended,
         Covered(index, missed), Ends(ended), later >= index,
         unrecorded \cup missed \subseteq unrecorded' \cup more,
         \A p \in ended : p \in more \/ later >= push'[p].index,
         push' \in [Pushes -> Push]
  PROVE  \A p \in Pushes :
           push'[p].pc = "done" /\ push'[p].index > later => p \in unrecorded' \cup more
  <1> SUFFICES ASSUME NEW p \in Pushes, push'[p].pc = "done", push'[p].index > later
               PROVE  p \in unrecorded' \cup more
    OBVIOUS
  <1>1. push'[p].index \in Nat
    BY BoundsAssumption DEF Push
  <1>2. CASE push[p].pc = "done" /\ push[p].index = push'[p].index
    BY <1>1, <1>2 DEF Covered
  <1>3. CASE p \in unrecorded'
    BY <1>3
  <1>4. CASE p \in ended
    BY <1>1, <1>4
  <1> QED BY <1>1, <1>2, <1>3, <1>4 DEF Ends

(* A step other than a write of the row by a push ends no push with an     *)
(* index but those it makes unrecorded: what ends a push before it has     *)
(* drawn an index leaves it without one.                                   *)
LEMMA QuietEnds ==
  ASSUME TypeOK, NothingDrawnEarly, [Next]_vars,
         \A p \in Pushes : PersistIndex(p) => p \in unrecorded'
  PROVE  Ends({})
  <1> SUFFICES ASSUME NEW p \in Pushes, push'[p].pc = "done", push'[p].index > 0
               PROVE  \/ push[p].pc = "done" /\ push[p].index = push'[p].index
                      \/ p \in unrecorded'
    BY DEF Ends
  <1> DEFINE Goal == \/ push[p].pc = "done" /\ push[p].index = push'[p].index
                     \/ p \in unrecorded'
  <1>1. ASSUME NEW q \in Pushes, BlobFailed(q) \/ Reserve(q), p = q PROVE Goal
    <2>1. push[p].index = 0
      BY <1>1 DEF BlobFailed, Reserve, NothingDrawnEarly
    <2>2. \/ push' = [push EXCEPT ![p].pc = "done", ![p].tab = NoTab]
          \/ \E i \in Nat : push' = [push EXCEPT ![p].pc = "inv", ![p].index = i]
      <3>1. push[p].tab \in Tabs
        BY <1>1 DEF BlobFailed, Reserve, TypeOK, CallsBound
      <3>2. tab[push[p].tab].latest + 1 \in Nat
        BY <3>1, BoundsAssumption DEF TypeOK, Tab
      <3> QED BY <1>1, <3>2 DEF BlobFailed, Reserve
    <2> QED BY <2>1, <2>2 DEF TypeOK, Push
  <1>2. ASSUME NEW q \in Pushes, PersistIndex(q), p = q PROVE Goal
    BY <1>2
  <1>3. ASSUME NEW q \in Pushes, InventoryReply(q), p = q PROVE Goal
    BY <1>3 DEF InventoryReply, TypeOK, Push
  <1>4. ASSUME NEW t \in Tabs, Reload(t) PROVE Goal
    <2>1. CASE push[p].tab = t
      <3>1. push'[p].index = push[p].index
        BY <1>4, <2>1 DEF Reload, TypeOK, Push
      <3> QED BY <1>4, <2>1, <3>1 DEF Reload
    <2>2. CASE push[p].tab # t
      BY <1>4, <2>2 DEF Reload
    <2> QED BY <2>1, <2>2
  <1>5. ASSUME NEW t, NEW content, BeginPush(t, content) PROVE Goal
    <2>1. push'[p] = push[p] \/ push'[p].pc = "blob"
      BY <1>5 DEF BeginPush, TypeOK
    <2> QED BY <2>1
  <1>6. ASSUME push'[p] = push[p] PROVE Goal
    BY <1>6
  <1>7. \/ \E q \in Pushes : /\ \/ BlobFailed(q) \/ Reserve(q)
                                \/ PersistIndex(q) \/ InventoryReply(q)
                             /\ p = q
        \/ \E t \in Tabs : Reload(t)
        \/ \E t, content : BeginPush(t, content)
        \/ push'[p] = push[p]
    <2>1. ASSUME NEW q \in Pushes, p # q,
                 BlobFailed(q) \/ Reserve(q) \/ PersistIndex(q) \/ InventoryReply(q)
          PROVE  push'[p] = push[p]
      BY <2>1 DEF BlobFailed, Reserve, PersistIndex, InventoryReply, TypeOK
    <2>2. \/ \E q \in Pushes : \/ BlobFailed(q) \/ Reserve(q)
                               \/ PersistIndex(q) \/ InventoryReply(q)
          \/ \E t \in Tabs : Reload(t)
          \/ \E t, content : BeginPush(t, content)
          \/ UNCHANGED push
      BY DEF Next, vars, PutBlob, PutInventory, BeginSave, CommitSave, SaveFailed,
         BeginOpen, OpenFailed, FinishOpen, Lock, PushAges, BeginRotate,
         RotateReadVault, CommitRotate, BeginPull, Adopt, ProbePresent, ProbeEnds,
         FetchBlob, AdoptIndex, Promote, SyncPush
    <2> QED BY <2>1, <2>2
  <1> QED BY <1>1, <1>2, <1>3, <1>4, <1>5, <1>6, <1>7

(* After such a step the copies held cover the pushes that are over, if    *)
(* each is one held before or is a new one of the present row.             *)
LEMMA CopiesStayCovered ==
  ASSUME TypeOK, TypeOK', RecordInv, Ends({}), unrecorded \subseteq unrecorded',
         \A n \in 1 .. MaxSaves : save'[n].row.lacks # {} =>
           \/ /\ save[n].row.lacks # {}
              /\ save'[n].row.index = save[n].row.index
              /\ save'[n].row.missed = save[n].row.missed
           \/ save'[n].row.index = inventoryIndex /\ save'[n].row.missed = {},
         \A t \in Tabs : rotate'[t].pc # "idle" =>
           \/ /\ rotate[t].pc # "idle"
              /\ rotate'[t].row.index = rotate[t].row.index
              /\ rotate'[t].row.missed = rotate[t].row.missed
           \/ rotate'[t].row.index = inventoryIndex /\ rotate'[t].row.missed = {}
  PROVE  /\ \A n \in 1 .. MaxSaves : save'[n].row.lacks # {} =>
              Covered(save[n].row.index, save[n].row.missed)'
         /\ \A t \in Tabs : rotate'[t].pc # "idle" =>
              Covered(rotate[t].row.index, rotate[t].row.missed)'
  <1>0. /\ push' \in [Pushes -> Push]
        /\ inventoryIndex \in Nat
        /\ \A n \in 1 .. MaxSaves : save[n].row.index \in Nat
        /\ \A t \in Tabs : rotate[t].row.index \in Nat
    BY BoundsAssumption DEF TypeOK, SaveCall, Rotate, Row
  <1>1. ASSUME NEW index \in Nat, NEW missed, Covered(index, missed)
        PROVE  \A p \in Pushes :
                 push'[p].pc = "done" /\ push'[p].index > index
                   => p \in unrecorded' \cup missed
    BY <1>0, <1>1, StaysCovered
  <1>2. ASSUME NEW n \in 1 .. MaxSaves, save'[n].row.lacks # {}
        PROVE  Covered(save[n].row.index, save[n].row.missed)'
    <2>1. CASE /\ save[n].row.lacks # {}
               /\ save'[n].row.index = save[n].row.index
               /\ save'[n].row.missed = save[n].row.missed
      <3>1. Covered(save[n].row.index, save[n].row.missed)
        BY <2>1 DEF RecordInv
      <3> QED BY <1>0, <1>1, <2>1, <3>1 DEF Covered
    <2>2. CASE save'[n].row.index = inventoryIndex /\ save'[n].row.missed = {}
      <3>1. Covered(inventoryIndex, {})
        BY DEF RecordInv
      <3> QED BY <1>0, <1>1, <2>2, <3>1 DEF Covered
    <2> QED BY <1>2, <2>1, <2>2
  <1>3. ASSUME NEW t \in Tabs, rotate'[t].pc # "idle"
        PROVE  Covered(rotate[t].row.index, rotate[t].row.missed)'
    <2>1. CASE /\ rotate[t].pc # "idle"
               /\ rotate'[t].row.index = rotate[t].row.index
               /\ rotate'[t].row.missed = rotate[t].row.missed
      <3>1. Covered(rotate[t].row.index, rotate[t].row.missed)
        BY <2>1 DEF RecordInv
      <3> QED BY <1>0, <1>1, <2>1, <3>1 DEF Covered
    <2>2. CASE rotate'[t].row.index = inventoryIndex /\ rotate'[t].row.missed = {}
      <3>1. Covered(inventoryIndex, {})
        BY DEF RecordInv
      <3> QED BY <1>0, <1>1, <2>2, <3>1 DEF Covered
    <2> QED BY <1>3, <2>1, <2>2
  <1> QED BY <1>2, <1>3

(* Whatever completes in whatever order, the row is behind a push that is  *)
(* over only if the push failed to write it, lost its tab, or recorded its *)
(* index in a row that a whole-row write replaced.                         *)
THEOREM IndexesAreRecorded == Spec => []IndexIsRecorded
<1>1. Init => RecordInv
  BY DEF Init, RecordInv, Covered, IdlePush, IdleSave, IdleRotate, NoRow
<1>2. TypeOK /\ TypeOK' /\ NothingDrawnEarly /\ RecordInv /\ [Next]_vars => RecordInv'
  <2> SUFFICES ASSUME TypeOK, TypeOK', NothingDrawnEarly, RecordInv, [Next]_vars
               PROVE  RecordInv'
    OBVIOUS
  <2> DEFINE SameSave(n) == /\ save[n].row.lacks # {}
                            /\ save'[n].row.index = save[n].row.index
                            /\ save'[n].row.missed = save[n].row.missed
             SameRotate(t) == /\ rotate[t].pc # "idle"
                              /\ rotate'[t].row.index = rotate[t].row.index
                              /\ rotate'[t].row.missed = rotate[t].row.missed
             NewSave(n) == save'[n].row.index = inventoryIndex /\ save'[n].row.missed = {}
             NewRotate(t) == rotate'[t].row.index = inventoryIndex /\ rotate'[t].row.missed = {}
             SavesHeld == \A n \in 1 .. MaxSaves :
                            save'[n].row.lacks # {} => SameSave(n) \/ NewSave(n)
             RotationsHeld == \A t \in Tabs :
                                rotate'[t].pc # "idle" => SameRotate(t) \/ NewRotate(t)
  <2>0. /\ inventoryIndex \in Nat /\ inventoryIndex' \in Nat
        /\ push' \in [Pushes -> Push]
        /\ \A p \in Pushes : push[p].index \in Nat
        /\ \A n \in 1 .. MaxSaves : save[n].row.index \in Nat
        /\ \A t \in Tabs : rotate[t].row.index \in Nat
    BY BoundsAssumption DEF TypeOK, Push, SaveCall, Rotate, Row
  <2>1. ASSUME NEW p \in Pushes, PersistIndex(p),
               inventoryIndex' = MoveForward(inventoryIndex, push[p].index),
               CopiesMiss(p), UNCHANGED unrecorded
        PROVE  RecordInv'
    <3>1. push' = [push EXCEPT ![p].pc = "done", ![p].tab = NoTab]
      BY <2>1 DEF PersistIndex
    <3>2. /\ push'[p].index = push[p].index
          /\ \A q \in Pushes \ {p} : push'[q] = push[q]
      BY <3>1 DEF TypeOK, Push
    <3>3. Ends({p})
      BY <3>2 DEF Ends
    <3>4. Covered(inventoryIndex, {})'
      <4>1. inventoryIndex' >= inventoryIndex /\ inventoryIndex' >= push'[p].index
        BY <2>0, <2>1, <3>2 DEF MoveForward
      <4> QED BY <2>0, <2>1, <3>3, <4>1, StaysCovered DEF RecordInv, Covered
    <3>5. ASSUME NEW index \in Nat, NEW missed, Covered(index, missed)
          PROVE  \A q \in Pushes :
                   push'[q].pc = "done" /\ push'[q].index > index
                     => q \in unrecorded' \cup (missed \cup {p})
      <4>1. unrecorded \cup missed \subseteq unrecorded' \cup (missed \cup {p})
        BY <2>1
      <4>2. \A q \in {p} : q \in missed \cup {p} \/ index >= push'[q].index
        OBVIOUS
      <4>3. index >= index
        OBVIOUS
      <4> QED BY <2>0, <3>3, <3>5, <4>1, <4>2, <4>3, StaysCovered
    <3>6. ASSUME NEW n \in 1 .. MaxSaves, save'[n].row.lacks # {}
          PROVE  Covered(save[n].row.index, save[n].row.missed)'
      <4>1. /\ save[n].row.lacks # {}
            /\ save'[n].row.index = save[n].row.index
            /\ save'[n].row.missed = save[n].row.missed \cup {p}
        BY <2>1, <3>6 DEF CopiesMiss, TypeOK, SaveCall, Row
      <4>2. Covered(save[n].row.index, save[n].row.missed)
        BY <4>1 DEF RecordInv
      <4> QED BY <2>0, <3>5, <4>1, <4>2 DEF Covered
    <3>7. ASSUME NEW t \in Tabs, rotate'[t].pc # "idle"
          PROVE  Covered(rotate[t].row.index, rotate[t].row.missed)'
      <4>1. /\ rotate[t].pc # "idle"
            /\ rotate'[t].row.index = rotate[t].row.index
            /\ rotate'[t].row.missed = rotate[t].row.missed \cup {p}
        BY <2>1, <3>7 DEF CopiesMiss, TypeOK, Rotate, Row
      <4>2. Covered(rotate[t].row.index, rotate[t].row.missed)
        BY <4>1 DEF RecordInv
      <4> QED BY <2>0, <3>5, <4>1, <4>2 DEF Covered
    <3> QED BY <3>4, <3>6, <3>7 DEF RecordInv, Covered
  <2>2. ASSUME \A p \in Pushes :
                 PersistIndex(p) => /\ p \in unrecorded'
                                    /\ UNCHANGED <<inventoryIndex, save, rotate>>
        PROVE  RecordInv'
    <3>0. Ends({})
      BY <2>2, QuietEnds
    <3>1. unrecorded \subseteq unrecorded'
      BY DEF Next, vars, BlobFailed, Reserve, InventoryReply, PersistIndex,
         PutBlob, PutInventory, BeginSave, CommitSave, SaveFailed, WriteRow,
         BeginOpen, OpenFailed, FinishOpen, Lock, Reload, PushAges, BeginRotate,
         RotateReadVault, CommitRotate, BeginPull, ProbePresent, ProbeEnds,
         FetchBlob, AdoptIndex, Promote, SyncPush
    <3>2. SavesHeld
      <4>1. IdleSave.row.lacks = {} /\ NoRow.lacks = {}
        BY DEF IdleSave, NoRow
      <4>2. ASSUME NEW t \in Tabs, BeginSave(t) PROVE SavesHeld
        BY <4>1, <4>2 DEF BeginSave, ReadRow, TypeOK
      <4>3. ASSUME NEW m \in 1 .. MaxSaves, CommitSave(m) \/ SaveFailed(m)
            PROVE  SavesHeld
        BY <4>1, <4>3 DEF CommitSave, SaveFailed, TypeOK
      <4>4. ASSUME NEW t \in Tabs, Reload(t) PROVE SavesHeld
        BY <4>1, <4>4 DEF Reload, TypeOK
      <4>5. ASSUME PushAges PROVE SavesHeld
        <5>1. \A n \in 1 .. MaxSaves : save[n] \in SaveCall
          BY DEF TypeOK
        <5>2. \A n \in 1 .. MaxSaves :
                /\ [save[n] EXCEPT !.row.fresh = FALSE].row.lacks = save[n].row.lacks
                /\ [save[n] EXCEPT !.row.fresh = FALSE].row.index = save[n].row.index
                /\ [save[n] EXCEPT !.row.fresh = FALSE].row.missed = save[n].row.missed
          BY <5>1 DEF SaveCall, Row
        <5> QED BY <4>5, <5>2 DEF PushAges
      <4>6. ASSUME UNCHANGED save PROVE SavesHeld
        BY <4>6
      <4>7. \/ \E t \in Tabs : BeginSave(t) \/ Reload(t)
            \/ \E m \in 1 .. MaxSaves : CommitSave(m) \/ SaveFailed(m)
            \/ PushAges
            \/ UNCHANGED save
        BY <2>2 DEF Next, vars, BlobFailed, Reserve, InventoryReply, PutBlob,
           PutInventory, BeginOpen, OpenFailed, FinishOpen, Lock, BeginRotate,
           RotateReadVault, CommitRotate, BeginPull, ProbePresent, ProbeEnds,
           FetchBlob, AdoptIndex, Promote, SyncPush
      <4> QED BY <4>2, <4>3, <4>4, <4>5, <4>6, <4>7
    <3>3. RotationsHeld
      <4>1. IdleRotate.pc = "idle"
        BY DEF IdleRotate
      <4>2. ASSUME NEW u \in Tabs, BeginRotate(u) PROVE RotationsHeld
        BY <4>2 DEF BeginRotate, ReadRow, TypeOK
      <4>3. ASSUME NEW u \in Tabs, RotateReadVault(u) PROVE RotationsHeld
        <5>1. CASE Open(u)
          BY <4>3, <5>1 DEF RotateReadVault, TypeOK, Rotate
        <5>2. CASE ~Open(u)
          BY <4>1, <4>3, <5>2 DEF RotateReadVault, TypeOK
        <5> QED BY <5>1, <5>2
      <4>4. ASSUME NEW u \in Tabs, CommitRotate(u) \/ Reload(u) PROVE RotationsHeld
        BY <4>1, <4>4 DEF CommitRotate, Reload, TypeOK
      <4>5. ASSUME PushAges PROVE RotationsHeld
        <5>1. \A t \in Tabs : rotate[t] \in Rotate
          BY DEF TypeOK
        <5>2. \A t \in Tabs :
                /\ [rotate[t] EXCEPT !.row.fresh = FALSE].pc = rotate[t].pc
                /\ [rotate[t] EXCEPT !.row.fresh = FALSE].row.index = rotate[t].row.index
                /\ [rotate[t] EXCEPT !.row.fresh = FALSE].row.missed = rotate[t].row.missed
          BY <5>1 DEF Rotate, Row
        <5> QED BY <4>5, <5>2 DEF PushAges
      <4>6. ASSUME UNCHANGED rotate PROVE RotationsHeld
        BY <4>6
      <4>7. \/ \E u \in Tabs : BeginRotate(u) \/ RotateReadVault(u) \/ CommitRotate(u) \/ Reload(u)
            \/ PushAges
            \/ UNCHANGED rotate
        BY <2>2 DEF Next, vars, BlobFailed, Reserve, InventoryReply, PutBlob,
           PutInventory, BeginSave, CommitSave, SaveFailed, BeginOpen, OpenFailed,
           FinishOpen, Lock, BeginPull, ProbePresent, ProbeEnds, FetchBlob,
           AdoptIndex, Promote, SyncPush
      <4> QED BY <4>2, <4>3, <4>4, <4>5, <4>6, <4>7
    <3>4. /\ \A n \in 1 .. MaxSaves : save'[n].row.lacks # {} =>
               Covered(save[n].row.index, save[n].row.missed)'
          /\ \A t \in Tabs : rotate'[t].pc # "idle" =>
               Covered(rotate[t].row.index, rotate[t].row.missed)'
      BY <3>0, <3>1, <3>2, <3>3, CopiesStayCovered
    <3>5. Covered(inventoryIndex, {})'
      <4>1. ASSUME NEW row \in Row, WriteRow(row, lacks'), Covered(row.index, row.missed)
            PROVE  Covered(inventoryIndex, {})'
        <5>1. row.index \in Nat
          BY BoundsAssumption DEF Row
        <5>2. \A p \in Pushes :
                push'[p].pc = "done" /\ push'[p].index > row.index
                  => p \in unrecorded' \cup {}
          BY <2>0, <3>0, <4>1, <5>1, StaysCovered DEF WriteRow
        <5> QED BY <4>1, <5>2 DEF WriteRow, Covered
      <4>2. ASSUME NEW n \in 1 .. MaxSaves, CommitSave(n), save[n].row.lacks # {}
            PROVE  Covered(inventoryIndex, {})'
        <5>1. save[n].row \in Row
          BY DEF TypeOK, SaveCall
        <5>2. WriteRow(save[n].row, lacks')
          BY <4>2 DEF CommitSave, WriteRow
        <5> QED BY <4>1, <4>2, <5>1, <5>2 DEF RecordInv
      <4>3. ASSUME NEW t \in Tabs, CommitRotate(t) PROVE Covered(inventoryIndex, {})'
        <5>1. rotate[t].row \in Row
          BY DEF TypeOK, Rotate
        <5>2. WriteRow(rotate[t].row, lacks') /\ rotate[t].pc # "idle"
          BY <4>3 DEF CommitRotate, WriteRow
        <5> QED BY <4>1, <5>1, <5>2 DEF RecordInv
      <4>4. ASSUME inventoryIndex' >= inventoryIndex PROVE Covered(inventoryIndex, {})'
        <5>1. \A p \in Pushes :
                push'[p].pc = "done" /\ push'[p].index > inventoryIndex'
                  => p \in unrecorded' \cup {}
          BY <2>0, <3>0, <3>1, <4>4, StaysCovered DEF RecordInv
        <5> QED BY <5>1 DEF Covered
      <4>5. ASSUME NEW t \in Tabs, AdoptIndex(t) PROVE inventoryIndex' >= inventoryIndex
        BY <2>0, <4>5, BoundsAssumption DEF AdoptIndex, MoveForward, TypeOK, Pull
      <4>6. \/ \E n \in 1 .. MaxSaves : CommitSave(n) /\ save[n].row.lacks # {}
            \/ \E t \in Tabs : CommitRotate(t)
            \/ \E t \in Tabs : AdoptIndex(t)
            \/ UNCHANGED inventoryIndex
        BY <2>2 DEF Next, vars, BlobFailed, Reserve, InventoryReply, PutBlob,
           PutInventory, BeginSave, CommitSave, SaveFailed, BeginOpen, OpenFailed,
           FinishOpen, Lock, Reload, PushAges, BeginRotate, RotateReadVault,
           BeginPull, ProbePresent, ProbeEnds, FetchBlob, Promote, SyncPush
      <4> QED BY <2>0, <4>2, <4>3, <4>4, <4>5, <4>6
    <3> QED BY <3>4, <3>5 DEF RecordInv
  <2>3. ASSUME NEW p \in Pushes, PersistIndex(p)
        PROVE  \/ /\ inventoryIndex' = MoveForward(inventoryIndex, push[p].index)
                  /\ CopiesMiss(p)
                  /\ UNCHANGED unrecorded
               \/ /\ p \in unrecorded'
                  /\ UNCHANGED <<inventoryIndex, save, rotate>>
    BY <2>3 DEF PersistIndex
  <2> QED BY <2>1, <2>2, <2>3
<1>3. RecordInv => IndexIsRecorded
  BY DEF RecordInv, Covered, IndexIsRecorded
<1> QED BY <1>1, <1>2, <1>3, TypeCorrect, DrawInvariant, PTL DEF Spec, DrawInv

-----------------------------------------------------------------------------
(* The account row, its copies, and what the server holds.                 *)

Drawn == {0} \cup Reserved

(* Every index kept anywhere was drawn by some push: the row, the copies a *)
(* rotation or a save holds, what a pull found, the addresses stored.      *)
IndexesDrawn ==
  /\ inventoryIndex \in Drawn
  /\ \A t \in Tabs : rotate[t].row.index \in Drawn /\ pull[t].newest \in Drawn
  /\ \A n \in 1 .. MaxSaves : save[n].row.index \in Drawn
  /\ \A i \in 1 .. MaxIndex : inv[i] # NoPush => i \in Drawn

(* Indexes drawn stay drawn as long as no push that has one loses it.      *)
LEMMA DrawnGrows ==
  ASSUME \A p \in Pushes : push[p].index # 0 => push'[p].index = push[p].index
  PROVE  Drawn \subseteq Drawn'
  BY DEF Drawn, Reserved

(* No step takes an index away from a push.                                *)
LEMMA IndexesKept ==
  ASSUME TypeOK, NothingDrawnEarly, [Next]_vars, NEW p \in Pushes, push[p].index # 0
  PROVE  push'[p].index = push[p].index
  <1>1. ASSUME NEW q \in Pushes, Reserve(q) PROVE push'[p].index = push[p].index
    BY <1>1 DEF Reserve, TypeOK, Push, NothingDrawnEarly
  <1>2. ASSUME NEW q \in Pushes, BlobFailed(q) PROVE push'[p].index = push[p].index
    BY <1>2 DEF BlobFailed, TypeOK, Push
  <1>3. ASSUME NEW q \in Pushes, InventoryReply(q) PROVE push'[p].index = push[p].index
    BY <1>3 DEF InventoryReply, TypeOK, Push
  <1>4. ASSUME NEW q \in Pushes, PersistIndex(q) PROVE push'[p].index = push[p].index
    BY <1>4 DEF PersistIndex, TypeOK, Push
  <1>5. ASSUME NEW t \in Tabs, NEW content, BeginPush(t, content)
        PROVE  push'[p].index = push[p].index
    BY <1>5, BeginPushIndex
  <1>6. ASSUME NEW t \in Tabs, Reload(t) PROVE push'[p].index = push[p].index
    BY <1>6 DEF Reload, TypeOK, Push
  <1>7. \/ \E q \in Pushes : Reserve(q) \/ BlobFailed(q) \/ InventoryReply(q) \/ PersistIndex(q)
        \/ \E n \in 1 .. MaxSaves : save[n].tab \in Tabs /\ BeginPush(save[n].tab, n)
        \/ \E t \in Tabs : BeginPush(t, tab[t].seenVault) \/ BeginPush(t, vault)
        \/ \E t \in Tabs : Reload(t)
        \/ UNCHANGED push
    BY DEF Next, vars, PutBlob, PutInventory, BeginSave, CommitSave, SaveFailed, BeginOpen, OpenFailed,
       FinishOpen, Lock, PushAges, BeginRotate, RotateReadVault, CommitRotate,
       BeginPull, Adopt, ProbePresent, ProbeEnds, FetchBlob, AdoptIndex, Promote,
       SyncPush
  <1> QED BY <1>1, <1>2, <1>3, <1>4, <1>5, <1>6, <1>7

(* The persisted index is 0 or an index some push drew: adopting, resuming *)
(* and rotating never invent one, so no unlock skips an address.           *)
THEOREM PersistedIndexDrawn == Spec => []PersistedIndexWasDrawn
<1>1. Init => IndexesDrawn
  BY DEF Init, IndexesDrawn, Drawn, IdleRotate, IdleSave, NoRow, IdlePull
<1>2. TypeOK /\ NothingDrawnEarly /\ IndexesDrawn /\ [Next]_vars => IndexesDrawn'
  <2> SUFFICES ASSUME TypeOK, NothingDrawnEarly, IndexesDrawn, [Next]_vars
               PROVE  IndexesDrawn'
    OBVIOUS
  <2>0. Drawn \subseteq Drawn'
    BY IndexesKept, DrawnGrows
  <2>1. ASSUME NEW p \in Pushes, PersistIndex(p) PROVE inventoryIndex' \in Drawn
    <3>1. push[p].index \in Drawn
      BY DEF Drawn, Reserved
    <3> QED BY <2>1, <3>1 DEF PersistIndex, IndexesDrawn, MoveForward
  <2>2. ASSUME NEW t \in Tabs, AdoptIndex(t) PROVE inventoryIndex' \in Drawn
    BY <2>2 DEF AdoptIndex, IndexesDrawn, MoveForward
  <2>3. ASSUME NEW t \in Tabs, CommitRotate(t) PROVE inventoryIndex' \in Drawn
    BY <2>3 DEF CommitRotate, WriteRow, IndexesDrawn
  <2>9. ASSUME NEW n \in 1 .. MaxSaves, CommitSave(n) PROVE inventoryIndex' \in Drawn
    BY <2>9 DEF CommitSave, WriteRow, IndexesDrawn
  <2>4. ASSUME UNCHANGED inventoryIndex PROVE inventoryIndex' \in Drawn
    BY <2>4 DEF IndexesDrawn
  <2>5. inventoryIndex' \in Drawn
    <3>1. \/ \E p \in Pushes : PersistIndex(p)
          \/ \E t \in Tabs : AdoptIndex(t) \/ CommitRotate(t)
          \/ \E n \in 1 .. MaxSaves : CommitSave(n)
          \/ UNCHANGED inventoryIndex
      BY DEF Next, vars, BlobFailed, Reserve, InventoryReply, PutBlob,
         PutInventory, BeginSave, CommitSave, SaveFailed, BeginOpen, OpenFailed, FinishOpen, Lock, Reload,
         PushAges, BeginRotate, RotateReadVault, BeginPull, ProbePresent,
         ProbeEnds, FetchBlob, Promote, SyncPush
    <3> QED BY <2>1, <2>2, <2>3, <2>4, <2>9, <3>1
  <2>6. \A t \in Tabs : rotate'[t].row.index \in Drawn
    <3>1. ASSUME NEW u \in Tabs, BeginRotate(u) \/ RotateReadVault(u) \/ CommitRotate(u)
                                   \/ Reload(u)
          PROVE  \A t \in Tabs : rotate'[t].row.index \in Drawn
      <4>1. IdleRotate.row.index \in Drawn
        BY DEF IdleRotate, NoRow, Drawn
      <4>2. CASE BeginRotate(u)
        BY <4>2 DEF BeginRotate, ReadRow, IndexesDrawn, TypeOK
      <4>3. CASE RotateReadVault(u)
        <5>1. CASE Open(u)
          BY <4>3, <5>1 DEF RotateReadVault, IndexesDrawn, TypeOK, Rotate
        <5>2. CASE ~Open(u)
          BY <4>1, <4>3, <5>2 DEF RotateReadVault, IndexesDrawn, TypeOK
        <5> QED BY <5>1, <5>2
      <4>4. CASE CommitRotate(u) \/ Reload(u)
        BY <4>1, <4>4 DEF CommitRotate, Reload, IndexesDrawn, TypeOK
      <4> QED BY <3>1, <4>2, <4>3, <4>4
    <3>2. ASSUME PushAges PROVE \A t \in Tabs : rotate'[t].row.index \in Drawn
      <4>1. \A t \in Tabs : rotate[t] \in Rotate
        BY DEF TypeOK
      <4>2. \A t \in Tabs :
              [rotate[t] EXCEPT !.row.fresh = FALSE].row.index = rotate[t].row.index
        BY <4>1 DEF Rotate, Row
      <4> QED BY <3>2, <4>2 DEF PushAges, IndexesDrawn
    <3>3. ASSUME NEW p \in Pushes, CopiesMiss(p)
          PROVE  \A t \in Tabs : rotate'[t].row.index \in Drawn
      BY <3>3 DEF CopiesMiss, IndexesDrawn, TypeOK, Rotate, Row
    <3>4. \/ \E u \in Tabs : BeginRotate(u) \/ RotateReadVault(u) \/ CommitRotate(u) \/ Reload(u)
          \/ \E p \in Pushes : CopiesMiss(p)
          \/ PushAges
          \/ UNCHANGED rotate
      BY DEF Next, vars, BlobFailed, Reserve, InventoryReply, PersistIndex,
         PutBlob, PutInventory, BeginSave, CommitSave, SaveFailed, BeginOpen,
         OpenFailed, FinishOpen, Lock, BeginPull, ProbePresent, ProbeEnds,
         FetchBlob, AdoptIndex, Promote, SyncPush
    <3> QED BY <3>1, <3>2, <3>3, <3>4 DEF IndexesDrawn
  <2>10. \A n \in 1 .. MaxSaves : save'[n].row.index \in Drawn
    <3>1. IdleSave.row.index \in Drawn
      BY DEF IdleSave, NoRow, Drawn
    <3>2. ASSUME NEW t \in Tabs, BeginSave(t)
          PROVE  \A n \in 1 .. MaxSaves : save'[n].row.index \in Drawn
      BY <3>2 DEF BeginSave, ReadRow, NoRow, IndexesDrawn, Drawn, TypeOK
    <3>3. ASSUME NEW m \in 1 .. MaxSaves, CommitSave(m) \/ SaveFailed(m)
          PROVE  \A n \in 1 .. MaxSaves : save'[n].row.index \in Drawn
      BY <3>1, <3>3 DEF CommitSave, SaveFailed, IndexesDrawn, TypeOK
    <3>4. ASSUME NEW t \in Tabs, Reload(t)
          PROVE  \A n \in 1 .. MaxSaves : save'[n].row.index \in Drawn
      BY <3>1, <3>4 DEF Reload, IndexesDrawn, TypeOK
    <3>5. ASSUME PushAges PROVE \A n \in 1 .. MaxSaves : save'[n].row.index \in Drawn
      BY <3>5 DEF PushAges, IndexesDrawn, TypeOK, SaveCall, Row
    <3>6. ASSUME NEW p \in Pushes, CopiesMiss(p)
          PROVE  \A n \in 1 .. MaxSaves : save'[n].row.index \in Drawn
      BY <3>6 DEF CopiesMiss, IndexesDrawn, TypeOK, SaveCall, Row
    <3>7. \/ \E t \in Tabs : BeginSave(t) \/ Reload(t)
          \/ \E m \in 1 .. MaxSaves : CommitSave(m) \/ SaveFailed(m)
          \/ \E p \in Pushes : CopiesMiss(p)
          \/ PushAges
          \/ UNCHANGED save
      BY DEF Next, vars, BlobFailed, Reserve, InventoryReply, PersistIndex,
         PutBlob, PutInventory, BeginOpen, OpenFailed, FinishOpen, Lock,
         BeginRotate, RotateReadVault, CommitRotate, BeginPull, ProbePresent,
         ProbeEnds, FetchBlob, AdoptIndex, Promote, SyncPush
    <3> QED BY <3>2, <3>3, <3>4, <3>5, <3>6, <3>7 DEF IndexesDrawn
  <2>7. \A t \in Tabs : pull'[t].newest \in Drawn
    <3>1. ASSUME NEW u \in Tabs, NEW newest \in Drawn, NEW blob, Adopt(u, newest, blob)
          PROVE  \A t \in Tabs : pull'[t].newest \in Drawn
      <4>1. CASE pull' = [pull EXCEPT ![u].pc = "repush"]
        BY <4>1 DEF IndexesDrawn, TypeOK, Pull
      <4>2. CASE pull' = [pull EXCEPT ![u].pc = "fetch", ![u].newest = newest, ![u].blob = blob]
        BY <4>2 DEF IndexesDrawn, TypeOK, Pull
      <4> QED BY <3>1, <4>1, <4>2 DEF Adopt
    <3>2. ASSUME NEW u \in Tabs, ProbePresent(u)
          PROVE  \A t \in Tabs : pull'[t].newest \in Drawn
      <4>1. pull[u].at \in Drawn
        BY <3>2 DEF ProbePresent, IndexesDrawn
      <4>2. CASE Adopt(u, pull[u].at, inv[pull[u].at])
        BY <3>1, <4>1, <4>2
      <4>3. CASE ProbesLeft(u)
        <5>1. pull' = [pull EXCEPT ![u].newest = pull[u].at, ![u].blob = inv[pull[u].at],
                                   ![u].step = pull[u].step + 1,
                                   ![u].at = tab[u].latest + pull[u].step + 1]
          BY <3>2, <4>3 DEF ProbePresent
        <5>2. pull'[u].newest = pull[u].at /\ \A t \in Tabs \ {u} : pull'[t] = pull[t]
          BY <5>1 DEF TypeOK, Pull
        <5> QED BY <4>1, <5>2 DEF IndexesDrawn
      <4> QED BY <3>2, <4>2, <4>3 DEF ProbePresent
    <3>3. ASSUME NEW u \in Tabs, ProbeEnds(u)
          PROVE  \A t \in Tabs : pull'[t].newest \in Drawn
      BY <3>1, <3>3 DEF ProbeEnds, IndexesDrawn
    <3>4. IdlePull.newest \in Drawn
      BY DEF IdlePull, Drawn
    <3>5. ASSUME NEW u \in Tabs, \/ Lock(u) \/ Reload(u) \/ BeginPull(u) \/ FetchBlob(u)
                                 \/ AdoptIndex(u) \/ Promote(u) \/ SyncPush(u)
          PROVE  \A t \in Tabs : pull'[t].newest \in Drawn
      <4>1. CASE Lock(u)
        BY <4>1 DEF Lock, IndexesDrawn, TypeOK, Pull
      <4>2. CASE BeginPull(u)
        BY <4>2 DEF BeginPull, IdlePull, IndexesDrawn, TypeOK, Drawn
      <4>3. CASE Reload(u) \/ Promote(u) \/ SyncPush(u)
        BY <3>4, <4>3 DEF Reload, Promote, SyncPush, IndexesDrawn, TypeOK
      <4>4. ASSUME NEW pc, pull' = [pull EXCEPT ![u].pc = pc]
            PROVE  \A t \in Tabs : pull'[t].newest \in Drawn
        BY <4>4 DEF IndexesDrawn, TypeOK, Pull
      <4>5. CASE FetchBlob(u) \/ AdoptIndex(u)
        BY <4>4, <4>5 DEF FetchBlob, AdoptIndex
      <4> QED BY <3>5, <4>1, <4>2, <4>3, <4>5
    <3>6. \/ \E u \in Tabs : ProbePresent(u) \/ ProbeEnds(u)
          \/ \E u \in Tabs : \/ Lock(u) \/ Reload(u) \/ BeginPull(u) \/ FetchBlob(u)
                             \/ AdoptIndex(u) \/ Promote(u) \/ SyncPush(u)
          \/ UNCHANGED pull
      BY DEF Next, vars, BlobFailed, Reserve, InventoryReply, PersistIndex,
         PutBlob, PutInventory, BeginSave, CommitSave, SaveFailed, BeginOpen, OpenFailed, FinishOpen,
         PushAges, BeginRotate, RotateReadVault, CommitRotate
    <3> QED BY <3>2, <3>3, <3>5, <3>6 DEF IndexesDrawn
  <2>8. \A i \in 1 .. MaxIndex : inv'[i] # NoPush => i \in Drawn
    <3>1. ASSUME NEW p \in Pushes, PutInventory(p)
          PROVE  \A i \in 1 .. MaxIndex : inv'[i] # NoPush => i \in Drawn
      <4>1. push[p].index \in Drawn
        BY DEF Drawn, Reserved
      <4> QED BY <3>1, <4>1 DEF PutInventory, IndexesDrawn, TypeOK
    <3>2. (\E p \in Pushes : PutInventory(p)) \/ UNCHANGED inv
      BY DEF Next, vars, BlobFailed, Reserve, InventoryReply, PersistIndex,
         PutBlob, BeginSave, CommitSave, SaveFailed, BeginOpen, OpenFailed, FinishOpen, Lock, Reload,
         PushAges, BeginRotate, RotateReadVault, CommitRotate, BeginPull,
         ProbePresent, ProbeEnds, FetchBlob, AdoptIndex, Promote, SyncPush
    <3> QED BY <3>1, <3>2 DEF IndexesDrawn
  <2> QED BY <2>0, <2>5, <2>6, <2>7, <2>8, <2>10 DEF IndexesDrawn
<1>3. IndexesDrawn => PersistedIndexWasDrawn
  BY DEF IndexesDrawn, Drawn, PersistedIndexWasDrawn
<1> QED BY <1>1, <1>2, <1>3, TypeCorrect, DrawInvariant, PTL DEF Spec, DrawInv

=============================================================================
