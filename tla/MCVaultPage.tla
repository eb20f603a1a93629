---------------------------- MODULE MCVaultPage ----------------------------
EXTENDS VaultPage, FiniteSets

CONSTANT Together   \* bound: the sets of bounded happenings of one behaviour

Limits == [u \in Uses |-> IF u = "copy" THEN 2 ELSE 1]

Plain == store.filter = "all" /\ over.tab = "vault"
Happened(u) == used.count[u] > 0
Alone == \A u \in Uses \ {"editor"} : ~Happened(u)

(* What goes with an editor, a sheet or a lock by the page is what they    *)
(* act on: with something else about, an editor's institutions are left    *)
(* alone, with nothing about its health has settled.  One computation is   *)
(* overtaken at a time, and one thing happens on a small screen.           *)
Bounded ==
  /\ \E set \in Together : {u \in Uses : Happened(u)} \subseteq set
  /\ mobile => Cardinality({u \in Uses \ {"resize"} : Happened(u)}) <= 1
  /\ Happened("editor") => /\ Plain /\ detail.revealed = {} /\ lock.page = "idle"
                           /\ over.sheet = "none"
  /\ editor.open => IF Alone THEN ~health.timer /\ health.latest = {}
                    ELSE editor.list = NoList
  /\ editor.form.line # "none" => Alone /\ editor.form.body = "strong"
  /\ editor.form.kind = "card" => editor.form.body # "weak"
  /\ over.sheet # "none" => Plain /\ ~over.detail /\ lock.page = "idle"
  /\ lock.page # "idle" => Plain
  /\ Cardinality(health.stale) <= 1

=============================================================================
