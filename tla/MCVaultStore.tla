---------------------------- MODULE MCVaultStore ----------------------------
(* Instance of VaultStore for TLC.  One tab makes two edits amid any two   *)
(* happenings; two tabs share one edit and one happening.                  *)
EXTENDS VaultStore

CONSTANTS t1, t2, e1, e2

MCStories ==
  {[tabs |-> {t1}, edits |-> {e1, e2}, max |-> 2,
    events |-> {"fail", "wipe", "hide", "reload", "sync"}],
   [tabs |-> {t1, t2}, edits |-> {e1}, max |-> 1,
    events |-> {"wipe", "reload", "sync"}]}
=============================================================================
