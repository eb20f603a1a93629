SPECIFICATION PageSpec
CONSTANTS
  Ids = {i1, i2}
  NoId = NoId
  ItemKinds = {"login", "card"}
  ITEM_HARD_CAP = 2
  Uses = {"editor", "copy", "delete", "palette", "sync", "peer", "resize"}
  MaxUses <- Limits
  Together = {{"editor", "sync"}, {"editor", "peer"}, {"editor", "delete"},
              {"delete", "sync"}, {"sync", "peer"}, {"copy", "peer"},
              {"copy", "palette"}, {"resize", "palette"}}
CONSTRAINT Bounded
INVARIANTS
  SecretsDoNotStay
  SavedDraftIsKept
PROPERTY ItemsChangeAsAsked
CHECK_DEADLOCK FALSE
