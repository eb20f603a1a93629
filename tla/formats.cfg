INIT Start
NEXT Step
CONSTANTS
  MAX_BUCKET_BYTES = 1048576
  Byte = 256
  Word = 1024
  ORDER = 7
  Inputs = {2, 5}
  Publishers = {p1, p2}
  Handles = {h1, h2}
  AKD_POS_BITS = 2
  AKD_EPOCH_CADENCE = 1
  MaxEpochs = 2
  MaxTime = 1
  Versions = {1, 2, 3}
  Lengths <- MCLengths
  CredentialLengths <- MCCredentialLengths
  StringLengths <- MCStringLengths
  Keys <- MCKeys
  CardPrefixes <- MCCardPrefixes
  Fillers = {0, 5, 9}
  Years = {0, 29, 30, 99}
  Streets = {"", "12 Main St"}
  Towns = {"", "Springfield"}
  Zips = {1000, 5501, 10001, 20599, 62701, 88510, 90210, 99950}
  Cities <- MCCities
  Tabs = {t1, t2}
  MaxRelease = 3
  MaxEvictions = 1
SYMMETRY Symmetry
CONSTRAINT SnapshotBound
INVARIANTS
  WhatIsWrittenIsRead
  NothingShows
  EpochsProve
  NoTabLeftBehind
PROPERTIES
  PinnedUntilConsent
