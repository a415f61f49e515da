\* A text and another file, one edit; two remote documents from a server with one
\* acceptable session ID; chunks of 4 bytes that overlap by 2, characters of 1 and 2
\* bytes, documents of up to 5 characters.
SPECIFICATION CognitiveSpec
CONSTANTS
  Files = {t1, b}
  TextFiles = {t1}
  Remote = {u1, u2}
  MaxSources = 2
  MaxEdits = 1
  Absent = Absent
  u1 = u1
  u2 = u2
  URIs <- TwoURIs
  Sessions = {s1}
  None = None
  BadSession = BadSession
  MaxEvents = 2
  Size = 4
  Overlap = 2
  Width = 2
  MaxChunks = 2
  MaxSelected = 1
  MaxRunes = 5
  Query <- TwoTerms
INVARIANTS
  SameEvidence
  AcquisitionKept
  RankingKept
PROPERTY
  CollectionEnds
CHECK_DEADLOCK FALSE
