SPECIFICATION Spec
CONSTANTS
  Docs = {d1, d2}
  Owners <- MCOwners
  Callers <- MCCallers
  Allowlist <- MCAllowlist
  Texts <- MCTexts
  Urls = {u1, u2}
  WebConfigured = TRUE
  ChunkChars = 5
  MaxChunks = 2
  MaxSubqueries = 2
  TopK = 2
  WebTopK = 1
  MaxPassages = 3
  WallClock = 1
  CallTime = 1
  QueryTime = 1
  WebTime = 1
INVARIANTS CorpusIsTheText OwnSourcesOnly ClockBoundsRun StoryIsTrue
VIEW MCView
SYMMETRY MCSymmetry
CHECK_DEADLOCK FALSE
