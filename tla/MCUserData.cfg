SPECIFICATION DataSpec
CONSTANTS
  Convs = {c1}
  Users <- MCUsers
  Threads = {t1, t2}
  MaxMessages = 3
  NoteIds = {n1, n2}
  Owner = "ann"
  Others = {"eve"}
  Calls = {k1, k2}
  MaxDrafts = 2
  MaxListed = 1
  MemoryIds = {i1, i2}
  People <- MCUsers
  Workers = {w1, w2}
  Asked = {0, 1, 5}
  MaxTopK = 1
INVARIANTS ConversationsWhole GetIsComplete EditorFaithful RecallIsSound
CHECK_DEADLOCK FALSE
SYMMETRY Symmetry
