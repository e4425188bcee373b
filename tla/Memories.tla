------------------------------ MODULE Memories ------------------------------
(***************************************************************************)
(* Per-user memory (src/app/control_plane/memory.py): record and recall    *)
(* both wait for the embedding backend between the checks of the request   *)
(* and the one statement they run; delete is one statement.                *)
(*                                                                         *)
(* Similarity is pgvector's: a recall answers some of the caller's         *)
(* memories, as many as there are up to top_k.                             *)
(***************************************************************************)
EXTENDS Integers, FiniteSets

CONSTANTS
  MemoryIds,  \* ids (uuid4) the server may draw
  People,     \* callers, (tenant, user)
  Workers,    \* requests that can be under way at once
  Asked,      \* top_k values a request may ask for
  MaxTopK     \* _MAX_TOP_K

ASSUME MemoryAssumption ==
  IsFiniteSet(MemoryIds) /\ Asked \subseteq Int /\ MaxTopK \in Nat \ {0}

VARIABLES
  memories,  \* table memories: state, owner
  jobs,      \* worker -> the record or recall it serves
  recalled   \* what the last recall answered

memVars == <<memories, jobs, recalled>>

NoMemory == [state |-> "free", owner |-> "none"]
NoJob == [op |-> "idle", user |-> "none", k |-> 0, gone |-> {}]
NoRecall == [user |-> "none", found |-> {}, k |-> 0, gone |-> {}]

MemoriesOf(u) == {i \in MemoryIds : memories[i] = [state |-> "kept", owner |-> u]}
Deleted == {i \in MemoryIds : memories[i].state = "deleted"}

\* min(max(1, top_k), _MAX_TOP_K)
ClampTopK(k) == IF k < 1 THEN 1 ELSE IF k > MaxTopK THEN MaxTopK ELSE k

----------------------------------------------------------------------------
\* build_memory_record_response up to the embedding; without consent it is
\* refused (403).
BeginRecord(w, u) ==
  /\ jobs[w].op = "idle"
  /\ jobs' = [jobs EXCEPT ![w] = [NoJob EXCEPT !.op = "record", !.user = u]]
  /\ UNCHANGED <<memories, recalled>>

\* The insert; its answer may be lost.
Record(w) ==
  /\ jobs[w].op = "record"
  /\ \E i \in MemoryIds :
       /\ memories[i].state = "free"
       /\ memories' = [memories EXCEPT ![i] = [state |-> "kept", owner |-> jobs[w].user]]
  /\ jobs' = [jobs EXCEPT ![w] = NoJob]
  /\ UNCHANGED recalled

\* build_memory_recall_response up to the embedding of the query.
BeginRecall(w, u, k) ==
  /\ jobs[w].op = "idle"
  /\ jobs' = [jobs EXCEPT ![w] = [op |-> "recall", user |-> u, k |-> ClampTopK(k), gone |-> Deleted]]
  /\ UNCHANGED <<memories, recalled>>

\* Mutant: the query looks at every user of the table.
RecallAnyone(w) ==
  LET j == jobs[w]
      all == {i \in MemoryIds : memories[i].state = "kept"}
  IN /\ j.op = "recall"
     /\ \E found \in SUBSET all :
          /\ Cardinality(found) = (IF Cardinality(all) < j.k THEN Cardinality(all) ELSE j.k)
          /\ recalled' = [user |-> j.user, found |-> found, k |-> j.k, gone |-> j.gone]
     /\ jobs' = [jobs EXCEPT ![w] = NoJob]
     /\ UNCHANGED memories

\* store.recall and the answer.
Recall(w) ==
  LET j == jobs[w]
      own == MemoriesOf(j.user)
  IN /\ j.op = "recall"
     /\ \E found \in SUBSET own :
          /\ Cardinality(found) = (IF Cardinality(own) < j.k THEN Cardinality(own) ELSE j.k)
          /\ recalled' = [user |-> j.user, found |-> found, k |-> j.k, gone |-> j.gone]
     /\ jobs' = [jobs EXCEPT ![w] = NoJob]
     /\ UNCHANGED memories

\* The embedding backend or the database fails (503, 500).
JobFails(w) ==
  /\ jobs[w].op # "idle"
  /\ jobs' = [jobs EXCEPT ![w] = NoJob]
  /\ UNCHANGED <<memories, recalled>>

\* build_memory_delete_response
Forget(i, u) ==
  /\ i \in MemoriesOf(u)
  /\ memories' = [memories EXCEPT ![i].state = "deleted"]
  /\ UNCHANGED <<jobs, recalled>>

MemInit ==
  /\ memories = [i \in MemoryIds |-> NoMemory]
  /\ jobs = [w \in Workers |-> NoJob]
  /\ recalled = NoRecall

MemNext ==
  \/ \E w \in Workers :
       \/ Record(w) \/ Recall(w) \/ JobFails(w)
       \/ \E u \in People : BeginRecord(w, u) \/ \E k \in Asked : BeginRecall(w, u, k)
  \/ \E i \in MemoryIds, u \in People : Forget(i, u)

----------------------------------------------------------------------------
\* Properties.

\* A recall answers memories of its caller alone, none that had been deleted
\* when it was asked for however long the embedding took, and no more than
\* MaxTopK of them.
RecallIsSound ==
  recalled.user # "none" =>
    /\ \A i \in recalled.found : memories[i].owner = recalled.user
    /\ recalled.found \cap recalled.gone = {}
    /\ Cardinality(recalled.found) <= MaxTopK
============================================================================
