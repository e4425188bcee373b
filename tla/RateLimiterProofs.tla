------------------------- MODULE RateLimiterProofs -------------------------
(***************************************************************************)
(* What the limiter guarantees for any number of threads and tenants, any  *)
(* limits and any interleaving of its callers.                             *)
(***************************************************************************)
EXTENDS RateLimiter, FiniteSetTheorems, TLAPS

----------------------------------------------------------------------------
\* Types.

\* BoundedSemaphore(max(1, n)) has at least one slot.
LEMMA SlotsType == Slots \in Nat /\ Slots >= 1
  BY LimiterAssumption DEF Slots

\* A handler thread that does nothing is a thread.
LEMMA IdleThreadType == IdleThread \in Thread
<1>1. (CHOOSE t \in Tenants : TRUE) \in Tenants
  BY ThreadsAssumption
<1>2. 1 \in Minutes
  BY LimiterAssumption DEF Minutes
<1> QED
  BY <1>1, <1>2 DEF IdleThread, Thread

\* A fresh server process is well typed.
LEMMA FreshType ==
  ASSUME NEW th, NEW win, NEW per, NEW adm, NEW st, Fresh(th, win, per, adm, st)
  PROVE  /\ th \in [Threads -> Thread]
         /\ win \in [Tenants -> [window : 0..MaxMinute, count : Nat]]
         /\ per \in 0..Slots
         /\ adm \in [Tenants -> [Minutes -> Nat]]
         /\ st \in [Tenants -> Nat]
<1>1. th \in [Threads -> Thread]
  BY IdleThreadType DEF Fresh
<1>2. per \in 0..Slots
  BY SlotsType DEF Fresh
<1>3. 0 \in 0..MaxMinute
  BY LimiterAssumption
<1> QED
  BY <1>1, <1>2, <1>3 DEF Fresh

\* The section under the lock: what it goes on with is well typed.
LEMMA CurrentWindowType ==
  ASSUME LimTypeOK, NEW t \in Tenants, NEW w \in Minutes
  PROVE  /\ CurrentWindow(t, w) \in [window : 0..MaxMinute, count : Nat]
         /\ CurrentWindow(t, w).window = w
<1>1. w \in 0..MaxMinute
  BY LimiterAssumption DEF Minutes
<1>2. windows[t] \in [window : 0..MaxMinute, count : Nat]
  BY DEF LimTypeOK
<1> QED
  BY <1>1, <1>2 DEF CurrentWindow

\* What moving a thread on changes.
LEMMA MoveThread ==
  ASSUME thread \in [Threads -> Thread], NEW th \in Threads,
         NEW pc \in {"idle", "timed", "counted", "running"},
         thread' = [thread EXCEPT ![th].pc = pc]
  PROVE  /\ thread' \in [Threads -> Thread]
         /\ thread'[th].pc = pc
         /\ \A other \in Threads \ {th} : thread'[other] = thread[other]
<1>1. thread[th] \in Thread
  OBVIOUS
<1>2. [thread[th] EXCEPT !.pc = pc] \in Thread /\ [thread[th] EXCEPT !.pc = pc].pc = pc
  BY <1>1 DEF Thread
<1>3. thread' = [thread EXCEPT ![th] = [thread[th] EXCEPT !.pc = pc]]
  OBVIOUS
<1> HIDE DEF Thread
<1> QED
  BY <1>2, <1>3

\* Every step of the limiter keeps its types.
LEMMA LimTypeStep ==
  ASSUME LimTypeOK, [LimNext]_limVars
  PROVE  LimTypeOK'
<1> USE DEF LimTypeOK
<1>1. CASE UNCHANGED limVars
  BY <1>1 DEF limVars
<1>2. CASE Tick
  BY <1>2, LimiterAssumption DEF Tick, Minutes
<1>3. ASSUME NEW th \in Threads, NEW t \in Tenants, ReadClock(th, t)
      PROVE  LimTypeOK'
  BY <1>3 DEF ReadClock, Thread
<1>4. ASSUME NEW th \in Threads, CountCall(th)
      PROVE  LimTypeOK'
  <2>1. PICK t \in Tenants, w \in Minutes : t = thread[th].tenant /\ w = thread[th].now
    BY DEF Thread
  <2>2. PICK entry \in [window : 0..MaxMinute, count : Nat] : entry = CurrentWindow(t, w)
    BY CurrentWindowType
  <2>3. [entry EXCEPT !.count = @ + 1] \in [window : 0..MaxMinute, count : Nat]
    BY <2>2
  <2>a. \/ thread' = [thread EXCEPT ![th] = IdleThread]
        \/ thread' = [thread EXCEPT ![th].pc = "counted"]
    BY <1>4 DEF CountCall
  <2>4. thread' \in [Threads -> Thread]
    BY <2>a, IdleThreadType, MoveThread
  <2>b. windows' = windows \/ windows' = [windows EXCEPT ![t] = [entry EXCEPT !.count = @ + 1]]
    BY <1>4, <2>1, <2>2 DEF CountCall
  <2>5. windows' \in [Tenants -> [window : 0..MaxMinute, count : Nat]]
    BY <2>b, <2>3
  <2>c. admitted' = admitted \/ admitted' = [admitted EXCEPT ![t][w] = @ + 1]
    BY <1>4, <2>1 DEF CountCall
  <2>d. stale' = stale \/ stale' = [stale EXCEPT ![t] = @ + 1]
    BY <1>4, <2>1 DEF CountCall
  <2>6. admitted' \in [Tenants -> [Minutes -> Nat]]
    <3>1. admitted[t] \in [Minutes -> Nat] /\ admitted[t][w] \in Nat
      OBVIOUS
    <3>2. [admitted[t] EXCEPT ![w] = admitted[t][w] + 1] \in [Minutes -> Nat]
      BY <3>1
    <3>3. \/ admitted' = admitted
          \/ admitted' = [admitted EXCEPT ![t] = [admitted[t] EXCEPT ![w] = admitted[t][w] + 1]]
      BY <2>c
    <3> QED
      BY <3>2, <3>3
  <2>7. stale' \in [Tenants -> Nat]
    BY <2>d
  <2> QED
    BY <1>4, <2>4, <2>5, <2>6, <2>7 DEF CountCall
<1>5. ASSUME NEW th \in Threads, AcquireSlot(th)
      PROVE  LimTypeOK'
  <2>a. \/ thread' = [thread EXCEPT ![th] = IdleThread]
        \/ thread' = [thread EXCEPT ![th].pc = "running"]
    BY <1>5 DEF AcquireSlot
  <2>1. thread' \in [Threads -> Thread]
    BY <2>a, IdleThreadType, MoveThread
  <2>2. permits' \in 0..Slots
    BY <1>5, SlotsType DEF AcquireSlot
  <2> QED
    BY <1>5, <2>1, <2>2 DEF AcquireSlot
<1>6. ASSUME NEW th \in Threads, Release(th)
      PROVE  LimTypeOK'
  <2>1. thread' \in [Threads -> Thread]
    BY <1>6, IdleThreadType DEF Release
  <2>2. permits' \in 0..Slots
    BY <1>6, SlotsType DEF Release
  <2> QED
    BY <1>6, <2>1, <2>2 DEF Release
<1>7. CASE LimRestart
  BY <1>7, FreshType DEF LimRestart
<1> QED
  BY <1>1, <1>2, <1>3, <1>4, <1>5, <1>6, <1>7 DEF LimNext

\* Type correctness of the limiter and of the threads that use it.
THEOREM LimTypeCorrect == LimSpec => []LimTypeOK
<1>1. LimInit => LimTypeOK
  BY FreshType, LimiterAssumption DEF LimInit, LimTypeOK, Minutes
<1>2. LimTypeOK /\ [LimNext]_limVars => LimTypeOK'
  BY LimTypeStep
<1> QED
  BY <1>1, <1>2, PTL DEF LimSpec

----------------------------------------------------------------------------
\* The semaphore.

\* The slot holders are among finitely many threads.
LEMMA HoldersFinite == IsFiniteSet(Holders) /\ Cardinality(Holders) \in Nat
<1>1. IsFiniteSet(Holders)
  BY ThreadsAssumption, FS_Subset, Holders \in SUBSET Threads DEF Holders
<1> QED
  BY <1>1, FS_CardinalityType

\* With no thread running there is nobody to count.
LEMMA FreshHolders ==
  ASSUME NEW S, S = {th \in Threads : IdleThread.pc = "running"}
  PROVE  Cardinality(S) = 0
<1>1. S = {}
  BY DEF IdleThread
<1> QED
  BY <1>1, FS_EmptySet

\* At start all slots are free and nobody holds one.
LEMMA SlotsInit == LimInit => SlotsConserved
<1> SUFFICES ASSUME LimInit PROVE SlotsConserved
  OBVIOUS
<1>1. Holders = {th \in Threads : IdleThread.pc = "running"}
  BY DEF LimInit, Fresh, Holders
<1>2. Cardinality(Holders) = 0
  BY <1>1, FreshHolders
<1> QED
  BY <1>2, SlotsType DEF LimInit, Fresh, SlotsConserved

\* Every step moves as many permits as slot holders.
LEMMA SlotsStep ==
  ASSUME LimTypeOK, SlotsConserved, [LimNext]_limVars
  PROVE  SlotsConserved'
<1>1. CASE Holders' = Holders /\ permits' = permits
  BY <1>1 DEF SlotsConserved
<1>2. ASSUME NEW th \in Threads, AcquireSlot(th)
      PROVE  SlotsConserved'
  <2>1. CASE permits = 0
    <3>1. thread' = [thread EXCEPT ![th] = IdleThread] /\ thread[th].pc = "counted" /\ permits' = permits
      BY <1>2, <2>1 DEF AcquireSlot
    <3>2. Holders' = Holders
      BY <3>1 DEF Holders, LimTypeOK, IdleThread
    <3> QED
      BY <1>1, <3>1, <3>2
  <2>2. CASE permits > 0
    <3>a. thread' = [thread EXCEPT ![th].pc = "running"] /\ thread[th].pc = "counted"
      BY <1>2, <2>2 DEF AcquireSlot
    <3>b. thread'[th].pc = "running" /\ \A other \in Threads \ {th} : thread'[other] = thread[other]
      BY <3>a, MoveThread DEF LimTypeOK
    <3>1. Holders' = Holders \cup {th} /\ th \notin Holders
      BY <3>a, <3>b DEF Holders
    <3>2. Cardinality(Holders') = Cardinality(Holders) + 1
      BY <3>1, HoldersFinite, FS_AddElement
    <3> QED
      <4>1. permits' = permits - 1
        BY <1>2, <2>2 DEF AcquireSlot
      <4>2. permits \in Nat
        BY SlotsType DEF LimTypeOK
      <4> QED
        BY <4>1, <4>2, <3>2, HoldersFinite, SlotsType DEF SlotsConserved
  <2> QED
    BY <2>1, <2>2, SlotsType DEF LimTypeOK
<1>3. ASSUME NEW th \in Threads, Release(th)
      PROVE  SlotsConserved'
  <2>a. thread' = [thread EXCEPT ![th] = IdleThread] /\ thread[th].pc = "running"
    BY <1>3 DEF Release
  <2>1. Holders' = Holders \ {th} /\ th \in Holders
    BY <2>a DEF Holders, LimTypeOK, IdleThread
  <2>2. Cardinality(Holders') = Cardinality(Holders) - 1
    BY <2>1, HoldersFinite, FS_RemoveElement
  <2>3. Cardinality(Holders) # 0
    BY <2>1, HoldersFinite, FS_EmptySet
  <2> QED
    BY <1>3, <2>2, <2>3, HoldersFinite, SlotsType DEF Release, SlotsConserved, LimTypeOK
<1>4. CASE LimRestart
  <2>1. Holders' = {th \in Threads : IdleThread.pc = "running"}
    BY <1>4 DEF LimRestart, Fresh, Holders
  <2>2. Cardinality(Holders') = 0
    BY <2>1, FreshHolders
  <2> QED
    BY <1>4, <2>2, SlotsType DEF LimRestart, Fresh, SlotsConserved
<1>5. CASE UNCHANGED limVars
  BY <1>1, <1>5 DEF limVars, Holders
<1>6. CASE Tick
  BY <1>1, <1>6 DEF Tick, Holders
<1>7. ASSUME NEW th \in Threads, NEW t \in Tenants, ReadClock(th, t)
      PROVE  SlotsConserved'
  BY <1>1, <1>7 DEF ReadClock, Holders, LimTypeOK
<1>8. ASSUME NEW th \in Threads, CountCall(th)
      PROVE  SlotsConserved'
  <2>1. /\ thread[th].pc = "timed"
        /\ permits' = permits
        /\ \/ thread' = [thread EXCEPT ![th] = IdleThread]
           \/ thread' = [thread EXCEPT ![th].pc = "counted"]
    BY <1>8 DEF CountCall
  <2>2. /\ thread'[th].pc # "running"
        /\ \A other \in Threads \ {th} : thread'[other] = thread[other]
    <3>1. CASE thread' = [thread EXCEPT ![th] = IdleThread]
      BY <3>1 DEF IdleThread, LimTypeOK
    <3>2. CASE thread' = [thread EXCEPT ![th].pc = "counted"]
      BY <3>2, MoveThread DEF LimTypeOK
    <3> QED
      BY <2>1, <3>1, <3>2
  <2>3. Holders' = Holders
    BY <2>1, <2>2 DEF Holders
  <2> QED
    BY <1>1, <2>1, <2>3
<1> QED
  BY <1>2, <1>3, <1>4, <1>5, <1>6, <1>7, <1>8 DEF LimNext

\* Slots are neither lost nor made up, so at most Slots handlers are between
\* try_acquire and release, whatever they do in between.
THEOREM SlotsAreConserved == LimSpec => [](SlotsConserved /\ Cardinality(Holders) <= Slots)
<1>1. LimTypeOK /\ SlotsConserved => Cardinality(Holders) <= Slots
  BY HoldersFinite, SlotsType DEF LimTypeOK, SlotsConserved
<1>2. LimTypeOK /\ SlotsConserved /\ [LimNext]_limVars => SlotsConserved'
  BY SlotsStep
<1> QED
  BY <1>1, <1>2, SlotsInit, LimTypeCorrect, PTL DEF LimSpec

----------------------------------------------------------------------------
\* The rate.

\* The inductive strengthening of RateOvershootBounded: the window of the
\* tenant's entry has spent what the entry counts on top of the stale checks,
\* older windows at most one allowance more, and newer ones only what stale
\* checks gave them.
Spent(t, w) ==
  IF w = windows[t].window THEN admitted[t][w] <= PerMinute * stale[t] + windows[t].count
  ELSE IF w < windows[t].window THEN admitted[t][w] <= PerMinute * (stale[t] + 1)
  ELSE admitted[t][w] <= PerMinute * stale[t]
RateInv ==
  \A t \in Tenants :
    /\ windows[t].count <= PerMinute
    /\ \A w \in Minutes : Spent(t, w)

\* The little multiplication the argument needs.
LEMMA OneMore ==
  ASSUME NEW n \in Nat
  PROVE  /\ PerMinute * (n + 1) = PerMinute * n + PerMinute
         /\ PerMinute * n \in Nat
         /\ PerMinute * (n + 1) \in Nat
  BY LimiterAssumption

\* The clock starts in minute 1.
LEMMA FirstMinute == 1 \in Minutes
  BY LimiterAssumption DEF Minutes

\* A fresh process has spent nothing.
LEMMA NothingSpent ==
  ASSUME NEW w \in Minutes
  PROVE  w > 0 /\ w \in Int /\ PerMinute * 0 = 0 /\ 0 <= PerMinute
  BY LimiterAssumption DEF Minutes

\* The one step that counts a call.
LEMMA RateCount ==
  ASSUME LimTypeOK, RateInv, NEW th \in Threads, CountCall(th)
  PROVE  RateInv'
<1>1. PICK t \in Tenants, w \in Minutes : t = thread[th].tenant /\ w = thread[th].now
  BY DEF LimTypeOK, Thread
<1>2. PICK entry \in [window : 0..MaxMinute, count : Nat] :
        entry = CurrentWindow(t, w) /\ entry.window = w
  BY <1>1, CurrentWindowType
<1>3. CASE entry.count >= PerMinute
  BY <1>1, <1>2, <1>3 DEF CountCall, RateInv, Spent
<1>4. CASE ~(entry.count >= PerMinute)
  <2>1. /\ windows' = [windows EXCEPT ![t] = [entry EXCEPT !.count = @ + 1]]
        /\ admitted' = [admitted EXCEPT ![t][w] = @ + 1]
        /\ stale' = [stale EXCEPT ![t] = IF w < windows[t].window THEN @ + 1 ELSE @]
    BY <1>1, <1>2, <1>4 DEF CountCall
  <2> SUFFICES ASSUME NEW s \in Tenants, NEW v \in Minutes
               PROVE  windows'[s].count <= PerMinute /\ Spent(s, v)'
    BY DEF RateInv
  <2>2. CASE s # t
    BY <2>1, <2>2 DEF RateInv, Spent, LimTypeOK
  <2>3. CASE s = t
    <3>1. PICK old, c, n, a : /\ old = windows[t].window /\ c = windows[t].count
                              /\ n = stale[t] /\ a = admitted[t][v]
      OBVIOUS
    <3>2. /\ old \in Int /\ c \in Nat /\ n \in Nat /\ a \in Nat
          /\ c <= PerMinute
      BY <3>1, LimiterAssumption DEF LimTypeOK, RateInv
    <3>3. v \in Int /\ w \in Int
      BY LimiterAssumption DEF Minutes
    <3>4. IF v = old THEN a <= PerMinute * n + c
          ELSE IF v < old THEN a <= PerMinute * (n + 1)
          ELSE a <= PerMinute * n
      BY <3>1 DEF RateInv, Spent
    <3>5. entry.count = (IF old = w THEN c ELSE 0)
      BY <3>1, <1>2 DEF CurrentWindow
    <3>6. windows'[t].window = w /\ windows'[t].count = entry.count + 1
      <4>1. windows'[t] = [entry EXCEPT !.count = @ + 1]
        BY <2>1 DEF LimTypeOK
      <4> QED
        BY <4>1, <1>2
    <3>7. stale'[t] = (IF w < old THEN n + 1 ELSE n)
      BY <2>1, <3>1 DEF LimTypeOK
    <3>8. admitted'[t][v] = (IF v = w THEN a + 1 ELSE a)
      BY <2>1, <3>1 DEF LimTypeOK
    <3>9. /\ PerMinute * (n + 1) = PerMinute * n + PerMinute
          /\ PerMinute * n \in Nat
      BY <3>2, OneMore
    <3>10. PerMinute * ((n + 1) + 1) = PerMinute * (n + 1) + PerMinute
      BY <3>2, OneMore
    <3>11. PICK p : p = PerMinute * n
      OBVIOUS
    <3>12. p \in Nat /\ PerMinute * (n + 1) = p + PerMinute
      BY <3>9, <3>11
    <3>13. PICK c2, p2, a2 : /\ c2 = (IF old = w THEN c ELSE 0) + 1
                             /\ p2 = (IF w < old THEN p + PerMinute ELSE p)
                             /\ a2 = (IF v = w THEN a + 1 ELSE a)
      OBVIOUS
    <3>14. IF v = old THEN a <= p + c ELSE IF v < old THEN a <= p + PerMinute ELSE a <= p
      BY <3>4, <3>11, <3>12
    <3>15. IF v = w THEN a2 <= p2 + c2 ELSE IF v < w THEN a2 <= p2 + PerMinute ELSE a2 <= p2
      <4>1. CASE w < old
        BY <4>1, <3>2, <3>3, <3>12, <3>13, <3>14, LimiterAssumption
      <4>2. CASE w = old
        BY <4>2, <3>2, <3>3, <3>12, <3>13, <3>14, LimiterAssumption
      <4>3. CASE w > old
        BY <4>3, <3>2, <3>3, <3>12, <3>13, <3>14, LimiterAssumption
      <4> QED
        BY <4>1, <4>2, <4>3, <3>2, <3>3
    <3>16. windows'[t].count = c2 /\ admitted'[t][v] = a2
      BY <3>5, <3>6, <3>8, <3>13
    <3>17. PerMinute * stale'[t] = p2 /\ PerMinute * (stale'[t] + 1) = p2 + PerMinute
      <4>1. CASE w < old
        BY <4>1, <3>7, <3>10, <3>12, <3>13
      <4>2. CASE ~(w < old)
        BY <4>2, <3>7, <3>11, <3>12, <3>13
      <4> QED
        BY <4>1, <4>2
    <3>18. Spent(s, v)'
      BY <2>3, <3>6, <3>15, <3>16, <3>17 DEF Spent
    <3>19. windows'[s].count <= PerMinute
      BY <2>3, <3>6, <1>2, <1>4, LimiterAssumption
    <3> QED
      BY <3>18, <3>19
  <2> QED
    BY <2>2, <2>3
<1> QED
  BY <1>3, <1>4

\* Every step keeps the count of admitted calls within what the windows account for.
LEMMA RateStep ==
  ASSUME LimTypeOK, RateInv, [LimNext]_limVars
  PROVE  RateInv'
<1>1. CASE UNCHANGED <<windows, admitted, stale>>
  BY <1>1 DEF RateInv, Spent
<1>2. CASE LimRestart
  <2>1. /\ windows' = [t \in Tenants |-> [window |-> 0, count |-> 0]]
        /\ admitted' = [t \in Tenants |-> [m \in Minutes |-> 0]]
        /\ stale' = [t \in Tenants |-> 0]
    BY <1>2 DEF LimRestart, Fresh
  <2> SUFFICES ASSUME NEW t \in Tenants, NEW w \in Minutes
               PROVE  windows'[t].count <= PerMinute /\ Spent(t, w)'
    BY FirstMinute DEF RateInv
  <2>2. windows'[t].count = 0 /\ windows'[t].window = 0 /\ admitted'[t][w] = 0 /\ stale'[t] = 0
    BY <2>1
  <2> QED
    BY <2>2, NothingSpent DEF Spent
<1>3. ASSUME NEW th \in Threads, CountCall(th)
      PROVE  RateInv'
  BY <1>3, RateCount
<1> QED
  BY <1>1, <1>2, <1>3 DEF LimNext, limVars, Tick, ReadClock, AcquireSlot, Release

\* A tenant gets past the window check at most PerMinute times per window and
\* stale check; with no check delayed past a window change, PerMinute times.
THEOREM RateIsBounded == LimSpec => []RateOvershootBounded
<1>1. LimInit => RateInv
  <2> SUFFICES ASSUME LimInit, NEW t \in Tenants, NEW w \in Minutes
               PROVE  windows[t].count <= PerMinute /\ Spent(t, w)
    BY FirstMinute DEF RateInv
  <2>1. windows[t].count = 0 /\ windows[t].window = 0 /\ admitted[t][w] = 0 /\ stale[t] = 0
    BY DEF LimInit, Fresh
  <2> QED
    BY <2>1, NothingSpent DEF Spent
<1>2. LimTypeOK /\ RateInv /\ [LimNext]_limVars => RateInv'
  BY RateStep
<1>3. LimTypeOK /\ RateInv => RateOvershootBounded
  <2> SUFFICES ASSUME LimTypeOK, RateInv, NEW t \in Tenants, NEW w \in Minutes
               PROVE  admitted[t][w] <= PerMinute * (stale[t] + 1)
    BY DEF RateOvershootBounded
  <2>1. /\ stale[t] \in Nat /\ windows[t].count \in Nat
        /\ windows[t].window \in Int /\ w \in Int /\ admitted[t][w] \in Nat
    BY LimiterAssumption DEF LimTypeOK, Minutes
  <2>2. windows[t].count <= PerMinute /\ Spent(t, w)
    BY DEF RateInv
  <2> QED
    BY <2>1, <2>2, OneMore, LimiterAssumption DEF Spent
<1> QED
  BY <1>1, <1>2, <1>3, LimTypeCorrect, PTL DEF LimSpec

\* Both limits of the limiter, over any sequence of handlers and restarts.
THEOREM LimiterLimits == LimSpec => []LimiterHolds
<1>1. (SlotsConserved /\ Cardinality(Holders) <= Slots) /\ RateOvershootBounded => LimiterHolds
  BY DEF LimiterHolds
<1> QED
  BY <1>1, SlotsAreConserved, RateIsBounded, PTL
============================================================================
