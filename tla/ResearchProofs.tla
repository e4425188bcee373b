--------------------------- MODULE ResearchProofs ---------------------------
(***************************************************************************)
(* What holds of a tenant's corpus and of the research over it, for any    *)
(* texts, chunk sizes and documents indexed at once, any order of a        *)
(* backend's answers, any plan, any hits of the web and any delays.        *)
(***************************************************************************)
EXTENDS DeepResearch, FiniteSetTheorems, SequenceTheorems, WellFoundedInduction, TLAPS

----------------------------------------------------------------------------
\* Loops.  What a loop computes is proved by induction over its turns.

\* A set of numbers has a least one.
LEMMA LeastNatural ==
  ASSUME NEW T, T \subseteq Nat, T # {}
  PROVE  \E k \in T : \A j \in T : k <= j
<1>1. PICK k \in T : \A j \in T : ~(<<j, k>> \in OpToRel(<, Nat))
  BY NatLessThanWellFounded, WFMin, Zenon
<1>2. \A j \in T : ~(j < k)
  BY <1>1 DEF OpToRel
<1> QED
  BY <1>2

\* Induction up to n over a set of numbers.
LEMMA Climb ==
  ASSUME NEW n \in Nat, NEW T, 0 \in T,
         \A i \in 0..n : i < n /\ i \in T => i + 1 \in T
  PROVE  \A i \in 0..n : i \in T
<1> DEFINE Missed == {i \in 0..n : i \notin T}
<1>1. SUFFICES ASSUME Missed # {} PROVE FALSE
  OBVIOUS
<1>2. PICK k \in Missed : \A j \in Missed : k <= j
  <2>1. Missed \subseteq Nat
    OBVIOUS
  <2> HIDE DEF Missed
  <2> QED
    BY <1>1, <2>1, LeastNatural
<1>3. k \in 0..n /\ k \notin T /\ k # 0
  OBVIOUS
<1>4. k - 1 \in 0..n /\ k - 1 < n /\ k - 1 < k
  BY <1>3
<1>5. k - 1 \in T
  BY <1>2, <1>3, <1>4
<1> QED
  BY <1>3, <1>4, <1>5

\* A loop over n values of E, whose states are in Q: what a turn makes of a
\* state, and the states f of the loop over s from b on.
Turns(Q, E) == [Q \X E -> Q]
Inputs(n, E) == [1..n -> E]
IsLoop(f, n, b, step, s) == f[0] = b /\ \A i \in 1..n : f[i] = step[<<f[i - 1], s[i]>>]

\* A loop whose turns keep to its states has a course.
LEMMA LoopExists ==
  ASSUME NEW Q, NEW E, NEW step \in Turns(Q, E), NEW b \in Q, NEW n \in Nat, NEW s \in Inputs(n, E)
  PROVE  \E f \in [0..n -> Q] : IsLoop(f, n, b, step, s)
<1> DEFINE Runs(k, f) == f[0] = b /\ \A i \in 1..k : f[i] = step[<<f[i - 1], s[i]>>]
           T == {k \in 0..n : \E f \in [0..k -> Q] : Runs(k, f)}
<1> USE DEF Turns, Inputs
<1>1. 0 \in T
  <2>1. PICK f : f = [i \in 0..0 |-> b]
    OBVIOUS
  <2>2. f \in [0..0 -> Q] /\ Runs(0, f)
    BY <2>1
  <2> QED
    BY <2>2
<1>2. ASSUME NEW k \in 0..n, k < n, k \in T
      PROVE  k + 1 \in T
  <2>1. PICK f \in [0..k -> Q] : Runs(k, f)
    BY <1>2
  <2>2. k + 1 \in 1..n /\ k + 1 \in 0..n /\ k \in 0..k /\ k \in Nat
    BY <1>2
  <2>3. s[k + 1] \in E /\ f[k] \in Q
    BY <2>1, <2>2
  <2>4. step[<<f[k], s[k + 1]>>] \in Q
    BY <2>3
  <2>5. PICK g : g = [i \in 0..(k + 1) |-> IF i = k + 1 THEN step[<<f[k], s[k + 1]>>] ELSE f[i]]
    OBVIOUS
  <2>6. \A i \in 0..(k + 1) : i = k + 1 \/ (i \in 0..k /\ i # k + 1)
    BY <2>2
  <2>7. g \in [0..(k + 1) -> Q]
    BY <2>1, <2>4, <2>5, <2>6
  <2>8. g[k + 1] = step[<<f[k], s[k + 1]>>] /\ \A i \in 0..k : g[i] = f[i]
    <3>1. k + 1 \in 0..(k + 1) /\ \A i \in 0..k : i \in 0..(k + 1) /\ i # k + 1
      BY <2>2
    <3> QED
      BY <2>5, <3>1
  <2>9. g[0] = b
    <3>1. 0 \in 0..k
      BY <2>2
    <3> QED
      BY <2>1, <2>8, <3>1
  <2>10. ASSUME NEW i \in 1..(k + 1) PROVE g[i] = step[<<g[i - 1], s[i]>>]
    <3>1. CASE i = k + 1
      <4>1. i - 1 = k
        BY <2>2, <3>1
      <4> QED
        BY <2>2, <2>8, <3>1, <4>1
    <3>2. CASE i # k + 1
      <4>1. i \in 1..k /\ i \in 0..k /\ i - 1 \in 0..k
        BY <2>2, <3>2
      <4> QED
        BY <2>1, <2>8, <4>1
    <3> QED
      BY <3>1, <3>2
  <2> QED
    BY <2>2, <2>7, <2>9, <2>10
<1>3. n \in T
  <2> HIDE DEF T
  <2>1. \A i \in 0..n : i \in T
    BY <1>1, <1>2, Climb
  <2> QED
    BY <2>1
<1> QED
  BY <1>3 DEF IsLoop

----------------------------------------------------------------------------
\* The passages of a run.

\* What may be shown: nothing twice, no more than the cap.
Shown(X) == {q \in Seq(X) : IsInjective(q) /\ Len(q) <= MaxPassages}

\* One more passage is shown once.
LEMMA AddedShown ==
  ASSUME NEW X, NEW q \in Shown(X), NEW p \in X
  PROVE  Added(q, p) \in Shown(X)
<1>1. q \in Seq(X) /\ IsInjective(q) /\ Len(q) <= MaxPassages /\ Len(q) \in Nat
  BY DEF Shown
<1>2. CASE Contains(q, p) \/ Len(q) >= MaxPassages
  BY <1>2 DEF Added
<1>3. CASE ~(Contains(q, p) \/ Len(q) >= MaxPassages)
  <2>1. PICK r : r = Append(q, p)
    OBVIOUS
  <2>2. r \in Seq(X) /\ Len(r) = Len(q) + 1 /\ r[Len(q) + 1] = p /\ \A i \in 1..Len(q) : r[i] = q[i]
    BY <1>1, <2>1
  <2>3. \A i \in 1..Len(q) : q[i] # p
    BY <1>3 DEF Contains
  <2>4. \A i \in 1..Len(r) : i \in 1..Len(q) \/ i = Len(q) + 1
    BY <1>1, <2>2
  <2>5. DOMAIN r = 1..Len(r) /\ DOMAIN q = 1..Len(q)
    BY <1>1, <2>2
  <2>6. IsInjective(r)
    <3>1. SUFFICES ASSUME NEW i \in 1..Len(r), NEW j \in 1..Len(r), r[i] = r[j] PROVE i = j
      BY <2>5 DEF IsInjective
    <3>2. CASE i \in 1..Len(q) /\ j \in 1..Len(q)
      BY <1>1, <2>2, <2>5, <3>1, <3>2 DEF IsInjective
    <3> QED
      BY <2>2, <2>3, <2>4, <3>1, <3>2
  <2>7. Len(r) <= MaxPassages
    BY <1>1, <1>3, <2>2, ResearchAssumption
  <2> QED
    BY <1>3, <2>1, <2>2, <2>6, <2>7 DEF Added, Shown
<1> QED
  BY <1>2, <1>3

\* A loop that adds passages shows each once and no more than the cap.
LEMMA AddNewShown ==
  ASSUME NEW X, NEW ps \in Shown(X), NEW s \in Seq(X)
  PROVE  AddNew(ps, s) \in Shown(X)
<1> DEFINE n == Len(s)
           Loop(f) == f = [i \in 0..n |-> IF i = 0 THEN ps ELSE Added(f[i - 1], s[i])]
           step == [c \in Shown(X) \X X |-> Added(c[1], c[2])]
<1>1. n \in Nat /\ s \in [1..n -> X] /\ \A i \in 1..n : s[i] \in X
  OBVIOUS
<1>2. \E f : Loop(f)
  <2>1. step \in Turns(Shown(X), X) /\ s \in Inputs(n, X)
    BY <1>1, AddedShown DEF Turns, Inputs
  <2> HIDE DEF n
  <2>2. PICK f \in [0..n -> Shown(X)] : f[0] = ps /\ \A i \in 1..n : f[i] = step[<<f[i - 1], s[i]>>]
    <3> HIDE DEF step
    <3>1. \E f \in [0..n -> Shown(X)] : IsLoop(f, n, ps, step, s)
      BY <1>1, <2>1, LoopExists
    <3> QED
      BY <3>1 DEF IsLoop
  <2>3. ASSUME NEW i \in 0..n, i # 0
        PROVE  f[i] = Added(f[i - 1], s[i])
    <3>1. i \in 1..n /\ i - 1 \in 0..n
      BY <1>1, <2>3
    <3>2. f[i - 1] \in Shown(X) /\ s[i] \in X
      BY <1>1, <3>1
    <3> QED
      BY <2>2, <3>1, <3>2
  <2>4. Loop(f)
    <3>1. DOMAIN f = 0..n /\ \A i \in 0..n : f[i] = IF i = 0 THEN ps ELSE Added(f[i - 1], s[i])
      BY <2>2, <2>3
    <3> QED
      BY <3>1
  <2> QED
    BY <2>4
<1>3. PICK g : g = (CHOOSE f : Loop(f))
  OBVIOUS
<1>4. Loop(g)
  BY <1>2, <1>3
<1>5. AddNew(ps, s) = g[n]
  BY <1>3 DEF AddNew
<1> DEFINE T == {i \in 0..n : g[i] \in Shown(X)}
<1>6. 0 \in T
  BY <1>1, <1>4
<1>7. ASSUME NEW i \in 0..n, i < n, i \in T
      PROVE  i + 1 \in T
  <2>1. i + 1 \in 1..n /\ i + 1 \in 0..n /\ i + 1 # 0 /\ (i + 1) - 1 = i
    BY <1>1, <1>7
  <2>2. g[i + 1] = Added(g[i], s[i + 1])
    BY <1>4, <2>1
  <2>3. s[i + 1] \in X /\ g[i] \in Shown(X)
    BY <1>1, <1>7, <2>1
  <2> QED
    BY <2>1, <2>2, <2>3, AddedShown
<1>8. n \in T
  <2> HIDE DEF T, n
  <2>1. \A i \in 0..n : i \in T
    BY <1>1, <1>6, <1>7, Climb
  <2> QED
    BY <1>1, <2>1
<1> QED
  BY <1>5, <1>8

\* What is cited so far, when one more passage was looked at.
LEMMA CitedOnce ==
  ASSUME NEW X, NEW ds \in Seq(X), NEW p, Document(p) \in X
  PROVE  Cited(ds, p) \in Seq(X) /\ ToSet(Cited(ds, p)) = ToSet(ds) \cup {Document(p)}
<1>1. CASE Contains(ds, Document(p))
  <2>1. Document(p) \in ToSet(ds)
    BY <1>1 DEF Contains, ToSet
  <2> QED
    BY <1>1, <2>1 DEF Cited
<1>2. CASE ~Contains(ds, Document(p))
  <2>1. PICK r : r = Append(ds, Document(p))
    OBVIOUS
  <2>2. /\ r \in Seq(X) /\ Len(r) = Len(ds) + 1 /\ r[Len(ds) + 1] = Document(p)
        /\ \A i \in 1..Len(ds) : r[i] = ds[i]
        /\ Len(ds) \in Nat /\ DOMAIN r = 1..Len(r) /\ DOMAIN ds = 1..Len(ds)
    BY <2>1
  <2>3. \A i \in DOMAIN r : i \in DOMAIN ds \/ i = Len(ds) + 1
    BY <2>2
  <2>4. Len(ds) + 1 \in DOMAIN r /\ \A i \in DOMAIN ds : i \in DOMAIN r
    BY <2>2
  <2>5. ToSet(r) = ToSet(ds) \cup {Document(p)}
    BY <2>2, <2>3, <2>4, Zenon DEF ToSet
  <2> QED
    BY <1>2, <2>1, <2>2, <2>5 DEF Cited
<1> QED
  BY <1>1, <1>2

\* The sources of an answer are the documents of its passages.
LEMMA SourcesAreTheDocuments ==
  ASSUME NEW Y, NEW ps \in Seq(Y)
  PROVE  ToSet(SourcesOf(ps)) = {Document(ps[i]) : i \in DOMAIN ps}
<1> DEFINE n == Len(ps)
           X == {Document(p) : p \in Y}
           Loop(f) == f = [i \in 0..n |-> IF i = 0 THEN <<>> ELSE Cited(f[i - 1], ps[i])]
           step == [c \in Seq(X) \X Y |-> Cited(c[1], c[2])]
<1>1. n \in Nat /\ ps \in [1..n -> Y] /\ \A i \in 1..n : ps[i] \in Y /\ Document(ps[i]) \in X
  OBVIOUS
<1>2. \E f : Loop(f)
  <2>1. step \in Turns(Seq(X), Y) /\ ps \in Inputs(n, Y)
    <3>1. \A p \in Y : Document(p) \in X
      OBVIOUS
    <3> HIDE DEF X
    <3> QED
      BY <1>1, <3>1, CitedOnce DEF Turns, Inputs
  <2> HIDE DEF n, X
  <2>2. PICK f \in [0..n -> Seq(X)] : f[0] = <<>> /\ \A i \in 1..n : f[i] = step[<<f[i - 1], ps[i]>>]
    <3> HIDE DEF step
    <3>1. <<>> \in Seq(X)
      OBVIOUS
    <3>2. \E f \in [0..n -> Seq(X)] : IsLoop(f, n, <<>>, step, ps)
      BY <1>1, <2>1, <3>1, LoopExists
    <3> QED
      BY <3>2 DEF IsLoop
  <2>3. ASSUME NEW i \in 0..n, i # 0
        PROVE  f[i] = Cited(f[i - 1], ps[i])
    <3>1. i \in 1..n /\ i - 1 \in 0..n
      BY <1>1, <2>3
    <3>2. f[i - 1] \in Seq(X) /\ ps[i] \in Y
      BY <1>1, <3>1
    <3> QED
      BY <2>2, <3>1, <3>2
  <2>4. DOMAIN f = 0..n /\ \A i \in 0..n : f[i] = IF i = 0 THEN <<>> ELSE Cited(f[i - 1], ps[i])
    BY <2>2, <2>3
  <2> QED
    BY <2>4
<1>3. PICK g : g = (CHOOSE f : Loop(f))
  OBVIOUS
<1>4. Loop(g)
  BY <1>2, <1>3
<1>5. SourcesOf(ps) = g[n]
  BY <1>3 DEF SourcesOf
<1> DEFINE T == {i \in 0..n : g[i] \in Seq(X) /\ ToSet(g[i]) = {Document(ps[j]) : j \in 1..i}}
<1>6. 0 \in T
  <2>1. 0 \in 0..n
    BY <1>1
  <2>2. g[0] = <<>>
    BY <1>4, <2>1
  <2>3. 1..0 = {} /\ {Document(ps[j]) : j \in {}} = {}
    OBVIOUS
  <2>4. DOMAIN <<>> = {} /\ <<>> \in Seq(X)
    OBVIOUS
  <2>5. ToSet(<<>>) = {}
    BY <2>4 DEF ToSet
  <2> HIDE DEF X
  <2> QED
    BY <2>1, <2>2, <2>3, <2>4, <2>5
<1>7. ASSUME NEW i \in 0..n, i < n, i \in T
      PROVE  i + 1 \in T
  <2>1. i + 1 \in 1..n /\ i + 1 \in 0..n /\ i + 1 # 0 /\ (i + 1) - 1 = i
    BY <1>1, <1>7
  <2>2. g[i + 1] = Cited(g[i], ps[i + 1])
    BY <1>4, <2>1
  <2>3. Document(ps[i + 1]) \in X /\ g[i] \in Seq(X) /\ ToSet(g[i]) = {Document(ps[j]) : j \in 1..i}
    BY <1>1, <1>7, <2>1
  <2>4. g[i + 1] \in Seq(X) /\ ToSet(g[i + 1]) = ToSet(g[i]) \cup {Document(ps[i + 1])}
    <3> HIDE DEF X
    <3> QED
      BY <2>2, <2>3, CitedOnce
  <2>5. 1..(i + 1) = (1..i) \cup {i + 1}
    BY <1>1
  <2>6. {Document(ps[j]) : j \in 1..(i + 1)} = {Document(ps[j]) : j \in 1..i} \cup {Document(ps[i + 1])}
    BY <2>5, Zenon
  <2> QED
    BY <2>1, <2>3, <2>4, <2>6
<1>8. n \in T
  <2> HIDE DEF T, n
  <2>1. \A i \in 0..n : i \in T
    BY <1>1, <1>6, <1>7, Climb
  <2> QED
    BY <1>1, <2>1
<1>9. DOMAIN ps = 1..n
  OBVIOUS
<1> QED
  BY <1>5, <1>8, <1>9

----------------------------------------------------------------------------
\* Texts and chunks.

\* Two loops that take the same turns have the same course.
SameTurns(f, g, n) == f[0] = g[0] /\ \A i \in 1..n : f[i - 1] = g[i - 1] => f[i] = g[i]

\* From the same start they stay together.
LEMMA LoopsAgree ==
  ASSUME NEW n \in Nat, NEW f, NEW g, SameTurns(f, g, n)
  PROVE  \A i \in 0..n : f[i] = g[i]
<1> DEFINE T == {i \in 0..n : f[i] = g[i]}
<1>1. 0 \in T
  BY DEF SameTurns
<1>2. ASSUME NEW i \in 0..n, i < n, i \in T
      PROVE  i + 1 \in T
  <2>1. i + 1 \in 1..n /\ (i + 1) - 1 = i /\ i + 1 \in 0..n
    BY <1>2
  <2> QED
    BY <1>2, <2>1 DEF SameTurns
<1>3. \A i \in 0..n : i \in T
  <2> HIDE DEF T
  <2> QED
    BY <1>1, <1>2, Climb
<1> QED
  BY <1>3

\* A sum of lengths.
Sums(g, ws) == g[0] = 0 /\ \A i \in 1..Len(ws) : g[i] = g[i - 1] + ws[i]

\* The loop that sums up the words of a line.
LEMMA JoinedLoop ==
  ASSUME NEW ws \in Seq(Nat)
  PROVE  \E g \in [0..Len(ws) -> Nat] : Sums(g, ws) /\ Joined(ws) = g[Len(ws)] + Len(ws) - 1
<1> DEFINE n == Len(ws)
           Loop(f) == f = [i \in 0..n |-> IF i = 0 THEN 0 ELSE f[i - 1] + ws[i]]
           step == [c \in Nat \X Nat |-> c[1] + c[2]]
<1>1. n \in Nat /\ ws \in [1..n -> Nat] /\ \A i \in 1..n : ws[i] \in Nat
  OBVIOUS
<1>2. PICK f \in [0..n -> Nat] : f[0] = 0 /\ \A i \in 1..n : f[i] = f[i - 1] + ws[i]
  <2>1. step \in Turns(Nat, Nat) /\ ws \in Inputs(n, Nat)
    BY <1>1 DEF Turns, Inputs
  <2> HIDE DEF n
  <2>2. PICK f \in [0..n -> Nat] : f[0] = 0 /\ \A i \in 1..n : f[i] = step[<<f[i - 1], ws[i]>>]
    <3> HIDE DEF step
    <3>1. \E f \in [0..n -> Nat] : IsLoop(f, n, 0, step, ws)
      BY <1>1, <2>1, LoopExists
    <3> QED
      BY <3>1 DEF IsLoop
  <2>3. ASSUME NEW i \in 1..n
        PROVE  f[i] = f[i - 1] + ws[i]
    <3>1. i - 1 \in 0..n
      BY <1>1
    <3>2. f[i - 1] \in Nat /\ ws[i] \in Nat
      BY <1>1, <3>1
    <3> QED
      BY <2>2, <3>2
  <2> QED
    BY <2>2, <2>3
<1>3. Loop(f)
  <2>1. DOMAIN f = 0..n /\ \A i \in 0..n : i = 0 \/ i \in 1..n
    BY <1>1, <1>2
  <2>2. \A i \in 0..n : f[i] = IF i = 0 THEN 0 ELSE f[i - 1] + ws[i]
    BY <1>2, <2>1
  <2> QED
    BY <2>1, <2>2
<1>4. PICK g : g = (CHOOSE h : Loop(h))
  OBVIOUS
<1>5. Loop(g)
  BY <1>3, <1>4
<1>6. g[0] = 0 /\ \A i \in 1..n : g[i] = g[i - 1] + ws[i]
  <2>1. DOMAIN g = 0..n /\ 0 \in 0..n /\ \A i \in 1..n : i \in 0..n /\ i # 0
    BY <1>1, <1>5
  <2> QED
    BY <1>5, <2>1
<1>7. g[n] = f[n]
  <2>1. \A i \in 1..n : g[i - 1] = f[i - 1] => g[i] = f[i]
    BY <1>2, <1>6
  <2>2. g[0] = f[0]
    BY <1>2, <1>6
  <2>3. n \in 0..n
    BY <1>1
  <2> HIDE DEF n
  <2>4. \A i \in 0..n : g[i] = f[i]
    <3>1. SameTurns(g, f, n)
      BY <2>1, <2>2 DEF SameTurns
    <3> QED
      BY <1>1, <3>1, LoopsAgree
  <2> QED
    BY <2>3, <2>4
<1>8. Joined(ws) = g[n] + n - 1
  BY <1>4 DEF Joined
<1> QED
  BY <1>2, <1>7, <1>8 DEF Sums

\* A line that gets another word grows by that word and a blank.
LEMMA JoinedAppend ==
  ASSUME NEW ws \in Seq(Nat), NEW w \in Nat
  PROVE  /\ Joined(ws) \in Int
         /\ Joined(Append(ws, w)) = Joined(ws) + 1 + w
<1>1. PICK vs : vs = Append(ws, w)
  OBVIOUS
<1>2. /\ vs \in Seq(Nat) /\ Len(vs) = Len(ws) + 1 /\ vs[Len(ws) + 1] = w
      /\ \A i \in 1..Len(ws) : vs[i] = ws[i]
      /\ Len(ws) \in Nat
  BY <1>1
<1>3. PICK f \in [0..Len(ws) -> Nat] : Sums(f, ws) /\ Joined(ws) = f[Len(ws)] + Len(ws) - 1
  BY JoinedLoop
<1>4. PICK g \in [0..Len(vs) -> Nat] : Sums(g, vs) /\ Joined(vs) = g[Len(vs)] + Len(vs) - 1
  BY <1>2, JoinedLoop
<1>5. \A i \in 1..Len(ws) : i \in 1..Len(vs)
  BY <1>2
<1>6. \A i \in 1..Len(ws) : g[i - 1] = f[i - 1] => g[i] = f[i]
  BY <1>2, <1>3, <1>4, <1>5 DEF Sums
<1>7. \A i \in 0..Len(ws) : g[i] = f[i]
  <2>1. g[0] = f[0]
    BY <1>3, <1>4 DEF Sums
  <2>2. SameTurns(g, f, Len(ws))
    BY <1>6, <2>1 DEF SameTurns
  <2> QED
    BY <1>2, <2>2, LoopsAgree
<1>8. Len(ws) \in 0..Len(ws) /\ Len(vs) \in 1..Len(vs) /\ Len(vs) - 1 = Len(ws)
  BY <1>2
<1>9. g[Len(vs)] = f[Len(ws)] + w
  BY <1>2, <1>4, <1>7, <1>8 DEF Sums
<1>10. f[Len(ws)] \in Nat
  BY <1>3, <1>8
<1> QED
  BY <1>1, <1>2, <1>3, <1>4, <1>9, <1>10

\* A line of one word is as long as the word.
LEMMA JoinedOne ==
  ASSUME NEW w \in Nat
  PROVE  Joined(<<w>>) = w
<1>1. PICK ws : ws = <<w>>
  OBVIOUS
<1>2. ws \in Seq(Nat) /\ Len(ws) = 1 /\ ws[1] = w
  BY <1>1
<1>3. PICK g \in [0..Len(ws) -> Nat] : Sums(g, ws) /\ Joined(ws) = g[Len(ws)] + Len(ws) - 1
  BY <1>2, JoinedLoop
<1>4. 1 \in 1..Len(ws) /\ 1 - 1 = 0
  BY <1>2
<1>5. g[1] = g[0] + ws[1] /\ g[0] = 0
  BY <1>3, <1>4 DEF Sums
<1> QED
  BY <1>1, <1>2, <1>3, <1>5

\* The words of some lines.
Gathers(g, cs) == g[0] = <<>> /\ \A i \in 1..Len(cs) : g[i] = g[i - 1] \o cs[i]

\* The loop that puts lines one after the other.
LEMMA FlatLoop ==
  ASSUME NEW cs \in Seq(Seq(Nat))
  PROVE  \E g \in [0..Len(cs) -> Seq(Nat)] : Gathers(g, cs) /\ FlattenSeq(cs) = g[Len(cs)]
<1> DEFINE n == Len(cs)
           Loop(f) == f = [i \in 1..n |-> IF i = 1 THEN cs[i] ELSE f[i - 1] \o cs[i]]
           step == [c \in Seq(Nat) \X Seq(Nat) |-> c[1] \o c[2]]
<1>1. n \in Nat /\ cs \in [1..n -> Seq(Nat)] /\ \A i \in 1..n : cs[i] \in Seq(Nat)
  OBVIOUS
<1>2. PICK f \in [0..n -> Seq(Nat)] : f[0] = <<>> /\ \A i \in 1..n : f[i] = f[i - 1] \o cs[i]
  <2>1. step \in Turns(Seq(Nat), Seq(Nat)) /\ cs \in Inputs(n, Seq(Nat))
    BY <1>1 DEF Turns, Inputs
  <2> HIDE DEF n
  <2>2. PICK f \in [0..n -> Seq(Nat)] : f[0] = <<>> /\ \A i \in 1..n : f[i] = step[<<f[i - 1], cs[i]>>]
    <3> HIDE DEF step
    <3>1. <<>> \in Seq(Nat)
      OBVIOUS
    <3>2. \E f \in [0..n -> Seq(Nat)] : IsLoop(f, n, <<>>, step, cs)
      BY <1>1, <2>1, <3>1, LoopExists
    <3> QED
      BY <3>2 DEF IsLoop
  <2>3. ASSUME NEW i \in 1..n
        PROVE  f[i] = f[i - 1] \o cs[i]
    <3>1. i - 1 \in 0..n
      BY <1>1
    <3>2. f[i - 1] \in Seq(Nat) /\ cs[i] \in Seq(Nat)
      BY <1>1, <3>1
    <3> QED
      BY <2>2, <3>2
  <2> QED
    BY <2>2, <2>3
<1>3. CASE n = 0
  <2>1. FlattenSeq(cs) = cs /\ cs = <<>>
    BY <1>3 DEF FlattenSeq
  <2> QED
    BY <1>2, <1>3, <2>1 DEF Gathers
<1>4. CASE n # 0
  <2>1. f[1] = cs[1]
    <3>1. 1 \in 1..n /\ 1 - 1 = 0
      BY <1>1, <1>4
    <3>2. f[1] = <<>> \o cs[1] /\ cs[1] \in Seq(Nat)
      BY <1>1, <1>2, <3>1
    <3> QED
      BY <3>2
  <2>2. PICK h : h = [i \in 1..n |-> f[i]]
    OBVIOUS
  <2>3. Loop(h)
    <3>1. \A i \in 1..n : i # 1 => i - 1 \in 1..n
      BY <1>1
    <3>2. \A i \in 1..n : h[i] = IF i = 1 THEN cs[i] ELSE h[i - 1] \o cs[i]
      BY <1>2, <2>1, <2>2, <3>1
    <3> QED
      BY <2>2, <3>2
  <2>4. PICK g : g = (CHOOSE k : Loop(k))
    OBVIOUS
  <2>5. Loop(g)
    <3> HIDE DEF Loop
    <3> QED
      BY <2>3, <2>4, Zenon
  <2>6. DOMAIN g = 1..n /\ \A i \in 1..n : g[i] = IF i = 1 THEN cs[i] ELSE g[i - 1] \o cs[i]
    BY <2>5
  <2>7. PICK e : e = [i \in 0..n |-> IF i = 0 THEN <<>> ELSE g[i]]
    OBVIOUS
  <2>8. SameTurns(e, f, n)
    <3>1. e[0] = f[0]
      BY <1>1, <1>2, <2>7
    <3>2. ASSUME NEW i \in 1..n, e[i - 1] = f[i - 1] PROVE e[i] = f[i]
      <4>1. e[i] = g[i] /\ i \in 0..n /\ i # 0
        BY <1>1, <2>7
      <4>2. CASE i = 1
        BY <2>1, <2>6, <4>1, <4>2
      <4>3. CASE i # 1
        <5>1. i - 1 \in 0..n /\ i - 1 # 0
          BY <1>1, <4>3
        <5>2. e[i - 1] = g[i - 1]
          BY <2>7, <5>1
        <5> QED
          BY <1>2, <2>6, <3>2, <4>1, <4>3, <5>2
      <4> QED
        BY <4>2, <4>3
    <3> QED
      BY <3>1, <3>2 DEF SameTurns
  <2>9. g[n] = f[n]
    <3>1. n \in 0..n /\ n # 0
      BY <1>1, <1>4
    <3>2. e[n] = g[n]
      BY <2>7, <3>1
    <3>3. \A i \in 0..n : e[i] = f[i]
      <4> HIDE DEF n
      <4> QED
        BY <1>1, <2>8, LoopsAgree
    <3> QED
      BY <3>1, <3>2, <3>3
  <2>10. FlattenSeq(cs) = g[n]
    BY <1>4, <2>4 DEF FlattenSeq
  <2> QED
    BY <1>2, <2>9, <2>10 DEF Gathers
<1> QED
  BY <1>3, <1>4

\* Another line adds its words at the end.
LEMMA FlatAppend ==
  ASSUME NEW cs \in Seq(Seq(Nat)), NEW c \in Seq(Nat)
  PROVE  /\ FlattenSeq(cs) \in Seq(Nat)
         /\ FlattenSeq(Append(cs, c)) = FlattenSeq(cs) \o c
<1>1. PICK vs : vs = Append(cs, c)
  OBVIOUS
<1>2. /\ vs \in Seq(Seq(Nat)) /\ Len(vs) = Len(cs) + 1 /\ vs[Len(cs) + 1] = c
      /\ \A i \in 1..Len(cs) : vs[i] = cs[i]
      /\ Len(cs) \in Nat
  BY <1>1
<1>3. PICK f \in [0..Len(cs) -> Seq(Nat)] : Gathers(f, cs) /\ FlattenSeq(cs) = f[Len(cs)]
  BY FlatLoop
<1>4. PICK g \in [0..Len(vs) -> Seq(Nat)] : Gathers(g, vs) /\ FlattenSeq(vs) = g[Len(vs)]
  BY <1>2, FlatLoop
<1>5. \A i \in 1..Len(cs) : i \in 1..Len(vs)
  BY <1>2
<1>6. SameTurns(g, f, Len(cs))
  <2>1. g[0] = f[0]
    BY <1>3, <1>4 DEF Gathers
  <2>2. \A i \in 1..Len(cs) : g[i] = g[i - 1] \o cs[i] /\ f[i] = f[i - 1] \o cs[i]
    BY <1>2, <1>3, <1>4, <1>5 DEF Gathers
  <2>3. ASSUME NEW i \in 1..Len(cs), g[i - 1] = f[i - 1] PROVE g[i] = f[i]
    BY <2>2, <2>3
  <2> QED
    BY <2>1, <2>3 DEF SameTurns
<1>7. \A i \in 0..Len(cs) : g[i] = f[i]
  <2>1. Len(cs) \in Nat
    OBVIOUS
  <2> QED
    BY ONLY <2>1, <1>6, LoopsAgree
<1>8. Len(cs) \in 0..Len(cs) /\ Len(vs) \in 1..Len(vs) /\ Len(vs) - 1 = Len(cs)
  BY <1>2
<1>9. g[Len(vs)] = f[Len(cs)] \o c
  <2>1. g[Len(vs)] = g[Len(vs) - 1] \o vs[Len(vs)]
    BY <1>4, <1>8 DEF Gathers
  <2> QED
    BY <1>2, <1>7, <1>8, <2>1
<1>10. f[Len(cs)] \in Seq(Nat)
  BY <1>3, <1>8
<1> QED
  BY <1>1, <1>3, <1>4, <1>9, <1>10

\* A line keeps to the size unless one word is longer.
Fits(l) == l # <<>> /\ (Len(l) > 1 => Joined(l) <= ChunkChars)

\* Lines are packed greedily.
Packed(cs) ==
  /\ \A i \in 1..Len(cs) : Fits(cs[i])
  /\ \A i \in 1..Len(cs) : i < Len(cs) => Joined(cs[i]) + 1 + cs[i + 1][1] > ChunkChars

\* What one more line does to the packing.
LEMMA PackedAppend ==
  ASSUME NEW cs \in Seq(Seq(Nat)), NEW l \in Seq(Nat), Packed(cs), Fits(l),
         cs # <<>> => Joined(cs[Len(cs)]) + 1 + l[1] > ChunkChars
  PROVE  Packed(Append(cs, l))
<1>1. PICK r : r = Append(cs, l)
  OBVIOUS
<1>2. /\ Len(r) = Len(cs) + 1 /\ r[Len(cs) + 1] = l /\ \A i \in 1..Len(cs) : r[i] = cs[i]
      /\ Len(cs) \in Nat
  BY <1>1
<1>3. \A i \in 1..Len(r) : i \in 1..Len(cs) \/ i = Len(cs) + 1
  BY <1>2
<1>4. ASSUME NEW i \in 1..Len(r) PROVE Fits(r[i])
  BY <1>2, <1>3 DEF Packed
<1>5. ASSUME NEW i \in 1..Len(r), i < Len(r)
      PROVE  Joined(r[i]) + 1 + r[i + 1][1] > ChunkChars
  <2>1. i \in 1..Len(cs) /\ r[i] = cs[i]
    <3>1. i # Len(cs) + 1
      BY <1>2, <1>5
    <3>2. i \in 1..Len(cs)
      BY <1>3, <3>1
    <3> QED
      BY <1>2, <3>2
  <2>2. CASE i = Len(cs)
    <3>1. cs # <<>>
      BY <2>1
    <3> QED
      BY <1>2, <2>1, <2>2, <3>1
  <2>3. CASE i < Len(cs)
    <3>1. i + 1 \in 1..Len(cs)
      BY <1>2, <2>1, <2>3
    <3>2. r[i + 1] = cs[i + 1]
      BY <1>2, <3>1
    <3> QED
      BY <2>1, <2>3, <3>2 DEF Packed
  <2> QED
    BY <1>2, <2>1, <2>2, <2>3
<1> QED
  BY <1>1, <1>4, <1>5 DEF Packed

\* What the packing says of all lines but the last, and of the last.
LEMMA PackedFront ==
  ASSUME NEW cs \in Seq(Seq(Nat)), NEW l \in Seq(Nat), Packed(Append(cs, l))
  PROVE  /\ Packed(cs) /\ Fits(l)
         /\ cs # <<>> => Joined(cs[Len(cs)]) + 1 + l[1] > ChunkChars
<1>1. PICK r : r = Append(cs, l)
  OBVIOUS
<1>2. /\ Len(r) = Len(cs) + 1 /\ r[Len(cs) + 1] = l /\ \A i \in 1..Len(cs) : r[i] = cs[i]
      /\ Len(cs) \in Nat
  BY <1>1
<1>3. Packed(r)
  BY <1>1
<1>4. Len(cs) + 1 \in 1..Len(r) /\ \A i \in 1..Len(cs) : i \in 1..Len(r) /\ i < Len(r)
  BY <1>2
<1>5. Fits(l) /\ \A i \in 1..Len(cs) : Fits(cs[i])
  <2>1. Fits(r[Len(cs) + 1]) /\ \A i \in 1..Len(cs) : Fits(r[i])
    BY <1>3, <1>4 DEF Packed
  <2> QED
    BY <1>2, <2>1
<1>6. ASSUME NEW i \in 1..Len(cs), i < Len(cs)
      PROVE  Joined(cs[i]) + 1 + cs[i + 1][1] > ChunkChars
  <2>1. i + 1 \in 1..Len(cs) /\ r[i] = cs[i] /\ r[i + 1] = cs[i + 1]
    <3>1. i + 1 \in 1..Len(cs)
      BY <1>2, <1>6
    <3> QED
      BY <1>2, <3>1
  <2>2. Joined(r[i]) + 1 + r[i + 1][1] > ChunkChars
    BY <1>3, <1>4 DEF Packed
  <2> QED
    BY <2>1, <2>2
<1>7. ASSUME cs # <<>> PROVE Joined(cs[Len(cs)]) + 1 + l[1] > ChunkChars
  <2>1. Len(cs) \in 1..Len(cs)
    BY <1>7
  <2>2. Joined(r[Len(cs)]) + 1 + r[Len(cs) + 1][1] > ChunkChars
    BY <1>3, <1>4, <2>1 DEF Packed
  <2>3. r[Len(cs)] = cs[Len(cs)]
    BY <1>2, <2>1
  <2> QED
    BY <1>2, <2>2, <2>3
<1> QED
  BY <1>5, <1>6, <1>7 DEF Packed

\* Concatenation of texts is associative.
LEMMA ConcatInNat ==
  ASSUME NEW s \in Seq(Nat), NEW t \in Seq(Nat), NEW u \in Seq(Nat)
  PROVE  (s \o t) \o u = s \o (t \o u)
  BY ConcatAssociative, SMT

\* What is not empty has a first word.
LEMMA NonEmpty ==
  ASSUME NEW s \in Seq(Nat), s # <<>>
  PROVE  1 \in 1..Len(s)
  BY SMT

\* No lines are packed.
LEMMA NothingPacked == Packed(<<>>) /\ FlattenSeq(<<>>) = <<>>
  BY DEF Packed, FlattenSeq

PackStates == [chunks : Seq(Seq(Nat)), current : Seq(Nat), length : Int]

\* Where the loop is after the first i words.
PackedUpTo(words, i, st) ==
  /\ st \in PackStates
  /\ FlattenSeq(st.chunks) \o st.current = SubSeq(words, 1, i)
  /\ i = 0 => st = Unpacked
  /\ i # 0 => st.current # <<>> /\ st.length = Joined(st.current) /\ Packed(Append(st.chunks, st.current))

\* A turn of the loop keeps to its states.
LEMMA PackWordType ==
  ASSUME NEW st \in PackStates, NEW w \in Nat
  PROVE  PackWord(st, w) \in PackStates
<1>1. st.chunks \in Seq(Seq(Nat)) /\ st.current \in Seq(Nat) /\ st.length \in Int
  BY DEF PackStates
<1>2. Append(st.chunks, st.current) \in Seq(Seq(Nat)) /\ Append(st.current, w) \in Seq(Nat) /\ <<w>> \in Seq(Nat)
  BY <1>1
<1> QED
  BY <1>1, <1>2 DEF PackStates, PackWord

\* One more word.
LEMMA PackWordKeeps ==
  ASSUME NEW words \in Seq(Nat), NEW i \in Nat, i < Len(words), NEW st, PackedUpTo(words, i, st)
  PROVE  PackedUpTo(words, i + 1, PackWord(st, words[i + 1]))
<1>1. PICK w : w = words[i + 1]
  OBVIOUS
<1>2. i + 1 \in 1..Len(words) /\ w \in Nat /\ words[i + 1] = w /\ Len(words) \in Nat
  BY <1>1
<1>3. /\ st \in PackStates /\ st.chunks \in Seq(Seq(Nat)) /\ st.current \in Seq(Nat) /\ st.length \in Int
      /\ FlattenSeq(st.chunks) \o st.current = SubSeq(words, 1, i)
  BY DEF PackedUpTo, PackStates
<1>4. PICK new : new = PackWord(st, w)
  OBVIOUS
<1>5. new \in PackStates
  BY <1>2, <1>3, <1>4, PackWordType
<1>6. FlattenSeq(st.chunks) \in Seq(Nat) /\ <<w>> \in Seq(Nat)
  BY <1>2, <1>3, FlatAppend
<1>7. (FlattenSeq(st.chunks) \o st.current) \o <<w>> = SubSeq(words, 1, i + 1)
  <2>1. SubSeq(words, 1, i + 1) = SubSeq(words, 1, (i + 1) - 1) \o <<words[i + 1]>>
    <3>1. 1 \in 1..Len(words) /\ i + 1 \in 1..Len(words)
      BY <1>2
    <3> QED
      BY <3>1, SubSeqRecursiveSecond
  <2>2. (i + 1) - 1 = i
    OBVIOUS
  <2>3. SubSeq(words, 1, i + 1) = SubSeq(words, 1, i) \o <<w>>
    BY <1>2, <2>1, <2>2
  <2>4. SubSeq(words, 1, i) = FlattenSeq(st.chunks) \o st.current
    BY <1>3
  <2> QED
    BY ONLY <2>3, <2>4
<1>8. CASE st.current = <<>>
  <2>1. i = 0 /\ st = Unpacked
    BY <1>8 DEF PackedUpTo
  <2>2. new = [chunks |-> <<>>, current |-> <<w>>, length |-> w]
    <3>1. st.chunks = <<>> /\ st.current = <<>> /\ st.length = 0
      BY <2>1 DEF Unpacked
    <3>2. Append(st.current, w) = <<w>>
      BY <1>2, <3>1
    <3> QED
      BY <1>2, <1>4, <3>1, <3>2 DEF PackWord
  <2>3. FlattenSeq(new.chunks) \o new.current = SubSeq(words, 1, i + 1)
    <3>1. new.chunks = st.chunks /\ new.current = <<w>> /\ st.current = <<>>
      BY <1>8, <2>1, <2>2 DEF Unpacked
    <3>2. FlattenSeq(st.chunks) \o st.current = FlattenSeq(st.chunks)
      BY <1>6, <3>1, ConcatEmptySeq
    <3> QED
      BY <1>7, <3>1, <3>2
  <2>4. Joined(<<w>>) = w /\ Fits(<<w>>)
    <3>1. Len(<<w>>) = 1 /\ <<w>> # <<>>
      OBVIOUS
    <3> QED
      BY <1>2, <3>1, JoinedOne DEF Fits
  <2>5. Packed(Append(new.chunks, new.current))
    <3>1. <<>> \in Seq(Seq(Nat))
      OBVIOUS
    <3>2. Packed(Append(<<>>, <<w>>))
      BY <1>6, <2>4, <3>1, NothingPacked, PackedAppend
    <3> QED
      BY <2>2, <3>2
  <2>6. new.current # <<>> /\ new.length = Joined(new.current) /\ i + 1 # 0
    BY <2>2, <2>4
  <2> QED
    BY <1>2, <1>4, <1>5, <2>3, <2>5, <2>6 DEF PackedUpTo
<1>9. CASE st.current # <<>>
  <2>1. i # 0 /\ st.length = Joined(st.current) /\ Packed(Append(st.chunks, st.current))
    BY <1>9 DEF PackedUpTo, Unpacked
  <2>2. /\ Packed(st.chunks) /\ Fits(st.current)
        /\ st.chunks # <<>> => Joined(st.chunks[Len(st.chunks)]) + 1 + st.current[1] > ChunkChars
    BY <1>3, <2>1, PackedFront
  <2>3. ChunkChars \in Int /\ Joined(st.current) \in Int
    BY <1>2, <1>3, ChunkAssumption, JoinedAppend
  <2>4. CASE st.length + (w + 1) > ChunkChars
    <3>1. new = [chunks |-> Append(st.chunks, st.current), current |-> <<w>>, length |-> w]
      BY <1>4, <1>9, <2>4 DEF PackWord
    <3>2. new.chunks = Append(st.chunks, st.current) /\ new.current = <<w>> /\ new.length = w
      BY <3>1
    <3>3. FlattenSeq(new.chunks) \o new.current = SubSeq(words, 1, i + 1)
      BY <1>3, <1>7, <3>2, FlatAppend
    <3>4. Joined(<<w>>) = w /\ Fits(<<w>>) /\ <<w>>[1] = w /\ <<w>> # <<>>
      <4>1. Len(<<w>>) = 1 /\ <<w>> # <<>> /\ <<w>>[1] = w
        OBVIOUS
      <4> QED
        BY <1>2, <4>1, JoinedOne DEF Fits
    <3>5. Packed(Append(new.chunks, new.current))
      <4>1. new.chunks \in Seq(Seq(Nat)) /\ new.chunks[Len(new.chunks)] = st.current
        BY <1>3, <3>2
      <4>2. Packed(new.chunks)
        BY <2>1, <3>2
      <4>3. Joined(new.chunks[Len(new.chunks)]) + 1 + <<w>>[1] > ChunkChars
        BY <1>2, <2>1, <2>3, <2>4, <3>4, <4>1
      <4>4. Packed(Append(new.chunks, <<w>>))
        BY <1>6, <3>4, <4>1, <4>2, <4>3, PackedAppend
      <4> QED
        BY <3>2, <4>4
    <3>6. new.current # <<>> /\ new.length = Joined(new.current) /\ i + 1 # 0
      BY <3>2, <3>4
    <3> QED
      BY <1>2, <1>4, <1>5, <3>3, <3>5, <3>6 DEF PackedUpTo
  <2>5. CASE ~(st.length + (w + 1) > ChunkChars)
    <3>1. new = [chunks |-> st.chunks, current |-> Append(st.current, w), length |-> st.length + (w + 1)]
      BY <1>4, <1>9, <2>5 DEF PackWord
    <3>2. new.chunks = st.chunks /\ new.current = Append(st.current, w) /\ new.length = st.length + (w + 1)
      BY <3>1
    <3>3. Append(st.current, w) = st.current \o <<w>>
      BY <1>2, <1>3, AppendIsConcat
    <3>4. FlattenSeq(new.chunks) \o new.current = SubSeq(words, 1, i + 1)
      <4>1. (FlattenSeq(st.chunks) \o st.current) \o <<w>> = FlattenSeq(st.chunks) \o (st.current \o <<w>>)
        <5>1. FlattenSeq(st.chunks) \in Seq(Nat) /\ st.current \in Seq(Nat) /\ <<w>> \in Seq(Nat)
          BY <1>3, <1>6
        <5> QED
          BY ONLY <5>1, ConcatInNat
      <4> QED
        BY <1>7, <3>2, <3>3, <4>1
    <3>5. new.current \in Seq(Nat) /\ new.current # <<>> /\ new.current[1] = st.current[1]
      <4>1. w \in Nat /\ st.current \in Seq(Nat) /\ st.current # <<>>
        BY <1>2, <1>3, <1>9
      <4>2. /\ Append(st.current, w) \in Seq(Nat) /\ Append(st.current, w) # <<>>
            /\ Append(st.current, w)[1] = st.current[1]
        <5>1. PICK r : r = Append(st.current, w)
          OBVIOUS
        <5>2. /\ r \in Seq(Nat) /\ Len(r) = Len(st.current) + 1 /\ Len(st.current) \in Nat
              /\ \A k \in 1..Len(st.current) : r[k] = st.current[k]
          BY ONLY <4>1, <5>1
        <5>3. 1 \in 1..Len(st.current) /\ Len(r) # 0
          BY <4>1, <5>2, NonEmpty
        <5>4. r # <<>> /\ r[1] = st.current[1]
          BY ONLY <5>2, <5>3
        <5> QED
          BY ONLY <5>1, <5>2, <5>4
      <4> QED
        BY <3>2, <4>2
    <3>6. new.length = Joined(new.current)
      <4>1. w \in Nat /\ st.current \in Seq(Nat)
        BY <1>2, <1>3
      <4>2. Joined(Append(st.current, w)) = Joined(st.current) + 1 + w
        BY ONLY <4>1, JoinedAppend
      <4> QED
        BY <2>1, <2>3, <3>2, <4>1, <4>2
    <3>7. Fits(new.current)
      <4>1. st.length \in Int /\ st.length + (w + 1) <= ChunkChars
        <5>1. st.length \in Int /\ ChunkChars \in Int /\ w \in Nat
          BY <1>2, <1>3, <2>3
        <5> QED
          BY ONLY <2>5, <5>1
      <4> QED
        BY <3>2, <3>5, <3>6, <4>1 DEF Fits
    <3>8. Packed(Append(new.chunks, new.current))
      BY <1>3, <2>2, <3>2, <3>5, <3>7, PackedAppend
    <3> QED
      BY <1>2, <1>4, <1>5, <3>4, <3>5, <3>6, <3>8 DEF PackedUpTo
  <2> QED
    BY <2>4, <2>5
<1> QED
  BY <1>8, <1>9

\* Chunking: the chunks are the words in order, packed greedily.
THEOREM ChunkTextPacks ==
  ASSUME NEW words \in Seq(Nat)
  PROVE  /\ ChunkText(words) \in Seq(Seq(Nat))
         /\ FlattenSeq(ChunkText(words)) = words
         /\ Packed(ChunkText(words))
         /\ words # <<>> => ChunkText(words) # <<>>
<1> DEFINE n == Len(words)
           Loop(f) == f = [i \in 0..n |-> IF i = 0 THEN Unpacked ELSE PackWord(f[i - 1], words[i])]
           step == [c \in PackStates \X Nat |-> PackWord(c[1], c[2])]
<1>1. n \in Nat /\ words \in [1..n -> Nat] /\ \A i \in 1..n : words[i] \in Nat
  OBVIOUS
<1>2. \E f : Loop(f)
  <2>1. step \in Turns(PackStates, Nat) /\ words \in Inputs(n, Nat)
    BY <1>1, PackWordType DEF Turns, Inputs
  <2> HIDE DEF n
  <2>2. PICK f \in [0..n -> PackStates] :
           f[0] = Unpacked /\ \A i \in 1..n : f[i] = step[<<f[i - 1], words[i]>>]
    <3> HIDE DEF step
    <3>1. Unpacked \in PackStates
      BY DEF Unpacked, PackStates
    <3>2. \E f \in [0..n -> PackStates] : IsLoop(f, n, Unpacked, step, words)
      BY <1>1, <2>1, <3>1, LoopExists
    <3> QED
      BY <3>2 DEF IsLoop
  <2>3. ASSUME NEW i \in 0..n, i # 0
        PROVE  f[i] = PackWord(f[i - 1], words[i])
    <3>1. i \in 1..n /\ i - 1 \in 0..n
      BY <1>1, <2>3
    <3>2. f[i - 1] \in PackStates /\ words[i] \in Nat
      BY <1>1, <3>1
    <3> QED
      BY <2>2, <3>1, <3>2
  <2>4. DOMAIN f = 0..n /\ \A i \in 0..n : f[i] = IF i = 0 THEN Unpacked ELSE PackWord(f[i - 1], words[i])
    BY <2>2, <2>3
  <2> QED
    BY <2>4
<1>3. PICK g : g = (CHOOSE f : Loop(f))
  OBVIOUS
<1>4. Loop(g)
  <2> HIDE DEF Loop
  <2> QED
    BY <1>2, <1>3, Zenon
<1>5. DOMAIN g = 0..n /\ \A i \in 0..n : g[i] = IF i = 0 THEN Unpacked ELSE PackWord(g[i - 1], words[i])
  BY <1>4
<1>6. ChunkText(words) = IF g[n].current # <<>> THEN Append(g[n].chunks, g[n].current) ELSE g[n].chunks
  BY <1>3 DEF ChunkText
<1> DEFINE T == {i \in 0..n : PackedUpTo(words, i, g[i])}
<1>7. 0 \in T
  <2>1. g[0] = Unpacked /\ 0 \in 0..n
    BY <1>1, <1>5
  <2>2. Unpacked \in PackStates /\ Unpacked.chunks = <<>> /\ Unpacked.current = <<>>
    BY DEF Unpacked, PackStates
  <2>3. SubSeq(words, 1, 0) = <<>>
    BY SubSeqEmpty
  <2>4. <<>> \o <<>> = <<>>
    OBVIOUS
  <2> QED
    BY <2>1, <2>2, <2>3, <2>4, NothingPacked DEF PackedUpTo
<1>8. ASSUME NEW i \in 0..n, i < n, i \in T
      PROVE  i + 1 \in T
  <2>1. i + 1 \in 0..n /\ i + 1 # 0 /\ (i + 1) - 1 = i /\ i \in Nat
    BY <1>1, <1>8
  <2>2. g[i + 1] = PackWord(g[i], words[i + 1])
    BY <1>5, <2>1
  <2>3. PackedUpTo(words, i, g[i])
    BY <1>8
  <2>4. PackedUpTo(words, i + 1, PackWord(g[i], words[i + 1]))
    BY <1>8, <2>1, <2>3, PackWordKeeps
  <2> QED
    BY <2>1, <2>2, <2>4
<1>9. PackedUpTo(words, n, g[n])
  <2> HIDE DEF T, n
  <2>1. \A i \in 0..n : i \in T
    BY <1>1, <1>7, <1>8, Climb
  <2> QED
    BY <1>1, <2>1 DEF T
<1>10. PICK st : st = g[n]
  OBVIOUS
<1>11. /\ st.chunks \in Seq(Seq(Nat)) /\ st.current \in Seq(Nat)
       /\ FlattenSeq(st.chunks) \o st.current = SubSeq(words, 1, n)
  BY <1>9, <1>10 DEF PackedUpTo, PackStates
<1>12. SubSeq(words, 1, n) = words
  BY SubSeqFull
<1>13. CASE n = 0
  <2>1. st.chunks = <<>> /\ st.current = <<>>
    BY <1>9, <1>10, <1>13 DEF PackedUpTo, Unpacked
  <2>2. ChunkText(words) = <<>> /\ words = <<>>
    BY <1>6, <1>10, <1>13, <2>1
  <2> QED
    BY <2>2, NothingPacked
<1>14. CASE n # 0
  <2>1. st.current # <<>> /\ Packed(Append(st.chunks, st.current))
    BY <1>9, <1>10, <1>14 DEF PackedUpTo
  <2>2. PICK cs : cs = Append(st.chunks, st.current)
    BY Zenon
  <2>3. ChunkText(words) = cs
    BY <1>6, <1>10, <2>1, <2>2
  <2>4. cs \in Seq(Seq(Nat)) /\ Len(cs) = Len(st.chunks) + 1 /\ Len(st.chunks) \in Nat
    BY <1>11, <2>2
  <2>5. FlattenSeq(cs) = words
    <3>1. FlattenSeq(Append(st.chunks, st.current)) = FlattenSeq(st.chunks) \o st.current
      BY <1>11, FlatAppend
    <3> QED
      BY <1>11, <1>12, <2>2, <3>1, Zenon
  <2>6. cs # <<>>
    BY <2>4
  <2> QED
    BY <2>1, <2>2, <2>3, <2>4, <2>5, <2>6
<1> QED
  BY <1>13, <1>14

\* An ascending sequence of n of the numbers up to n.
Ranked(f, n) == \A i, j \in 1..n : i < j => f[i] < f[j]

\* It is the numbers up to n.
LEMMA RankedIsIdentity ==
  ASSUME NEW n \in Nat, NEW f \in [1..n -> 1..n], Ranked(f, n)
  PROVE  \A i \in 1..n : f[i] = i
<1> DEFINE Up == {i \in 0..n : i # 0 => f[i] >= i}
           Down == {i \in 0..n : i < n => f[n - i] <= n - i}
<1>1. \A i \in 1..n : f[i] \in 1..n /\ f[i] \in Nat
  OBVIOUS
<1>2. \A i \in 0..n : i \in Up
  <2>1. 0 \in Up
    OBVIOUS
  <2>2. ASSUME NEW i \in 0..n, i < n, i \in Up
        PROVE  i + 1 \in Up
    <3>1. i + 1 \in 0..n /\ i + 1 \in 1..n /\ f[i + 1] \in 1..n
      BY <1>1, <2>2
    <3>2. CASE i = 0
      BY <3>1, <3>2
    <3>3. CASE i # 0
      <4>1. i \in 1..n /\ i < i + 1 /\ f[i] >= i /\ f[i] \in Nat
        BY <1>1, <2>2, <3>3
      <4>2. f[i] < f[i + 1]
        BY <3>1, <4>1 DEF Ranked
      <4>3. f[i + 1] >= i + 1
        BY <3>1, <4>1, <4>2
      <4> QED
        BY <3>1, <4>3
    <3> QED
      BY <3>2, <3>3
  <2> HIDE DEF Up
  <2> QED
    BY <2>1, <2>2, Climb
<1>3. \A i \in 0..n : i \in Down
  <2>1. 0 \in Down
    <3>1. CASE n = 0
      BY <3>1
    <3>2. CASE n # 0
      <4>1. n \in 1..n /\ n - 0 = n
        BY <3>2
      <4>2. f[n] <= n /\ f[n - 0] = f[n]
        BY <1>1, <4>1
      <4> QED
        BY <4>1, <4>2
    <3> QED
      BY <3>1, <3>2
  <2>2. ASSUME NEW i \in 0..n, i < n, i \in Down
        PROVE  i + 1 \in Down
    <3>1. CASE i + 1 = n
      BY <3>1
    <3>2. CASE i + 1 # n
      <4>1. /\ i + 1 < n /\ i + 1 \in 0..n /\ n - i \in 1..n /\ n - (i + 1) \in 1..n
            /\ n - (i + 1) < n - i /\ f[n - i] <= n - i
        BY <2>2, <3>2
      <4>2. f[n - (i + 1)] < f[n - i]
        BY <4>1 DEF Ranked
      <4>3. f[n - (i + 1)] \in Nat /\ f[n - i] \in Nat
        BY <1>1, <4>1
      <4>4. f[n - (i + 1)] <= n - (i + 1)
        BY <4>1, <4>2, <4>3
      <4> QED
        BY <4>1, <4>4
    <3> QED
      BY <3>1, <3>2
  <2> HIDE DEF Down
  <2> QED
    BY <2>1, <2>2, Climb
<1>4. ASSUME NEW i \in 1..n PROVE f[i] = i
  <2>1. i \in 0..n /\ i # 0 /\ n - i \in 0..n /\ n - i < n /\ n - (n - i) = i
    OBVIOUS
  <2>2. f[i] >= i
    BY <1>2, <2>1
  <2>3. f[i] <= i
    BY <1>3, <2>1
  <2> QED
    BY <1>1, <2>2, <2>3
<1> QED
  BY <1>4

\* What embed returns has a vector for each text; from a backend that numbers its
\* items, in whatever order, or leaves the numbers out, every text gets its own.
THEOREM EmbeddedInOrder ==
  ASSUME NEW texts \in Seq(Seq(Nat)), NEW items \in Replies(texts), NEW vectors \in Embedded(items)
  PROVE  /\ vectors \in Seq(Seq(Nat)) /\ Len(vectors) = Len(texts)
         /\ Numbered(items, texts) => vectors = texts
<1>1. PICK n \in Nat : n = Len(texts) /\ DOMAIN texts = 1..n
  OBVIOUS
<1>2. /\ DOMAIN items = 1..n
      /\ \A i \in 1..n : items[i].index \in 0..n /\ items[i].vector \in Range(texts)
  BY <1>1 DEF Replies
<1>3. Range(texts) \subseteq Seq(Nat)
  BY <1>1 DEF Range
<1>4. PICK p \in [1..n -> 1..n] :
        /\ \A i, j \in 1..n : i < j => Before(items, p[i], p[j])
        /\ vectors = [i \in 1..n |-> items[p[i]].vector]
  BY <1>2 DEF Embedded
<1>5. vectors \in Seq(Seq(Nat)) /\ Len(vectors) = Len(texts)
  <2>1. \A i \in 1..n : items[p[i]].vector \in Seq(Nat)
    BY <1>2, <1>3, <1>4
  <2>2. vectors \in [1..n -> Seq(Nat)]
    BY <1>4, <2>1
  <2>3. vectors \in Seq(Seq(Nat)) /\ Len(vectors) = n
    <3>1. PICK S : S = Seq(Nat)
      OBVIOUS
    <3>2. vectors \in [1..n -> S]
      BY <2>2, <3>1
    <3>3. vectors \in Seq(S) /\ Len(vectors) = n
      BY ONLY <3>2, n \in Nat
    <3> QED
      BY <3>1, <3>3
  <2> QED
    BY <1>1, <2>3
<1>6. ASSUME NEW f \in [1..n -> 1..n], Ranked(f, n), \A i \in 1..n : items[p[i]].vector = texts[f[i]]
      PROVE  vectors = texts
  <2>1. \A i \in 1..n : vectors[i] = texts[i]
    BY <1>1, <1>4, <1>6, RankedIsIdentity
  <2>2. vectors = [i \in 1..n |-> vectors[i]] /\ texts = [i \in 1..n |-> texts[i]]
    BY <1>1, <1>4
  <2> QED
    BY <2>1, <2>2
<1>7. CASE /\ IsInjective([i \in DOMAIN items |-> items[i].index])
           /\ \A i \in DOMAIN items :
                items[i].index \in DOMAIN texts /\ items[i].vector = texts[items[i].index]
  <2>1. PICK f : f = [i \in 1..n |-> items[p[i]].index]
    OBVIOUS
  <2>2. f \in [1..n -> 1..n] /\ \A i \in 1..n : items[p[i]].vector = texts[f[i]]
    BY <1>1, <1>2, <1>4, <1>7, <2>1
  <2>3. ASSUME NEW i \in 1..n, NEW j \in 1..n, i < j PROVE f[i] < f[j]
    <3>1. Before(items, p[i], p[j]) /\ p[i] \in 1..n /\ p[j] \in 1..n
      BY <1>4, <2>3
    <3>2. items[p[i]].index = items[p[j]].index => p[i] = p[j]
      BY <1>2, <1>7, <3>1 DEF IsInjective
    <3>3. items[p[i]].index < items[p[j]].index
      BY <3>1, <3>2 DEF Before
    <3> QED
      BY <2>1, <3>3
  <2> QED
    BY <1>6, <2>2, <2>3 DEF Ranked
<1>8. CASE \A i \in DOMAIN items : items[i].index = 0 /\ items[i].vector = texts[i]
  <2>1. \A i \in 1..n : p[i] \in 1..n /\ items[p[i]].index = 0 /\ items[p[i]].vector = texts[p[i]]
    BY <1>2, <1>4, <1>8
  <2>2. ASSUME NEW i \in 1..n, NEW j \in 1..n, i < j PROVE p[i] < p[j]
    <3>1. Before(items, p[i], p[j])
      BY <1>4, <2>2
    <3>2. items[p[i]].index = 0 /\ items[p[j]].index = 0
      BY <2>1
    <3> QED
      BY <3>1, <3>2 DEF Before
  <2> QED
    BY <1>4, <1>6, <2>1, <2>2 DEF Ranked
<1> QED
  BY <1>5, <1>7, <1>8 DEF Numbered

----------------------------------------------------------------------------
\* The corpus.

Stages == {"free", "embed", "store", "stored", "refused"}
IndexRequests ==
  [stage : Stages, owner : Owners \cup {NoOwner}, text : Seq(Nat), vectors : Seq(Seq(Nat)),
   numbered : BOOLEAN, key : BOOLEAN]

\* The chunks of a document are embedded.
Indexed(ix) ==
  /\ ix.text # <<>> /\ Len(ix.vectors) = Len(ChunkText(ix.text))
  /\ ix.numbered => ix.vectors = ChunkText(ix.text)

RowsFor(d, ix) ==
  {[doc |-> d, pos |-> i, tenant |-> ix.owner.tenant,
    text |-> ChunkText(ix.text)[i], vector |-> ix.vectors[i]] : i \in 1..Len(ix.vectors)}

\* Where a document is and what is in the table of it.
DocTrue(d, ix, cs) ==
  /\ cs # {} => ix.stage \in {"stored", "refused"} /\ cs = RowsFor(d, ix) /\ Indexed(ix)
  /\ ix.stage = "embed" => ix.text # <<>>
  /\ ix.stage = "store" => Indexed(ix)
  /\ ix.stage = "stored" => cs # {}

DocsTrue == \A d \in Docs : DocTrue(d, index[d], ChunksOf(d))
NoticesTrue == \A n \in notices : \E d \in Docs : n = <<index[d].owner, d>> /\ index[d].stage = "stored"

RetTypeOK == index \in [Docs -> IndexRequests] /\ \A c \in chunks : c.doc \in Docs
RetInv == RetTypeOK /\ DocsTrue /\ NoticesTrue

\* An index request goes on, and its rows are stored or not.
LEMMA DocMoves ==
  ASSUME RetInv, NEW d \in Docs, NEW ix \in IndexRequests, index' = [index EXCEPT ![d] = ix],
         NEW rows, rows \subseteq RowsFor(d, ix), chunks' = chunks \cup rows,
         DocTrue(d, ix, ChunksOf(d) \cup rows),
         index[d].stage # "stored",
         notices' = notices
           \/ (ix.stage = "stored" /\ notices' = notices \cup {<<ix.owner, d>>})
  PROVE  RetInv'
<1>1. /\ index \in [Docs -> IndexRequests] /\ \A c \in chunks : c.doc \in Docs
      /\ DocsTrue /\ NoticesTrue
  BY DEF RetInv, RetTypeOK
<1>2. index' \in [Docs -> IndexRequests] /\ index'[d] = ix /\ \A e \in Docs \ {d} : index'[e] = index[e]
  BY <1>1
<1>3. \A c \in rows : c.doc = d
  BY DEF RowsFor
<1>4. ChunksOf(d)' = ChunksOf(d) \cup rows /\ \A e \in Docs \ {d} : ChunksOf(e)' = ChunksOf(e)
  BY <1>3 DEF ChunksOf
<1>5. RetTypeOK'
  BY <1>1, <1>2, <1>3 DEF RetTypeOK
<1>6. DocsTrue'
  <2>1. SUFFICES ASSUME NEW e \in Docs PROVE DocTrue(e, index'[e], ChunksOf(e)')
    BY DEF DocsTrue
  <2>2. CASE e = d
    BY <1>2, <1>4, <2>2
  <2>3. CASE e # d
    BY <1>1, <1>2, <1>4, <2>3 DEF DocsTrue
  <2> QED
    BY <2>2, <2>3
<1>7. NoticesTrue'
  <2>1. SUFFICES ASSUME NEW n \in notices'
                 PROVE  \E e \in Docs : n = <<index'[e].owner, e>> /\ index'[e].stage = "stored"
    BY DEF NoticesTrue
  <2>2. CASE n \in notices
    <3>1. PICK e \in Docs : n = <<index[e].owner, e>> /\ index[e].stage = "stored"
      BY <1>1, <2>2 DEF NoticesTrue
    <3>2. e # d
      BY <3>1
    <3> QED
      BY <1>2, <3>1, <3>2
  <2>3. CASE n \notin notices
    <3>1. n = <<ix.owner, d>> /\ ix.stage = "stored"
      BY <2>1, <2>3
    <3> QED
      BY <1>2, <3>1
  <2> QED
    BY <2>2, <2>3
<1> QED
  BY <1>5, <1>6, <1>7 DEF RetInv

\* A document's rows are those of its embedded chunks; there is one at least.
LEMMA RowsExist ==
  ASSUME NEW d, NEW ix \in IndexRequests, Indexed(ix)
  PROVE  RowsFor(d, ix) # {}
<1>1. ix.text \in Seq(Nat) /\ ix.text # <<>> /\ Len(ix.vectors) = Len(ChunkText(ix.text))
  BY DEF Indexed, IndexRequests
<1>2. ChunkText(ix.text) \in Seq(Seq(Nat)) /\ ChunkText(ix.text) # <<>>
  BY <1>1, ChunkTextPacks
<1>3. 1 \in 1..Len(ix.vectors)
  BY <1>1, <1>2
<1> QED
  BY <1>3 DEF RowsFor

\* At first there is no document.
LEMMA RetInitial == RetInit => RetInv
<1>1. SUFFICES ASSUME RetInit PROVE RetInv
  OBVIOUS
<1>2. NoIndex \in IndexRequests /\ NoIndex.stage = "free"
  BY DEF NoIndex, IndexRequests, Stages
<1>3. index \in [Docs -> IndexRequests] /\ (\A d \in Docs : index[d] = NoIndex) /\ chunks = {} /\ notices = {}
  BY <1>1, <1>2 DEF RetInit
<1>4. \A d \in Docs : ChunksOf(d) = {}
  BY <1>3 DEF ChunksOf
<1> QED
  BY <1>2, <1>3, <1>4 DEF RetInv, RetTypeOK, DocsTrue, DocTrue, NoticesTrue

\* Owners of documents stay.
OwnersStay == \A d \in Docs : index[d].stage # "free" =>
                /\ index'[d].stage # "free" /\ index'[d].owner = index[d].owner

\* Every step of an index request keeps the corpus true and the owners.
LEMMA RetKeeps ==
  ASSUME RetInv, RetNext
  PROVE  RetInv' /\ OwnersStay
<1>1. PICK d \in Docs :
        \/ \E o \in Owners, text \in Texts : BeginIndex(d, o, text, FALSE) \/ Upload(d, o, text)
        \/ EmbedFails(d) \/ EmbedAnswers(d) \/ StoreDocument(d) \/ StoreFails(d)
  BY DEF RetNext
<1>2. index \in [Docs -> IndexRequests] /\ DocTrue(d, index[d], ChunksOf(d))
  BY DEF RetInv, RetTypeOK, DocsTrue
<1>3. PICK old : old = index[d]
  OBVIOUS
<1>4. /\ old \in IndexRequests /\ old.stage \in Stages /\ old.owner \in Owners \cup {NoOwner}
      /\ old.text \in Seq(Nat) /\ old.vectors \in Seq(Seq(Nat)) /\ old.key \in BOOLEAN
      /\ DocTrue(d, old, ChunksOf(d))
  BY <1>2, <1>3 DEF IndexRequests
<1>5. ASSUME NEW ix, index' = [index EXCEPT ![d] = ix], old.stage # "free" => ix.stage # "free" /\ ix.owner = old.owner
      PROVE  OwnersStay
  BY <1>2, <1>3, <1>5 DEF OwnersStay
<1>6. ASSUME NEW o \in Owners, NEW text \in Texts, NEW key \in BOOLEAN, BeginIndex(d, o, text, key)
      PROVE  RetInv' /\ OwnersStay
  <2>1. PICK ix : ix = [stage |-> IF Len(ChunkText(text)) > MaxChunks THEN "refused" ELSE "embed",
                        owner |-> o, text |-> text, vectors |-> <<>>, numbered |-> FALSE, key |-> key]
    OBVIOUS
  <2>2. ix.stage \in {"refused", "embed"} /\ ix.text = text /\ ix.vectors = <<>> /\ text # <<>>
    BY <1>6, <2>1 DEF BeginIndex
  <2>3. ix \in IndexRequests
    <3>1. <<>> \in Seq(Seq(Nat)) /\ text \in Seq(Nat)
      BY ChunkAssumption
    <3> QED
      BY <2>1, <3>1 DEF IndexRequests, Stages
  <2>4. old.stage = "free" /\ index' = [index EXCEPT ![d] = ix] /\ chunks' = chunks /\ notices' = notices
    BY <1>3, <1>6, <2>1 DEF BeginIndex
  <2>5. ChunksOf(d) = {}
    BY <1>4, <2>4 DEF DocTrue
  <2>6. DocTrue(d, ix, ChunksOf(d) \cup {})
    BY <2>2, <2>5 DEF DocTrue
  <2>7. RetInv'
    <3>1. chunks' = chunks \cup {} /\ {} \subseteq RowsFor(d, ix)
      BY <2>4
    <3> QED
      BY <3>1, <1>3, <2>3, <2>4, <2>6, DocMoves
  <2> QED
    BY <1>5, <2>4, <2>7
<1>7. CASE EmbedFails(d)
  <2>1. PICK ix : ix = [old EXCEPT !.stage = "refused"]
    OBVIOUS
  <2>2. ix \in IndexRequests /\ ix.stage = "refused" /\ ix.owner = old.owner
    BY <1>4, <2>1 DEF IndexRequests, Stages
  <2>3. old.stage = "embed" /\ index' = [index EXCEPT ![d] = ix] /\ chunks' = chunks /\ notices' = notices
    BY <1>2, <1>3, <1>7, <2>1 DEF EmbedFails
  <2>4. ChunksOf(d) = {}
    BY <1>4, <2>3 DEF DocTrue
  <2>5. DocTrue(d, ix, ChunksOf(d) \cup {})
    BY <2>2, <2>4 DEF DocTrue
  <2>6. RetInv'
    <3>1. chunks' = chunks \cup {} /\ {} \subseteq RowsFor(d, ix)
      BY <2>3
    <3> QED
      BY <3>1, <1>3, <2>2, <2>3, <2>5, DocMoves
  <2> QED
    BY <1>5, <2>2, <2>3, <2>6
<1>8. CASE EmbedAnswers(d)
  <2>1. PICK texts : texts = ChunkText(old.text)
    OBVIOUS
  <2>2. PICK items \in Replies(texts) :
          \E vectors \in Embedded(items) :
            index' = [index EXCEPT ![d].vectors = vectors, ![d].numbered = Numbered(items, texts),
                                   ![d].stage = "store"]
    BY <1>3, <1>8, <2>1 DEF EmbedAnswers
  <2>3. PICK numbered \in BOOLEAN : numbered = Numbered(items, texts)
    BY DEF Numbered
  <2>4. PICK vectors \in Embedded(items) :
           index' = [index EXCEPT ![d].vectors = vectors, ![d].numbered = numbered, ![d].stage = "store"]
    BY <2>2, <2>3
  <2>5. /\ texts \in Seq(Seq(Nat)) /\ vectors \in Seq(Seq(Nat)) /\ Len(vectors) = Len(texts)
        /\ numbered => vectors = texts
    <3>1. texts \in Seq(Seq(Nat))
      BY <1>4, <2>1, ChunkTextPacks
    <3> QED
      BY <2>2, <2>3, <3>1, EmbeddedInOrder
  <2>6. PICK ix : ix = [old EXCEPT !.vectors = vectors, !.numbered = numbered, !.stage = "store"]
    OBVIOUS
  <2>7. /\ ix.stage = "store" /\ ix.owner = old.owner /\ ix.text = old.text /\ ix.key = old.key
        /\ ix.vectors = vectors /\ ix.numbered = numbered
    BY <1>4, <2>6, Zenon DEF IndexRequests
  <2>8. ix \in IndexRequests
    <3>1. ix = [stage |-> ix.stage, owner |-> ix.owner, text |-> ix.text, vectors |-> ix.vectors,
                numbered |-> ix.numbered, key |-> ix.key]
      BY <1>4, <2>6 DEF IndexRequests
    <3> QED
      BY <1>4, <2>2, <2>5, <2>7, <3>1 DEF IndexRequests, Stages
  <2>9. old.stage = "embed" /\ index' = [index EXCEPT ![d] = ix] /\ chunks' = chunks /\ notices' = notices
    <3>1. index' = [index EXCEPT ![d] = ix]
      BY <1>2, <1>3, <2>4, <2>6, Zenon
    <3> QED
      BY <1>3, <1>8, <3>1 DEF EmbedAnswers
  <2>10. ChunksOf(d) = {} /\ old.text # <<>>
    BY <1>4, <2>9 DEF DocTrue
  <2>11. DocTrue(d, ix, ChunksOf(d) \cup {})
    BY <2>1, <2>5, <2>7, <2>10 DEF DocTrue, Indexed
  <2>12. RetInv'
    <3>1. chunks' = chunks \cup {} /\ {} \subseteq RowsFor(d, ix)
      BY <2>9
    <3> QED
      BY <3>1, <1>3, <2>8, <2>9, <2>11, DocMoves
  <2> QED
    BY <1>5, <2>7, <2>9, <2>12
<1>9. CASE StoreDocument(d)
  <2>1. PICK ix : ix = [old EXCEPT !.stage = "stored"]
    OBVIOUS
  <2>2. /\ ix \in IndexRequests /\ ix.stage = "stored" /\ ix.owner = old.owner /\ ix.text = old.text
        /\ ix.vectors = old.vectors /\ ix.numbered = old.numbered
    BY <1>4, <2>1 DEF IndexRequests, Stages
  <2>3. RowsFor(d, ix) = ChunkRows(d)
    BY <1>3, <2>2 DEF RowsFor, ChunkRows
  <2>4. /\ old.stage = "store" /\ index' = [index EXCEPT ![d] = ix] /\ chunks' = chunks \cup RowsFor(d, ix)
        /\ notices' = notices \/ notices' = notices \cup {<<ix.owner, d>>}
    BY <1>2, <1>3, <1>9, <2>1, <2>2, <2>3 DEF StoreDocument
  <2>5. ChunksOf(d) = {} /\ Indexed(ix)
    BY <1>4, <2>2, <2>4 DEF DocTrue, Indexed
  <2>6. DocTrue(d, ix, ChunksOf(d) \cup RowsFor(d, ix))
    BY <2>2, <2>5, RowsExist DEF DocTrue
  <2>7. RetInv'
    BY <1>3, <2>2, <2>4, <2>6, DocMoves
  <2> QED
    BY <1>5, <2>2, <2>4, <2>7
<1>10. CASE StoreFails(d)
  <2>1. PICK ix : ix = [old EXCEPT !.stage = "refused"]
    OBVIOUS
  <2>2. /\ ix \in IndexRequests /\ ix.stage = "refused" /\ ix.owner = old.owner /\ ix.text = old.text
        /\ ix.vectors = old.vectors /\ ix.numbered = old.numbered
    BY <1>4, <2>1 DEF IndexRequests, Stages
  <2>3. RowsFor(d, ix) = ChunkRows(d)
    BY <1>3, <2>2 DEF RowsFor, ChunkRows
  <2>4. PICK rows \in {{}, RowsFor(d, ix)} : chunks' = chunks \cup rows
    BY <1>10, <2>3 DEF StoreFails
  <2>5. old.stage = "store" /\ index' = [index EXCEPT ![d] = ix] /\ notices' = notices
    BY <1>2, <1>3, <1>10, <2>1 DEF StoreFails
  <2>6. ChunksOf(d) = {} /\ Indexed(ix)
    BY <1>4, <2>2, <2>5 DEF DocTrue, Indexed
  <2>7. DocTrue(d, ix, ChunksOf(d) \cup rows)
    BY <2>2, <2>4, <2>6 DEF DocTrue
  <2>8. RetInv'
    BY <1>3, <2>2, <2>4, <2>5, <2>7, DocMoves
  <2> QED
    BY <1>5, <2>2, <2>5, <2>8
<1> QED
  BY <1>1, <1>6, <1>7, <1>8, <1>9, <1>10 DEF Upload

\* The rows of a document, put in order, are the chunks of its text.
LEMMA RowsAreTheText ==
  ASSUME RetInv, NEW d \in Docs, ChunksOf(d) # {}, NEW cs, cs = ChunkText(index[d].text)
  PROVE  /\ cs \in Seq(Seq(Nat)) /\ FlattenSeq(cs) = index[d].text /\ Packed(cs)
         /\ Cardinality(ChunksOf(d)) = Len(cs)
         /\ \A i \in 1..Len(cs) : ChunkAt(d, i).text = cs[i]
<1> DEFINE ix == index[d]
           n == Len(cs)
           Row(i) == [doc |-> d, pos |-> i, tenant |-> ix.owner.tenant, text |-> cs[i], vector |-> ix.vectors[i]]
<1>1. ix.text \in Seq(Nat) /\ ChunksOf(d) = RowsFor(d, ix) /\ Len(ix.vectors) = Len(cs)
  BY DEF RetInv, RetTypeOK, IndexRequests, DocsTrue, DocTrue, Indexed
<1>2. cs \in Seq(Seq(Nat)) /\ FlattenSeq(cs) = ix.text /\ Packed(cs) /\ n \in Nat
  BY <1>1, ChunkTextPacks
<1>3. ChunksOf(d) = {Row(i) : i \in 1..n}
  BY <1>1 DEF RowsFor
<1>4. Cardinality(ChunksOf(d)) = n
  <2>1. PICK row : row = [i \in 1..n |-> Row(i)]
    OBVIOUS
  <2>2. row \in [1..n -> ChunksOf(d)] /\ \A i \in 1..n : row[i] = Row(i)
    BY <1>3, <2>1
  <2>3. row \in Injection(1..n, ChunksOf(d))
    <3>1. \A i, j \in 1..n : Row(i) = Row(j) => i = j
      OBVIOUS
    <3> HIDE DEF Row, n
    <3> QED
      BY <2>2, <3>1 DEF Injection, IsInjective
  <2>4. row \in Surjection(1..n, ChunksOf(d))
    <3> HIDE DEF Row, n
    <3> QED
      BY <1>3, <2>2 DEF Surjection
  <2> HIDE DEF n
  <2> QED
    BY <1>2, <2>3, <2>4, FS_CountingElements DEF ExistsBijection, Bijection
<1>5. ASSUME NEW i \in 1..n PROVE ChunkAt(d, i).text = cs[i]
  <2>1. Row(i) \in ChunksOf(d) /\ Row(i).pos = i
    BY <1>3
  <2>2. PICK c : c = ChunkAt(d, i)
    OBVIOUS
  <2>3. c \in ChunksOf(d) /\ c.pos = i
    BY <2>1, <2>2 DEF ChunkAt
  <2>4. PICK j \in 1..n : c = Row(j)
    BY <1>3, <2>3
  <2>5. j = i
    BY <2>3, <2>4
  <2> QED
    BY <2>2, <2>4, <2>5
<1> QED
  BY <1>2, <1>4, <1>5

\* The invariant says what the corpus promises.
LEMMA CorpusFollows == RetInv => CorpusIsTheText
<1>1. SUFFICES ASSUME RetInv PROVE CorpusIsTheText
  OBVIOUS
<1>2. ASSUME NEW d \in Docs, ChunksOf(d) # {},
             NEW n, n = Cardinality(ChunksOf(d)), NEW parts, parts = [i \in 1..n |-> ChunkAt(d, i).text]
      PROVE  /\ FlattenSeq(parts) = index[d].text
             /\ \A i \in 1..n : Len(parts[i]) > 1 => Joined(parts[i]) <= ChunkChars
             /\ \A i \in 1..(n - 1) : Joined(parts[i]) + 1 + parts[i + 1][1] > ChunkChars
  <2>1. PICK cs : cs = ChunkText(index[d].text)
    OBVIOUS
  <2>2. /\ cs \in Seq(Seq(Nat)) /\ FlattenSeq(cs) = index[d].text /\ Packed(cs)
        /\ n = Len(cs) /\ \A i \in 1..Len(cs) : ChunkAt(d, i).text = cs[i]
    BY <1>1, <1>2, <2>1, RowsAreTheText
  <2>3. parts = cs /\ n \in Nat
    <3>1. n \in Nat /\ cs = [i \in 1..n |-> cs[i]]
      BY <2>2
    <3> QED
      BY <1>2, <2>2, <3>1
  <2>4. \A i \in 1..n : Fits(cs[i])
    BY <2>2 DEF Packed
  <2>5. ASSUME NEW i \in 1..(n - 1) PROVE Joined(cs[i]) + 1 + cs[i + 1][1] > ChunkChars
    <3>1. i \in 1..n /\ i < n
      BY <2>3
    <3> QED
      BY <2>2, <3>1 DEF Packed
  <2> QED
    BY <2>2, <2>3, <2>4, <2>5 DEF Fits
<1>3. ChunksAreTheText
  BY <1>2 DEF ChunksAreTheText
<1>4. ASSUME NEW c \in chunks
      PROVE  c.doc \in Docs /\ c \in RowsFor(c.doc, index[c.doc]) /\ Indexed(index[c.doc])
  <2>1. c.doc \in Docs /\ c \in ChunksOf(c.doc)
    BY <1>1 DEF RetInv, RetTypeOK, ChunksOf
  <2> QED
    BY <1>1, <2>1 DEF RetInv, DocsTrue, DocTrue
<1>5. VectorsMatch
  <2>1. SUFFICES ASSUME NEW c \in chunks, index[c.doc].numbered PROVE c.vector = c.text
    BY DEF VectorsMatch
  <2> QED
    BY <1>4, <2>1 DEF RowsFor, Indexed
<1>6. NoticesResolve
  <2>1. SUFFICES ASSUME NEW n \in notices
                 PROVE  \E c \in chunks : c.doc = n[2] /\ c.tenant = n[1].tenant
    BY DEF NoticesResolve
  <2>2. PICK d \in Docs : n = <<index[d].owner, d>> /\ index[d].stage = "stored"
    BY <1>1 DEF RetInv, NoticesTrue
  <2>3. ChunksOf(d) # {} /\ ChunksOf(d) = RowsFor(d, index[d])
    BY <1>1, <2>2 DEF RetInv, DocsTrue, DocTrue
  <2>4. PICK c \in chunks : c \in RowsFor(d, index[d])
    BY <2>3 DEF ChunksOf
  <2>5. c.doc = d /\ c.tenant = index[d].owner.tenant
    BY <2>4 DEF RowsFor
  <2> QED
    BY <2>2, <2>4, <2>5
<1> QED
  BY <1>3, <1>5, <1>6 DEF CorpusIsTheText

----------------------------------------------------------------------------
\* A run's passages.

\* What the run may read: chunks of its caller's tenant, and the web if it may.
Own == {p \in Docs \X Nat : index[p[1]].stage # "free" /\ index[p[1]].owner.tenant = caller.tenant}
         \cup {u \in Urls : web}

ShownInv ==
  /\ passages \in Shown(Own)
  /\ hits \in Shown(Urls)
  /\ pc = "request" => passages = <<>>
  /\ pc = "web" => web

\* What a query answers is the caller's own.
LEMMA AnswersAreOwn ==
  ASSUME RetInv, NEW k \in Nat, NEW s \in QueryAnswers(caller.tenant, k)
  PROVE  s \in Seq(Own)
<1>1. PICK m \in 0..k : s \in [1..m -> Corpus(caller.tenant)]
  BY DEF QueryAnswers, SeqOf
<1>2. Corpus(caller.tenant) \subseteq Own
  <2>1. SUFFICES ASSUME NEW c \in chunks, c.tenant = caller.tenant PROVE <<c.doc, c.pos>> \in Own
    BY DEF Corpus
  <2>2. c.doc \in Docs /\ c \in ChunksOf(c.doc)
    BY DEF RetInv, RetTypeOK, ChunksOf
  <2>3. PICK ix : ix = index[c.doc]
    OBVIOUS
  <2>4. ix \in IndexRequests /\ c \in RowsFor(c.doc, ix) /\ ix.stage \in {"stored", "refused"}
    BY <2>2, <2>3 DEF RetInv, RetTypeOK, DocsTrue, DocTrue
  <2>5. ix.vectors \in Seq(Seq(Nat))
    BY <2>4 DEF IndexRequests
  <2>6. PICK i \in 1..Len(ix.vectors) : c.pos = i /\ c.tenant = ix.owner.tenant
    BY <2>4 DEF RowsFor
  <2>7. c.pos \in Nat
    BY <2>5, <2>6
  <2> QED
    BY <2>1, <2>2, <2>3, <2>4, <2>6, <2>7 DEF Own
<1>3. s \in [1..m -> Own] /\ m \in Nat
  BY <1>1, <1>2
<1> QED
  BY <1>3

\* What may be shown may be shown where more may.
LEMMA ShownGrows ==
  ASSUME NEW X, NEW Y, X \subseteq Y, NEW q \in Shown(X)
  PROVE  q \in Shown(Y)
<1>1. q \in [1..Len(q) -> X] /\ Len(q) \in Nat
  BY DEF Shown
<1>2. q \in [1..Len(q) -> Y]
  BY <1>1
<1>3. q \in Seq(Y)
  BY <1>1, <1>2
<1> QED
  BY <1>3 DEF Shown

\* At first nothing is shown.
LEMMA ShownInitial == Init => ShownInv
<1>1. SUFFICES ASSUME Init PROVE ShownInv
  OBVIOUS
<1>2. \A X : <<>> \in Shown(X)
  <2>1. TAKE X
  <2>2. <<>> \in Seq(X) /\ Len(<<>>) = 0 /\ DOMAIN <<>> = {}
    OBVIOUS
  <2> QED
    BY <2>2, ResearchAssumption DEF Shown, IsInjective
<1> QED
  BY <1>1, <1>2 DEF Init, ShownInv

\* What a run may read stays readable.
LEMMA OwnGrows ==
  ASSUME OwnersStay \/ UNCHANGED index, caller' = caller, web => web'
  PROVE  Own \subseteq Own'
  BY DEF Own, OwnersStay

\* Only the caller's passages come in, each once.
LEMMA ShownKeeps ==
  ASSUME RetInv, ShownInv, [Next]_vars
  PROVE  ShownInv'
<1>1. /\ passages \in Shown(Own) /\ hits \in Shown(Urls)
      /\ pc = "request" => passages = <<>>
      /\ pc = "web" => web
  BY DEF ShownInv
<1>2. CASE UNCHANGED vars \/ Elsewhere
  <2>1. UNCHANGED runVars
    BY <1>2 DEF vars, Elsewhere
  <2>2. OwnersStay \/ UNCHANGED index
    BY <1>2, RetKeeps DEF vars, retVars, Elsewhere
  <2>3. Own \subseteq Own'
    BY <2>1, <2>2, OwnGrows DEF runVars
  <2>4. passages' \in Shown(Own')
    BY <1>1, <2>1, <2>3, ShownGrows DEF runVars
  <2> QED
    BY <1>1, <2>1, <2>4 DEF runVars, ShownInv
<1>3. CASE Refuse \/ Deny \/ (\E d \in 0..Max(Range(CallLimit)) : Raises(d)) \/ (\E d \in 0..CallTime : Synthesize(d))
  <2>1. UNCHANGED <<index, caller, web, passages, hits>> /\ pc' = "done"
    BY <1>3 DEF Refuse, Deny, Raises, Fail, Synthesize, retVars
  <2>2. Own' = Own
    BY <2>1 DEF Own
  <2> QED
    BY <1>1, <2>1, <2>2 DEF ShownInv
<1>4. CASE \E asked \in BOOLEAN : Start(asked)
  <2>1. UNCHANGED <<passages, hits>> /\ pc = "request" /\ pc' = "plan"
    BY <1>4 DEF Start
  <2>2. passages' \in Shown(Own')
    <3>1. <<>> \in Seq(Own')
      OBVIOUS
    <3> QED
      BY <1>1, <2>1, <3>1 DEF Shown
  <2> QED
    BY <1>1, <2>1, <2>2 DEF ShownInv
<1>5. CASE \E d \in 0..CallTime, n \in 1..(IF MaxSubqueries < 1 THEN 1 ELSE MaxSubqueries) : Plan(d, n)
  <2>1. UNCHANGED <<index, caller, web, passages, hits>> /\ pc' \in {"done", "retrieve"}
    BY <1>5 DEF Plan, Fail, retVars
  <2>2. Own' = Own
    BY <2>1 DEF Own
  <2> QED
    BY <1>1, <2>1, <2>2 DEF ShownInv
<1>6. ASSUME NEW d, NEW s \in QueryAnswers(caller.tenant, TopK), Retrieve(d, s)
      PROVE  ShownInv'
  <2>1. UNCHANGED <<index, caller, web, hits>> /\ passages' = AddNew(passages, s) /\ pc = "retrieve"
    BY <1>6 DEF Retrieve, retVars
  <2>2. pc' \in {"done", "retrieve", "synthesize"} \/ (pc' = "web" /\ web)
    BY <1>6 DEF Retrieve, NextPhase, Fail
  <2>3. Own' = Own
    BY <2>1 DEF Own
  <2>4. s \in Seq(Own)
    BY AnswersAreOwn, ResearchAssumption
  <2>5. passages' \in Shown(Own)
    BY <1>1, <2>1, <2>4, AddNewShown
  <2> QED
    BY <1>1, <2>1, <2>2, <2>3, <2>5 DEF ShownInv
<1>7. ASSUME NEW d, NEW s \in SearchAnswers, SearchWeb(d, s)
      PROVE  ShownInv'
  <2>1. UNCHANGED <<index, caller, web>> /\ pc = "web" /\ web /\ hits' = AddNew(hits, s)
    BY <1>1, <1>7 DEF SearchWeb, retVars
  <2>2. passages' = passages \/ passages' = AddNew(passages, hits')
    BY <1>7 DEF SearchWeb, Merge
  <2>3. pc' \in {"done", "web", "synthesize"}
    BY <1>7, <2>1 DEF SearchWeb, NextPhase, Fail
  <2>4. Own' = Own
    BY <2>1 DEF Own
  <2>5. s \in Seq(Urls)
    <3>1. PICK m \in 0..WebTopK : s \in [1..m -> Urls]
      BY DEF SearchAnswers, SeqOf
    <3> QED
      BY <3>1, ResearchAssumption
  <2>6. hits' \in Shown(Urls)
    BY <1>1, <2>1, <2>5, AddNewShown
  <2>7. hits' \in Shown(Own)
    <3>1. Urls \subseteq Own
      BY <2>1 DEF Own
    <3> QED
      BY <2>6, <3>1, ShownGrows
  <2>8. passages' \in Shown(Own)
    <3>1. hits' \in Seq(Own)
      BY <2>7 DEF Shown
    <3> QED
      BY <1>1, <2>2, <3>1, AddNewShown
  <2> QED
    BY <2>1, <2>3, <2>4, <2>6, <2>8 DEF ShownInv
<1>8. CASE Handler
  BY <1>3, <1>4, <1>5, <1>6, <1>7, <1>8 DEF Handler
<1> QED
  BY <1>2, <1>8 DEF Next

\* Chunks have no address, so a passage is one or the other.
LEMMA OwnFollows == ShownInv => OwnSourcesOnly
<1>1. SUFFICES ASSUME ShownInv PROVE OwnSourcesOnly
  OBVIOUS
<1>2. passages \in Seq(Own) /\ IsInjective(passages) /\ Len(passages) <= MaxPassages
  BY <1>1 DEF ShownInv, Shown
<1>3. ASSUME NEW i \in DOMAIN passages
      PROVE  \/ passages[i] \in Urls /\ web
             \/ passages[i] \notin Urls /\ index[passages[i][1]].owner.tenant = caller.tenant
  <2>1. passages[i] \in Own
    BY <1>2
  <2> QED
    BY <2>1, ResearchAssumption DEF Own
<1> QED
  BY <1>2, <1>3 DEF OwnSourcesOnly

----------------------------------------------------------------------------
\* The clock.

\* The larger of two numbers.
LEMMA LargerOfTwo ==
  ASSUME NEW a \in Int, NEW b \in Int
  PROVE  Max({a, b}) \in {a, b} /\ Max({a, b}) >= a /\ Max({a, b}) >= b
<1>1. \E x \in {a, b} : \A y \in {a, b} : x >= y
  BY a >= b \/ b >= a
<1> QED
  BY <1>1 DEF Max

\* The largest of three.
LEMMA LargestOfThree ==
  ASSUME NEW a \in Int, NEW b \in Int, NEW c \in Int
  PROVE  Max({a, b, c}) \in {a, b, c} /\ Max({a, b, c}) >= a /\ Max({a, b, c}) >= b /\ Max({a, b, c}) >= c
<1>1. \E x \in {a, b, c} : \A y \in {a, b, c} : x >= y
  BY (a >= b /\ a >= c) \/ (b >= a /\ b >= c) \/ (c >= a /\ c >= b)
<1> QED
  BY <1>1 DEF Max

\* More calls take longer.
LEMMA MoreCalls ==
  ASSUME NEW k \in Nat, NEW n \in Nat, k <= n, NEW q \in Nat
  PROVE  k * q \in Nat /\ n * q \in Nat /\ k * q <= n * q /\ (k - 1) * q + q = k * q
  OBVIOUS

\* The queries of a plan, the time until the wall clock.
MaxQueries == IF MaxSubqueries < 1 THEN 1 ELSE MaxSubqueries
Patience == Max({WallClock, 0})

\* What the bounds of a run are, and that one phase keeps to the longest.
LEMMA Bounds ==
  /\ MaxQueries \in Nat /\ Patience \in Nat /\ Patience >= WallClock /\ LongestPhase \in Nat
  /\ CallTime \in Nat /\ QueryTime \in Nat /\ WebTime \in Nat
  /\ LongestPhase >= CallTime /\ LongestPhase >= MaxQueries * QueryTime /\ LongestPhase >= MaxQueries * WebTime
<1>1. MaxQueries \in Nat /\ WallClock \in Int /\ CallTime \in Nat /\ QueryTime \in Nat /\ WebTime \in Nat
  BY ResearchAssumption DEF MaxQueries
<1>2. Patience \in {WallClock, 0} /\ Patience >= WallClock /\ Patience >= 0
  BY <1>1, LargerOfTwo DEF Patience
<1>3. MaxQueries * QueryTime \in Nat /\ MaxQueries * WebTime \in Nat
  BY <1>1, MoreCalls
<1>4. LongestPhase = Max({CallTime, MaxQueries * QueryTime, MaxQueries * WebTime})
  BY DEF LongestPhase, MaxQueries
<1>5. PICK a, b : a = MaxQueries * QueryTime /\ b = MaxQueries * WebTime
  OBVIOUS
<1>6. a \in Nat /\ b \in Nat /\ LongestPhase = Max({CallTime, a, b})
  BY <1>3, <1>4, <1>5
<1>7. /\ LongestPhase \in {CallTime, a, b}
      /\ LongestPhase >= CallTime /\ LongestPhase >= a /\ LongestPhase >= b
  BY <1>1, <1>6, LargestOfThree
<1> QED
  BY <1>1, <1>2, <1>5, <1>6, <1>7

\* How long a run may have taken when n calls of q of its phase are over.
Spent(n, q) == elapsed <= Patience + n * q

ClockInv ==
  /\ elapsed \in Nat /\ queries \in Nat /\ next \in Nat \ {0}
  /\ pc \in {"request", "plan", "retrieve", "web", "synthesize", "done"}
  /\ pc \in {"request", "plan"} => elapsed = 0
  /\ pc \in {"retrieve", "web"} => next <= queries /\ queries <= MaxQueries
  /\ pc = "retrieve" => Spent(next - 1, QueryTime)
  /\ pc = "web" => Spent(next - 1, WebTime)
  /\ pc = "synthesize" => elapsed <= Patience
  /\ pc = "done" => elapsed <= Patience + LongestPhase
  /\ outcome.status = "completed" => pc = "done" /\ elapsed <= Patience + CallTime

\* After a call of a phase: within the phase, or in the next one with the clock
\* looked at.
LEMMA PhaseTime ==
  ASSUME ClockInv, pc \in {"retrieve", "web"}, NEW q \in Nat, NEW d \in 0..q, Spent(next - 1, q),
         LongestPhase >= MaxQueries * q,
         elapsed' = elapsed + d, queries' = queries,
         NEW full, NEW phase \in {"web", "synthesize"}, NextPhase(full, phase)
  PROVE  /\ elapsed' \in Nat /\ next' \in Nat \ {0}
         /\ \/ pc' = pc /\ next' <= queries /\ Spent(next - 1, q)' /\ outcome' = outcome
            \/ pc' = phase /\ next' = 1 /\ elapsed' <= Patience /\ outcome' = outcome
            \/ pc' = "done" /\ elapsed' <= Patience + LongestPhase /\ outcome'.status = "failed"
<1>1. /\ elapsed \in Nat /\ queries \in Nat /\ next \in Nat \ {0} /\ next <= queries /\ queries <= MaxQueries
      /\ elapsed <= Patience + (next - 1) * q
      /\ d \in Nat /\ d <= q
  BY DEF ClockInv, Spent
<1>2. /\ next * q \in Nat /\ (next - 1) * q + q = next * q /\ next * q <= MaxQueries * q
      /\ (next - 1) * q \in Nat /\ MaxQueries * q \in Nat
  BY <1>1, Bounds, MoreCalls
<1>3. elapsed' \in Nat /\ elapsed' <= Patience + next * q /\ elapsed' <= Patience + LongestPhase
  BY <1>1, <1>2, Bounds
<1>4. CASE next < queries /\ ~full
  <2>1. pc' = pc /\ next' = next + 1 /\ outcome' = outcome
    BY <1>4 DEF NextPhase
  <2>2. next' - 1 = next /\ next' <= queries /\ next' \in Nat \ {0}
    BY <1>1, <1>4, <2>1
  <2> QED
    BY <1>3, <2>1, <2>2 DEF Spent
<1>5. CASE ~(next < queries /\ ~full)
  <2>1. next' = 1
    BY <1>5 DEF NextPhase
  <2>2. CASE OverBudget
    <3>1. pc' = "done" /\ outcome'.status = "failed"
      BY <1>5, <2>2 DEF NextPhase, Fail
    <3> QED
      BY <1>3, <2>1, <3>1
  <2>3. CASE ~OverBudget
    <3>1. pc' = phase /\ outcome' = outcome
      BY <1>5, <2>3 DEF NextPhase
    <3>2. elapsed' <= Patience
      BY <1>3, <2>3, Bounds, ResearchAssumption DEF OverBudget
    <3> QED
      BY <1>3, <2>1, <3>1, <3>2
  <2> QED
    BY <2>2, <2>3
<1> QED
  BY <1>4, <1>5

\* At first no time has passed.
LEMMA ClockInitial == Init => ClockInv
  BY DEF Init, ClockInv

\* No step outruns what its phase has left.
LEMMA ClockKeeps ==
  ASSUME ClockInv, [Next]_vars
  PROVE  ClockInv'
<1>1. /\ elapsed \in Nat /\ queries \in Nat /\ next \in Nat \ {0}
      /\ pc \in {"request", "plan"} => elapsed = 0
      /\ pc # "done" => outcome.status # "completed"
  BY DEF ClockInv
<1>2. CASE UNCHANGED vars \/ Elsewhere
  <2>1. UNCHANGED runVars
    BY <1>2 DEF vars, Elsewhere
  <2> QED
    BY <2>1 DEF runVars, ClockInv, Spent
<1>3. CASE Refuse \/ Deny
  <2>1. pc = "request" /\ pc' = "done" /\ UNCHANGED <<elapsed, queries, next>>
    BY <1>3 DEF Refuse, Deny
  <2>2. outcome' = [outcome EXCEPT !.status = "refused"]
    BY <1>3 DEF Refuse, Deny
  <2>3. outcome'.status # "completed"
    BY <1>1, <2>1, <2>2
  <2> QED
    BY <1>1, <2>1, <2>3, Bounds DEF ClockInv
<1>4. CASE \E asked \in BOOLEAN : Start(asked)
  <2>1. pc = "request" /\ pc' = "plan" /\ UNCHANGED <<elapsed, queries, next, outcome>>
    BY <1>4 DEF Start
  <2> QED
    BY <1>1, <2>1 DEF ClockInv
<1>5. ASSUME NEW d \in 0..Max(Range(CallLimit)), Raises(d)
      PROVE  ClockInv'
  <2>1. /\ pc \in {"plan", "retrieve", "web", "synthesize"} /\ d <= CallLimit[pc]
        /\ elapsed' = elapsed + d /\ pc' = "done" /\ outcome'.status = "failed"
        /\ UNCHANGED <<queries, next>>
    BY <1>5 DEF Raises, Fail, CallLimit
  <2>2. d \in Nat
    OBVIOUS
  <2>3. elapsed' <= Patience + LongestPhase
    <3>1. CASE pc = "plan"
      BY <1>1, <2>1, <2>2, <3>1, Bounds DEF CallLimit
    <3>2. CASE pc = "synthesize"
      <4>1. elapsed <= Patience
        BY <3>2 DEF ClockInv
      <4> QED
        BY <1>1, <2>1, <2>2, <3>2, <4>1, Bounds DEF CallLimit
    <3>3. ASSUME NEW q \in Nat, pc \in {"retrieve", "web"}, d <= q, Spent(next - 1, q),
                 LongestPhase >= MaxQueries * q
          PROVE  elapsed' <= Patience + LongestPhase
      <4>1. next <= MaxQueries /\ elapsed <= Patience + (next - 1) * q
        BY <1>1, <3>3, Bounds DEF ClockInv, Spent
      <4>2. /\ next * q \in Nat /\ (next - 1) * q + q = next * q /\ next * q <= MaxQueries * q
            /\ (next - 1) * q \in Nat /\ MaxQueries * q \in Nat
        BY <1>1, <4>1, Bounds, MoreCalls
      <4> QED
        BY <1>1, <2>1, <2>2, <3>3, <4>1, <4>2, Bounds
    <3>4. CASE pc = "retrieve"
      <4>1. d <= QueryTime /\ Spent(next - 1, QueryTime)
        BY <2>1, <3>4 DEF CallLimit, ClockInv
      <4> QED
        BY <3>3, <3>4, <4>1, Bounds
    <3>5. CASE pc = "web"
      <4>1. d <= WebTime /\ Spent(next - 1, WebTime)
        BY <2>1, <3>5 DEF CallLimit, ClockInv
      <4> QED
        BY <3>3, <3>5, <4>1, Bounds
    <3> QED
      BY <2>1, <3>1, <3>2, <3>4, <3>5
  <2> QED
    BY <1>1, <2>1, <2>2, <2>3 DEF ClockInv
<1>6. ASSUME NEW d \in 0..CallTime, Synthesize(d)
      PROVE  ClockInv'
  <2>1. pc = "synthesize" /\ pc' = "done" /\ elapsed' = elapsed + d /\ UNCHANGED <<queries, next>>
    BY <1>6 DEF Synthesize
  <2>2. elapsed <= Patience
    BY <2>1 DEF ClockInv
  <2>3. elapsed' \in Nat /\ elapsed' <= Patience + CallTime /\ elapsed' <= Patience + LongestPhase
    BY <1>1, <2>1, <2>2, Bounds
  <2> QED
    BY <1>1, <2>1, <2>3 DEF ClockInv
<1>7. ASSUME NEW d \in 0..CallTime, NEW n \in 1..MaxQueries, Plan(d, n)
      PROVE  ClockInv'
  <2>1. pc = "plan" /\ elapsed' = elapsed + d /\ queries' = n /\ next' = 1 /\ elapsed = 0
    BY <1>1, <1>7 DEF Plan
  <2>2. n \in Nat /\ 1 <= n /\ n <= MaxQueries /\ elapsed' \in Nat /\ elapsed' <= Patience + LongestPhase
    BY <1>7, <2>1, Bounds
  <2>3. CASE OverBudget
    <3>1. pc' = "done" /\ outcome'.status = "failed"
      BY <1>7, <2>3 DEF Plan, Fail
    <3> QED
      BY <2>1, <2>2, <3>1 DEF ClockInv
  <2>4. CASE ~OverBudget
    <3>1. pc' = "retrieve" /\ outcome' = outcome
      BY <1>7, <2>4 DEF Plan
    <3>2. elapsed' <= Patience /\ 0 * QueryTime = 0 /\ next' - 1 = 0
      BY <2>1, <2>2, <2>4, Bounds, ResearchAssumption DEF OverBudget
    <3>3. Spent(next - 1, QueryTime)'
      BY <2>2, <3>2, Bounds DEF Spent
    <3> QED
      BY <1>1, <2>1, <2>2, <3>1, <3>3 DEF ClockInv
  <2> QED
    BY <2>3, <2>4
<1>8. ASSUME NEW d \in 0..QueryTime, NEW s, Retrieve(d, s)
      PROVE  ClockInv'
  <2>1. /\ pc = "retrieve" /\ elapsed' = elapsed + d /\ queries' = queries
        /\ NextPhase(Len(passages') >= MaxPassages, IF web THEN "web" ELSE "synthesize")
    BY <1>8 DEF Retrieve
  <2>2. PICK phase : phase = (IF web THEN "web" ELSE "synthesize")
    OBVIOUS
  <2>3. PICK full : full = (Len(passages') >= MaxPassages)
    OBVIOUS
  <2>4. Spent(next - 1, QueryTime) /\ next <= queries /\ queries <= MaxQueries
    BY <2>1 DEF ClockInv
  <2>5. /\ elapsed' \in Nat /\ next' \in Nat \ {0}
        /\ \/ pc' = pc /\ next' <= queries /\ Spent(next - 1, QueryTime)' /\ outcome' = outcome
           \/ pc' = phase /\ next' = 1 /\ elapsed' <= Patience /\ outcome' = outcome
           \/ pc' = "done" /\ elapsed' <= Patience + LongestPhase /\ outcome'.status = "failed"
    BY <2>1, <2>2, <2>3, <2>4, Bounds, PhaseTime
  <2>6. CASE pc' = pc /\ next' <= queries /\ Spent(next - 1, QueryTime)' /\ outcome' = outcome
    BY <1>1, <2>1, <2>4, <2>5, <2>6 DEF ClockInv
  <2>7. CASE pc' = phase /\ next' = 1 /\ elapsed' <= Patience /\ outcome' = outcome
    <3>1. phase \in {"web", "synthesize"} /\ next' - 1 = 0 /\ 0 * WebTime = 0
      BY <2>2, <2>7, Bounds
    <3>2. Spent(next - 1, WebTime)'
      BY <2>5, <2>7, <3>1, Bounds DEF Spent
    <3> QED
      BY <1>1, <2>1, <2>4, <2>5, <2>7, <3>1, <3>2 DEF ClockInv
  <2>8. CASE pc' = "done" /\ elapsed' <= Patience + LongestPhase /\ outcome'.status = "failed"
    BY <1>1, <2>1, <2>5, <2>8 DEF ClockInv
  <2> QED
    BY <2>5, <2>6, <2>7, <2>8
<1>9. ASSUME NEW d \in 0..WebTime, NEW s, SearchWeb(d, s)
      PROVE  ClockInv'
  <2>1. /\ pc = "web" /\ elapsed' = elapsed + d /\ queries' = queries
        /\ NextPhase(Len(AddNew(hits, s)) >= MaxPassages, "synthesize")
    BY <1>9 DEF SearchWeb
  <2>2. Spent(next - 1, WebTime) /\ next <= queries /\ queries <= MaxQueries
    BY <2>1 DEF ClockInv
  <2>3. /\ elapsed' \in Nat /\ next' \in Nat \ {0}
        /\ \/ pc' = pc /\ next' <= queries /\ Spent(next - 1, WebTime)' /\ outcome' = outcome
           \/ pc' = "synthesize" /\ next' = 1 /\ elapsed' <= Patience /\ outcome' = outcome
           \/ pc' = "done" /\ elapsed' <= Patience + LongestPhase /\ outcome'.status = "failed"
    BY <2>1, <2>2, Bounds, PhaseTime
  <2>4. CASE pc' = pc /\ next' <= queries /\ Spent(next - 1, WebTime)' /\ outcome' = outcome
    BY <1>1, <2>1, <2>2, <2>3, <2>4 DEF ClockInv
  <2>5. CASE pc' = "synthesize" /\ next' = 1 /\ elapsed' <= Patience /\ outcome' = outcome
    BY <1>1, <2>1, <2>2, <2>3, <2>5 DEF ClockInv
  <2>6. CASE pc' = "done" /\ elapsed' <= Patience + LongestPhase /\ outcome'.status = "failed"
    BY <1>1, <2>1, <2>3, <2>6 DEF ClockInv
  <2> QED
    BY <2>3, <2>4, <2>5, <2>6
<1>10. CASE Handler
  BY <1>3, <1>4, <1>5, <1>6, <1>7, <1>8, <1>9, <1>10 DEF Handler, MaxQueries
<1> QED
  BY <1>2, <1>10 DEF Next

\* Within a phase means within the bound.
LEMMA ClockFollows == ClockInv => ClockBoundsRun
<1>1. SUFFICES ASSUME ClockInv PROVE ClockBoundsRun
  OBVIOUS
<1>2. elapsed \in Nat /\ pc \in {"request", "plan", "retrieve", "web", "synthesize", "done"}
  BY <1>1 DEF ClockInv
<1>3. ASSUME NEW q \in Nat, pc \in {"retrieve", "web"}, Spent(next - 1, q), LongestPhase >= MaxQueries * q
      PROVE  elapsed <= Patience + LongestPhase
  <2>1. next \in Nat \ {0} /\ next - 1 \in Nat /\ next - 1 <= MaxQueries /\ elapsed <= Patience + (next - 1) * q
    BY <1>1, <1>3, Bounds DEF ClockInv, Spent
  <2>2. (next - 1) * q <= MaxQueries * q /\ (next - 1) * q \in Nat /\ MaxQueries * q \in Nat
    BY <2>1, Bounds, MoreCalls
  <2> QED
    BY <1>2, <1>3, <2>1, <2>2, Bounds
<1>4. elapsed <= Patience + LongestPhase
  <2>1. CASE pc = "retrieve"
    <3>1. Spent(next - 1, QueryTime)
      BY <1>1, <2>1 DEF ClockInv
    <3> QED
      BY <1>3, <2>1, <3>1, Bounds
  <2>2. CASE pc = "web"
    <3>1. Spent(next - 1, WebTime)
      BY <1>1, <2>2 DEF ClockInv
    <3> QED
      BY <1>3, <2>2, <3>1, Bounds
  <2>3. CASE pc \notin {"retrieve", "web"}
    BY <1>1, <1>2, <2>3, Bounds DEF ClockInv
  <2> QED
    BY <2>1, <2>2, <2>3
<1>5. outcome.status = "completed" => elapsed <= Patience + CallTime
  BY <1>1 DEF ClockInv
<1> QED
  BY <1>4, <1>5 DEF ClockBoundsRun, Patience

----------------------------------------------------------------------------
\* What the run says of itself.

Begun == {<<>>, <<"agent_task_progress">>}
Ended(event) == {<<>>, <<"agent_task_progress">>, <<event>>, <<"agent_task_progress", event>>}
Running == [status |-> "running", detail |-> "none", sources |-> <<>>]

StoryInv ==
  /\ pc = "request" => feed = <<>>
  /\ pc # "done" => feed \in Begun /\ audit = <<>> /\ outcome = Running
  /\ pc = "done" =>
       \/ outcome.status = "refused" /\ feed = <<>> /\ audit \in {<<>>, <<"denied">>}
       \/ outcome.status = "failed" /\ feed \in Ended("agent_task_failed") /\ audit = <<>>
       \/ /\ outcome.status = "completed" /\ feed \in Ended("agent_task_completed")
          /\ audit = <<"success">> /\ outcome.sources = SourcesOf(passages)

\* A second element makes a pair.
LEMMA AppendToOne ==
  ASSUME NEW a, NEW b
  PROVE  Append(<<a>>, b) = <<a, b>>
<1> DEFINE S == {a, b}
<1>1. <<a>> \in Seq(S) /\ b \in S /\ <<a, b>> \in Seq(S)
  OBVIOUS
<1>2. PICK r : r = Append(<<a>>, b)
  OBVIOUS
<1>3. r \in Seq(S) /\ Len(r) = 2 /\ r[1] = a /\ r[2] = b
  BY <1>1, <1>2
<1>4. PICK t : t = <<a, b>>
  OBVIOUS
<1>5. t \in Seq(S) /\ Len(t) = 2 /\ t[1] = a /\ t[2] = b
  BY <1>1, <1>4
<1>6. r = t
  <2> HIDE DEF S
  <2>1. Len(r) = Len(t) /\ \A i \in 1..Len(t) : r[i] = t[i]
    BY <1>3, <1>5
  <2> QED
    BY <1>3, <1>5, <2>1, SeqEqual
<1> QED
  BY <1>2, <1>4, <1>6

\* The last event follows what was published before it.
LEMMA LastEvent ==
  ASSUME NEW event, feed \in Begun, Emit(event)
  PROVE  feed' \in Ended(event)
<1>1. Append(<<>>, event) = <<event>>
  OBVIOUS
<1>2. Append(<<"agent_task_progress">>, event) = <<"agent_task_progress", event>>
  BY AppendToOne
<1> QED
  BY <1>1, <1>2 DEF Begun, Ended, Emit

\* At first nothing is told.
LEMMA StoryInitial == Init => StoryInv
  BY DEF Init, StoryInv, Begun, Running

\* Every step tells what it does, or nothing.
LEMMA StoryKeeps ==
  ASSUME StoryInv, [Next]_vars
  PROVE  StoryInv'
<1>1. /\ pc = "request" => feed = <<>>
      /\ pc # "done" => feed \in Begun /\ audit = <<>> /\ outcome = Running
  BY DEF StoryInv
<1>2. CASE UNCHANGED vars \/ Elsewhere
  <2>1. UNCHANGED runVars
    BY <1>2 DEF vars, Elsewhere
  <2> QED
    BY <2>1 DEF runVars, StoryInv
<1>3. CASE Refuse \/ Deny
  <2>1. /\ pc = "request" /\ pc' = "done" /\ feed' = feed
        /\ outcome' = [outcome EXCEPT !.status = "refused"]
        /\ audit' = audit \/ audit' = Append(audit, "denied")
    BY <1>3 DEF Refuse, Deny
  <2>2. outcome'.status = "refused"
    BY <1>1, <2>1 DEF Running
  <2>3. Append(<<>>, "denied") = <<"denied">>
    OBVIOUS
  <2> QED
    BY <1>1, <2>1, <2>2, <2>3 DEF StoryInv
<1>4. CASE \E asked \in BOOLEAN : Start(asked)
  <2>1. pc = "request" /\ pc' = "plan" /\ UNCHANGED <<audit, outcome>> /\ Emit("agent_task_progress")
    BY <1>4 DEF Start
  <2>2. Append(<<>>, "agent_task_progress") = <<"agent_task_progress">>
    OBVIOUS
  <2>3. feed' \in Begun
    BY <1>1, <2>1, <2>2 DEF Emit, Begun
  <2> QED
    BY <1>1, <2>1, <2>3 DEF StoryInv
<1>5. ASSUME Fail("wall_clock") \/ Fail("inference_unavailable"), pc # "done", audit' = audit
      PROVE  StoryInv'
  <2>1. pc' = "done" /\ Emit("agent_task_failed") /\ outcome'.status = "failed"
    BY <1>5 DEF Fail
  <2>2. feed' \in Ended("agent_task_failed")
    BY <1>1, <1>5, <2>1, LastEvent
  <2> QED
    BY <1>1, <1>5, <2>1, <2>2 DEF StoryInv
<1>6. ASSUME UNCHANGED <<feed, audit, outcome>>, pc # "done", pc' \notin {"done", "request"}
      PROVE  StoryInv'
  BY <1>1, <1>6 DEF StoryInv
<1>7. ASSUME NEW d, Raises(d)
      PROVE  StoryInv'
  <2>1. pc # "done"
    BY <1>7 DEF Raises, CallLimit
  <2> QED
    BY <1>5, <1>7, <2>1 DEF Raises
<1>8. ASSUME NEW d, Synthesize(d)
      PROVE  StoryInv'
  <2>1. /\ pc = "synthesize" /\ pc' = "done" /\ audit' = Append(audit, "success")
        /\ Emit("agent_task_completed") /\ passages' = passages
        /\ outcome'.status = "completed" /\ outcome'.sources = SourcesOf(passages)
    BY <1>8 DEF Synthesize
  <2>2. feed' \in Ended("agent_task_completed")
    BY <1>1, <2>1, LastEvent
  <2>3. Append(<<>>, "success") = <<"success">>
    OBVIOUS
  <2>4. SourcesOf(passages)' = SourcesOf(passages)
    BY <2>1 DEF SourcesOf
  <2> QED
    BY <1>1, <2>1, <2>2, <2>3, <2>4 DEF StoryInv
<1>9. ASSUME NEW d, NEW n, Plan(d, n)
      PROVE  StoryInv'
  <2>1. pc = "plan" /\ audit' = audit
    BY <1>9 DEF Plan
  <2>2. Fail("wall_clock") \/ (pc' = "retrieve" /\ UNCHANGED <<feed, outcome>>)
    BY <1>9 DEF Plan
  <2> QED
    BY <1>5, <1>6, <2>1, <2>2
<1>10. ASSUME NEW full, NEW phase \in {"web", "synthesize"}, NextPhase(full, phase),
              pc \in {"retrieve", "web"}, audit' = audit
       PROVE  StoryInv'
  <2>1. Fail("wall_clock") \/ (pc' \in {pc, phase} /\ UNCHANGED <<feed, outcome>>)
    BY <1>10 DEF NextPhase
  <2> QED
    BY <1>5, <1>6, <1>10, <2>1
<1>11. ASSUME NEW d, NEW s, Retrieve(d, s)
       PROVE  StoryInv'
  <2>1. PICK phase \in {"web", "synthesize"} : NextPhase(Len(passages') >= MaxPassages, phase)
    BY <1>11 DEF Retrieve
  <2> QED
    BY <1>10, <1>11, <2>1 DEF Retrieve
<1>12. ASSUME NEW d, NEW s, SearchWeb(d, s)
       PROVE  StoryInv'
  <2>1. pc = "web" /\ audit' = audit /\ NextPhase(Len(AddNew(hits, s)) >= MaxPassages, "synthesize")
    BY <1>12 DEF SearchWeb
  <2> QED
    BY <1>10, <2>1
<1>13. CASE Handler
  BY <1>3, <1>4, <1>7, <1>8, <1>9, <1>11, <1>12, <1>13 DEF Handler
<1> QED
  BY <1>2, <1>13 DEF Next

\* What a feed of at most two events tells.
LEMMA ToldInOrder ==
  ASSUME NEW event, event # "agent_task_progress", NEW f \in Ended(event)
  PROVE  \A i \in DOMAIN f :
           /\ f[i] = "agent_task_progress" => i = 1
           /\ f[i] # "agent_task_progress" => i = Len(f) /\ f[i] = event
<1>1. CASE f = <<>>
  BY <1>1
<1>2. CASE f = <<"agent_task_progress">>
  BY <1>2
<1>3. CASE f = <<event>>
  BY <1>3
<1>4. CASE f = <<"agent_task_progress", event>>
  BY <1>4
<1> QED
  BY <1>1, <1>2, <1>3, <1>4 DEF Ended

\* What was told is in order and agrees with the answer.
LEMMA StoryFollows == StoryInv /\ ShownInv => StoryIsTrue
<1>1. SUFFICES ASSUME StoryInv, ShownInv PROVE StoryIsTrue
  OBVIOUS
<1>2. /\ ~Contains(<<>>, "success") /\ ~Contains(<<"denied">>, "success")
      /\ Contains(<<"success">>, "success")
  BY DEF Contains
<1>3. passages \in Seq(Own)
  BY <1>1 DEF ShownInv, Shown
<1>4. CASE pc # "done"
  <2>1. feed \in Begun /\ audit = <<>> /\ outcome.status = "running"
    BY <1>1, <1>4 DEF StoryInv, Running
  <2>2. \A i \in DOMAIN feed : feed[i] = "agent_task_progress" /\ i = 1
    BY <2>1 DEF Begun
  <2> QED
    BY <1>2, <2>1, <2>2 DEF StoryIsTrue
<1>5. CASE pc = "done"
  <2>1. CASE outcome.status = "refused" /\ feed = <<>> /\ audit \in {<<>>, <<"denied">>}
    <3>1. DOMAIN feed = {}
      BY <2>1
    <3> QED
      BY <1>2, <2>1, <3>1 DEF StoryIsTrue
  <2>2. CASE outcome.status = "failed" /\ feed \in Ended("agent_task_failed") /\ audit = <<>>
    <3>1. \A i \in DOMAIN feed :
            /\ feed[i] = "agent_task_progress" => i = 1
            /\ feed[i] # "agent_task_progress" => i = Len(feed) /\ feed[i] = "agent_task_failed"
      BY <2>2, ToldInOrder
    <3> QED
      BY <1>2, <1>5, <2>2, <3>1 DEF StoryIsTrue
  <2>3. CASE /\ outcome.status = "completed" /\ feed \in Ended("agent_task_completed")
             /\ audit = <<"success">> /\ outcome.sources = SourcesOf(passages)
    <3>1. \A i \in DOMAIN feed :
            /\ feed[i] = "agent_task_progress" => i = 1
            /\ feed[i] # "agent_task_progress" => i = Len(feed) /\ feed[i] = "agent_task_completed"
      BY <2>3, ToldInOrder
    <3>2. ToSet(outcome.sources) = {Document(passages[i]) : i \in DOMAIN passages}
      BY <1>3, <2>3, SourcesAreTheDocuments
    <3> QED
      BY <1>2, <1>5, <2>3, <3>1, <3>2 DEF StoryIsTrue
  <2> QED
    BY <1>1, <1>5, <2>1, <2>2, <2>3 DEF StoryInv
<1> QED
  BY <1>4, <1>5

----------------------------------------------------------------------------
\* Research runs, for any corpus, callers, plans, queries and delays.

\* The corpus, the passages, the clock and the story.
RunInv == RetInv /\ ShownInv /\ ClockInv /\ StoryInv

\* Init => RunInv, and every step of the run or of other requests keeps it.
THEOREM RunInvariant == Spec => []RunInv
<1>1. Init => RunInv
  BY RetInitial, ShownInitial, ClockInitial, StoryInitial DEF Init, RunInv
<1>2. RunInv /\ [Next]_vars => RunInv'
  <2>1. SUFFICES ASSUME RunInv, [Next]_vars PROVE RunInv'
    OBVIOUS
  <2>2. RetInv'
    <3>1. CASE Elsewhere
      BY <2>1, <3>1, RetKeeps DEF RunInv, Elsewhere
    <3>2. CASE UNCHANGED retVars
      BY <2>1, <3>2 DEF RunInv, retVars, RetInv, RetTypeOK, DocsTrue, NoticesTrue, ChunksOf
    <3>3. CASE Handler
      <4>1. UNCHANGED retVars
        BY <3>3 DEF Handler, Refuse, Deny, Start, Raises, Synthesize, Plan, Retrieve, SearchWeb
      <4> QED
        BY <3>2, <4>1
    <3> QED
      BY <2>1, <3>1, <3>2, <3>3 DEF Next, vars
  <2>3. ShownInv' /\ ClockInv' /\ StoryInv'
    BY <2>1, ShownKeeps, ClockKeeps, StoryKeeps DEF RunInv
  <2> QED
    BY <2>2, <2>3 DEF RunInv
<1> QED
  BY <1>1, <1>2, PTL DEF Spec

\* What is in the corpus is the text that was sent, whatever is indexed at once,
\* however the backend orders its vectors, whichever call fails.
THEOREM CorpusIsWhole == Spec => []CorpusIsTheText
<1>1. RunInv => CorpusIsTheText
  BY CorpusFollows DEF RunInv
<1> QED
  BY <1>1, RunInvariant, PTL

\* A run reads its tenant's corpus, and the web only where both asked for it.
THEOREM SourcesAreOwn == Spec => []OwnSourcesOnly
<1>1. RunInv => OwnSourcesOnly
  BY OwnFollows DEF RunInv
<1> QED
  BY <1>1, RunInvariant, PTL

\* A run outlives its wall clock by one phase at most.
THEOREM RunsAreBounded == Spec => []ClockBoundsRun
<1>1. RunInv => ClockBoundsRun
  BY ClockFollows DEF RunInv
<1> QED
  BY <1>1, RunInvariant, PTL

\* Feed, audit log and answer of a run agree.
THEOREM StoriesAgree == Spec => []StoryIsTrue
<1>1. RunInv => StoryIsTrue
  BY StoryFollows DEF RunInv
<1> QED
  BY <1>1, RunInvariant, PTL

=============================================================================
