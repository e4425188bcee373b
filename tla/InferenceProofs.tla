-------------------------- MODULE InferenceProofs --------------------------
(***************************************************************************)
(* What the endpoints that hold a slot while they talk to the model        *)
(* guarantee for any number of threads, retries and compared models, and   *)
(* any time-outs: they use the limiter as it specifies, give a completion  *)
(* to the model once, and give the slot back within a bound.               *)
(***************************************************************************)
EXTENDS Inference, RateLimiterProofs, WellFoundedInduction

----------------------------------------------------------------------------
\* The limiter.

\* Every step is a step of the limiter or leaves it alone.
LEMMA StepsOfTheLimiter ==
  ASSUME [Next]_vars
  PROVE  [LimNext]_limVars
<1>1. CASE UNCHANGED vars
  BY <1>1 DEF vars
<1>2. CASE Tick
  BY <1>2 DEF LimNext
<1>3. ASSUME NEW th \in Threads, NEW t \in Tenants, Prepare(th, t)
      PROVE  LimNext
  BY <1>3 DEF Prepare, LimNext
<1>4. ASSUME NEW th \in Threads, CountCall(th) \/ Start(th) \/ Finish(th)
      PROVE  LimNext
  BY <1>4 DEF Start, Finish, LimNext
<1>5. ASSUME NEW th \in Threads, Converse(th)
      PROVE  UNCHANGED limVars
  BY <1>5 DEF Converse, Routing, ConnectFails, Connects, AnswerFails, Answers, ReadLine, StreamEnds, WriteLine, WriteFails
<1>6. CASE Restart
  BY <1>6 DEF Restart, LimNext
<1> QED
  BY <1>1, <1>2, <1>3, <1>4, <1>5, <1>6 DEF Next

\* Chat, streams, edits and compares use the limiter as its specification says.
THEOREM RefinesLimiter == Spec => LimSpec
<1>1. Init => LimInit
  BY DEF Init
<1>2. [Next]_vars => [LimNext]_limVars
  BY StepsOfTheLimiter
<1> QED
  BY <1>1, <1>2, PTL DEF Spec, LimSpec

\* So no slot is lost on any way out of them.
THEOREM LimitsHold == Spec => []LimiterHolds
  BY RefinesLimiter, LimiterLimits, PTL

----------------------------------------------------------------------------
\* What updates of a request's record do.

Results == {"good", "blank", "unavailable", "error"}

\* More time passes.
LEMMA Waits ==
  ASSUME NEW c \in Call, NEW d \in Nat, NEW r, r = [c EXCEPT !.held = c.held + d]
  PROVE  /\ r \in Call /\ r.kind = c.kind /\ r.phase = c.phase /\ r.attempt = c.attempt
         /\ r.sent = c.sent /\ r.models = c.models /\ r.synthesize = c.synthesize
         /\ r.results = c.results /\ r.synthesis = c.synthesis /\ r.held = c.held + d
         /\ r.lived = c.lived /\ r.answer = c.answer /\ r.audited = c.audited
<1>1. PICK h \in Nat : h = c.held + d
  BY DEF Call
<1>2. r = [c EXCEPT !.held = h]
  BY <1>1
<1> QED
  BY <1>1, <1>2 DEF Call

\* The record of an audited success.
LEMMA AuditedCall ==
  ASSUME NEW c \in Call, NEW r, r = [kind |-> c.kind, phase |-> "done", attempt |-> c.attempt, sent |-> c.sent,
           models |-> c.models, synthesize |-> c.synthesize, results |-> c.results,
           synthesis |-> c.synthesis, held |-> c.held, lived |-> c.lived,
           answer |-> 200, audited |-> TRUE]
  PROVE  /\ r \in Call /\ r.kind = c.kind /\ r.phase = "done" /\ r.attempt = c.attempt
         /\ r.sent = c.sent /\ r.models = c.models /\ r.synthesize = c.synthesize
         /\ r.results = c.results /\ r.synthesis = c.synthesis /\ r.held = c.held
         /\ r.lived = c.lived /\ r.answer = 200 /\ r.audited = TRUE
  BY DEF Call

\* A success is audited.
LEMMA Audits ==
  ASSUME NEW c \in Call, NEW r, r = [c EXCEPT !.phase = "done", !.answer = 200, !.audited = TRUE]
  PROVE  /\ r \in Call /\ r.kind = c.kind /\ r.phase = "done" /\ r.attempt = c.attempt
         /\ r.sent = c.sent /\ r.models = c.models /\ r.synthesize = c.synthesize
         /\ r.results = c.results /\ r.synthesis = c.synthesis /\ r.held = c.held
         /\ r.lived = c.lived /\ r.answer = 200 /\ r.audited = TRUE
<1>1. r = [kind |-> c.kind, phase |-> "done", attempt |-> c.attempt, sent |-> c.sent,
           models |-> c.models, synthesize |-> c.synthesize, results |-> c.results,
           synthesis |-> c.synthesis, held |-> c.held, lived |-> c.lived,
           answer |-> 200, audited |-> TRUE]
  BY Zenon DEF Call
<1> QED
  BY <1>1, AuditedCall, Zenon

\* A model's result is kept.
LEMMA Keeps ==
  ASSUME NEW c \in Call, NEW result \in Results, NEW r, r = [c EXCEPT !.results = Append(@, result)]
  PROVE  /\ r \in Call /\ r.kind = c.kind /\ r.phase = c.phase /\ r.attempt = c.attempt
         /\ r.sent = c.sent /\ r.models = c.models /\ r.synthesize = c.synthesize
         /\ r.synthesis = c.synthesis /\ r.held = c.held
         /\ r.lived = c.lived /\ r.answer = c.answer /\ r.audited = c.audited
         /\ Len(r.results) = Len(c.results) + 1
<1>1. c.results \in Seq(Results)
  BY DEF Call, Results
<1>2. PICK s : s = Append(c.results, result)
  OBVIOUS
<1>3. s \in Seq(Results) /\ Len(s) = Len(c.results) + 1
  BY <1>1, <1>2
<1>4. r = [c EXCEPT !.results = s]
  BY <1>2
<1> QED
  BY <1>3, <1>4 DEF Call, Results

\* The next completion begins.
LEMMA Again ==
  ASSUME NEW c \in Call, NEW r, r = [c EXCEPT !.phase = "connect", !.attempt = 0, !.sent = 0]
  PROVE  /\ r \in Call /\ r.kind = c.kind /\ r.phase = "connect" /\ r.attempt = 0
         /\ r.sent = 0 /\ r.models = c.models /\ r.synthesize = c.synthesize
         /\ r.results = c.results /\ r.synthesis = c.synthesis /\ r.held = c.held
         /\ r.lived = c.lived /\ r.answer = c.answer /\ r.audited = c.audited
  BY DEF Call

\* The model is asked for a synthesis.
LEMMA Asks ==
  ASSUME NEW c \in Call, NEW n \in Nat, NEW r, r = [c EXCEPT !.synthesis = n]
  PROVE  /\ r \in Call /\ r.kind = c.kind /\ r.phase = c.phase /\ r.attempt = c.attempt
         /\ r.sent = c.sent /\ r.models = c.models /\ r.synthesize = c.synthesize
         /\ r.results = c.results /\ r.synthesis = n /\ r.held = c.held
         /\ r.lived = c.lived /\ r.answer = c.answer /\ r.audited = c.audited
  BY DEF Call

\* One of the good results is the first.
LEMMA FirstIsGood ==
  ASSUME NEW c \in Call, Cardinality(Good(c)) >= 2
  PROVE  FirstGood(c) \in Good(c) /\ FirstGood(c) \in Nat /\ FirstGood(c) # 0
<1>0. c.results \in Seq(Results)
  BY DEF Call, Results
<1>1. DOMAIN c.results = 1..Len(c.results) /\ Len(c.results) \in Nat
  BY <1>0
<1>2. Good(c) \subseteq Nat /\ 0 \notin Good(c)
  BY <1>1 DEF Good
<1>3. Good(c) # {}
  BY FS_EmptySet
<1>4. PICK i \in Good(c) : \A j \in Good(c) : ~(<<j, i>> \in OpToRel(<, Nat))
  BY <1>2, <1>3, NatLessThanWellFounded, WFMin
<1>5. ASSUME NEW j \in Good(c)
      PROVE  i <= j
  <2>1. i \in Nat /\ j \in Nat
    BY <1>2
  <2>2. ~(<<j, i>> \in OpToRel(<, Nat))
    BY <1>4
  <2>3. ~(j < i)
    BY <2>1, <2>2 DEF OpToRel
  <2> QED
    BY <2>1, <2>3
<1>6. FirstGood(c) \in Good(c)
  BY <1>5 DEF FirstGood
<1> QED
  BY <1>2, <1>6

----------------------------------------------------------------------------
\* How long a request lasts and what becomes of it.

\* The attempts that failed, and what a compare had before its present call.
Tries(a) == a * (ConnectTime + Backoff)
Past(c) == IF c.synthesis # 0 THEN c.models ELSE Len(c.results)
Before(c) == IF c.kind = "compare" THEN Past(c) * OneCall("compare") ELSE 0

\* The time a request has had its slot, by where it is.
InTime(c) ==
  /\ c.phase = "none" => c.held = 0
  /\ c.phase \in {"connect", "wait"} => c.attempt <= Retries(c.kind) /\ c.lived = 0
  /\ c.phase = "connect" => c.held <= Before(c) + Tries(c.attempt)
  /\ c.phase = "wait" => c.held <= Before(c) + Tries(c.attempt) + ConnectTime
  /\ c.phase \in {"relay", "write"} => c.kind = "stream" /\ c.held <= OneCall("stream") + c.lived
  /\ c.phase = "relay" => c.lived <= StreamCap
  /\ c.phase = "write" => c.lived <= StreamCap + LineTime
  /\ c.phase = "done" => c.held <= LongestHold(c)

\* The results a compare has, and what is audited.
Told(c) ==
  /\ c.phase # "done" => ~c.audited
  /\ c.synthesis # 0 => /\ c.kind = "compare" /\ c.synthesize /\ Cardinality(Good(c)) >= 2
                        /\ c.results[c.synthesis] = "good" /\ Len(c.results) = c.models
  /\ c.kind = "compare" /\ c.synthesis = 0 /\ c.phase # "done" => Len(c.results) < c.models
  /\ c.phase = "done" => (c.audited <=> (c.kind \in {"edit", "compare"} /\ c.answer = 200))
  /\ c.phase = "done" /\ c.kind = "compare" =>
       /\ c.answer = 200 /\ Len(c.results) = c.models
       /\ c.synthesize /\ Cardinality(Good(c)) >= 2 => c.synthesis # 0

Kept(c) == InTime(c) /\ Told(c)

\* A completion is under way, and has taken no longer than one may.
InCall(c) ==
  /\ c \in Call /\ c.kind \in Kinds /\ c.phase \in {"connect", "wait"} /\ c.lived = 0
  /\ c.held <= Before(c) + OneCall(c.kind)
  /\ c.attempt <= Retries(c.kind)
  /\ c.phase = "connect" => c.held <= Before(c) + Tries(c.attempt) + ConnectTime
  /\ Told(c)

\* What compare looks at stays as it is.
Rest(r, c) ==
  /\ r.kind = c.kind /\ r.models = c.models /\ r.synthesize = c.synthesize
  /\ r.results = c.results /\ r.synthesis = c.synthesis

\* A step that does not audit.
Now(r, c, phase, attempt, held, lived) ==
  /\ Rest(r, c) /\ r.phase = phase /\ r.attempt = attempt /\ r.held = held
  /\ r.lived = lived /\ r.audited = c.audited

\* Arithmetic of attempts.
LEMMA TriesAre ==
  ASSUME NEW a \in Nat
  PROVE  Tries(a) \in Nat /\ Tries(a + 1) = Tries(a) + ConnectTime + Backoff
<1>1. PICK w \in Nat : w = ConnectTime + Backoff
  BY TimeAssumption
<1>2. a * w \in Nat /\ (a + 1) * w = a * w + w
  BY <1>1
<1> QED
  BY <1>1, <1>2, TimeAssumption DEF Tries

LEMMA TriesGrow ==
  ASSUME NEW a \in Nat, NEW b \in Nat, a <= b
  PROVE  Tries(a) <= Tries(b)
<1>1. PICK w \in Nat : w = ConnectTime + Backoff
  BY TimeAssumption
<1>2. PICK n \in Nat : b = a + n
  <2>1. b - a \in Nat /\ b = a + (b - a)
    OBVIOUS
  <2> QED
    BY <2>1
<1>3. a * w \in Nat /\ n * w \in Nat /\ b * w = a * w + n * w
  BY <1>1, <1>2
<1> QED
  BY <1>1, <1>3 DEF Tries

LEMMA RetriesAre == ASSUME NEW kind PROVE Retries(kind) \in Nat
  BY RetryAssumption DEF Retries

LEMMA OneCallIs ==
  ASSUME NEW kind
  PROVE  OneCall(kind) = Tries(Retries(kind)) + ConnectTime + AnswerTime /\ OneCall(kind) \in Nat
<1>1. PICK n \in Nat : n = Retries(kind)
  BY RetriesAre
<1>2. /\ (n + 1) * ConnectTime = n * ConnectTime + ConnectTime
      /\ n * (ConnectTime + Backoff) = n * ConnectTime + n * Backoff
      /\ n * ConnectTime \in Nat /\ n * Backoff \in Nat
  BY TimeAssumption
<1> QED
  BY <1>1, <1>2, TimeAssumption DEF OneCall, Tries

LEMMA TimesNext ==
  ASSUME NEW n \in Nat, NEW k \in Nat
  PROVE  n * k \in Nat /\ (n + 1) * k = n * k + k /\ 1 * k = k /\ 0 * k = 0
  OBVIOUS

LEMMA BeforeType ==
  ASSUME NEW c \in Call
  PROVE  Before(c) \in Nat /\ Past(c) \in Nat
<1>1. c.models \in Nat /\ c.results \in Seq(Results)
  BY DEF Call, Results
<1>2. Past(c) \in Nat
  BY <1>1 DEF Past
<1>3. OneCall("compare") \in Nat
  BY OneCallIs
<1>4. Past(c) * OneCall("compare") \in Nat
  BY <1>2, <1>3, TimesNext
<1> QED
  BY <1>2, <1>4 DEF Before

----------------------------------------------------------------------------
\* One completion is given to the model once.

\* A request that can still send has not sent: what the retry relies on.
Sound(c) ==
  /\ c \in Call
  /\ c.sent <= 1
  /\ c.phase \in {"none", "connect"} => c.sent = 0
  /\ c.phase # "none" => c.kind \in Kinds

CallsSound ==
  /\ behind \in Surfaces
  /\ call \in [Threads -> Call]
  /\ \A th \in Threads : Sound(call[th]) /\ Kept(call[th])

\* The slot of a thread without a request.
LEMMA NoCallSound == Sound(NoCall) /\ Kept(NoCall)
  BY DEF Sound, Call, NoCall, Kept, InTime, Told, Kinds

\* A request begins.
LEMMA BeginsSound ==
  ASSUME NEW kind \in Kinds, NEW n \in Nat, n >= 1, NEW s \in BOOLEAN, NEW r,
         r = [NoCall EXCEPT !.kind = kind, !.phase = "connect", !.models = n, !.synthesize = s]
  PROVE  Sound(r) /\ Kept(r)
<1>1. r = [kind |-> kind, phase |-> "connect", attempt |-> 0, sent |-> 0, models |-> n,
           synthesize |-> s, results |-> <<>>, synthesis |-> 0, held |-> 0, lived |-> 0,
           answer |-> 0, audited |-> FALSE]
  BY Zenon DEF NoCall
<1>2. PICK q : q = [kind |-> kind, phase |-> "connect", attempt |-> 0, sent |-> 0, models |-> n,
           synthesize |-> s, results |-> <<>>, synthesis |-> 0, held |-> 0, lived |-> 0,
           answer |-> 0, audited |-> FALSE]
  OBVIOUS
<1>3. Sound(q)
  BY <1>2 DEF Sound, Call
<1>4. Told(q)
  BY <1>2 DEF Told
<1>5. Before(q) \in Nat
  BY <1>3, BeforeType DEF Sound
<1>6. Tries(0) \in Nat /\ 0 <= Retries(kind)
  BY TriesAre, RetriesAre
<1>7. InTime(q)
  BY <1>2, <1>5, <1>6 DEF InTime
<1>8. Kept(q)
  BY <1>4, <1>7 DEF Kept
<1> QED
  BY <1>1, <1>2, <1>3, <1>8, Zenon

\* Compare goes on, asks for its synthesis or is done.
LEMMA AfterOneSound ==
  ASSUME NEW c \in Call, c.sent <= 1, c.kind \in Kinds, NEW result \in Results
  PROVE  Sound(AfterOne(c, result))
<1>1. PICK d : d = IF c.synthesis # 0 THEN c ELSE [c EXCEPT !.results = Append(@, result)]
  OBVIOUS
<1>2. d \in Call /\ d.sent = c.sent /\ d.kind = c.kind
  <2>1. CASE c.synthesis # 0
    BY <1>1, <2>1
  <2>2. CASE c.synthesis = 0
    <3>1. d = [c EXCEPT !.results = Append(@, result)]
      BY <1>1, <2>2, Zenon
    <3> QED
      BY <3>1, Keeps, Zenon
  <2> QED
    BY <2>1, <2>2
<1>3. PICK again : again = [d EXCEPT !.phase = "connect", !.attempt = 0, !.sent = 0]
  OBVIOUS
<1>4. again \in Call /\ again.phase = "connect" /\ again.sent = 0 /\ again.kind = d.kind
  BY <1>2, <1>3, Again, Zenon
<1>5. PICK over : over = [d EXCEPT !.phase = "done", !.answer = 200, !.audited = TRUE]
  OBVIOUS
<1>6. over \in Call /\ over.phase = "done" /\ over.sent = d.sent /\ over.kind = d.kind
  BY <1>2, <1>5, Audits, Zenon
<1>7. Sound(again) /\ Sound(over)
  BY <1>2, <1>4, <1>6 DEF Sound
<1>8. ASSUME Cardinality(Good(d)) >= 2
      PROVE  Sound([again EXCEPT !.synthesis = FirstGood(d)])
  <2>1. PICK n \in Nat : n = FirstGood(d)
    BY <1>2, <1>8, FirstIsGood
  <2>2. PICK r : r = [again EXCEPT !.synthesis = n]
    OBVIOUS
  <2>3. r \in Call /\ r.phase = again.phase /\ r.sent = again.sent /\ r.kind = again.kind
    BY <1>4, <2>1, <2>2, Asks
  <2>4. Sound(r)
    BY <1>2, <1>4, <2>3 DEF Sound
  <2> QED
    BY <2>1, <2>2, <2>4, Zenon
<1>9. AfterOne(c, result)
      = CASE c.synthesis = 0 /\ Len(d.results) < c.models -> again
          [] c.synthesis = 0 /\ Len(d.results) >= c.models /\ c.synthesize /\ Cardinality(Good(d)) >= 2 ->
               [again EXCEPT !.synthesis = FirstGood(d)]
          [] OTHER -> over
  BY <1>1, <1>3, <1>5, Zenon DEF AfterOne
<1> QED
  BY <1>7, <1>8, <1>9

\* A request is over.
Over(r, c, n) ==
  r \in Call /\ r.sent = c.sent /\ Now(r, c, "done", c.attempt, c.held, c.lived) /\ r.answer = n

LEMMA DoneWith ==
  ASSUME NEW c \in Call, NEW n \in Nat, NEW r, r = [c EXCEPT !.phase = "done", !.answer = n]
  PROVE  Over(r, c, n)
<1>1. r = [kind |-> c.kind, phase |-> "done", attempt |-> c.attempt, sent |-> c.sent,
           models |-> c.models, synthesize |-> c.synthesize, results |-> c.results,
           synthesis |-> c.synthesis, held |-> c.held, lived |-> c.lived,
           answer |-> n, audited |-> c.audited]
  BY Zenon DEF Call
<1>2. PICK q : q = [kind |-> c.kind, phase |-> "done", attempt |-> c.attempt, sent |-> c.sent,
           models |-> c.models, synthesize |-> c.synthesize, results |-> c.results,
           synthesis |-> c.synthesis, held |-> c.held, lived |-> c.lived,
           answer |-> n, audited |-> c.audited]
  OBVIOUS
<1>3. Over(q, c, n)
  BY <1>2 DEF Call, Over, Now, Rest
<1> QED
  BY <1>1, <1>2, <1>3, Zenon

\* A stream opens.
LEMMA RelaysNow ==
  ASSUME NEW c \in Call, NEW n \in Nat, NEW r, r = [c EXCEPT !.phase = "relay", !.answer = n]
  PROVE  r \in Call /\ r.kind = c.kind /\ r.phase = "relay" /\ r.sent = c.sent /\ Now(r, c, "relay", c.attempt, c.held, c.lived)
<1>1. r = [kind |-> c.kind, phase |-> "relay", attempt |-> c.attempt, sent |-> c.sent,
           models |-> c.models, synthesize |-> c.synthesize, results |-> c.results,
           synthesis |-> c.synthesis, held |-> c.held, lived |-> c.lived,
           answer |-> n, audited |-> c.audited]
  BY Zenon DEF Call
<1>2. PICK q : q = [kind |-> c.kind, phase |-> "relay", attempt |-> c.attempt, sent |-> c.sent,
           models |-> c.models, synthesize |-> c.synthesize, results |-> c.results,
           synthesis |-> c.synthesis, held |-> c.held, lived |-> c.lived,
           answer |-> n, audited |-> c.audited]
  OBVIOUS
<1>3. q \in Call /\ q.kind = c.kind /\ q.phase = "relay" /\ q.sent = c.sent /\ Now(q, c, "relay", c.attempt, c.held, c.lived)
  BY <1>2 DEF Call, Now, Rest
<1> QED
  BY <1>1, <1>2, <1>3, Zenon

\* What a request becomes when its completion has failed.
LEMMA FailedSound ==
  ASSUME NEW c \in Call, c.sent <= 1, c.kind \in Kinds, NEW failure \in Failures
  PROVE  Sound(Failed(c, failure))
<1>1. CASE c.kind = "compare"
  <2>1. PICK result \in Results : result = IF failure = "unavailable" THEN failure ELSE "error"
    BY DEF Results
  <2>2. Failed(c, failure) = AfterOne(c, result)
    BY <1>1, <2>1, Zenon DEF Failed
  <2> QED
    BY <2>2, AfterOneSound
<1>2. CASE c.kind # "compare"
  <2>1. PICK n \in Nat : n = FailureStatus[c.kind][failure]
    BY <1>2 DEF Kinds, Failures, FailureStatus, ChatFailure, EditFailure, StreamFailure
  <2>2. PICK r : r = [c EXCEPT !.phase = "done", !.answer = n]
    OBVIOUS
  <2>3. Over(r, c, n)
    BY <2>1, <2>2, DoneWith, Zenon
  <2>4. Failed(c, failure) = r
    BY <1>2, <2>1, <2>2, Zenon DEF Failed
  <2> QED
    BY <2>3, <2>4 DEF Sound, Over, Now, Rest
<1> QED
  BY <1>1, <1>2

\* The connection fails and is tried again.
LEMMA RetriesSound ==
  ASSUME NEW c \in Call, c.kind \in Kinds, c.sent = 0, c.phase = "connect", NEW r,
         r = [c EXCEPT !.attempt = @ + 1, !.held = @ + Backoff]
  PROVE  Sound(r) /\ Now(r, c, "connect", c.attempt + 1, c.held + Backoff, c.lived)
<1>1. PICK a \in Nat, h \in Nat : a = c.attempt + 1 /\ h = c.held + Backoff
  BY TimeAssumption DEF Call
<1>2. r = [kind |-> c.kind, phase |-> "connect", attempt |-> a, sent |-> 0,
           models |-> c.models, synthesize |-> c.synthesize, results |-> c.results,
           synthesis |-> c.synthesis, held |-> h, lived |-> c.lived,
           answer |-> c.answer, audited |-> c.audited]
  BY <1>1, Zenon DEF Call
<1>3. PICK q : q = [kind |-> c.kind, phase |-> "connect", attempt |-> a, sent |-> 0,
           models |-> c.models, synthesize |-> c.synthesize, results |-> c.results,
           synthesis |-> c.synthesis, held |-> h, lived |-> c.lived,
           answer |-> c.answer, audited |-> c.audited]
  OBVIOUS
<1>4. Sound(q) /\ Now(q, c, "connect", c.attempt + 1, c.held + Backoff, c.lived)
  BY <1>1, <1>3 DEF Call, Sound, Now, Rest
<1> QED
  BY <1>2, <1>3, <1>4, Zenon

\* The request is out.
LEMMA ConnectsSound ==
  ASSUME NEW c \in Call, c.kind \in Kinds, c.sent = 0, NEW d \in Nat, NEW r,
         r = [c EXCEPT !.phase = "wait", !.sent = @ + 1, !.held = @ + d]
  PROVE  Sound(r) /\ Now(r, c, "wait", c.attempt, c.held + d, c.lived)
<1>1. PICK h \in Nat, s \in 0..1 : h = c.held + d /\ s = c.sent + 1
  BY DEF Call
<1>2. r = [kind |-> c.kind, phase |-> "wait", attempt |-> c.attempt, sent |-> s,
           models |-> c.models, synthesize |-> c.synthesize, results |-> c.results,
           synthesis |-> c.synthesis, held |-> h, lived |-> c.lived,
           answer |-> c.answer, audited |-> c.audited]
  BY <1>1, Zenon DEF Call
<1>3. PICK q : q = [kind |-> c.kind, phase |-> "wait", attempt |-> c.attempt, sent |-> s,
           models |-> c.models, synthesize |-> c.synthesize, results |-> c.results,
           synthesis |-> c.synthesis, held |-> h, lived |-> c.lived,
           answer |-> c.answer, audited |-> c.audited]
  OBVIOUS
<1>4. Sound(q) /\ Now(q, c, "wait", c.attempt, c.held + d, c.lived)
  BY <1>1, <1>3 DEF Call, Sound, Now, Rest
<1> QED
  BY <1>2, <1>3, <1>4, Zenon

\* A line of a stream is read.
LEMMA ReadsSound ==
  ASSUME NEW c \in Call, c.kind \in Kinds, c.sent <= 1, NEW d \in Nat, NEW r,
         r = [[c EXCEPT !.held = @ + d, !.lived = @ + d] EXCEPT !.phase = "write"]
  PROVE  Sound(r) /\ Now(r, c, "write", c.attempt, c.held + d, c.lived + d)
<1>1. PICK h \in Nat, l \in Nat : h = c.held + d /\ l = c.lived + d
  BY DEF Call
<1>2. r = [kind |-> c.kind, phase |-> "write", attempt |-> c.attempt, sent |-> c.sent,
           models |-> c.models, synthesize |-> c.synthesize, results |-> c.results,
           synthesis |-> c.synthesis, held |-> h, lived |-> l,
           answer |-> c.answer, audited |-> c.audited]
  BY <1>1, Zenon DEF Call
<1>3. PICK q : q = [kind |-> c.kind, phase |-> "write", attempt |-> c.attempt, sent |-> c.sent,
           models |-> c.models, synthesize |-> c.synthesize, results |-> c.results,
           synthesis |-> c.synthesis, held |-> h, lived |-> l,
           answer |-> c.answer, audited |-> c.audited]
  OBVIOUS
<1>4. Sound(q) /\ Now(q, c, "write", c.attempt, c.held + d, c.lived + d)
  BY <1>1, <1>3 DEF Call, Sound, Now, Rest
<1> QED
  BY <1>2, <1>3, <1>4, Zenon

\* A line of a stream is written.
LEMMA WritesSound ==
  ASSUME NEW c \in Call, c.kind \in Kinds, c.sent <= 1, NEW d \in Nat, NEW r,
         r = [[c EXCEPT !.held = @ + d, !.lived = @ + d] EXCEPT !.phase = "relay"]
  PROVE  Sound(r) /\ Now(r, c, "relay", c.attempt, c.held + d, c.lived + d)
<1>1. PICK h \in Nat, l \in Nat : h = c.held + d /\ l = c.lived + d
  BY DEF Call
<1>2. r = [kind |-> c.kind, phase |-> "relay", attempt |-> c.attempt, sent |-> c.sent,
           models |-> c.models, synthesize |-> c.synthesize, results |-> c.results,
           synthesis |-> c.synthesis, held |-> h, lived |-> l,
           answer |-> c.answer, audited |-> c.audited]
  BY <1>1, Zenon DEF Call
<1>3. PICK q : q = [kind |-> c.kind, phase |-> "relay", attempt |-> c.attempt, sent |-> c.sent,
           models |-> c.models, synthesize |-> c.synthesize, results |-> c.results,
           synthesis |-> c.synthesis, held |-> h, lived |-> l,
           answer |-> c.answer, audited |-> c.audited]
  OBVIOUS
<1>4. Sound(q) /\ Now(q, c, "relay", c.attempt, c.held + d, c.lived + d)
  BY <1>1, <1>3 DEF Call, Sound, Now, Rest
<1> QED
  BY <1>2, <1>3, <1>4, Zenon

\* The last line of a stream is written.
LEMMA LastWriteSound ==
  ASSUME NEW c \in Call, c.kind \in Kinds, c.sent <= 1, NEW d \in Nat, NEW r,
         r = [[c EXCEPT !.held = @ + d, !.lived = @ + d] EXCEPT !.phase = "done"]
  PROVE  Sound(r) /\ Now(r, c, "done", c.attempt, c.held + d, c.lived + d)
<1>1. PICK h \in Nat, l \in Nat : h = c.held + d /\ l = c.lived + d
  BY DEF Call
<1>2. r = [kind |-> c.kind, phase |-> "done", attempt |-> c.attempt, sent |-> c.sent,
           models |-> c.models, synthesize |-> c.synthesize, results |-> c.results,
           synthesis |-> c.synthesis, held |-> h, lived |-> l,
           answer |-> c.answer, audited |-> c.audited]
  BY <1>1, Zenon DEF Call
<1>3. PICK q : q = [kind |-> c.kind, phase |-> "done", attempt |-> c.attempt, sent |-> c.sent,
           models |-> c.models, synthesize |-> c.synthesize, results |-> c.results,
           synthesis |-> c.synthesis, held |-> h, lived |-> l,
           answer |-> c.answer, audited |-> c.audited]
  OBVIOUS
<1>4. Sound(q) /\ Now(q, c, "done", c.attempt, c.held + d, c.lived + d)
  BY <1>1, <1>3 DEF Call, Sound, Now, Rest
<1> QED
  BY <1>2, <1>3, <1>4, Zenon

\* A stream ends.
LEMMA EndsSound ==
  ASSUME NEW c \in Call, c.kind \in Kinds, c.sent <= 1, NEW d \in Nat, NEW r,
         r = [c EXCEPT !.phase = "done", !.held = @ + d, !.lived = @ + d]
  PROVE  Sound(r) /\ Now(r, c, "done", c.attempt, c.held + d, c.lived + d)
<1>1. PICK h \in Nat, l \in Nat : h = c.held + d /\ l = c.lived + d
  BY DEF Call
<1>2. r = [kind |-> c.kind, phase |-> "done", attempt |-> c.attempt, sent |-> c.sent,
           models |-> c.models, synthesize |-> c.synthesize, results |-> c.results,
           synthesis |-> c.synthesis, held |-> h, lived |-> l,
           answer |-> c.answer, audited |-> c.audited]
  BY <1>1, Zenon DEF Call
<1>3. PICK q : q = [kind |-> c.kind, phase |-> "done", attempt |-> c.attempt, sent |-> c.sent,
           models |-> c.models, synthesize |-> c.synthesize, results |-> c.results,
           synthesis |-> c.synthesis, held |-> h, lived |-> l,
           answer |-> c.answer, audited |-> c.audited]
  OBVIOUS
<1>4. Sound(q) /\ Now(q, c, "done", c.attempt, c.held + d, c.lived + d)
  BY <1>1, <1>3 DEF Call, Sound, Now, Rest
<1> QED
  BY <1>2, <1>3, <1>4, Zenon

\* The browser has gone.
LEMMA GoneSound ==
  ASSUME NEW c \in Call, c.kind \in Kinds, c.sent <= 1, NEW d \in Nat, NEW r,
         r = [c EXCEPT !.phase = "done", !.held = @ + d]
  PROVE  Sound(r) /\ Now(r, c, "done", c.attempt, c.held + d, c.lived)
<1>1. PICK h \in Nat : h = c.held + d
  BY DEF Call
<1>2. r = [kind |-> c.kind, phase |-> "done", attempt |-> c.attempt, sent |-> c.sent,
           models |-> c.models, synthesize |-> c.synthesize, results |-> c.results,
           synthesis |-> c.synthesis, held |-> h, lived |-> c.lived,
           answer |-> c.answer, audited |-> c.audited]
  BY <1>1, Zenon DEF Call
<1>3. PICK q : q = [kind |-> c.kind, phase |-> "done", attempt |-> c.attempt, sent |-> c.sent,
           models |-> c.models, synthesize |-> c.synthesize, results |-> c.results,
           synthesis |-> c.synthesis, held |-> h, lived |-> c.lived,
           answer |-> c.answer, audited |-> c.audited]
  OBVIOUS
<1>4. Sound(q) /\ Now(q, c, "done", c.attempt, c.held + d, c.lived)
  BY <1>1, <1>3 DEF Call, Sound, Now, Rest
<1> QED
  BY <1>2, <1>3, <1>4, Zenon


----------------------------------------------------------------------------
\* What a step makes of the time and the results.

\* A completion that is not late is within the time of one call.
LEMMA CallIsOn ==
  ASSUME NEW c \in Call, c.kind \in Kinds, c.phase \in {"connect", "wait"}, c.lived = 0, Told(c),
         c.attempt <= Retries(c.kind),
         c.held <= Before(c) + Tries(c.attempt) + ConnectTime + AnswerTime,
         c.phase = "connect" => c.held <= Before(c) + Tries(c.attempt) + ConnectTime
  PROVE  InCall(c)
<1>1. c.attempt \in Nat /\ c.held \in Nat /\ Retries(c.kind) \in Nat
  BY RetriesAre DEF Call
<1>2. Tries(c.attempt) <= Tries(Retries(c.kind))
  BY <1>1, TriesGrow
<1>3. Tries(c.attempt) \in Nat /\ Tries(Retries(c.kind)) \in Nat
  BY <1>1, TriesAre
<1>4. c.held <= Before(c) + OneCall(c.kind)
  BY <1>1, <1>2, <1>3, BeforeType, TimeAssumption, OneCallIs
<1> QED
  BY <1>4 DEF InCall

\* More of a model's call passes.
LEMMA CallGoesOn ==
  ASSUME NEW c \in Call, c.kind \in Kinds, Kept(c), c.phase \in {"connect", "wait"},
         NEW d \in Nat, c.phase = "connect" => d <= ConnectTime, c.phase = "wait" => d <= AnswerTime,
         NEW r, r = [c EXCEPT !.held = c.held + d]
  PROVE  InCall(r)
<1>1. /\ r \in Call /\ r.kind = c.kind /\ r.phase = c.phase /\ r.attempt = c.attempt
      /\ r.models = c.models /\ r.synthesize = c.synthesize
      /\ r.results = c.results /\ r.synthesis = c.synthesis /\ r.held = c.held + d
      /\ r.lived = c.lived /\ r.answer = c.answer /\ r.audited = c.audited
  BY Waits
<1>2. Told(r)
  BY <1>1 DEF Kept, Told, Good
<1>3. Before(r) = Before(c)
  BY <1>1 DEF Before, Past
<1>4. c.attempt \in Nat /\ c.held \in Nat /\ c.attempt <= Retries(c.kind) /\ c.lived = 0
  BY DEF Call, Kept, InTime
<1>5. Tries(c.attempt) \in Nat /\ Before(c) \in Nat
  BY <1>4, TriesAre, BeforeType
<1>6. /\ c.phase = "connect" => c.held <= Before(c) + Tries(c.attempt)
      /\ c.phase = "wait" => c.held <= Before(c) + Tries(c.attempt) + ConnectTime
  BY DEF Kept, InTime
<1>7. /\ r.held <= Before(r) + Tries(r.attempt) + ConnectTime + AnswerTime
      /\ r.phase = "connect" => r.held <= Before(r) + Tries(r.attempt) + ConnectTime
  BY <1>1, <1>3, <1>4, <1>5, <1>6, TimeAssumption
<1> QED
  BY <1>1, <1>2, <1>4, <1>7, CallIsOn

\* Nothing of it has passed.
LEMMA CallStands ==
  ASSUME NEW c \in Call, c.kind \in Kinds, Kept(c), c.phase = "connect"
  PROVE  InCall(c)
<1>1. c.attempt \in Nat /\ c.held \in Nat /\ c.attempt <= Retries(c.kind) /\ c.lived = 0 /\ Told(c)
  BY DEF Call, Kept, InTime
<1>2. Tries(c.attempt) \in Nat /\ Before(c) \in Nat
  BY <1>1, TriesAre, BeforeType
<1>3. c.held <= Before(c) + Tries(c.attempt)
  BY DEF Kept, InTime
<1>4. c.held <= Before(c) + Tries(c.attempt) + ConnectTime /\ c.held <= Before(c) + Tries(c.attempt) + ConnectTime + AnswerTime
  BY <1>1, <1>2, <1>3, TimeAssumption
<1> QED
  BY <1>1, <1>4, CallIsOn

\* A request that a model has refused or not answered, no compare, is over.
LEMMA OverKept ==
  ASSUME NEW c, InCall(c), c.kind # "compare", NEW r, Rest(r, c), r.phase = "done",
         r.held = c.held, r.audited <=> (r.kind = "edit" /\ r.answer = 200)
  PROVE  Kept(r)
<1>1. c.synthesis = 0 /\ r.synthesis = 0 /\ r.kind = c.kind
  BY DEF InCall, Told, Rest
<1>2. Told(r)
  BY <1>1 DEF Told
<1>3. c.held <= OneCall(c.kind) /\ c.held \in Nat
  BY OneCallIs DEF InCall, Before, Call
<1>4. r.held <= LongestHold(r)
  BY <1>1, <1>3, OneCallIs, TimeAssumption DEF LongestHold
<1> QED
  BY <1>2, <1>4 DEF Kept, InTime

\* A compare that is answered.
Ended(r, c) ==
  /\ r \in Call /\ r.kind = c.kind /\ r.phase = "done"
  /\ r.models = c.models /\ r.synthesize = c.synthesize
  /\ r.results = c.results /\ r.synthesis = c.synthesis /\ r.held = c.held
  /\ r.lived = c.lived /\ r.answer = 200 /\ r.audited = TRUE
LEMMA EndedCall ==
  ASSUME NEW c \in Call, NEW r, r = [c EXCEPT !.phase = "done", !.answer = 200, !.audited = TRUE]
  PROVE  Ended(r, c)
<1>1. r = [kind |-> c.kind, phase |-> "done", attempt |-> c.attempt, sent |-> c.sent,
           models |-> c.models, synthesize |-> c.synthesize, results |-> c.results,
           synthesis |-> c.synthesis, held |-> c.held, lived |-> c.lived,
           answer |-> 200, audited |-> TRUE]
  BY Zenon DEF Call
<1>2. PICK q : q = [kind |-> c.kind, phase |-> "done", attempt |-> c.attempt, sent |-> c.sent,
           models |-> c.models, synthesize |-> c.synthesize, results |-> c.results,
           synthesis |-> c.synthesis, held |-> c.held, lived |-> c.lived,
           answer |-> 200, audited |-> TRUE]
  OBVIOUS
<1>3. Ended(q, c)
  BY <1>2 DEF Call, Ended
<1> QED
  BY <1>1, <1>2, <1>3, Zenon

\* compare's three ways on.
ThreeWays(q, c, d, again, asks, over) ==
  q = CASE c.synthesis = 0 /\ Len(d.results) < c.models -> again
        [] c.synthesis = 0 /\ Len(d.results) >= c.models /\ c.synthesize /\ Cardinality(Good(d)) >= 2 -> asks
        [] OTHER -> over
LEMMA AfterOneIs ==
  ASSUME NEW c, NEW result
  PROVE  \E d, again, asks, over :
           /\ d = IF c.synthesis # 0 THEN c ELSE [c EXCEPT !.results = Append(@, result)]
           /\ again = [d EXCEPT !.phase = "connect", !.attempt = 0, !.sent = 0]
           /\ asks = [again EXCEPT !.synthesis = FirstGood(d)]
           /\ over = [d EXCEPT !.phase = "done", !.answer = 200, !.audited = TRUE]
           /\ ThreeWays(AfterOne(c, result), c, d, again, asks, over)
<1>1. PICK d : d = IF c.synthesis # 0 THEN c ELSE [c EXCEPT !.results = Append(@, result)]
  OBVIOUS
<1>2. PICK again : again = [d EXCEPT !.phase = "connect", !.attempt = 0, !.sent = 0]
  OBVIOUS
<1>5. PICK asks : asks = [again EXCEPT !.synthesis = FirstGood(d)]
  BY Zenon
<1>3. PICK over : over = [d EXCEPT !.phase = "done", !.answer = 200, !.audited = TRUE]
  OBVIOUS
<1>4. ThreeWays(AfterOne(c, result), c, d, again, asks, over)
  BY <1>1, <1>2, <1>3, <1>5, Zenon DEF AfterOne, ThreeWays
<1> QED
  BY <1>1, <1>2, <1>3, <1>4, <1>5, Zenon

\* The next call of a compare, its synthesis, or its end.
LEMMA AfterOneKept ==
  ASSUME NEW c, InCall(c), c.kind = "compare", NEW result \in Results
  PROVE  Kept(AfterOne(c, result))
<1>0. c \in Call /\ Told(c) /\ c.held \in Nat /\ c.models \in Nat /\ c.results \in Seq(Results)
      /\ Len(c.results) \in Nat /\ c.phase # "done" /\ c.lived = 0
  BY DEF InCall, Call, Results
<1>1. PICK K \in Nat : K = OneCall("compare")
  BY OneCallIs
<1>2. PICK d, again, asks, over :
        /\ d = IF c.synthesis # 0 THEN c ELSE [c EXCEPT !.results = Append(@, result)]
        /\ again = [d EXCEPT !.phase = "connect", !.attempt = 0, !.sent = 0]
        /\ asks = [again EXCEPT !.synthesis = FirstGood(d)]
        /\ over = [d EXCEPT !.phase = "done", !.answer = 200, !.audited = TRUE]
        /\ ThreeWays(AfterOne(c, result), c, d, again, asks, over)
  BY AfterOneIs, Zenon
<1>6. again = [d EXCEPT !.phase = "connect", !.attempt = 0, !.sent = 0]
  BY <1>2, Zenon
<1>5a. asks = [again EXCEPT !.synthesis = FirstGood(d)]
  BY <1>2, Zenon
<1>11. over = [d EXCEPT !.phase = "done", !.answer = 200, !.audited = TRUE]
  BY <1>2, Zenon
<1>14. ThreeWays(AfterOne(c, result), c, d, again, asks, over)
  BY <1>2, Zenon
<1>3. /\ d \in Call /\ d.kind = "compare" /\ d.models = c.models /\ d.synthesize = c.synthesize
      /\ d.synthesis = c.synthesis /\ d.held = c.held /\ d.lived = 0 /\ d.phase # "done" /\ ~d.audited
      /\ c.synthesis # 0 => d = c
      /\ c.synthesis = 0 => Len(d.results) = Len(c.results) + 1
  <2>1. CASE c.synthesis # 0
    BY <1>0, <1>2, <2>1 DEF Told
  <2>2. CASE c.synthesis = 0
    <3>1. d = [c EXCEPT !.results = Append(@, result)]
      BY <1>2, <2>2, Zenon
    <3>2. /\ d \in Call /\ d.kind = c.kind /\ d.phase = c.phase
          /\ d.models = c.models /\ d.synthesize = c.synthesize
          /\ d.synthesis = c.synthesis /\ d.held = c.held
          /\ d.lived = c.lived /\ d.audited = c.audited
          /\ Len(d.results) = Len(c.results) + 1
      BY <1>0, <3>1, Keeps
    <3> QED
      BY <1>0, <2>2, <3>2 DEF Told
  <2> QED
    BY <2>1, <2>2
<1>4. d.held \in Nat /\ d.models \in Nat /\ d.results \in Seq(Results) /\ Len(d.results) \in Nat
  BY <1>3 DEF Call, Results
<1>5. \* the time up to here
      d.held <= IF c.synthesis # 0 THEN (c.models + 1) * K ELSE Len(d.results) * K
  <2>1. c.held <= Past(c) * K + K
    BY <1>1 DEF InCall, Before
  <2>2. CASE c.synthesis # 0
    <3>1. Past(c) = c.models
      BY <2>2 DEF Past
    <3> QED
      BY <1>0, <1>1, <1>3, <2>1, <2>2, <3>1, TimesNext
  <2>3. CASE c.synthesis = 0
    <3>1. Past(c) = Len(c.results)
      BY <2>3 DEF Past
    <3>2. (Len(c.results) + 1) * K = Len(c.results) * K + K
      BY <1>0, TimesNext
    <3> QED
      BY <1>3, <2>1, <2>3, <3>1, <3>2
  <2> QED
    BY <2>2, <2>3
<1>7. /\ again \in Call /\ again.kind = d.kind /\ again.phase = "connect" /\ again.attempt = 0
      /\ again.models = d.models /\ again.synthesize = d.synthesize
      /\ again.results = d.results /\ again.synthesis = d.synthesis /\ again.held = d.held
      /\ again.lived = d.lived /\ again.audited = d.audited
  BY <1>3, <1>6, Again, Zenon
<1>8. Tries(0) = 0 /\ 0 <= Retries("compare")
  <2>1. PICK w \in Nat : w = ConnectTime + Backoff
    BY TimeAssumption
  <2> QED
    BY <2>1, RetriesAre, TimesNext DEF Tries
<1>9. ASSUME c.synthesis = 0, Len(d.results) < c.models
      PROVE  Kept(again)
  <2>1. Before(again) = Len(d.results) * K
    BY <1>1, <1>3, <1>7, <1>9 DEF Before, Past
  <2>2. Len(d.results) * K \in Nat
    BY <1>4, <1>1, TimesNext
  <2>3. again.held <= Before(again) + Tries(again.attempt)
    BY <1>4, <1>5, <1>7, <1>8, <1>9, <2>1, <2>2
  <2>4. InTime(again)
    BY <1>3, <1>7, <1>8, <2>3 DEF InTime
  <2>5. Told(again)
    BY <1>3, <1>7, <1>9 DEF Told
  <2> QED
    BY <2>4, <2>5 DEF Kept
<1>10. ASSUME c.synthesis = 0, Len(d.results) >= c.models, c.synthesize, Cardinality(Good(d)) >= 2
       PROVE  Kept(asks)
  <2>1. PICK n : n = FirstGood(d)
    OBVIOUS
  <2>2. n \in Good(d) /\ n \in Nat /\ n # 0
    BY <1>3, <1>10, <2>1, FirstIsGood
  <2>3. PICK r : r = [again EXCEPT !.synthesis = n]
    OBVIOUS
  <2>4. /\ r \in Call /\ r.kind = again.kind /\ r.phase = again.phase /\ r.attempt = again.attempt
        /\ r.models = again.models /\ r.synthesize = again.synthesize
        /\ r.results = again.results /\ r.synthesis = n /\ r.held = again.held
        /\ r.lived = again.lived /\ r.audited = again.audited
    BY <1>7, <2>2, <2>3, Asks
  <2>5. Len(d.results) = c.models
    <3>1. Len(c.results) < c.models
      BY <1>0, <1>10 DEF Told
    <3> QED
      BY <1>0, <1>3, <1>4, <1>10, <3>1
  <2>6. Good(r) = Good(d) /\ r.results[n] = "good"
    BY <1>7, <2>2, <2>4 DEF Good
  <2>7. Told(r)
    BY <1>3, <1>7, <1>10, <2>2, <2>4, <2>5, <2>6 DEF Told
  <2>8. Before(r) = Len(d.results) * K
    BY <1>1, <1>3, <1>7, <2>2, <2>4, <2>5 DEF Before, Past
  <2>9. Len(d.results) * K \in Nat
    BY <1>4, <1>1, TimesNext
  <2>10. r.held <= Before(r) + Tries(r.attempt)
    BY <1>4, <1>5, <1>7, <1>8, <1>10, <2>4, <2>8, <2>9
  <2>11. InTime(r)
    BY <1>3, <1>7, <1>8, <2>4, <2>10 DEF InTime
  <2>12. Kept(r)
    BY <2>7, <2>11 DEF Kept
  <2> QED
    BY <1>5a, <2>1, <2>3, <2>12, Zenon
<1>12. /\ over \in Call /\ over.kind = d.kind /\ over.phase = "done"
       /\ over.models = d.models /\ over.synthesize = d.synthesize
       /\ over.results = d.results /\ over.synthesis = d.synthesis /\ over.held = d.held
       /\ over.lived = d.lived /\ over.answer = 200 /\ over.audited = TRUE
  <2>1. Ended(over, d)
    BY <1>3, <1>11, EndedCall, Zenon
  <2> QED
    BY <2>1 DEF Ended
<1>13. ASSUME \/ c.synthesis # 0
              \/ Len(d.results) >= c.models /\ ~(c.synthesize /\ Cardinality(Good(d)) >= 2)
       PROVE  Kept(over)
  <2>1. Good(over) = Good(d)
    BY <1>12 DEF Good
  <2>2. Len(d.results) = c.models
    <3>1. c.synthesis = 0 => Len(c.results) < c.models
      BY <1>0, <1>3 DEF Told, InCall
    <3>2. c.synthesis # 0 => Len(c.results) = c.models
      BY <1>0 DEF Told
    <3> QED
      BY <1>0, <1>3, <1>4, <1>13, <3>1, <3>2
  <2>3. Told(over)
    BY <1>0, <1>3, <1>12, <1>13, <2>1, <2>2 DEF Told
  <2>4. LongestHold(over) = (c.models + (IF c.synthesize THEN 1 ELSE 0)) * K
    BY <1>1, <1>3, <1>12 DEF LongestHold
  <2>5. over.held <= LongestHold(over)
    <3>1. /\ c.models * K \in Nat /\ (c.models + 1) * K = c.models * K + K
          /\ (c.models + 0) * K = c.models * K
      BY <1>0, <1>1, TimesNext
    <3>2. c.synthesis # 0 => c.synthesize
      BY <1>0 DEF Told
    <3> QED
      BY <1>1, <1>4, <1>5, <1>12, <2>2, <2>4, <3>1, <3>2
  <2> QED
    BY <1>12, <2>3, <2>5 DEF Kept, InTime
<1>15. CASE c.synthesis = 0 /\ Len(d.results) < c.models
  <2>1. ~(Len(d.results) >= c.models)
    BY <1>0, <1>4, <1>15
  <2>2. AfterOne(c, result) = again
    BY <1>14, <1>15, <2>1, Zenon DEF ThreeWays
  <2> QED
    BY <1>9, <1>15, <2>2, Zenon
<1>16. CASE c.synthesis = 0 /\ Len(d.results) >= c.models /\ c.synthesize /\ Cardinality(Good(d)) >= 2
  <2>1. ~(Len(d.results) < c.models)
    BY <1>0, <1>4, <1>16
  <2>2. AfterOne(c, result) = asks
    BY <1>0, <1>4, <1>14, <1>16, <2>1 DEF ThreeWays
  <2> QED
    BY <1>10, <1>16, <2>2, Zenon
<1>17. CASE \/ c.synthesis # 0
            \/ Len(d.results) >= c.models /\ ~(c.synthesize /\ Cardinality(Good(d)) >= 2)
  <2>1. ~(c.synthesis = 0 /\ Len(d.results) < c.models)
    BY <1>0, <1>4, <1>17
  <2>2. AfterOne(c, result) = over
    BY <1>0, <1>4, <1>14, <1>17, <2>1 DEF ThreeWays
  <2> QED
    BY <1>13, <1>17, <2>2, Zenon
<1> QED
  BY <1>0, <1>4, <1>15, <1>16, <1>17

\* A completion that failed.
LEMMA FailedKept ==
  ASSUME NEW c, InCall(c), NEW failure \in Failures
  PROVE  Kept(Failed(c, failure))
<1>0. c \in Call /\ c.kind \in Kinds /\ Told(c) /\ c.phase # "done"
  BY DEF InCall
<1>1. CASE c.kind = "compare"
  <2>1. PICK result \in Results : result = IF failure = "unavailable" THEN failure ELSE "error"
    BY DEF Results
  <2>2. Failed(c, failure) = AfterOne(c, result)
    BY <1>1, <2>1, Zenon DEF Failed
  <2> QED
    BY <1>1, <2>2, AfterOneKept
<1>2. CASE c.kind # "compare"
  <2>1. PICK n \in Nat : n = FailureStatus[c.kind][failure]
    BY <1>0, <1>2 DEF Kinds, Failures, FailureStatus, ChatFailure, EditFailure, StreamFailure
  <2>2. n # 200
    BY <1>0, <1>2, <2>1 DEF Kinds, Failures, FailureStatus, ChatFailure, EditFailure, StreamFailure
  <2>3. PICK r : r = [c EXCEPT !.phase = "done", !.answer = n]
    OBVIOUS
  <2>4. Over(r, c, n)
    BY <1>0, <2>1, <2>3, DoneWith, Zenon
  <2>5. Kept(r)
    BY <1>0, <1>2, <2>2, <2>4, OverKept DEF Told, Over, Now
  <2>6. Failed(c, failure) = r
    BY <1>2, <2>1, <2>3, Zenon DEF Failed
  <2> QED
    BY <2>5, <2>6, Zenon
<1> QED
  BY <1>1, <1>2

\* The connection failed and is tried again.
LEMMA RetryKept ==
  ASSUME NEW c, InCall(c), c.phase = "connect", c.attempt < Retries(c.kind),
         NEW r, Now(r, c, "connect", c.attempt + 1, c.held + Backoff, c.lived)
  PROVE  Kept(r)
<1>1. /\ Rest(r, c) /\ r.phase = "connect" /\ r.attempt = c.attempt + 1
      /\ r.held = c.held + Backoff /\ r.lived = 0 /\ r.audited = c.audited
  BY DEF Now, InCall
<1>2. c.attempt \in Nat /\ c.held \in Nat /\ Retries(c.kind) \in Nat /\ c \in Call
  BY RetriesAre DEF InCall, Call
<1>3. Before(r) = Before(c) /\ r.kind = c.kind
  BY <1>1 DEF Before, Past, Rest
<1>4. Told(r)
  BY <1>1 DEF InCall, Told, Rest, Good
<1>5. Tries(c.attempt + 1) = Tries(c.attempt) + ConnectTime + Backoff /\ Tries(c.attempt) \in Nat
  BY <1>2, TriesAre
<1>6. c.held <= Before(c) + Tries(c.attempt) + ConnectTime
  BY DEF InCall
<1>7. r.held <= Before(r) + Tries(r.attempt)
  BY <1>1, <1>2, <1>3, <1>5, <1>6, BeforeType, TimeAssumption
<1>8. InTime(r)
  BY <1>1, <1>2, <1>3, <1>7 DEF InTime
<1> QED
  BY <1>4, <1>8 DEF Kept

\* The request is out.
LEMMA SentKept ==
  ASSUME NEW c \in Call, c.kind \in Kinds, Kept(c), c.phase = "connect", NEW d \in Nat, d <= ConnectTime,
         NEW r, Now(r, c, "wait", c.attempt, c.held + d, c.lived)
  PROVE  Kept(r)
<1>1. /\ Rest(r, c) /\ r.phase = "wait" /\ r.attempt = c.attempt
      /\ r.held = c.held + d /\ r.lived = c.lived /\ r.audited = c.audited
  BY DEF Now
<1>2. c.attempt \in Nat /\ c.held \in Nat
  BY DEF Call
<1>3. Before(r) = Before(c) /\ r.kind = c.kind
  BY <1>1 DEF Before, Past, Rest
<1>4. Told(r)
  BY <1>1 DEF Kept, Told, Rest, Good
<1>5. Tries(c.attempt) \in Nat
  BY <1>2, TriesAre
<1>6. c.held <= Before(c) + Tries(c.attempt)
  BY DEF Kept, InTime
<1>7. r.held <= Before(r) + Tries(r.attempt) + ConnectTime
  BY <1>1, <1>2, <1>3, <1>5, <1>6, BeforeType, TimeAssumption
<1>8. InTime(r)
  BY <1>1, <1>2, <1>3, <1>7 DEF InTime, Kept
<1> QED
  BY <1>4, <1>8 DEF Kept

\* A stream opens.
LEMMA OpensKept ==
  ASSUME NEW c, InCall(c), c.kind = "stream", NEW r, Now(r, c, "relay", c.attempt, c.held, c.lived)
  PROVE  Kept(r)
<1>1. Rest(r, c) /\ r.phase = "relay" /\ r.held = c.held /\ r.lived = c.lived /\ r.audited = c.audited
  BY DEF Now
<1>2. c.held \in Nat /\ c.held <= OneCall("stream") /\ c.lived = 0
  BY OneCallIs DEF InCall, Before, Call
<1>3. Told(r)
  BY <1>1 DEF InCall, Told, Rest, Good
<1>4. InTime(r)
  BY <1>1, <1>2, OneCallIs, TimeAssumption DEF InTime, Rest
<1> QED
  BY <1>3, <1>4 DEF Kept

\* A stream goes on or ends.
LEMMA StreamKept ==
  ASSUME NEW c \in Call, Kept(c), c.phase \in {"relay", "write"},
         NEW r, NEW phase, NEW held, NEW lived, Now(r, c, phase, c.attempt, held, lived),
         \/ phase = "relay" /\ held <= OneCall("stream") + lived /\ lived <= StreamCap
         \/ phase = "write" /\ held <= OneCall("stream") + lived /\ lived <= StreamCap + LineTime
         \/ phase = "done" /\ held <= OneCall("stream") + StreamCap + LineTime + WriteTime
  PROVE  Kept(r)
<1>0. Rest(r, c) /\ r.phase = phase /\ r.held = held /\ r.lived = lived /\ r.audited = c.audited
  BY DEF Now
<1>1. c.kind = "stream" /\ r.kind = "stream"
  BY <1>0 DEF Kept, InTime, Rest
<1>2. c.synthesis = 0 /\ r.synthesis = 0 /\ ~r.audited
  BY <1>0, <1>1 DEF Kept, Told, Rest
<1>3. Told(r)
  BY <1>1, <1>2 DEF Told
<1>4. LongestHold(r) = OneCall("stream") + StreamCap + LineTime + WriteTime
  BY <1>1 DEF LongestHold
<1>5. InTime(r)
  BY <1>0, <1>1, <1>4 DEF InTime
<1> QED
  BY <1>3, <1>5 DEF Kept

\* What is known of a stream.
LEMMA StreamIs ==
  ASSUME NEW c \in Call, Kept(c), c.phase \in {"relay", "write"}
  PROVE  /\ c.held \in Nat /\ c.lived \in Nat /\ OneCall("stream") \in Nat
         /\ c.held <= OneCall("stream") + c.lived /\ c.lived <= StreamCap + LineTime
         /\ c.phase = "relay" => c.lived <= StreamCap
  BY OneCallIs, TimeAssumption DEF Call, Kept, InTime

\* The longest hold is some time, and no completion under way has taken longer.
LEMMA LongestIs ==
  ASSUME NEW c \in Call
  PROVE  0 <= LongestHold(c)
<1>1. PICK K \in Nat : K = OneCall("compare")
  BY OneCallIs
<1>2. PICK m \in Nat : m = c.models + (IF c.synthesize THEN 1 ELSE 0)
  BY DEF Call
<1>3. m * K \in Nat
  BY <1>1, <1>2, TimesNext
<1>4. c.kind = "compare" => LongestHold(c) = m * K
  BY <1>1, <1>2, Zenon DEF LongestHold
<1>5. c.kind = "stream" => LongestHold(c) = OneCall("stream") + StreamCap + LineTime + WriteTime
  BY DEF LongestHold
<1>6. c.kind # "stream" /\ c.kind # "compare" => LongestHold(c) = OneCall(c.kind)
  BY DEF LongestHold
<1> QED
  BY <1>3, <1>4, <1>5, <1>6, OneCallIs, TimeAssumption

LEMMA WithinCall ==
  ASSUME NEW c \in Call, c.kind \in Kinds, Kept(c), c.phase \in {"connect", "wait"}
  PROVE  c.held <= LongestHold(c)
<1>1. PICK K \in Nat : K = OneCall(c.kind)
  BY OneCallIs
<1>2. c.attempt \in Nat /\ c.held \in Nat /\ c.attempt <= Retries(c.kind) /\ Retries(c.kind) \in Nat /\ c.lived = 0
  BY RetriesAre DEF Call, Kept, InTime
<1>3. Tries(c.attempt) <= Tries(Retries(c.kind)) /\ Tries(c.attempt) \in Nat /\ Tries(Retries(c.kind)) \in Nat
  BY <1>2, TriesGrow, TriesAre
<1>4. c.held <= Before(c) + Tries(c.attempt) + ConnectTime
  BY <1>2, <1>3, BeforeType, TimeAssumption DEF Kept, InTime
<1>5. c.held <= Before(c) + K
  BY <1>1, <1>2, <1>3, <1>4, BeforeType, TimeAssumption, OneCallIs
<1>6. CASE c.kind # "compare"
  <2>1. c.held <= K
    BY <1>1, <1>2, <1>5, <1>6 DEF Before
  <2> QED
    BY <1>1, <1>2, <1>6, <2>1, TimeAssumption DEF LongestHold
<1>7. CASE c.kind = "compare"
  <2>1. PICK p \in Nat : p = Past(c)
    BY BeforeType
  <2>2. PICK m \in Nat : m = c.models + (IF c.synthesize THEN 1 ELSE 0)
    BY DEF Call
  <2>3. p + 1 <= m
    <3>1. c.models \in Nat /\ Len(c.results) \in Nat
      BY DEF Call
    <3> QED
      BY <2>1, <2>2, <3>1, <1>7 DEF Kept, Told, Past
  <2>4. c.held <= p * K + K
    BY <1>1, <1>5, <1>7, <2>1 DEF Before
  <2>5. PICK x \in Nat : m = p + 1 + x
    <3>1. m - (p + 1) \in Nat /\ m = p + 1 + (m - (p + 1))
      BY <2>1, <2>2, <2>3
    <3> QED
      BY <3>1
  <2>6. m * K = p * K + K + x * K /\ p * K \in Nat /\ x * K \in Nat
    BY <1>1, <2>1, <2>2, <2>5
  <2>7. LongestHold(c) = m * K
    BY <1>1, <1>7, <2>2 DEF LongestHold
  <2> QED
    BY <1>1, <1>2, <2>4, <2>6, <2>7
<1> QED
  BY <1>6, <1>7

----------------------------------------------------------------------------
\* The steps.

\* One thread's request changes into a sound one.
LEMMA OneCallChanges ==
  ASSUME CallsSound, UNCHANGED behind, NEW th \in Threads, NEW r, Sound(r), Kept(r),
         call' = [call EXCEPT ![th] = r]
  PROVE  CallsSound'
<1>1. behind' \in Surfaces /\ call' \in [Threads -> Call]
  BY DEF CallsSound, Sound
<1>2. ASSUME NEW u \in Threads
      PROVE  Sound(call'[u]) /\ Kept(call'[u])
  BY DEF CallsSound
<1> QED
  BY <1>1, <1>2 DEF CallsSound

\* The connection fails.
LEMMA ConnectFailsStep ==
  ASSUME CallsSound, NEW th \in Threads, NEW d \in Nat, d <= ConnectTime, ConnectFails(th, d)
  PROVE  CallsSound'
<1>1. PICK o : o = call[th]
  OBVIOUS
<1>2. Sound(o) /\ Kept(o) /\ o \in Call
  BY <1>1 DEF CallsSound, Sound
<1>3. PICK c : c = [o EXCEPT !.held = @ + d]
  OBVIOUS
<1>4. /\ c.phase = "connect" /\ UNCHANGED behind
      /\ call' = [call EXCEPT ![th] = IF c.attempt < Retries(c.kind)
                                      THEN [c EXCEPT !.attempt = @ + 1, !.held = @ + Backoff]
                                      ELSE Failed(c, "unavailable")]
  BY <1>1, <1>3, Zenon DEF ConnectFails
<1>5. c = [o EXCEPT !.held = o.held + d]
  BY <1>3, Zenon
<1>6. c \in Call /\ c.kind = o.kind /\ c.phase = o.phase /\ c.sent = o.sent
  BY <1>2, <1>5, Waits, Zenon
<1>7. c.sent = 0 /\ c.sent <= 1 /\ c.kind \in Kinds
  BY <1>2, <1>4, <1>6 DEF Sound
<1>8. InCall(c)
  <2>1. o.kind \in Kinds /\ o.phase = "connect"
    BY <1>4, <1>6, <1>7
  <2> QED
    BY <1>2, <1>5, <2>1, CallGoesOn
<1>9. Sound(Failed(c, "unavailable")) /\ Kept(Failed(c, "unavailable"))
  BY <1>6, <1>7, <1>8, FailedSound, FailedKept DEF Failures
<1>10. PICK again : again = [c EXCEPT !.attempt = @ + 1, !.held = @ + Backoff]
  OBVIOUS
<1>11. Sound(again) /\ Now(again, c, "connect", c.attempt + 1, c.held + Backoff, c.lived)
  BY <1>4, <1>6, <1>7, <1>10, RetriesSound, Zenon
<1>12. c.attempt < Retries(c.kind) => Kept(again)
  BY <1>4, <1>8, <1>11, RetryKept
<1>13. PICK r : Sound(r) /\ Kept(r) /\ call' = [call EXCEPT ![th] = r]
  BY <1>4, <1>9, <1>10, <1>11, <1>12, Zenon
<1> QED
  BY <1>4, <1>13, OneCallChanges, Zenon

\* The model's answer fails.
LEMMA AnswerFailsStep ==
  ASSUME CallsSound, NEW th \in Threads, NEW d \in Nat, d <= AnswerTime, NEW failure \in Failures,
         AnswerFails(th, d, failure)
  PROVE  CallsSound'
<1>1. PICK o : o = call[th]
  OBVIOUS
<1>2. Sound(o) /\ Kept(o) /\ o \in Call
  BY <1>1 DEF CallsSound, Sound
<1>3. PICK c : c = [o EXCEPT !.held = o.held + d]
  OBVIOUS
<1>4. c.phase = "wait" /\ UNCHANGED behind /\ call' = [call EXCEPT ![th] = Failed(c, failure)]
  BY <1>1, <1>3, Zenon DEF AnswerFails
<1>5. c \in Call /\ c.kind = o.kind /\ c.phase = o.phase /\ c.sent = o.sent
  BY <1>2, <1>3, Waits, Zenon
<1>6. c.sent <= 1 /\ c.kind \in Kinds
  BY <1>2, <1>4, <1>5 DEF Sound
<1>8. InCall(c)
  <2>1. o.kind \in Kinds /\ o.phase = "wait"
    BY <1>4, <1>5, <1>6
  <2> QED
    BY <1>2, <1>3, <2>1, CallGoesOn
<1>7. Sound(Failed(c, failure)) /\ Kept(Failed(c, failure))
  BY <1>5, <1>6, <1>8, FailedSound, FailedKept
<1> QED
  BY <1>4, <1>7, OneCallChanges, Zenon

\* The model answers.
LEMMA AnswersStep ==
  ASSUME CallsSound, NEW th \in Threads, NEW d \in Nat, d <= AnswerTime, NEW content \in BOOLEAN,
         Answers(th, d, content)
  PROVE  CallsSound'
<1>1. PICK o : o = call[th]
  OBVIOUS
<1>2. Sound(o) /\ Kept(o) /\ o \in Call
  BY <1>1 DEF CallsSound, Sound
<1>3. PICK c : c = [o EXCEPT !.held = o.held + d]
  OBVIOUS
<1>4. /\ c.phase = "wait" /\ UNCHANGED behind
      /\ call' = [call EXCEPT ![th] =
          CASE c.kind = "chat"    -> [c EXCEPT !.phase = "done", !.answer = 200]
            [] c.kind = "edit"    -> [c EXCEPT !.phase = "done", !.answer = 200, !.audited = TRUE]
            [] c.kind = "stream"  -> [c EXCEPT !.phase = "relay", !.answer = 200]
            [] c.kind = "compare" -> AfterOne(c, IF content THEN "good" ELSE "blank")]
  BY <1>1, <1>3, Zenon DEF Answers
<1>5. c \in Call /\ c.kind = o.kind /\ c.phase = o.phase /\ c.sent = o.sent
  BY <1>2, <1>3, Waits, Zenon
<1>6. c.sent <= 1 /\ c.kind \in Kinds
  BY <1>2, <1>4, <1>5 DEF Sound
<1>14. InCall(c)
  <2>1. o.kind \in Kinds /\ o.phase = "wait"
    BY <1>4, <1>5, <1>6
  <2> QED
    BY <1>2, <1>3, <2>1, CallGoesOn
<1>15. ~c.audited /\ Told(c)
  BY <1>14 DEF InCall, Told
<1>7. c.kind = "chat" => Sound([c EXCEPT !.phase = "done", !.answer = 200])
                         /\ Kept([c EXCEPT !.phase = "done", !.answer = 200])
  <2>1. PICK n \in Nat : n = 200
    OBVIOUS
  <2>2. PICK r : r = [c EXCEPT !.phase = "done", !.answer = n]
    OBVIOUS
  <2>3. Over(r, c, n)
    <3>1. n \in Nat
      BY <2>1
    <3> QED
      BY <1>5, <2>2, <3>1, DoneWith, Zenon
  <2>4. Sound(r)
    BY <1>6, <2>3 DEF Sound, Over, Now, Rest
  <2>6. Rest(r, c) /\ r.phase = "done" /\ r.held = c.held /\ r.audited = c.audited /\ r.kind = c.kind
    BY <2>3 DEF Over, Now, Rest
  <2>5. c.kind = "chat" => Kept(r)
    BY <1>14, <1>15, <2>6, OverKept
  <2> QED
    BY <2>1, <2>2, <2>4, <2>5, Zenon
<1>8. c.kind = "edit" => Sound([c EXCEPT !.phase = "done", !.answer = 200, !.audited = TRUE])
                         /\ Kept([c EXCEPT !.phase = "done", !.answer = 200, !.audited = TRUE])
  <2>1. PICK r : r = [c EXCEPT !.phase = "done", !.answer = 200, !.audited = TRUE]
    OBVIOUS
  <2>2. r \in Call /\ r.kind = c.kind /\ r.phase = "done" /\ r.sent = c.sent
    BY <1>5, <2>1, Audits, Zenon
  <2>6. Ended(r, c)
    BY <1>5, <2>1, EndedCall, Zenon
  <2>3. Sound(r)
    BY <1>6, <2>2 DEF Sound
  <2>4. Rest(r, c)
    BY <2>6 DEF Ended, Rest
  <2>5. c.kind = "edit" => Kept(r)
    BY <1>14, <2>4, <2>6, OverKept DEF Ended
  <2> QED
    BY <2>1, <2>3, <2>5, Zenon
<1>9. c.kind = "stream" => Sound([c EXCEPT !.phase = "relay", !.answer = 200])
                           /\ Kept([c EXCEPT !.phase = "relay", !.answer = 200])
  <2>1. PICK n \in Nat : n = 200
    OBVIOUS
  <2>2. PICK r : r = [c EXCEPT !.phase = "relay", !.answer = n]
    OBVIOUS
  <2>3. /\ r \in Call /\ r.kind = c.kind /\ r.phase = "relay" /\ r.sent = c.sent
        /\ Now(r, c, "relay", c.attempt, c.held, c.lived)
    <3>1. n \in Nat
      BY <2>1
    <3> QED
      BY <1>5, <2>2, <3>1, RelaysNow, Zenon
  <2>4. Sound(r)
    BY <1>6, <2>1, <2>3 DEF Sound
  <2>5. c.kind = "stream" => Kept(r)
    BY <1>14, <2>3, OpensKept
  <2> QED
    BY <2>1, <2>2, <2>4, <2>5, Zenon
<1>10. PICK result \in Results : result = IF content THEN "good" ELSE "blank"
  BY DEF Results
<1>11. Sound(AfterOne(c, result))
  BY <1>5, <1>6, AfterOneSound
<1>16. c.kind = "compare" => Kept(AfterOne(c, result))
  BY <1>14, AfterOneKept
<1>12. PICK r : Sound(r) /\ Kept(r) /\ call' = [call EXCEPT ![th] = r]
  <2>1. CASE c.kind = "chat"
    <3>1. call' = [call EXCEPT ![th] = [c EXCEPT !.phase = "done", !.answer = 200]]
      BY <1>4, <2>1
    <3> QED
      BY <1>7, <2>1, <3>1, Zenon
  <2>2. CASE c.kind = "edit"
    <3>1. call' = [call EXCEPT ![th] = [c EXCEPT !.phase = "done", !.answer = 200, !.audited = TRUE]]
      BY <1>4, <2>2
    <3> QED
      BY <1>8, <2>2, <3>1, Zenon
  <2>3. CASE c.kind = "stream"
    <3>1. call' = [call EXCEPT ![th] = [c EXCEPT !.phase = "relay", !.answer = 200]]
      BY <1>4, <2>3
    <3> QED
      BY <1>9, <2>3, <3>1, Zenon
  <2>4. CASE c.kind = "compare"
    <3>1. call' = [call EXCEPT ![th] = AfterOne(c, result)]
      BY <1>4, <1>10, <2>4
    <3> QED
      BY <1>11, <1>16, <2>4, <3>1, Zenon
  <2> QED
    BY <1>6, <2>1, <2>2, <2>3, <2>4 DEF Kinds
<1> QED
  BY <1>4, <1>12, OneCallChanges, Zenon

\* The handler gets its slot and a request to serve.
LEMMA StartStep ==
  ASSUME CallsSound, NEW th \in Threads, Start(th)
  PROVE  CallsSound'
<1>1. CASE permits = 0
  BY <1>1 DEF Start, CallsSound
<1>2. CASE permits # 0
  <2>1. /\ UNCHANGED behind
        /\ \E kind \in behind : \E n \in IF kind = "compare" THEN 2..MaxModels ELSE {1},
                                   s \in IF kind = "compare" THEN BOOLEAN ELSE {FALSE} :
             call' = [call EXCEPT ![th] =
               [NoCall EXCEPT !.kind = kind, !.phase = "connect", !.models = n, !.synthesize = s]]
    BY <1>2, Zenon DEF Start
  <2>2. behind \subseteq Kinds
    BY SurfacesAssumption DEF CallsSound, Kinds
  <2>6. PICK kind \in behind :
           \E n \in IF kind = "compare" THEN 2..MaxModels ELSE {1},
              s \in IF kind = "compare" THEN BOOLEAN ELSE {FALSE} :
             call' = [call EXCEPT ![th] =
               [NoCall EXCEPT !.kind = kind, !.phase = "connect", !.models = n, !.synthesize = s]]
    BY <2>1, Zenon
  <2>3. PICK n \in IF kind = "compare" THEN 2..MaxModels ELSE {1},
             s \in IF kind = "compare" THEN BOOLEAN ELSE {FALSE} :
               call' = [call EXCEPT ![th] =
                 [NoCall EXCEPT !.kind = kind, !.phase = "connect", !.models = n, !.synthesize = s]]
    BY <2>6, Zenon
  <2>4. kind \in Kinds /\ n \in Nat /\ n >= 1 /\ s \in BOOLEAN
    <3>1. kind \in Kinds
      BY <2>2, <2>6
    <3>2. n \in Nat /\ n >= 1
      BY <2>3, RetryAssumption
    <3>3. s \in BOOLEAN
      BY <2>3, Zenon
    <3> QED
      BY <3>1, <3>2, <3>3, Zenon
  <2>5. PICK r : r = [NoCall EXCEPT !.kind = kind, !.phase = "connect", !.models = n, !.synthesize = s]
    OBVIOUS
  <2>7. Sound(r) /\ Kept(r)
    BY <2>4, <2>5, BeginsSound, Zenon
  <2> QED
    BY <2>1, <2>3, <2>5, <2>7, OneCallChanges, Zenon
<1> QED
  BY <1>1, <1>2

\* A step of a request that has its slot.
LEMMA ConverseStep ==
  ASSUME CallsSound, NEW th \in Threads, Converse(th)
  PROVE  CallsSound'
<1>1. PICK c : c = call[th]
  OBVIOUS
<1>2. Sound(c) /\ Kept(c) /\ c \in Call /\ c.sent <= 1
  BY <1>1 DEF CallsSound, Sound
<1>3. c.phase # "none" => c.kind \in Kinds
  BY <1>2 DEF Sound
<1>4. c.phase = "connect" => c.sent = 0
  BY <1>2 DEF Sound
<1>5. CASE Routing(th)
  <2>1. c.phase = "connect" /\ UNCHANGED behind /\ call' = [call EXCEPT ![th] = Failed(c, "timeout")]
    BY <1>1, <1>5 DEF Routing
  <2>2. Sound(Failed(c, "timeout")) /\ Kept(Failed(c, "timeout"))
    BY <1>2, <1>3, <2>1, FailedSound, CallStands, FailedKept DEF Failures
  <2> QED
    BY <2>1, <2>2, OneCallChanges, Zenon
<1>6. ASSUME NEW d \in Nat, d <= ConnectTime, ConnectFails(th, d)
      PROVE  CallsSound'
  BY <1>6, ConnectFailsStep
<1>7. ASSUME NEW d \in Nat, d <= ConnectTime, Connects(th, d)
      PROVE  CallsSound'
  <2>1. c.phase = "connect" /\ UNCHANGED behind
    BY <1>1, <1>7 DEF Connects
  <2>2. call' = [call EXCEPT ![th] = [c EXCEPT !.phase = "wait", !.sent = @ + 1, !.held = @ + d]]
    BY <1>1, <1>7, Zenon DEF Connects
  <2>3. PICK r : r = [c EXCEPT !.phase = "wait", !.sent = @ + 1, !.held = @ + d]
    OBVIOUS
  <2>4. c.kind \in Kinds /\ c.sent = 0
    BY <1>3, <1>4, <2>1
  <2>5. Sound(r) /\ Now(r, c, "wait", c.attempt, c.held + d, c.lived)
    BY <1>2, <2>3, <2>4, ConnectsSound, Zenon
  <2>6. Kept(r)
    BY <1>2, <1>7, <2>1, <2>4, <2>5, SentKept
  <2> QED
    BY <2>1, <2>2, <2>3, <2>5, <2>6, OneCallChanges, Zenon
<1>8. ASSUME NEW d \in Nat, d <= AnswerTime, NEW failure \in Failures, AnswerFails(th, d, failure)
      PROVE  CallsSound'
  BY <1>8, AnswerFailsStep
<1>9. ASSUME NEW d \in Nat, d <= AnswerTime, NEW content \in BOOLEAN, Answers(th, d, content)
      PROVE  CallsSound'
  BY <1>9, AnswersStep
<1>10. ASSUME NEW d \in Nat, d <= LineTime, ReadLine(th, d)
       PROVE  CallsSound'
  <2>1. PICK r : r = [[c EXCEPT !.held = @ + d, !.lived = @ + d] EXCEPT !.phase = "write"]
    OBVIOUS
  <2>2. [c EXCEPT !.held = @ + d, !.lived = @ + d].phase = "relay" /\ UNCHANGED behind /\ call' = [call EXCEPT ![th] = r]
    BY <1>1, <1>10, <2>1, Zenon DEF ReadLine
  <2>3. [c EXCEPT !.held = @ + d, !.lived = @ + d].phase = c.phase
    BY <1>2, Zenon DEF Call
  <2>4. c.kind \in Kinds
    BY <1>3, <2>2, <2>3
  <2>5. Sound(r) /\ Now(r, c, "write", c.attempt, c.held + d, c.lived + d)
    BY <1>2, <2>1, <2>4, ReadsSound, Zenon
  <2>6. c.held + d <= OneCall("stream") + (c.lived + d) /\ c.lived + d <= StreamCap + LineTime
    BY <1>2, <1>10, <2>2, <2>3, StreamIs, TimeAssumption
  <2>7. Kept(r)
    BY <1>2, <2>2, <2>3, <2>5, <2>6, StreamKept
  <2> QED
    BY <2>2, <2>5, <2>7, OneCallChanges, Zenon
<1>11. ASSUME NEW d \in Nat, d <= LineTime, StreamEnds(th, d)
       PROVE  CallsSound'
  <2>1. c.phase = "relay" /\ UNCHANGED behind
    BY <1>1, <1>11 DEF StreamEnds
  <2>2. call' = [call EXCEPT ![th] = [c EXCEPT !.phase = "done", !.held = @ + d, !.lived = @ + d]]
    BY <1>1, <1>11, Zenon DEF StreamEnds
  <2>3. c.kind \in Kinds
    BY <1>3, <2>1
  <2>4. PICK r : r = [c EXCEPT !.phase = "done", !.held = @ + d, !.lived = @ + d]
    OBVIOUS
  <2>5. Sound(r) /\ Now(r, c, "done", c.attempt, c.held + d, c.lived + d)
    BY <1>2, <2>3, <2>4, EndsSound, Zenon
  <2>6. c.held + d <= OneCall("stream") + StreamCap + LineTime + WriteTime
    BY <1>2, <1>11, <2>1, StreamIs, TimeAssumption
  <2>7. Kept(r)
    BY <1>2, <2>1, <2>5, <2>6, StreamKept
  <2> QED
    BY <2>1, <2>2, <2>4, <2>5, <2>7, OneCallChanges, Zenon
<1>12. ASSUME NEW d \in Nat, d <= WriteTime, WriteLine(th, d)
       PROVE  CallsSound'
  <2>1. PICK e : e = [c EXCEPT !.held = @ + d, !.lived = @ + d]
    OBVIOUS
  <2>2. /\ e.phase = "write" /\ UNCHANGED behind
        /\ call' = [call EXCEPT ![th] = [e EXCEPT !.phase = IF PastDeadline(e) THEN "done" ELSE "relay"]]
    BY <1>1, <1>12, <2>1, Zenon DEF WriteLine
  <2>3. e.phase = c.phase /\ e.lived = c.lived + d
    BY <1>2, <2>1, Zenon DEF Call
  <2>4. c.kind \in Kinds
    BY <1>3, <2>2, <2>3
  <2>5. PICK last : last = [[c EXCEPT !.held = @ + d, !.lived = @ + d] EXCEPT !.phase = "done"]
    OBVIOUS
  <2>6. PICK more : more = [[c EXCEPT !.held = @ + d, !.lived = @ + d] EXCEPT !.phase = "relay"]
    OBVIOUS
  <2>7. Sound(last) /\ Now(last, c, "done", c.attempt, c.held + d, c.lived + d)
    BY <1>2, <2>4, <2>5, LastWriteSound, Zenon
  <2>8. Sound(more) /\ Now(more, c, "relay", c.attempt, c.held + d, c.lived + d)
    BY <1>2, <2>4, <2>6, WritesSound, Zenon
  <2>9. c.phase \in {"relay", "write"}
    BY <2>2, <2>3
  <2>10. /\ c.held + d <= OneCall("stream") + StreamCap + LineTime + WriteTime
         /\ c.held + d <= OneCall("stream") + (c.lived + d)
         /\ ~(c.lived + d > StreamCap) => c.lived + d <= StreamCap
    BY <1>2, <1>12, <2>9, StreamIs, TimeAssumption
  <2>11. Kept(last)
    BY <1>2, <2>7, <2>9, <2>10, StreamKept
  <2>12. ~PastDeadline(e) => Kept(more)
    BY <1>2, <2>3, <2>8, <2>9, <2>10, StreamKept DEF PastDeadline
  <2>13. PICK r : Sound(r) /\ Kept(r) /\ call' = [call EXCEPT ![th] = r]
    <3>1. last = [e EXCEPT !.phase = "done"] /\ more = [e EXCEPT !.phase = "relay"]
      BY <2>1, <2>5, <2>6, Zenon
    <3>2. CASE PastDeadline(e)
      BY <2>2, <2>7, <2>11, <3>1, <3>2, Zenon
    <3>3. CASE ~PastDeadline(e)
      BY <2>2, <2>8, <2>12, <3>1, <3>3, Zenon
    <3> QED
      BY <3>2, <3>3, Zenon
  <2> QED
    BY <2>2, <2>13, OneCallChanges, Zenon
<1>13. ASSUME NEW d \in Nat, d <= WriteTime, WriteFails(th, d)
       PROVE  CallsSound'
  <2>1. c.phase = "write" /\ UNCHANGED behind
    BY <1>1, <1>13 DEF WriteFails
  <2>2. call' = [call EXCEPT ![th] = [c EXCEPT !.phase = "done", !.held = @ + d]]
    BY <1>1, <1>13, Zenon DEF WriteFails
  <2>3. c.kind \in Kinds
    BY <1>3, <2>1
  <2>4. PICK r : r = [c EXCEPT !.phase = "done", !.held = @ + d]
    OBVIOUS
  <2>5. Sound(r) /\ Now(r, c, "done", c.attempt, c.held + d, c.lived)
    BY <1>2, <2>3, <2>4, GoneSound, Zenon
  <2>6. c.held + d <= OneCall("stream") + StreamCap + LineTime + WriteTime
    BY <1>2, <1>13, <2>1, StreamIs, TimeAssumption
  <2>7. Kept(r)
    BY <1>2, <2>1, <2>5, <2>6, StreamKept
  <2> QED
    BY <2>1, <2>2, <2>4, <2>5, <2>7, OneCallChanges, Zenon
<1>14. /\ \A d \in 0..ConnectTime : d \in Nat /\ d <= ConnectTime
       /\ \A d \in 0..AnswerTime : d \in Nat /\ d <= AnswerTime
       /\ \A d \in 0..LineTime : d \in Nat /\ d <= LineTime
       /\ \A d \in 0..WriteTime : d \in Nat /\ d <= WriteTime
  BY TimeAssumption
<1> QED
  BY <1>5, <1>6, <1>7, <1>8, <1>9, <1>10, <1>11, <1>12, <1>13, <1>14 DEF Converse

\* Every step keeps every request sound.
LEMMA CallsStaySound ==
  ASSUME CallsSound, [Next]_vars
  PROVE  CallsSound'
<1>1. CASE UNCHANGED vars
  BY <1>1 DEF vars, CallsSound
<1>2. ASSUME UNCHANGED <<behind, call>>
      PROVE  CallsSound'
  BY <1>2 DEF CallsSound
<1>3. ASSUME NEW th \in Threads, NEW t \in Tenants, Prepare(th, t)
      PROVE  CallsSound'
  BY <1>2, <1>3 DEF Prepare
<1>4. ASSUME NEW th \in Threads, Start(th)
      PROVE  CallsSound'
  BY <1>4, StartStep
<1>5. ASSUME NEW th \in Threads, Converse(th)
      PROVE  CallsSound'
  BY <1>5, ConverseStep
<1>6. ASSUME NEW th \in Threads, Finish(th)
      PROVE  CallsSound'
  BY <1>6, NoCallSound, OneCallChanges DEF Finish
<1>7. CASE Restart
  <2>1. NoCall \in Call
    BY NoCallSound DEF Sound
  <2> QED
    BY <1>7, <2>1, NoCallSound DEF Restart, CallsSound
<1> QED
  BY <1>1, <1>2, <1>3, <1>4, <1>5, <1>6, <1>7 DEF Next


\* Of every run.
THEOREM SoundCalls == Spec => []CallsSound
<1>1. Init => CallsSound
  <2>1. NoCall \in Call
    BY NoCallSound DEF Sound
  <2> QED
    BY <2>1, NoCallSound DEF Init, CallsSound
<1>2. CallsSound /\ [Next]_vars => CallsSound'
  BY CallsStaySound
<1> QED
  BY <1>1, <1>2, PTL DEF Spec

\* Whatever the network does, and however often the client tries again, the
\* model is never given a completion twice.
THEOREM NeverServedTwice == Spec => []ServedOnce
<1>1. CallsSound => ServedOnce
  BY DEF CallsSound, Sound, ServedOnce
<1> QED
  BY <1>1, SoundCalls, PTL

\* The endpoints keep their types.
THEOREM InferenceTypeCorrect == Spec => []TypeOK
<1>1. CallsSound /\ LimTypeOK => TypeOK
  BY DEF CallsSound, TypeOK
<1> QED
  BY <1>1, SoundCalls, RefinesLimiter, LimTypeCorrect, PTL

\* Whatever a connection, an answer, a line and a write take at most, a request has
\* given its slot back within as many of them as its kind may make: what the code
\* bounds is their number, by retries, completions and the look at the clock.
THEOREM SlotsHeldInCalls == Spec => []SlotHeldBounded
<1>1. ASSUME NEW c \in Call, Sound(c), Kept(c)
      PROVE  c.held <= LongestHold(c)
  <2>1. CASE c.phase = "none"
    BY <1>1, <2>1, LongestIs DEF Kept, InTime
  <2>2. CASE c.phase = "done"
    BY <1>1, <2>2 DEF Kept, InTime
  <2>3. CASE c.phase \in {"connect", "wait"}
    BY <1>1, <2>3, WithinCall DEF Sound
  <2>4. CASE c.phase \in {"relay", "write"}
    <3>1. LongestHold(c) = OneCall("stream") + StreamCap + LineTime + WriteTime
      BY <1>1, <2>4 DEF Kept, InTime, LongestHold
    <3>2. c.held <= OneCall("stream") + c.lived /\ c.lived <= StreamCap + LineTime
          /\ c.held \in Nat /\ c.lived \in Nat /\ OneCall("stream") \in Nat
      BY <1>1, <2>4, StreamIs
    <3> QED
      BY <3>1, <3>2, TimeAssumption
  <2> QED
    BY <2>1, <2>2, <2>3, <2>4 DEF Call
<1>2. CallsSound => SlotHeldBounded
  BY <1>1 DEF CallsSound, SlotHeldBounded
<1> QED
  BY <1>2, SoundCalls, PTL

\* However its models fail, a compare has one result for each, and asks for a
\* synthesis exactly if two of them said something; what is audited succeeded.
THEOREM FailuresAreTheirOwn == Spec => []OneFailureIsOne
<1>1. ASSUME NEW c \in Call, Kept(c), c.phase = "done"
      PROVE  /\ c.audited <=> (c.kind \in {"edit", "compare"} /\ c.answer = 200)
             /\ c.kind = "compare" =>
                  /\ c.answer = 200 /\ Len(c.results) = c.models
                  /\ c.synthesis # 0 <=> (c.synthesize /\ Cardinality(Good(c)) >= 2)
                  /\ c.synthesis # 0 => c.results[c.synthesis] = "good"
  BY <1>1 DEF Kept, Told
<1>2. ASSUME CallsSound
      PROVE  OneFailureIsOne
  <2>1. SUFFICES ASSUME NEW th \in Threads, NEW c, c = call[th], c.phase = "done"
                 PROVE  /\ c.audited <=> (c.kind \in {"edit", "compare"} /\ c.answer = 200)
                        /\ c.kind = "compare" =>
                             /\ c.answer = 200 /\ Len(c.results) = c.models
                             /\ c.synthesis # 0 <=> (c.synthesize /\ Cardinality(Good(c)) >= 2)
                             /\ c.synthesis # 0 => c.results[c.synthesis] = "good"
    BY DEF OneFailureIsOne
  <2>2. c \in Call /\ Kept(c)
    BY <1>2, <2>1 DEF CallsSound
  <2> QED
    BY <1>1, <2>1, <2>2
<1> QED
  BY <1>2, SoundCalls, PTL

=============================================================================
