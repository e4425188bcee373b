----------------------------- MODULE Inference -----------------------------
(***************************************************************************)
(* The endpoints that hold a limiter's slot while they talk to the model:  *)
(* chat and its stream (src/app/control_plane/server.py), the AI edit of a *)
(* document (documents.py) and compare (compare.py), all over              *)
(* VLLMInferenceClient (inference.py).                                     *)
(*                                                                         *)
(* urlopen fails as URLError only while it connects and sends; once the    *)
(* request is out, what fails is an HTTP status, a time-out, or an         *)
(* exception the client does not name.  Only the first kind is retried.    *)
(* Time is what passes in a call.  The code does not bound it: the         *)
(* socket's time-out is for a single receive, so an answer or a line that  *)
(* trickles takes longer, and writes to the browser have none.  How long   *)
(* the environment takes at most for each is a constant.                   *)
(***************************************************************************)
EXTENDS RateLimiter, Sequences

CONSTANTS
  Surfaces,    \* the endpoints behind one limiter, {"chat", "stream"} and so on
  MaxRetries,  \* _MAX_RETRIES
  Backoff,     \* _RETRY_BACKOFF
  StreamCap,   \* chat_stream_max_seconds
  ConnectTime, \* the longest the network takes to connect and send a request,
  AnswerTime,  \* the model to answer one, or to begin a stream,
  LineTime,    \* the model for a line of a stream, and
  WriteTime,   \* the browser to take one
  MaxModels    \* _MAX_MODELS

ASSUME SurfacesAssumption == \A s \in Surfaces : s \subseteq {"chat", "edit", "stream", "compare"}
ASSUME RetryAssumption == MaxRetries \in Nat /\ MaxModels \in Nat
ASSUME TimeAssumption ==
  {Backoff, StreamCap, ConnectTime, AnswerTime, LineTime, WriteTime} \subseteq Nat

VARIABLES
  behind,  \* the endpoints of this limiter
  call     \* thread -> the request it serves with its slot

vars == <<limVars, behind, call>>

\* phase: "connect" until the request is out, "wait" until the model's answer,
\* "relay" and "write" of a stream's line, "done" when only release is left.
\* sent counts how often the model was given the present completion.
NoCall == [kind |-> "none", phase |-> "none", attempt |-> 0, sent |-> 0,
           models |-> 0, synthesize |-> FALSE, results |-> <<>>, synthesis |-> 0,
           held |-> 0, lived |-> 0, answer |-> 0, audited |-> FALSE]

Failures == {"unavailable", "timeout", "escapes"}
Kinds == {"chat", "edit", "stream", "compare"}
Call ==
  [kind : Kinds \cup {"none"}, phase : {"none", "connect", "wait", "relay", "write", "done"},
   attempt : Nat, sent : Nat, models : Nat, synthesize : BOOLEAN,
   results : Seq({"good", "blank", "unavailable", "error"}), synthesis : Nat,
   held : Nat, lived : Nat, answer : Nat, audited : BOOLEAN]

----------------------------------------------------------------------------
\* A request is authenticated and parsed, and the handler reads the clock.
Prepare(th, t) == ReadClock(th, t) /\ UNCHANGED <<behind, call>>

\* try_acquire lets a handler go on, to its first completion.
Start(th) ==
  /\ AcquireSlot(th)
  /\ IF permits = 0
     THEN UNCHANGED call
     ELSE \E kind \in behind :
            \E n \in IF kind = "compare" THEN 2..MaxModels ELSE {1},
               s \in IF kind = "compare" THEN BOOLEAN ELSE {FALSE} :
              call' = [call EXCEPT ![th] =
                [NoCall EXCEPT !.kind = kind, !.phase = "connect", !.models = n, !.synthesize = s]]
  /\ UNCHANGED behind

\* The status a handler answers with when a completion fails; no answer at all
\* (0) when an exception leaves the stream handler, which nothing wraps.
ChatFailure == [unavailable |-> 503, timeout |-> 503, escapes |-> 500]
EditFailure == [unavailable |-> 503, timeout |-> 502, escapes |-> 502]
StreamFailure == [unavailable |-> 503, timeout |-> 504, escapes |-> 0]
FailureStatus == [chat |-> ChatFailure, edit |-> EditFailure, stream |-> StreamFailure]

\* The first result that is an answer with content.
Good(c) == {i \in DOMAIN c.results : c.results[i] = "good"}
FirstGood(c) == CHOOSE i \in Good(c) : \A j \in Good(c) : i <= j

\* Mutant: only InferenceUnavailableError is kept to its model.
AfterOneSinks(c, result) ==
  IF result = "error"
  THEN [c EXCEPT !.phase = "done", !.answer = 500]
  ELSE LET d == [c EXCEPT !.results = Append(@, result), !.attempt = 0, !.sent = 0]
       IN IF Len(d.results) < c.models
          THEN [d EXCEPT !.phase = "connect"]
          ELSE [d EXCEPT !.phase = "done", !.answer = 200, !.audited = TRUE]

\* run_compare after a call of _one: the next model, the synthesis by the first
\* model that had something to say if two had, or the answer, always 200.
AfterOne(c, result) ==
  LET asked == c.synthesis # 0
      d == IF asked THEN c ELSE [c EXCEPT !.results = Append(@, result)]
      again == [d EXCEPT !.phase = "connect", !.attempt = 0, !.sent = 0]
  IN CASE ~asked /\ Len(d.results) < c.models -> again
       [] ~asked /\ Len(d.results) >= c.models /\ c.synthesize /\ Cardinality(Good(d)) >= 2 ->
            [again EXCEPT !.synthesis = FirstGood(d)]
       [] OTHER -> [d EXCEPT !.phase = "done", !.answer = 200, !.audited = TRUE]

\* What becomes of a request when its completion has failed.
Failed(c, failure) ==
  IF c.kind = "compare" THEN AfterOne(c, IF failure = "unavailable" THEN failure ELSE "error")
  ELSE [c EXCEPT !.phase = "done", !.answer = FailureStatus[c.kind][failure]]

\* The base URL is refused before anything is sent (InferenceRoutingError), which
\* handlers treat like a time-out.
Routing(th) ==
  /\ call[th].phase = "connect" /\ call[th].attempt = 0
  /\ call' = [call EXCEPT ![th] = Failed(@, "timeout")]
  /\ UNCHANGED <<limVars, behind>>

\* Retries of chat_completions; open_chat_stream has none.
Retries(kind) == IF kind = "stream" THEN 0 ELSE MaxRetries

\* URLError: before the model has the whole request.  One more attempt, or
\* InferenceUnavailableError.
ConnectFails(th, d) ==
  LET c == [call[th] EXCEPT !.held = @ + d]
  IN /\ c.phase = "connect"
     /\ call' = [call EXCEPT ![th] =
          IF c.attempt < Retries(c.kind)
          THEN [c EXCEPT !.attempt = @ + 1, !.held = @ + Backoff]
          ELSE Failed(c, "unavailable")]
     /\ UNCHANGED <<limVars, behind>>

Connects(th, d) ==
  LET c == call[th]
  IN /\ c.phase = "connect"
     /\ call' = [call EXCEPT ![th] = [c EXCEPT !.phase = "wait", !.sent = @ + 1, !.held = @ + d]]
     /\ UNCHANGED <<limVars, behind>>

\* Mutant: a time-out is retried like a refused connection.
AnswerFailsRetried(th, d, failure) ==
  LET c == [call[th] EXCEPT !.held = @ + d]
  IN /\ c.phase = "wait"
     /\ call' = [call EXCEPT ![th] =
          IF failure = "timeout" /\ c.attempt < Retries(c.kind)
          THEN [c EXCEPT !.phase = "connect", !.attempt = @ + 1]
          ELSE Failed(c, failure)]
     /\ UNCHANGED <<limVars, behind>>

\* HTTPError, TimeoutError, or a reset or malformed answer.
AnswerFails(th, d, failure) ==
  LET c == [call[th] EXCEPT !.held = @ + d]
  IN /\ c.phase = "wait"
     /\ call' = [call EXCEPT ![th] = Failed(c, failure)]
     /\ UNCHANGED <<limVars, behind>>

\* The model's answer; one without content is no result for compare.
Answers(th, d, content) ==
  LET c == [call[th] EXCEPT !.held = @ + d]
  IN /\ c.phase = "wait"
     /\ call' = [call EXCEPT ![th] =
          CASE c.kind = "chat"    -> [c EXCEPT !.phase = "done", !.answer = 200]
            [] c.kind = "edit"    -> [c EXCEPT !.phase = "done", !.answer = 200, !.audited = TRUE]
            [] c.kind = "stream"  -> [c EXCEPT !.phase = "relay", !.answer = 200]
            [] c.kind = "compare" -> AfterOne(c, IF content THEN "good" ELSE "blank")]
     /\ UNCHANGED <<limVars, behind>>

\* The loop of _handle_chat_stream reads a line; or the stream is over, or the
\* read raises, and the response is closed.
ReadLine(th, d) ==
  LET c == [call[th] EXCEPT !.held = @ + d, !.lived = @ + d]
  IN /\ c.phase = "relay"
     /\ call' = [call EXCEPT ![th] = [c EXCEPT !.phase = "write"]]
     /\ UNCHANGED <<limVars, behind>>
StreamEnds(th, d) ==
  LET c == call[th]
  IN /\ c.phase = "relay"
     /\ call' = [call EXCEPT ![th] = [c EXCEPT !.phase = "done", !.held = @ + d, !.lived = @ + d]]
     /\ UNCHANGED <<limVars, behind>>

\* Mutant: each line is given the whole time.
PastDeadlinePerLine(c) == FALSE

PastDeadline(c) == c.lived > StreamCap

\* It writes the line and looks at the clock.
WriteLine(th, d) ==
  LET c == [call[th] EXCEPT !.held = @ + d, !.lived = @ + d]
  IN /\ c.phase = "write"
     /\ call' = [call EXCEPT ![th] = [c EXCEPT !.phase = IF PastDeadline(c) THEN "done" ELSE "relay"]]
     /\ UNCHANGED <<limVars, behind>>

\* The browser has gone.
WriteFails(th, d) ==
  LET c == call[th]
  IN /\ c.phase = "write"
     /\ call' = [call EXCEPT ![th] = [c EXCEPT !.phase = "done", !.held = @ + d]]
     /\ UNCHANGED <<limVars, behind>>

\* The finally block; audit and answer follow.
Finish(th) ==
  /\ call[th].phase = "done"
  /\ Release(th)
  /\ call' = [call EXCEPT ![th] = NoCall]
  /\ UNCHANGED behind

Restart ==
  /\ LimRestart
  /\ call' = [th \in Threads |-> NoCall]
  /\ UNCHANGED behind

----------------------------------------------------------------------------
Init ==
  /\ LimInit
  /\ behind \in Surfaces
  /\ call = [th \in Threads |-> NoCall]

Converse(th) ==
  \/ Routing(th)
  \/ \E d \in 0..ConnectTime : ConnectFails(th, d) \/ Connects(th, d)
  \/ \E d \in 0..AnswerTime :
       \/ \E failure \in Failures : AnswerFails(th, d, failure)
       \/ \E content \in BOOLEAN : Answers(th, d, content)
  \/ \E d \in 0..LineTime : ReadLine(th, d) \/ StreamEnds(th, d)
  \/ \E d \in 0..WriteTime : WriteLine(th, d) \/ WriteFails(th, d)

Next ==
  \/ Tick /\ UNCHANGED <<behind, call>>
  \/ \E th \in Threads, t \in Tenants : Prepare(th, t)
  \/ \E th \in Threads : CountCall(th) /\ UNCHANGED <<behind, call>>
  \/ \E th \in Threads : Start(th) \/ Converse(th) \/ Finish(th)
  \/ Restart

Spec == Init /\ [][Next]_vars

----------------------------------------------------------------------------
\* Properties.

TypeOK ==
  /\ LimTypeOK
  /\ behind \in Surfaces
  /\ call \in [Threads -> Call]

\* The retry of a completion cannot give it to the model a second time: an
\* attempt that is repeated had not been sent.
ServedOnce == \A th \in Threads : call[th].sent <= 1

\* How long one request can hold a slot, relative to what each connection, answer,
\* line and write takes: at most Retries + 1 connections with a pause between two
\* and one answer per completion, as many completions as there are models and a
\* synthesis, and of a stream its life plus the one line, read and written, that is
\* under way when its time is up.
OneCall(kind) == (Retries(kind) + 1) * ConnectTime + Retries(kind) * Backoff + AnswerTime
LongestHold(c) ==
  CASE c.kind = "stream"  -> OneCall("stream") + StreamCap + LineTime + WriteTime
    [] c.kind = "compare" -> (c.models + (IF c.synthesize THEN 1 ELSE 0)) * OneCall("compare")
    [] OTHER -> OneCall(c.kind)
SlotHeldBounded == \A th \in Threads : call[th].held <= LongestHold(call[th])

\* However its models fail, a compare is answered with one result for each, and
\* asks for a synthesis only if two of them said something, the first of these.
\* A success is audited for an edit or compare that is answered 200, no other.
OneFailureIsOne ==
  \A th \in Threads :
    LET c == call[th]
    IN c.phase = "done" =>
         /\ c.audited <=> (c.kind \in {"edit", "compare"} /\ c.answer = 200)
         /\ c.kind = "compare" =>
              /\ c.answer = 200 /\ Len(c.results) = c.models
              /\ c.synthesis # 0 <=> (c.synthesize /\ Cardinality(Good(c)) >= 2)
              /\ c.synthesis # 0 => c.results[c.synthesis] = "good"
============================================================================
