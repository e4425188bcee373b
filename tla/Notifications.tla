--------------------------- MODULE Notifications ---------------------------
(***************************************************************************)
(* The notification service (src/app/control_plane/notifications.py): the  *)
(* two stores, the handlers, the push stream that polls the store, and the *)
(* browser that shows what it is pushed and what it polls itself           *)
(* (src/app/ui/static/app.js).                                             *)
(*                                                                         *)
(* An event is stamped when it is built and inserted later, by handlers    *)
(* that overtake each other.  A list is newest first: by insertion in      *)
(* memory, by created_at in PostgreSQL.  A stream's poll and each of its   *)
(* frames are separate steps.                                              *)
(***************************************************************************)
EXTENDS Integers, Sequences, FiniteSets

CONSTANTS
  MaxEvents, \* bound: events built; an event's number is the rank of its created_at
  Owners,    \* (tenant, user) pairs
  Reader,    \* the owner whose browser is modelled
  Limit,     \* _STREAM_DEFAULT_LIMIT, and the list handler's default
  RingCap,   \* _MAX_NOTIFICATIONS_PER_USER
  MaxTicks,  \* _NOTIF_STREAM_MAX_TICKS
  MaxDrops   \* bound: lost connections and responses

ASSUME NotificationsAssumption ==
  /\ Reader \in Owners /\ MaxEvents \in Nat
  /\ Limit \in Nat /\ RingCap \in Nat \ {0} /\ MaxTicks \in Nat /\ MaxDrops \in Nat

VARIABLES
  backend,   \* what _build_notification_store has returned
  event,     \* id -> stage, owner, insertion order, read_at
  stream,    \* the reader's connection: open, ticks, batch, emitted
  response,  \* the list response on its way to the browser
  listed,      \* events the browser shows as unread
  drops,     \* lost connections and responses so far
  eligible,  \* history: events unread at some time since the stream was opened
  sent,      \* history: frames of the stream, in order
  crowded    \* history: events a poll of the stream left out for newer ones

Events == 1..MaxEvents

store == <<backend, event>>
browser == <<response, listed>>
history == <<eligible, sent, crowded>>
vars == <<store, stream, browser, drops, history>>

Free == [stage |-> "free", owner |-> Reader, pos |-> 0, read |-> FALSE]
NoStream == [open |-> FALSE, ticks |-> 0, batch |-> {}, emitted |-> {}]
NoResponse == [waiting |-> FALSE, list |-> {}]

Event == [stage : {"free", "stamped", "stored", "dropped", "lost"}, owner : Owners, pos : Nat, read : BOOLEAN]
Stream == [open : BOOLEAN, ticks : 0..MaxTicks, batch : SUBSET Events, emitted : SUBSET Events]

TypeOK ==
  /\ backend \in {"memory", "postgres"}
  /\ event \in [Events -> Event]
  /\ drops \in 0..MaxDrops
  /\ stream \in Stream
  /\ response \in [waiting : BOOLEAN, list : SUBSET Events]
  /\ listed \subseteq Events
  /\ eligible \subseteq Events /\ crowded \subseteq Events /\ sent \in Seq(Events)

----------------------------------------------------------------------------
Newer(f, e) ==
  IF backend = "memory" THEN event[f].pos > event[e].pos ELSE f > e

Unread(u) == {e \in Events : event[e].stage = "stored" /\ event[e].owner = u /\ ~event[e].read}

\* list_for_user: the newest Limit unread events.
ListForUser(u) ==
  {e \in Unread(u) : Cardinality({f \in Unread(u) : Newer(f, e)}) < Limit}

----------------------------------------------------------------------------
\* A producer, or POST /v1/notifications for the caller's own feed: an allowed
\* class, a resource id and no content, or nothing happens.
Build(e, u) ==
  /\ event[e].stage = "free"
  /\ \A f \in 1..(e - 1) : event[f].stage # "free"
  /\ event' = [event EXCEPT ![e] = [Free EXCEPT !.stage = "stamped", !.owner = u]]
  /\ UNCHANGED <<backend, stream, browser, drops, history>>

\* InMemoryNotificationStore.publish cuts the owner's list to the cap; nothing
\* is ever removed in PostgreSQL.
PushedOut(e) ==
  LET bucket == {f \in Events : event[f].stage = "stored" /\ event[f].owner = event[e].owner}
  IN IF backend = "memory"
     THEN {f \in bucket : Cardinality({g \in bucket : event[g].pos > event[f].pos}) >= RingCap - 1}
     ELSE {}

Published == {e \in Events : event[e].stage \in {"stored", "dropped"}}
LastPos == Cardinality(Published)

Publish(e) ==
  /\ event[e].stage = "stamped"
  /\ event' = [f \in Events |->
       IF f = e THEN [event[f] EXCEPT !.stage = "stored", !.pos = LastPos + 1]
       ELSE IF f \in PushedOut(e) THEN [event[f] EXCEPT !.stage = "dropped"] ELSE event[f]]
  /\ eligible' = IF stream.open /\ event[e].owner = Reader THEN eligible \cup {e} ELSE eligible
  /\ UNCHANGED <<backend, stream, browser, drops, sent, crowded>>

\* Producers swallow the exception.
PublishFails(e) ==
  /\ event[e].stage = "stamped"
  /\ event' = [event EXCEPT ![e].stage = "lost"]
  /\ UNCHANGED <<backend, stream, browser, drops, history>>

\* mark_read by its owner, from the browser, which marks its copy when the answer
\* comes, or from elsewhere.
MarkRead(u, e) ==
  /\ e \in Unread(u)
  /\ event' = [event EXCEPT ![e].read = TRUE]
  /\ listed' \in {listed, listed \ {e}}
  /\ UNCHANGED <<backend, stream, response, drops, history>>

----------------------------------------------------------------------------
\* Mutant: a connection starts after what was there before it.
OpenStreamResumes ==
  /\ ~stream.open
  /\ stream' = [NoStream EXCEPT !.open = TRUE, !.emitted = Unread(Reader)]
  /\ eligible' = Unread(Reader)
  /\ UNCHANGED <<store, browser, drops, sent, crowded>>

\* _handle_notifications_stream; the browser reconnects when a stream is over.
OpenStream ==
  /\ ~stream.open
  /\ stream' = [NoStream EXCEPT !.open = TRUE]
  /\ eligible' = Unread(Reader)
  /\ UNCHANGED <<store, browser, drops, sent, crowded>>

\* Mutant: every poll sends its whole list.
PollStreamRepeats ==
  /\ stream.open /\ stream.batch = {} /\ stream.ticks < MaxTicks
  /\ stream' = [stream EXCEPT !.ticks = @ + 1, !.batch = ListForUser(Reader)]
  /\ crowded' = crowded \cup (Unread(Reader) \ ListForUser(Reader))
  /\ UNCHANGED <<store, browser, drops, eligible, sent>>

\* stream_notification_frames, a turn of its loop up to the frames.
PollStream ==
  /\ stream.open /\ stream.batch = {} /\ stream.ticks < MaxTicks
  /\ stream' = [stream EXCEPT !.ticks = @ + 1, !.batch = ListForUser(Reader) \ stream.emitted]
  /\ crowded' = crowded \cup (Unread(Reader) \ ListForUser(Reader))
  /\ UNCHANGED <<store, browser, drops, eligible, sent>>

\* Mutant: newest first, as the store returns them.
SendFrameNewest(e) ==
  /\ stream.open /\ e \in stream.batch /\ \A f \in stream.batch : ~Newer(f, e)
  /\ stream' = [stream EXCEPT !.batch = @ \ {e}, !.emitted = @ \cup {e}]
  /\ sent' = Append(sent, e)
  /\ listed' = listed \cup {e}
  /\ UNCHANGED <<store, response, drops, eligible, crowded>>

\* One frame of the batch, oldest first, as it was when polled; the browser
\* merges it.
SendFrame(e) ==
  /\ stream.open /\ e \in stream.batch /\ \A f \in stream.batch : ~Newer(e, f)
  /\ stream' = [stream EXCEPT !.batch = @ \ {e}, !.emitted = @ \cup {e}]
  /\ sent' = Append(sent, e)
  /\ listed' = listed \cup {e}
  /\ UNCHANGED <<store, response, drops, eligible, crowded>>

CloseStream == stream' = NoStream /\ eligible' = {} /\ sent' = <<>> /\ crowded' = {}

EndStream ==
  /\ stream.open /\ stream.batch = {} /\ stream.ticks = MaxTicks
  /\ CloseStream
  /\ UNCHANGED <<store, browser, drops>>

\* The peer is gone: the write raises, and what was left of the batch with it.
BreakStream ==
  /\ stream.open /\ drops < MaxDrops
  /\ drops' = drops + 1
  /\ CloseStream
  /\ UNCHANGED <<store, browser>>

\* pollNotifications: GET /v1/notifications on a timer; the answer replaces the
\* list, or is lost.
PollList ==
  /\ ~response.waiting
  /\ response' = [waiting |-> TRUE, list |-> ListForUser(Reader)]
  /\ UNCHANGED <<store, stream, listed, drops, history>>

\* Mutant: the answer is merged like a frame.
ApplyListMerges ==
  /\ response.waiting
  /\ listed' = listed \cup response.list
  /\ response' = NoResponse
  /\ UNCHANGED <<store, stream, drops, history>>

ApplyList ==
  /\ response.waiting
  /\ listed' = response.list
  /\ response' = NoResponse
  /\ UNCHANGED <<store, stream, drops, history>>

LoseList ==
  /\ response.waiting /\ drops < MaxDrops
  /\ drops' = drops + 1
  /\ response' = NoResponse
  /\ UNCHANGED <<store, stream, listed, history>>

----------------------------------------------------------------------------
Init ==
  /\ backend \in {"memory", "postgres"}
  /\ event = [e \in Events |-> Free]
  /\ stream = NoStream /\ response = NoResponse
  /\ listed = {} /\ drops = 0
  /\ eligible = {} /\ sent = <<>> /\ crowded = {}

Next ==
  \/ \E e \in Events, u \in Owners : Build(e, u) \/ MarkRead(u, e)
  \/ \E e \in Events : Publish(e) \/ PublishFails(e) \/ SendFrame(e)
  \/ OpenStream \/ PollStream \/ EndStream \/ BreakStream
  \/ PollList \/ ApplyList \/ LoseList

Push == OpenStream \/ PollStream \/ EndStream \/ \E e \in Events : SendFrame(e)
Poll == PollList \/ ApplyList

\* While somebody is signed in the browser reconnects and the server's stream
\* thread runs on, and the browser's timer polls; of each of these two loops one
\* step is enabled at a time.  Nothing is assumed of publishers and users.
Fairness == WF_vars(Push) /\ WF_vars(Poll)

Spec == Init /\ [][Next]_vars
FairSpec == Spec /\ Fairness

----------------------------------------------------------------------------
\* Properties.

\* Store, stream and polling together implement the feed a reader is promised.
PromisedFeed == INSTANCE Feed WITH
  past      <- Published,
  unread    <- [u \in Owners |-> Unread(u)],
  open      <- stream.open,
  delivered <- sent
FeedSpec == PromisedFeed!Spec

\* Frames come oldest first, but for events that were inserted after the newer
\* one (their handler was overtaken) or that an earlier poll left out because
\* more than Limit were unread.
FramesInOrder ==
  \A i, j \in DOMAIN sent :
    i < j /\ Newer(sent[i], sent[j]) =>
      event[sent[j]].pos > event[sent[i]].pos \/ sent[j] \in crowded

\* An event that stays among the Limit newest unread ones is pushed, on every
\* connection that lasts, whatever else is published, read or lost.
UnreadPushed ==
  \A e \in Events :
    <>[](e \in ListForUser(Reader)) => []<>(\E i \in DOMAIN sent : sent[i] = e)

\* Once nothing changes any more, the browser shows what is unread and nothing
\* else, although frames and lists cross each other and reads on their way.
ViewSettles == <>[](listed = ListForUser(Reader))
============================================================================
