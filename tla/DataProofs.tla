----------------------------- MODULE DataProofs -----------------------------
(***************************************************************************)
(* What holds of what is kept for a user, for any number of users,         *)
(* requests, calls and rows, any delay and any failure: of notifications   *)
(* (what a reader's push stream guarantees: it implements the promised     *)
(* feed, module Feed, and frames come in order but for two named reasons), *)
(* and of conversations, notes and memories (module UserData).             *)
(***************************************************************************)
EXTENDS Notifications, UserData, FiniteSetTheorems, WellFoundedInduction, TLAPS

----------------------------------------------------------------------------
(***************************************************************************)
(* Notifications.                                                          *)
(***************************************************************************)

----------------------------------------------------------------------------
\* Helpers.

\* Appending to a sequence.
LEMMA Appended ==
  ASSUME NEW S, NEW s \in Seq(S), NEW x \in S
  PROVE  /\ Append(s, x) \in Seq(S)
         /\ Len(Append(s, x)) = Len(s) + 1
         /\ Append(s, x)[Len(s) + 1] = x
         /\ \A i \in 1..Len(s) : Append(s, x)[i] = s[i]
  OBVIOUS

\* Sets of events are finite.
LEMMA EventsFinite ==
  ASSUME NEW S \in SUBSET Events
  PROVE  IsFiniteSet(S) /\ Cardinality(S) \in Nat
<1>1. IsFiniteSet(Events)
  BY NotificationsAssumption, FS_Interval DEF Events
<1> QED
  BY <1>1, FS_Subset, FS_CardinalityType

\* The place of the last insertion is a number.
LEMMA LastPosType == LastPos \in Nat
<1>1. Published \in SUBSET Events
  BY DEF Published
<1> QED
  BY <1>1, EventsFinite DEF LastPos

\* A poll's list is a part of what is unread.
LEMMA ListsUnread == \A u : ListForUser(u) \subseteq Unread(u) /\ Unread(u) \subseteq Events
  BY DEF ListForUser, Unread

\* Setting the stage of one event changes nothing else about the events.
LEMMA EventStage ==
  ASSUME event \in [Events -> Event], NEW e \in Events, NEW stage \in {"stored", "dropped", "lost"},
         event' = [event EXCEPT ![e].stage = stage]
  PROVE  /\ event' \in [Events -> Event]
         /\ event'[e].stage = stage /\ event'[e].read = event[e].read
         /\ \A f \in Events \ {e} : event'[f] = event[f]
<1>1. event[e] \in Event
  OBVIOUS
<1>2. PICK c : c = [event[e] EXCEPT !.stage = stage]
  OBVIOUS
<1>3. c \in Event /\ c.stage = stage /\ c.read = event[e].read
  BY <1>1, <1>2 DEF Event
<1>4. event' = [event EXCEPT ![e] = c]
  BY <1>2
<1> QED
  BY <1>3, <1>4

\* Reading one event changes nothing else about the events.
LEMMA EventRead ==
  ASSUME event \in [Events -> Event], NEW e \in Events, event' = [event EXCEPT ![e].read = TRUE]
  PROVE  /\ event' \in [Events -> Event]
         /\ event'[e].read = TRUE
         /\ event'[e].stage = event[e].stage /\ event'[e].pos = event[e].pos
         /\ event'[e].owner = event[e].owner
         /\ \A f \in Events \ {e} : event'[f] = event[f]
<1>1. event[e] \in Event
  OBVIOUS
<1>2. PICK c : c = [event[e] EXCEPT !.read = TRUE]
  OBVIOUS
<1>3. /\ c \in Event /\ c.read = TRUE
      /\ c.stage = event[e].stage /\ c.pos = event[e].pos /\ c.owner = event[e].owner
  BY <1>1, <1>2 DEF Event
<1>4. event' = [event EXCEPT ![e] = c]
  BY <1>2
<1> QED
  BY <1>3, <1>4

\* What Publish does to the event and to those it pushes out of the ring.
LEMMA EventPublished ==
  ASSUME event \in [Events -> Event], NEW e \in Events, Publish(e)
  PROVE  /\ event' \in [Events -> Event]
         /\ event'[e].stage = "stored" /\ event'[e].pos = LastPos + 1
         /\ event'[e].owner = event[e].owner /\ event'[e].read = event[e].read
         /\ \A f \in Events \ {e} :
              /\ event'[f].pos = event[f].pos /\ event'[f].owner = event[f].owner
              /\ event'[f].read = event[f].read
              /\ f \in PushedOut(e) => event'[f].stage = "dropped"
              /\ f \notin PushedOut(e) => event'[f].stage = event[f].stage
<1>1. event[e] \in Event
  OBVIOUS
<1>p. PICK p \in Nat : p = LastPos + 1
  BY LastPosType
<1>b. PICK b : b = [event[e] EXCEPT !.stage = "stored"]
  OBVIOUS
<1>2. PICK c : c = [b EXCEPT !.pos = p]
  OBVIOUS
<1>3. /\ c \in Event /\ c.stage = "stored" /\ c.pos = LastPos + 1
      /\ c.owner = event[e].owner /\ c.read = event[e].read
  <2>1. b \in Event /\ b.stage = "stored" /\ b.owner = event[e].owner /\ b.read = event[e].read
    BY <1>1, <1>b DEF Event
  <2>2. c \in Event /\ c.stage = b.stage /\ c.pos = p /\ c.owner = b.owner /\ c.read = b.read
    BY <2>1, <1>2 DEF Event
  <2> QED
    BY <2>1, <2>2, <1>p
<1>4. PICK drop : drop = [f \in Events |-> [event[f] EXCEPT !.stage = "dropped"]]
  OBVIOUS
<1>5. ASSUME NEW f \in Events
      PROVE  /\ drop[f] \in Event /\ drop[f].stage = "dropped" /\ drop[f].pos = event[f].pos
             /\ drop[f].owner = event[f].owner /\ drop[f].read = event[f].read
  <2>1. event[f] \in Event
    BY <1>5
  <2>2. PICK d : d = [event[f] EXCEPT !.stage = "dropped"]
    OBVIOUS
  <2>3. /\ d \in Event /\ d.stage = "dropped" /\ d.pos = event[f].pos
        /\ d.owner = event[f].owner /\ d.read = event[f].read
    BY <2>1, <2>2 DEF Event
  <2>4. drop[f] = d
    BY <1>4, <1>5, <2>2
  <2> QED
    BY <2>3, <2>4
<1>6. event' = [f \in Events |-> IF f = e THEN c ELSE IF f \in PushedOut(e) THEN drop[f] ELSE event[f]]
  <2>1. event' = [f \in Events |->
          IF f = e THEN [[event[f] EXCEPT !.stage = "stored"] EXCEPT !.pos = LastPos + 1]
          ELSE IF f \in PushedOut(e) THEN [event[f] EXCEPT !.stage = "dropped"] ELSE event[f]]
    BY Zenon DEF Publish
  <2>2. ASSUME NEW f \in Events
        PROVE  (IF f = e THEN [[event[f] EXCEPT !.stage = "stored"] EXCEPT !.pos = LastPos + 1]
                ELSE IF f \in PushedOut(e) THEN [event[f] EXCEPT !.stage = "dropped"] ELSE event[f])
             = (IF f = e THEN c ELSE IF f \in PushedOut(e) THEN drop[f] ELSE event[f])
    BY <1>p, <1>b, <1>2, <1>4, Zenon
  <2> QED
    BY <2>1, <2>2, Zenon
<1> QED
  BY <1>3, <1>5, <1>6

\* Changing an event that is not in the store changes neither store nor lists.
LEMMA OutsideStore ==
  ASSUME NEW e \in Events, event[e].stage \notin {"stored", "dropped"},
         event'[e].stage \notin {"stored", "dropped"},
         \A f \in Events \ {e} : event'[f] = event[f]
  PROVE  /\ Published' = Published
         /\ \A u : Unread(u)' = Unread(u)
         /\ \A f \in Published : event'[f].pos = event[f].pos
  BY DEF Published, Unread

\* Publishing puts one event into the store, after all others, and may push
\* others of the same owner out of what is unread.
LEMMA Arrives ==
  ASSUME event \in [Events -> Event], NEW e \in Events, Publish(e), ~event[e].read
  PROVE  /\ e \notin Published
         /\ Published' = Published \cup {e}
         /\ \A u : Unread(u)' = (Unread(u) \ PushedOut(e)) \cup (IF u = event[e].owner THEN {e} ELSE {})
         /\ \A u : u # event[e].owner => Unread(u) \cap PushedOut(e) = {}
         /\ event'[e].pos = LastPos + 1
         /\ \A f \in Published : event'[f].pos = event[f].pos
<1>1. event[e].stage = "stamped"
  BY DEF Publish
<1>2. \A f \in PushedOut(e) : f \in Events /\ event[f].stage = "stored" /\ event[f].owner = event[e].owner
  BY DEF PushedOut
<1>3. e \notin Published /\ e \notin PushedOut(e)
  BY <1>1, <1>2 DEF Published
<1>4. Published' = Published \cup {e}
  <2>1. ASSUME NEW f \in Events
        PROVE  event'[f].stage \in {"stored", "dropped"} <=> f = e \/ event[f].stage \in {"stored", "dropped"}
    BY <1>2, EventPublished
  <2> QED
    BY <2>1 DEF Published
<1>5. ASSUME NEW u
      PROVE  Unread(u)' = (Unread(u) \ PushedOut(e)) \cup (IF u = event[e].owner THEN {e} ELSE {})
  <2>1. ASSUME NEW f \in Events
        PROVE  f \in Unread(u)' <=>
                 (f \in Unread(u) /\ f \notin PushedOut(e)) \/ (f = e /\ u = event[e].owner)
    BY <1>1, <1>2, EventPublished DEF Unread
  <2> QED
    BY <2>1 DEF Unread
<1>6. \A u : u # event[e].owner => Unread(u) \cap PushedOut(e) = {}
  BY <1>2 DEF Unread
<1>7. event'[e].pos = LastPos + 1 /\ \A f \in Published : event'[f].pos = event[f].pos
  BY <1>3, EventPublished DEF Published
<1> QED
  BY <1>3, <1>4, <1>5, <1>6, <1>7

\* Reading takes an event of its owner's off what is unread.
LEMMA Read ==
  ASSUME event \in [Events -> Event], NEW u \in Owners, NEW e \in Events, MarkRead(u, e)
  PROVE  /\ Published' = Published
         /\ \A v : Unread(v)' = IF v = u THEN Unread(v) \ {e} ELSE Unread(v)
         /\ \A f \in Events : event'[f].pos = event[f].pos
<1>1. event[e].stage = "stored" /\ event[e].owner = u /\ ~event[e].read
  BY DEF MarkRead, Unread
<1>2. event' = [event EXCEPT ![e].read = TRUE]
  BY DEF MarkRead
<1>3. \A f \in Events : /\ event'[f].stage = event[f].stage /\ event'[f].pos = event[f].pos
                        /\ event'[f].owner = event[f].owner
                        /\ f # e => event'[f].read = event[f].read
  BY <1>2, EventRead
<1>4. event'[e].read = TRUE
  BY <1>2, EventRead
<1>5. Published' = Published
  BY <1>3 DEF Published
<1>6. ASSUME NEW v
      PROVE  Unread(v)' = IF v = u THEN Unread(v) \ {e} ELSE Unread(v)
  <2>1. ASSUME NEW f \in Events
        PROVE  f \in Unread(v)' <=> f \in Unread(v) /\ ~(v = u /\ f = e)
    BY <1>1, <1>3, <1>4 DEF Unread
  <2> QED
    BY <2>1 DEF Unread
<1> QED
  BY <1>3, <1>5, <1>6

----------------------------------------------------------------------------
\* Types.

\* Every step keeps the types.
LEMMA TypeStep ==
  ASSUME TypeOK, [Next]_vars
  PROVE  TypeOK'
<1> USE NotificationsAssumption
<1>0. /\ NoStream \in Stream
      /\ NoResponse \in [waiting : BOOLEAN, list : SUBSET Events]
      /\ \A u : ListForUser(u) \subseteq Events /\ Unread(u) \subseteq Events
  BY ListsUnread DEF NoStream, Stream, NoResponse
<1>1. CASE UNCHANGED vars
  BY <1>1 DEF TypeOK, vars, store, browser, history
<1>2. ASSUME NEW e \in Events, NEW u \in Owners, Build(e, u)
      PROVE  TypeOK'
  <2>1. PICK c : c = [[Free EXCEPT !.stage = "stamped"] EXCEPT !.owner = u]
    OBVIOUS
  <2>2. c \in Event
    BY <2>1 DEF Free, Event
  <2>3. event' = [event EXCEPT ![e] = c]
    BY <1>2, <2>1 DEF Build
  <2> QED
    BY <1>2, <2>2, <2>3 DEF Build, TypeOK, browser, history
<1>3. ASSUME NEW e \in Events, NEW u \in Owners, MarkRead(u, e)
      PROVE  TypeOK'
  <2>1. event' \in [Events -> Event]
    BY <1>3, EventRead DEF MarkRead, TypeOK
  <2>2. listed' \subseteq Events /\ UNCHANGED <<backend, stream, response, drops, history>>
    BY <1>3 DEF MarkRead, TypeOK
  <2> QED
    BY <2>1, <2>2 DEF TypeOK, history
<1>4. ASSUME NEW e \in Events, Publish(e)
      PROVE  TypeOK'
  <2>1. event' \in [Events -> Event]
    BY <1>4, EventPublished DEF TypeOK
  <2>2. eligible' \subseteq Events /\ UNCHANGED <<backend, stream, browser, drops, sent, crowded>>
    BY <1>4 DEF Publish, TypeOK
  <2> QED
    BY <2>1, <2>2 DEF TypeOK, browser
<1>5. ASSUME NEW e \in Events, PublishFails(e)
      PROVE  TypeOK'
  <2>1. event' \in [Events -> Event]
    BY <1>5, EventStage DEF PublishFails, TypeOK
  <2> QED
    BY <1>5, <2>1 DEF PublishFails, TypeOK, browser, history
<1>6. ASSUME NEW e \in Events, SendFrame(e)
      PROVE  TypeOK'
  <2>1. stream' \in Stream
    BY <1>6 DEF SendFrame, TypeOK, Stream
  <2>2. sent' \in Seq(Events)
    BY <1>6, Appended DEF SendFrame, TypeOK
  <2> QED
    BY <1>6, <2>1, <2>2 DEF SendFrame, TypeOK, store
<1>7. CASE OpenStream
  <2>1. stream' \in Stream
    <3>1. stream' = [NoStream EXCEPT !.open = TRUE]
      BY <1>7 DEF OpenStream
    <3>2. stream' = [open |-> TRUE, ticks |-> 0, batch |-> {}, emitted |-> {}]
      BY <3>1, Zenon DEF NoStream
    <3> QED
      BY <3>2 DEF Stream
  <2>2. eligible' \subseteq Events
    BY <1>7, <1>0 DEF OpenStream
  <2>3. UNCHANGED <<store, browser, drops, sent, crowded>>
    BY <1>7 DEF OpenStream
  <2> QED
    BY <2>1, <2>2, <2>3 DEF TypeOK, store, browser
<1>8. CASE PollStream
  <2>1. PICK t, b : t = stream.ticks + 1 /\ b = ListForUser(Reader) \ stream.emitted
    OBVIOUS
  <2>2. stream' = [[stream EXCEPT !.ticks = t] EXCEPT !.batch = b] /\ stream.ticks < MaxTicks
    BY <1>8, <2>1 DEF PollStream
  <2>3. stream' \in Stream
    <3>1. t \in 0..MaxTicks /\ b \in SUBSET Events
      BY <1>0, <2>1, <2>2 DEF TypeOK, Stream
    <3>2. PICK q : q = [stream EXCEPT !.ticks = t]
      OBVIOUS
    <3>3. q \in Stream
      BY <3>1, <3>2 DEF TypeOK, Stream
    <3> QED
      BY <2>2, <3>1, <3>2, <3>3 DEF Stream
  <2>4. crowded' \subseteq Events
    BY <1>8, <1>0 DEF PollStream, TypeOK
  <2> QED
    BY <1>8, <2>3, <2>4 DEF PollStream, TypeOK, store, browser
<1>9. CASE EndStream \/ BreakStream
  <2>1. stream' \in Stream /\ eligible' = {} /\ sent' = <<>> /\ crowded' = {}
    BY <1>9, <1>0 DEF EndStream, BreakStream, CloseStream
  <2>2. drops' \in 0..MaxDrops /\ UNCHANGED <<store, browser>>
    BY <1>9 DEF EndStream, BreakStream, TypeOK
  <2> QED
    BY <2>1, <2>2 DEF TypeOK, store, browser
<1>10. CASE PollList
  <2>1. response' \in [waiting : BOOLEAN, list : SUBSET Events]
    BY <1>10, <1>0 DEF PollList
  <2> QED
    BY <1>10, <2>1 DEF PollList, TypeOK, store, history
<1>11. CASE ApplyList \/ LoseList
  <2>1. /\ response' \in [waiting : BOOLEAN, list : SUBSET Events]
        /\ listed' \subseteq Events /\ drops' \in 0..MaxDrops
        /\ UNCHANGED <<store, stream, history>>
    BY <1>11, <1>0 DEF ApplyList, LoseList, TypeOK
  <2> QED
    BY <2>1 DEF TypeOK, store, history
<1> QED
  BY <1>1, <1>2, <1>3, <1>4, <1>5, <1>6, <1>7, <1>8, <1>9, <1>10, <1>11 DEF Next

\* Store, stream and browser keep their types.
THEOREM TypeCorrect == Spec => []TypeOK
<1>1. Init => TypeOK
  BY NotificationsAssumption DEF Init, TypeOK, Free, Event, NoStream, Stream, NoResponse
<1>2. TypeOK /\ [Next]_vars => TypeOK'
  BY TypeStep
<1> QED
  BY <1>1, <1>2, PTL DEF Spec

----------------------------------------------------------------------------
\* The inductive invariant.

\* What is not inserted yet is unread, and places in the store are given in order.
StoreInv ==
  /\ \A e \in Events : event[e].stage \in {"free", "stamped"} => ~event[e].read
  /\ \A e \in Published : event[e].pos <= LastPos

\* What is pushed was eligible and had not been pushed before.
StreamInv ==
  /\ ~stream.open => stream.batch = {} /\ stream.emitted = {} /\ eligible = {} /\ sent = <<>>
  /\ stream.batch \cap stream.emitted = {}
  /\ stream.batch \subseteq eligible
  /\ stream.open => Unread(Reader) \subseteq eligible
  /\ \A i \in 1..Len(sent) : sent[i] \in stream.emitted

\* e may come after s.
Follows(s, e) == Newer(s, e) => event[e].pos > event[s].pos \/ e \in crowded

\* What a poll has not found was inserted later, or crowded out.
Polled == stream.batch \cup stream.emitted
OrderInv ==
  /\ Polled \subseteq Published
  /\ \A s \in Polled, e \in Unread(Reader) \ Polled : event[e].pos > event[s].pos \/ e \in crowded
  /\ \A i \in 1..Len(sent), e \in stream.batch : Follows(sent[i], e)
  /\ \A i, j \in 1..Len(sent) : i < j => Follows(sent[i], sent[j])

\* One more event in the store has the last place.
LEMMA StorePublish ==
  ASSUME TypeOK, StoreInv, NEW e \in Events, Publish(e)
  PROVE  StoreInv' /\ LastPos' = LastPos + 1
<1>0. event \in [Events -> Event] /\ ~event[e].read /\ event[e].stage = "stamped"
  BY DEF TypeOK, StoreInv, Publish
<1>1. /\ e \notin Published /\ Published' = Published \cup {e}
      /\ event'[e].pos = LastPos + 1
      /\ \A f \in Published : event'[f].pos = event[f].pos
  BY <1>0, Arrives
<1>2. LastPos' = LastPos + 1
  <2>1. IsFiniteSet(Published)
    BY EventsFinite DEF Published
  <2> QED
    BY <1>1, <2>1, FS_AddElement DEF LastPos
<1>3. \A f \in Published' : event'[f].pos <= LastPos'
  <2>1. \A f \in Published : event[f].pos \in Nat /\ event[f].pos <= LastPos
    BY <1>0 DEF StoreInv, Published, Event
  <2> QED
    BY <1>1, <1>2, <2>1, LastPosType
<1>4. \A f \in Events : event'[f].stage \in {"free", "stamped"} => ~event'[f].read
  <2>1. \A f \in PushedOut(e) : event[f].stage = "stored"
    BY DEF PushedOut
  <2> QED
    BY <1>0, <2>1, EventPublished DEF StoreInv
<1> QED
  BY <1>2, <1>3, <1>4 DEF StoreInv

\* Every step keeps the store's part.
LEMMA StoreStep ==
  ASSUME TypeOK, StoreInv, [Next]_vars
  PROVE  StoreInv'
<1>0. event \in [Events -> Event]
  BY DEF TypeOK
<1>1. CASE UNCHANGED store
  BY <1>1 DEF store, StoreInv, Published, LastPos
<1>2. ASSUME NEW e \in Events, NEW u \in Owners, Build(e, u)
      PROVE  StoreInv'
  <2>1. PICK c : c = [[Free EXCEPT !.stage = "stamped"] EXCEPT !.owner = u]
    OBVIOUS
  <2>2. c.stage = "stamped" /\ ~c.read
    BY <2>1 DEF Free
  <2>3. event' = [event EXCEPT ![e] = c] /\ event[e].stage = "free"
    BY <1>2, <2>1 DEF Build
  <2>4. event'[e] = c /\ \A f \in Events \ {e} : event'[f] = event[f]
    BY <1>0, <2>3
  <2>5. Published' = Published /\ \A f \in Published : event'[f].pos = event[f].pos
    BY <2>2, <2>3, <2>4, OutsideStore
  <2> QED
    BY <2>2, <2>4, <2>5 DEF StoreInv, LastPos
<1>3. ASSUME NEW e \in Events, NEW u \in Owners, MarkRead(u, e)
      PROVE  StoreInv'
  <2>1. /\ event[e].stage = "stored"
        /\ event'[e].stage = event[e].stage
        /\ \A f \in Events \ {e} : event'[f] = event[f]
    BY <1>0, <1>3, EventRead DEF MarkRead, Unread
  <2>2. Published' = Published /\ \A f \in Events : event'[f].pos = event[f].pos
    BY <1>0, <1>3, Read
  <2>3. Published \subseteq Events
    BY DEF Published
  <2> QED
    BY <2>1, <2>2, <2>3 DEF StoreInv, LastPos
<1>4. ASSUME NEW e \in Events, Publish(e)
      PROVE  StoreInv'
  BY <1>4, StorePublish
<1>5. ASSUME NEW e \in Events, PublishFails(e)
      PROVE  StoreInv'
  <2>1. /\ event[e].stage = "stamped" /\ event'[e].stage = "lost"
        /\ \A f \in Events \ {e} : event'[f] = event[f]
    BY <1>0, <1>5, EventStage DEF PublishFails
  <2>2. Published' = Published /\ \A f \in Published : event'[f].pos = event[f].pos
    BY <2>1, OutsideStore
  <2> QED
    BY <2>1, <2>2 DEF StoreInv, LastPos
<1> QED
  BY <1>1, <1>2, <1>3, <1>4, <1>5
  DEF Next, vars, SendFrame, OpenStream, PollStream, EndStream, BreakStream, PollList, ApplyList, LoseList

\* What a step leaves alone of the stream and what its invariants read.
StreamSame ==
  /\ UNCHANGED <<backend, stream, eligible, sent, crowded>>
  /\ Published' = Published
  /\ Unread(Reader)' \subseteq Unread(Reader)
  /\ \A f \in Published : event'[f].pos = event[f].pos

\* Building, losing and reading events, and the browser's lists, take nothing
\* from the stream and give it nothing.
LEMMA SilentSteps ==
  ASSUME TypeOK
  PROVE  /\ UNCHANGED vars => StreamSame
         /\ \A e \in Events, u \in Owners : Build(e, u) \/ MarkRead(u, e) => StreamSame
         /\ \A e \in Events : PublishFails(e) => StreamSame
         /\ PollList \/ ApplyList \/ LoseList => StreamSame
<1>0. event \in [Events -> Event]
  BY DEF TypeOK
<1>1. UNCHANGED <<store, stream, eligible, sent, crowded>> => StreamSame
  BY DEF StreamSame, store, Published, Unread
<1>2. UNCHANGED vars \/ PollList \/ ApplyList \/ LoseList => StreamSame
  BY <1>1 DEF vars, history, PollList, ApplyList, LoseList
<1>3. ASSUME NEW e \in Events, NEW u \in Owners, Build(e, u)
      PROVE  StreamSame
  <2>1. PICK c : c = [[Free EXCEPT !.stage = "stamped"] EXCEPT !.owner = u]
    OBVIOUS
  <2>2. c.stage = "stamped"
    BY <2>1 DEF Free
  <2>3. event' = [event EXCEPT ![e] = c] /\ event[e].stage = "free"
    BY <1>3, <2>1 DEF Build
  <2>4. event'[e] = c /\ \A f \in Events \ {e} : event'[f] = event[f]
    BY <1>0, <2>3
  <2>5. /\ Published' = Published /\ \A v : Unread(v)' = Unread(v)
        /\ \A f \in Published : event'[f].pos = event[f].pos
    BY <2>2, <2>3, <2>4, OutsideStore
  <2>6. UNCHANGED <<backend, stream, history>>
    BY <1>3 DEF Build
  <2> QED
    BY <2>5, <2>6 DEF StreamSame, history
<1>4. ASSUME NEW e \in Events, NEW u \in Owners, MarkRead(u, e)
      PROVE  StreamSame
  <2>1. /\ Published' = Published
        /\ \A v : Unread(v)' = IF v = u THEN Unread(v) \ {e} ELSE Unread(v)
        /\ \A f \in Events : event'[f].pos = event[f].pos
    BY <1>0, <1>4, Read
  <2>2. UNCHANGED <<backend, stream, history>>
    BY <1>4 DEF MarkRead
  <2> QED
    BY <2>1, <2>2 DEF StreamSame, history, Published
<1>5. ASSUME NEW e \in Events, PublishFails(e)
      PROVE  StreamSame
  <2>1. /\ event[e].stage = "stamped" /\ event'[e].stage = "lost"
        /\ \A f \in Events \ {e} : event'[f] = event[f]
    BY <1>0, <1>5, EventStage DEF PublishFails
  <2>2. /\ Published' = Published /\ \A v : Unread(v)' = Unread(v)
        /\ \A f \in Published : event'[f].pos = event[f].pos
    BY <2>1, OutsideStore
  <2>3. UNCHANGED <<backend, stream, history>>
    BY <1>5 DEF PublishFails
  <2> QED
    BY <2>2, <2>3 DEF StreamSame, history
<1> QED
  BY <1>2, <1>3, <1>4, <1>5

\* Every step keeps the stream's part.
LEMMA StreamStep ==
  ASSUME TypeOK, StoreInv, StreamInv, [Next]_vars
  PROVE  StreamInv'
<1>0. /\ event \in [Events -> Event] /\ sent \in Seq(Events) /\ stream \in Stream
      /\ Reader \in Owners
  BY NotificationsAssumption DEF TypeOK
<1>1. CASE StreamSame
  BY <1>1 DEF StreamSame, StreamInv
<1>2. ASSUME NEW e \in Events, Publish(e)
      PROVE  StreamInv'
  <2>1. /\ UNCHANGED <<stream, sent>>
        /\ eligible' = IF stream.open /\ event[e].owner = Reader THEN eligible \cup {e} ELSE eligible
    BY <1>2 DEF Publish
  <2>2. ~event[e].read
    BY <1>2 DEF Publish, StoreInv
  <2>3. Unread(Reader)' = (Unread(Reader) \ PushedOut(e)) \cup (IF Reader = event[e].owner THEN {e} ELSE {})
    BY <1>0, <1>2, <2>2, Arrives
  <2> QED
    BY <2>1, <2>3 DEF StreamInv
<1>3. CASE OpenStream
  <2>1. stream' = [NoStream EXCEPT !.open = TRUE] /\ eligible' = Unread(Reader) /\ sent' = sent /\ event' = event
        /\ ~stream.open
    BY <1>3 DEF OpenStream, store
  <2>2. stream'.open /\ stream'.batch = {} /\ stream'.emitted = {}
    BY <2>1 DEF NoStream
  <2>3. Unread(Reader)' = Unread(Reader)
    BY <2>1 DEF Unread
  <2>4. sent = <<>>
    BY <2>1 DEF StreamInv
  <2> QED
    BY <2>1, <2>2, <2>3, <2>4 DEF StreamInv
<1>4. CASE PollStream
  <2>1. /\ stream.open /\ stream'.open /\ stream'.emitted = stream.emitted
        /\ stream'.batch = ListForUser(Reader) \ stream.emitted
        /\ eligible' = eligible /\ sent' = sent /\ event' = event
    BY <1>0, <1>4 DEF PollStream, store, Stream
  <2>2. Unread(Reader)' = Unread(Reader)
    BY <2>1 DEF Unread
  <2> QED
    BY <2>1, <2>2, ListsUnread DEF StreamInv
<1>5. ASSUME NEW e \in Events, SendFrame(e)
      PROVE  StreamInv'
  <2>1. /\ stream.open /\ stream'.open /\ e \in stream.batch
        /\ stream'.emitted = stream.emitted \cup {e} /\ stream'.batch = stream.batch \ {e}
        /\ eligible' = eligible /\ sent' = Append(sent, e) /\ event' = event
    BY <1>0, <1>5 DEF SendFrame, store, Stream
  <2>2. Unread(Reader)' = Unread(Reader)
    BY <2>1 DEF Unread
  <2>3. \A i \in 1..Len(sent') : sent'[i] = e \/ (i \in 1..Len(sent) /\ sent'[i] = sent[i])
    BY <1>0, <2>1, Appended
  <2> QED
    BY <2>1, <2>2, <2>3 DEF StreamInv
<1>6. CASE EndStream \/ BreakStream
  <2>1. stream' = NoStream /\ eligible' = {} /\ sent' = <<>>
    BY <1>6 DEF EndStream, BreakStream, CloseStream
  <2> QED
    BY <2>1 DEF StreamInv, NoStream
<1> QED
  BY <1>1, <1>2, <1>3, <1>4, <1>5, <1>6, SilentSteps DEF Next

----------------------------------------------------------------------------
\* Store, stream and polling implement the promised feed.

\* Every step is a step of the promised feed, or none.
LEMMA StepsOfTheFeed ==
  ASSUME TypeOK, StoreInv, StreamInv, [Next]_vars
  PROVE  [PromisedFeed!Next]_(PromisedFeed!feedVars)
<1> DEFINE box == [u \in Owners |-> Unread(u)]
<1>0. /\ event \in [Events -> Event] /\ sent \in Seq(Events) /\ stream \in Stream
      /\ Reader \in Owners
  BY NotificationsAssumption DEF TypeOK
<1>1. ASSUME Published' = Published, \A u : Unread(u)' = Unread(u), UNCHANGED <<stream, eligible, sent>>
      PROVE  UNCHANGED PromisedFeed!feedVars
  <2>1. box' = box
    BY <1>1
  <2> QED
    BY <1>1, <2>1 DEF PromisedFeed!feedVars
<1>2. CASE UNCHANGED vars \/ PollList \/ ApplyList \/ LoseList
  BY <1>1, <1>2 DEF vars, store, history, PollList, ApplyList, LoseList, Published, Unread
<1>3. ASSUME NEW e \in Events, NEW u \in Owners, Build(e, u)
      PROVE  UNCHANGED PromisedFeed!feedVars
  <2>1. PICK c : c = [[Free EXCEPT !.stage = "stamped"] EXCEPT !.owner = u]
    OBVIOUS
  <2>2. c.stage = "stamped"
    BY <2>1 DEF Free
  <2>3. event' = [event EXCEPT ![e] = c] /\ event[e].stage = "free"
    BY <1>3, <2>1 DEF Build
  <2>4. event'[e] = c /\ \A f \in Events \ {e} : event'[f] = event[f]
    BY <1>0, <2>3
  <2>5. Published' = Published /\ \A v : Unread(v)' = Unread(v)
    BY <2>2, <2>3, <2>4, OutsideStore
  <2> QED
    BY <1>1, <1>3, <2>5 DEF Build, history
<1>4. ASSUME NEW e \in Events, PublishFails(e)
      PROVE  UNCHANGED PromisedFeed!feedVars
  <2>1. /\ event[e].stage = "stamped" /\ event'[e].stage = "lost"
        /\ \A f \in Events \ {e} : event'[f] = event[f]
    BY <1>0, <1>4, EventStage DEF PublishFails
  <2>2. Published' = Published /\ \A v : Unread(v)' = Unread(v)
    BY <2>1, OutsideStore
  <2> QED
    BY <1>1, <1>4, <2>2 DEF PublishFails, history
<1>5. CASE PollStream
  <2>1. stream'.open = stream.open /\ eligible' = eligible /\ sent' = sent /\ event' = event
    BY <1>0, <1>5 DEF PollStream, store, Stream
  <2>2. Published' = Published /\ box' = box
    BY <2>1 DEF Published, Unread
  <2> QED
    BY <2>1, <2>2 DEF PromisedFeed!feedVars
<1>6. ASSUME NEW e \in Events, NEW u \in Owners, MarkRead(u, e)
      PROVE  PromisedFeed!MarkRead(u, e)
  <2>1. /\ Published' = Published
        /\ \A v : Unread(v)' = IF v = u THEN Unread(v) \ {e} ELSE Unread(v)
    BY <1>0, <1>6, Read
  <2>2. box' = [box EXCEPT ![u] = box[u] \ {e}]
    BY <2>1
  <2>3. UNCHANGED <<stream, history>>
    BY <1>6 DEF MarkRead
  <2> QED
    BY <2>1, <2>2, <2>3 DEF PromisedFeed!MarkRead, history
<1>7. ASSUME NEW e \in Events, Publish(e)
      PROVE  \E u \in Owners : PromisedFeed!Arrive(u, e)
  <2>0. PICK u \in Owners : u = event[e].owner
    BY <1>0, <1>7 DEF Event
  <2>1. /\ UNCHANGED <<stream, sent>>
        /\ eligible' = IF stream.open /\ u = Reader THEN eligible \cup {e} ELSE eligible
    BY <1>7, <2>0 DEF Publish
  <2>2. ~event[e].read
    BY <1>7 DEF Publish, StoreInv
  <2>3. /\ e \notin Published /\ Published' = Published \cup {e}
        /\ \A v : Unread(v)' = (Unread(v) \ PushedOut(e)) \cup (IF v = u THEN {e} ELSE {})
        /\ \A v : v # u => Unread(v) \cap PushedOut(e) = {}
    BY <1>0, <1>7, <2>0, <2>2, Arrives
  <2>4. PICK gone \in SUBSET box[u] : gone = box[u] \cap PushedOut(e)
    OBVIOUS
  <2>5. box' = [box EXCEPT ![u] = (box[u] \ gone) \cup {e}]
    <3>1. ASSUME NEW v \in Owners
          PROVE  box'[v] = IF v = u THEN (box[u] \ gone) \cup {e} ELSE box[v]
      BY <2>3, <2>4
    <3> QED
      BY <3>1
  <2>6. PromisedFeed!Arrive(u, e)
    BY <2>1, <2>3, <2>4, <2>5 DEF PromisedFeed!Arrive
  <2> QED
    BY <2>6
<1>8. CASE OpenStream
  <2>1. /\ stream' = [NoStream EXCEPT !.open = TRUE]
        /\ ~stream.open /\ eligible' = Unread(Reader) /\ sent' = sent /\ event' = event
    BY <1>8 DEF OpenStream, store
  <2>2. stream'.open = TRUE
    BY <2>1 DEF NoStream
  <2>3. Published' = Published /\ box' = box /\ box[Reader] = Unread(Reader)
    BY <1>0, <2>1 DEF Published, Unread
  <2>4. PromisedFeed!Connect
    BY <2>1, <2>2, <2>3 DEF PromisedFeed!Connect
  <2> QED
    BY <2>4 DEF PromisedFeed!Next
<1>9. ASSUME NEW e \in Events, SendFrame(e)
      PROVE  PromisedFeed!Deliver(e)
  <2>1. /\ stream.open /\ stream'.open = stream.open /\ e \in stream.batch
        /\ eligible' = eligible /\ sent' = Append(sent, e) /\ event' = event
    BY <1>0, <1>9 DEF SendFrame, store, Stream
  <2>2. Published' = Published /\ box' = box
    BY <2>1 DEF Published, Unread
  <2>3. e \in eligible /\ \A i \in DOMAIN sent : sent[i] # e
    BY <1>0, <2>1 DEF StreamInv
  <2> QED
    BY <2>1, <2>2, <2>3 DEF PromisedFeed!Deliver
<1>10. CASE EndStream \/ BreakStream
  <2>1. stream.open /\ stream' = NoStream /\ eligible' = {} /\ sent' = <<>> /\ event' = event
    BY <1>10 DEF EndStream, BreakStream, CloseStream, store
  <2>2. stream'.open = FALSE
    BY <2>1 DEF NoStream
  <2>3. Published' = Published /\ box' = box
    BY <2>1 DEF Published, Unread
  <2>4. PromisedFeed!Disconnect
    BY <2>1, <2>2, <2>3 DEF PromisedFeed!Disconnect
  <2> QED
    BY <2>4 DEF PromisedFeed!Next
<1> QED
  BY <1>2, <1>3, <1>4, <1>5, <1>6, <1>7, <1>8, <1>9, <1>10 DEF Next, PromisedFeed!Next

\* Types and the invariant hold at the start.
LEMMA FeedInit == Init => StoreInv /\ StreamInv /\ OrderInv /\ PromisedFeed!Init
<1> SUFFICES ASSUME Init PROVE StoreInv /\ StreamInv /\ OrderInv /\ PromisedFeed!Init
  OBVIOUS
<1>1. /\ \A e \in Events : event[e] = Free
      /\ stream = NoStream /\ eligible = {} /\ sent = <<>>
  BY DEF Init
<1>2. Free.stage = "free" /\ Free.read = FALSE
  BY DEF Free
<1>3. Published = {} /\ \A u : Unread(u) = {}
  BY <1>1, <1>2 DEF Published, Unread
<1>4. ~NoStream.open /\ NoStream.open = FALSE /\ NoStream.batch = {} /\ NoStream.emitted = {}
  BY DEF NoStream
<1>5. StoreInv
  BY <1>1, <1>2, <1>3 DEF StoreInv
<1>6. StreamInv
  BY <1>1, <1>4 DEF StreamInv
<1>7. OrderInv
  BY <1>1, <1>4 DEF OrderInv, Polled
<1>8. PromisedFeed!Init
  BY <1>1, <1>3, <1>4 DEF PromisedFeed!Init
<1> QED
  BY <1>5, <1>6, <1>7, <1>8

\* On each connection an event is pushed once at most, to its owner, and only if
\* it was unread since the connection was opened, whichever store is behind it.
THEOREM ImplementsFeed == Spec => FeedSpec
<1>1. StoreInv /\ StreamInv /\ TypeOK /\ [Next]_vars => (StoreInv /\ StreamInv)'
  BY StoreStep, StreamStep
<1>2. StoreInv /\ StreamInv /\ TypeOK /\ [Next]_vars => [PromisedFeed!Next]_(PromisedFeed!feedVars)
  BY StepsOfTheFeed
<1> QED
  BY <1>1, <1>2, FeedInit, TypeCorrect, PTL DEF Spec, FeedSpec, PromisedFeed!Spec

----------------------------------------------------------------------------
\* The order of frames.

\* Two events that are in the store stay in order while they are there.
LEMMA FollowsKept ==
  ASSUME UNCHANGED backend, NEW s, NEW e,
         event'[s].pos = event[s].pos, event'[e].pos = event[e].pos,
         crowded \subseteq crowded', Follows(s, e)
  PROVE  Follows(s, e)'
  BY DEF Follows, Newer

\* What has been sent is in the store.
LEMMA SentInserted ==
  ASSUME StreamInv, OrderInv
  PROVE  /\ \A i \in 1..Len(sent) : sent[i] \in Polled /\ sent[i] \in Published
         /\ \A e \in stream.batch : e \in Polled /\ e \in Published
  BY DEF StreamInv, OrderInv, Polled

\* Every step keeps the order of what is sent and of what is about to be.
LEMMA OrderStep ==
  ASSUME TypeOK, StoreInv, StreamInv, OrderInv, [Next]_vars
  PROVE  OrderInv'
<1>0. /\ event \in [Events -> Event] /\ sent \in Seq(Events) /\ stream \in Stream
      /\ Reader \in Owners
  BY NotificationsAssumption DEF TypeOK
<1>a. /\ \A i \in 1..Len(sent) : sent[i] \in Polled /\ sent[i] \in Published
      /\ \A e \in stream.batch : e \in Polled /\ e \in Published
  BY SentInserted
<1>1. ASSUME UNCHANGED <<backend, stream, sent, crowded>>, Published \subseteq Published',
             \A f \in Published : event'[f].pos = event[f].pos,
             \A e \in Unread(Reader)' \ Polled :
               e \in Unread(Reader) \/ \A s \in Polled : event'[e].pos > event'[s].pos
      PROVE  OrderInv'
  <2>1. Polled' = Polled /\ Polled \subseteq Published
    BY <1>1 DEF Polled, OrderInv
  <2>2. ASSUME NEW s \in Polled, NEW e \in Unread(Reader)' \ Polled
        PROVE  event'[e].pos > event'[s].pos \/ e \in crowded'
    <3>1. CASE e \in Unread(Reader)
      <4>1. s \in Published /\ e \in Published
        BY <2>1, <2>2, <3>1 DEF Unread, Published
      <4>2. event[e].pos > event[s].pos \/ e \in crowded
        BY <2>2, <3>1 DEF OrderInv
      <4>3. crowded' = crowded
        BY <1>1
      <4> QED
        BY <1>1, <4>1, <4>2, <4>3
    <3> QED
      BY <1>1, <2>2, <3>1
  <2>3. ASSUME NEW i \in 1..Len(sent), NEW e \in stream.batch
        PROVE  Follows(sent[i], e)'
    <3>1. PICK s : s = sent[i]
      OBVIOUS
    <3>2. Follows(s, e) /\ s \in Published /\ e \in Published
      BY <1>a, <2>3, <3>1 DEF OrderInv
    <3>3. Follows(s, e)'
      BY <1>1, <3>2, FollowsKept
    <3>4. s = sent'[i]
      BY <1>1, <3>1
    <3> QED
      BY <3>3, <3>4
  <2>4. ASSUME NEW i \in 1..Len(sent), NEW j \in 1..Len(sent), i < j
        PROVE  Follows(sent[i], sent[j])'
    <3>1. PICK s, e : s = sent[i] /\ e = sent[j]
      OBVIOUS
    <3>2. Follows(s, e) /\ s \in Published /\ e \in Published
      BY <1>a, <2>4, <3>1 DEF OrderInv
    <3>3. Follows(s, e)'
      BY <1>1, <3>2, FollowsKept
    <3>4. s = sent'[i] /\ e = sent'[j]
      BY <1>1, <3>1
    <3> QED
      BY <3>3, <3>4
  <2>5. stream' = stream /\ sent' = sent
    BY <1>1
  <2> QED
    BY <1>1, <2>1, <2>2, <2>3, <2>4, <2>5 DEF OrderInv
<1>2. CASE StreamSame
  BY <1>1, <1>2 DEF StreamSame
<1>3. ASSUME NEW e \in Events, Publish(e)
      PROVE  OrderInv'
  <2>1. UNCHANGED <<backend, stream, sent, crowded>> /\ ~event[e].read
    BY <1>3 DEF Publish, StoreInv
  <2>2. /\ Published' = Published \cup {e}
        /\ Unread(Reader)' = (Unread(Reader) \ PushedOut(e)) \cup (IF Reader = event[e].owner THEN {e} ELSE {})
        /\ event'[e].pos = LastPos + 1
        /\ \A f \in Published : event'[f].pos = event[f].pos
    BY <1>0, <1>3, <2>1, Arrives
  <2>3. \A s \in Polled : event'[e].pos > event'[s].pos
    <3> SUFFICES ASSUME NEW s \in Polled PROVE event'[e].pos > event'[s].pos
      OBVIOUS
    <3>1. s \in Published /\ s \in Events
      BY DEF OrderInv, Published
    <3>2. event[s].pos \in Nat /\ event[s].pos <= LastPos
      BY <1>0, <3>1 DEF StoreInv, Event
    <3> QED
      BY <2>2, <3>1, <3>2, LastPosType
  <2> QED
    BY <1>1, <2>1, <2>2, <2>3
<1>4. CASE OpenStream \/ EndStream \/ BreakStream
  <2>1. sent' = <<>> /\ stream'.batch = {} /\ stream'.emitted = {}
    <3>1. NoStream.batch = {} /\ NoStream.emitted = {}
      BY DEF NoStream
    <3>2. CASE OpenStream
      <4>1. stream' = [NoStream EXCEPT !.open = TRUE] /\ ~stream.open /\ sent' = sent
        BY <3>2 DEF OpenStream
      <4> QED
        BY <4>1 DEF NoStream, StreamInv
    <3>3. CASE EndStream \/ BreakStream
      BY <3>1, <3>3 DEF EndStream, BreakStream, CloseStream
    <3> QED
      BY <1>4, <3>2, <3>3
  <2>2. Polled' = {}
    BY <2>1 DEF Polled
  <2> QED
    BY <2>1, <2>2 DEF OrderInv
<1>5. CASE PollStream
  <2>1. /\ stream.batch = {} /\ stream'.emitted = stream.emitted
        /\ stream'.batch = ListForUser(Reader) \ stream.emitted
        /\ crowded' = crowded \cup (Unread(Reader) \ ListForUser(Reader))
        /\ sent' = sent /\ event' = event /\ backend' = backend
    BY <1>0, <1>5 DEF PollStream, store, Stream
  <2>2. Unread(Reader)' = Unread(Reader) /\ Published' = Published /\ Unread(Reader) \subseteq Published
    BY <2>1 DEF Unread, Published
  <2>3. /\ Polled = stream.emitted /\ Polled' = stream.emitted \cup (ListForUser(Reader) \ stream.emitted)
        /\ ListForUser(Reader) \subseteq Unread(Reader)
    BY <2>1, ListsUnread DEF Polled
  <2>4. Polled' \subseteq Published'
    BY <2>2, <2>3 DEF OrderInv
  <2>5. \A e \in Unread(Reader)' \ Polled' : e \in crowded'
    BY <2>1, <2>2, <2>3
  <2>6. ASSUME NEW i \in 1..Len(sent), NEW e \in stream'.batch
        PROVE  Follows(sent[i], e)'
    <3>1. PICK s : s = sent[i]
      OBVIOUS
    <3>2. s \in Polled /\ e \in Unread(Reader) \ Polled
      BY <1>a, <2>1, <2>3, <2>6, <3>1
    <3>3. event[e].pos > event[s].pos \/ e \in crowded
      BY <3>2 DEF OrderInv
    <3>4. Follows(s, e)'
      BY <2>1, <3>3 DEF Follows
    <3>5. s = sent'[i]
      BY <2>1, <3>1
    <3> QED
      BY <3>4, <3>5
  <2>7. ASSUME NEW i \in 1..Len(sent), NEW j \in 1..Len(sent), i < j
        PROVE  Follows(sent[i], sent[j])'
    <3>1. PICK s, e : s = sent[i] /\ e = sent[j]
      OBVIOUS
    <3>2. Follows(s, e)
      BY <2>7, <3>1 DEF OrderInv
    <3>3. Follows(s, e)'
      BY <2>1, <3>2, FollowsKept
    <3>4. s = sent'[i] /\ e = sent'[j]
      BY <2>1, <3>1
    <3> QED
      BY <3>3, <3>4
  <2> QED
    BY <2>1, <2>4, <2>5, <2>6, <2>7 DEF OrderInv
<1>6. ASSUME NEW e \in Events, SendFrame(e)
      PROVE  OrderInv'
  <2>1. /\ e \in stream.batch /\ \A f \in stream.batch : ~Newer(e, f)
        /\ stream'.emitted = stream.emitted \cup {e} /\ stream'.batch = stream.batch \ {e}
        /\ sent' = Append(sent, e) /\ UNCHANGED <<backend, event, crowded>>
    BY <1>0, <1>6 DEF SendFrame, store, Stream
  <2>2. Polled' = Polled /\ Published' = Published /\ Unread(Reader)' = Unread(Reader)
    BY <2>1 DEF Polled, Published, Unread
  <2>3. /\ Len(sent) \in Nat /\ Len(sent') = Len(sent) + 1 /\ sent'[Len(sent) + 1] = e
        /\ \A i \in 1..Len(sent) : sent'[i] = sent[i]
    BY <1>0, <2>1, Appended
  <2>4. ASSUME NEW s, NEW f, Follows(s, f)
        PROVE  Follows(s, f)'
    BY <2>1, <2>4, FollowsKept
  <2>5. ASSUME NEW i \in 1..Len(sent'), NEW f \in stream'.batch
        PROVE  Follows(sent[i], f)'
    <3>1. PICK s : s = sent'[i]
      OBVIOUS
    <3>2. f \in stream.batch
      BY <2>1, <2>5
    <3>3. ASSUME i \in 1..Len(sent) PROVE Follows(s, f)
      <4>1. s = sent[i]
        BY <2>3, <3>1, <3>3
      <4> QED
        BY <3>2, <3>3, <4>1 DEF OrderInv
    <3>4. ASSUME i = Len(sent) + 1 PROVE Follows(s, f)
      <4>1. s = e
        BY <2>3, <3>1, <3>4
      <4> QED
        BY <2>1, <3>2, <4>1 DEF Follows
    <3>5. Follows(s, f)
      BY <2>3, <2>5, <3>3, <3>4
    <3>6. Follows(s, f)'
      BY <2>4, <3>5
    <3> QED
      BY <3>1, <3>6
  <2>6. ASSUME NEW i \in 1..Len(sent'), NEW j \in 1..Len(sent'), i < j
        PROVE  Follows(sent[i], sent[j])'
    <3>1. PICK s, f : s = sent'[i] /\ f = sent'[j]
      OBVIOUS
    <3>2. i \in 1..Len(sent) /\ s = sent[i]
      BY <2>3, <2>6, <3>1
    <3>3. ASSUME j \in 1..Len(sent) PROVE Follows(s, f)
      <4>1. f = sent[j]
        BY <2>3, <3>1, <3>3
      <4> QED
        BY <2>6, <3>2, <3>3, <4>1 DEF OrderInv
    <3>4. ASSUME j = Len(sent) + 1 PROVE Follows(s, f)
      <4>1. f = e
        BY <2>3, <3>1, <3>4
      <4> QED
        BY <2>1, <3>2, <4>1 DEF OrderInv
    <3>5. Follows(s, f)
      BY <2>3, <2>6, <3>3, <3>4
    <3>6. Follows(s, f)'
      BY <2>4, <3>5
    <3> QED
      BY <3>1, <3>6
  <2> QED
    BY <2>1, <2>2, <2>5, <2>6 DEF OrderInv
<1> QED
  BY <1>2, <1>3, <1>4, <1>5, <1>6, SilentSteps DEF Next

\* Frames come oldest first, but for events that were inserted late or had been
\* left out by a poll that found more than Limit.
THEOREM FramesComeInOrder == Spec => []FramesInOrder
<1>1. TypeOK /\ StoreInv /\ StreamInv /\ OrderInv /\ [Next]_vars => (StoreInv /\ StreamInv /\ OrderInv)'
  BY StoreStep, StreamStep, OrderStep
<1>2. TypeOK /\ OrderInv => FramesInOrder
  <2> SUFFICES ASSUME TypeOK, OrderInv PROVE FramesInOrder
    OBVIOUS
  <2>1. DOMAIN sent = 1..Len(sent)
    BY DEF TypeOK
  <2> QED
    BY <2>1 DEF OrderInv, Follows, FramesInOrder
<1> QED
  BY <1>1, <1>2, FeedInit, TypeCorrect, PTL DEF Spec
----------------------------------------------------------------------------
(***************************************************************************)
(* Conversations, notes and memories.                                      *)
(***************************************************************************)

----------------------------------------------------------------------------
\* Memory.

MemoryRows == [state : {"free", "kept", "deleted"}, owner : People \cup {"none"}]
Jobs ==
  [op : {"idle", "record", "recall"}, user : People \cup {"none"}, k : Int, gone : SUBSET MemoryIds]

\* A request knows of memories that are deleted, and asks for no more than the cap.
JobTrue(j) ==
  /\ j.gone \subseteq Deleted
  /\ j.op = "recall" => j.k \in 1..MaxTopK

\* What is answered was inserted in the caller's name; a delete since then keeps
\* the name, and nothing that was deleted before is there.
AnswerTrue(a) ==
  /\ a.found \subseteq MemoryIds
  /\ \A i \in a.found : memories[i].state # "free" /\ memories[i].owner = a.user
  /\ a.gone \subseteq Deleted
  /\ a.found \cap a.gone = {}
  /\ Cardinality(a.found) <= MaxTopK

MemInv ==
  /\ memories \in [MemoryIds -> MemoryRows]
  /\ jobs \in [Workers -> Jobs]
  /\ \A w \in Workers : JobTrue(jobs[w])
  /\ AnswerTrue(recalled)

LEMMA MemInvInit == MemInit => MemInv
<1> SUFFICES ASSUME MemInit PROVE MemInv
  OBVIOUS
<1>1. NoMemory \in MemoryRows /\ NoJob \in Jobs
  BY DEF NoMemory, MemoryRows, NoJob, Jobs
<1>2. Cardinality({}) = 0 /\ 0 <= MaxTopK
  BY FS_EmptySet, MemoryAssumption
<1>3. AnswerTrue(recalled)
  BY <1>2 DEF MemInit, NoRecall, AnswerTrue
<1>4. ASSUME NEW w \in Workers PROVE JobTrue(jobs[w])
  BY <1>4 DEF MemInit, NoJob, JobTrue
<1> QED
  BY <1>1, <1>3, <1>4 DEF MemInit, MemInv

\* A memory that is kept or deleted stays in its owner's name, and a deleted one
\* deleted; what is said of requests and answers then stands.
LEMMA MemoriesKeep ==
  ASSUME MemInv, \A i \in MemoryIds : memories[i].state # "free" =>
           /\ memories'[i].state # "free" /\ memories'[i].owner = memories[i].owner
           /\ memories[i].state = "deleted" => memories'[i].state = "deleted"
  PROVE  /\ Deleted \subseteq Deleted'
         /\ \A w \in Workers : jobs'[w] = jobs[w] => JobTrue(jobs[w])'
         /\ recalled' = recalled => AnswerTrue(recalled)'
<1>1. Deleted \subseteq Deleted'
  BY DEF Deleted
<1>2. ASSUME NEW w \in Workers, jobs'[w] = jobs[w] PROVE JobTrue(jobs[w])'
  BY <1>1, <1>2 DEF MemInv, JobTrue
<1>3. ASSUME recalled' = recalled PROVE AnswerTrue(recalled)'
  BY <1>1, <1>3 DEF MemInv, AnswerTrue
<1> QED
  BY <1>1, <1>2, <1>3

\* A request that ends asks for nothing.
LEMMA JobEnds ==
  ASSUME MemInv, NEW w \in Workers, jobs' = [jobs EXCEPT ![w] = NoJob],
         \A v \in Workers : jobs'[v] = jobs[v] => JobTrue(jobs[v])'
  PROVE  jobs' \in [Workers -> Jobs] /\ \A v \in Workers : JobTrue(jobs[v])'
<1>1. NoJob \in Jobs
  BY DEF NoJob, Jobs
<1>2. \A v \in Workers : jobs'[v] = IF v = w THEN NoJob ELSE jobs[v]
  BY DEF MemInv
<1>3. JobTrue(jobs[w])'
  BY <1>2 DEF JobTrue, NoJob
<1> QED
  BY <1>1, <1>2, <1>3 DEF MemInv

LEMMA MemStep ==
  ASSUME MemInv, [MemNext]_memVars PROVE MemInv'
<1>1. CASE UNCHANGED memVars
  BY <1>1 DEF MemInv, memVars, JobTrue, AnswerTrue, Deleted
<1>2. ASSUME NEW w \in Workers, Record(w) PROVE MemInv'
  <2>1. PICK i \in MemoryIds :
          /\ memories[i].state = "free"
          /\ memories' = [memories EXCEPT ![i] = [state |-> "kept", owner |-> jobs[w].user]]
    BY <1>2 DEF Record
  <2>2. [state |-> "kept", owner |-> jobs[w].user] \in MemoryRows
    BY DEF MemInv, Jobs, MemoryRows
  <2>3. memories' \in [MemoryIds -> MemoryRows]
    BY <2>1, <2>2 DEF MemInv
  <2>4. \A h \in MemoryIds : memories[h].state # "free" => memories'[h] = memories[h]
    BY <2>1 DEF MemInv
  <2>5. /\ \A v \in Workers : jobs'[v] = jobs[v] => JobTrue(jobs[v])'
        /\ recalled' = recalled => AnswerTrue(recalled)'
    BY <2>4, MemoriesKeep
  <2>6. jobs' \in [Workers -> Jobs] /\ \A v \in Workers : JobTrue(jobs[v])'
    BY <1>2, <2>5, JobEnds DEF Record
  <2> QED
    BY <1>2, <2>3, <2>5, <2>6 DEF Record, MemInv
<1>3. ASSUME NEW w \in Workers, Recall(w) PROVE MemInv'
  <2>0. PICK j : j = jobs[w]
    OBVIOUS
  <2>1. PICK found \in SUBSET MemoriesOf(j.user) :
          /\ Cardinality(found) =
               (IF Cardinality(MemoriesOf(j.user)) < j.k THEN Cardinality(MemoriesOf(j.user)) ELSE j.k)
          /\ recalled' = [user |-> j.user, found |-> found, k |-> j.k, gone |-> j.gone]
    BY <1>3, <2>0 DEF Recall
  <2>2. JobTrue(j) /\ j.op = "recall" /\ memories' = memories
    BY <1>3, <2>0 DEF Recall, MemInv
  <2>3. /\ \A v \in Workers : jobs'[v] = jobs[v] => JobTrue(jobs[v])'
        /\ Deleted' = Deleted
    BY <2>2, MemoriesKeep DEF Deleted
  <2>4. jobs' \in [Workers -> Jobs] /\ \A v \in Workers : JobTrue(jobs[v])'
    BY <1>3, <2>3, JobEnds DEF Recall
  <2>5. IsFiniteSet(MemoriesOf(j.user)) /\ Cardinality(MemoriesOf(j.user)) \in Nat
    BY MemoryAssumption, FS_Subset, FS_CardinalityType DEF MemoriesOf
  <2>6. Cardinality(found) <= MaxTopK
    <3>1. j.k \in Nat /\ j.k <= MaxTopK /\ MaxTopK \in Nat
      BY <2>2, MemoryAssumption DEF JobTrue
    <3> QED
      BY <2>1, <2>5, <3>1
  <2>7. \A i \in found : i \in MemoryIds /\ memories[i].state = "kept" /\ memories[i].owner = j.user
    BY DEF MemoriesOf
  <2>8. j.gone \subseteq Deleted /\ found \cap Deleted = {}
    BY <2>2, <2>7 DEF JobTrue, Deleted
  <2>9. AnswerTrue(recalled)'
    <3>1. recalled'.found = found /\ recalled'.user = j.user /\ recalled'.gone = j.gone
      BY <2>1
    <3> QED
      BY <2>2, <2>3, <2>6, <2>7, <2>8, <3>1 DEF AnswerTrue
  <2> QED
    BY <2>2, <2>4, <2>9 DEF MemInv
<1>4. ASSUME NEW w \in Workers, JobFails(w) PROVE MemInv'
  <2>1. memories' = memories /\ recalled' = recalled
    BY <1>4 DEF JobFails
  <2>2. /\ \A v \in Workers : jobs'[v] = jobs[v] => JobTrue(jobs[v])'
        /\ AnswerTrue(recalled)'
    BY <2>1, MemoriesKeep
  <2>3. jobs' \in [Workers -> Jobs] /\ \A v \in Workers : JobTrue(jobs[v])'
    BY <1>4, <2>2, JobEnds DEF JobFails
  <2> QED
    BY <2>1, <2>2, <2>3 DEF MemInv
<1>5. ASSUME NEW w \in Workers, NEW u \in People,
             BeginRecord(w, u) \/ \E k \in Asked : BeginRecall(w, u, k)
      PROVE  MemInv'
  <2>1. memories' = memories /\ recalled' = recalled
    BY <1>5 DEF BeginRecord, BeginRecall
  <2>2. /\ \A v \in Workers : jobs'[v] = jobs[v] => JobTrue(jobs[v])'
        /\ AnswerTrue(recalled)' /\ Deleted' = Deleted
    BY <2>1, MemoriesKeep DEF Deleted
  <2>3. PICK q \in Jobs : jobs' = [jobs EXCEPT ![w] = q] /\ JobTrue(q)
    <3>1. CASE BeginRecord(w, u)
      <4>1. PICK q : q = [NoJob EXCEPT !.op = "record", !.user = u]
        OBVIOUS
      <4>2. q = [op |-> "record", user |-> u, k |-> 0, gone |-> {}]
        BY <4>1 DEF NoJob
      <4>3. q \in Jobs /\ JobTrue(q)
        BY <4>2 DEF Jobs, JobTrue
      <4> QED
        BY <3>1, <4>1, <4>3 DEF BeginRecord
    <3>2. ASSUME NEW k \in Asked, BeginRecall(w, u, k)
          PROVE  \E q \in Jobs : jobs' = [jobs EXCEPT ![w] = q] /\ JobTrue(q)
      <4>1. PICK q : q = [op |-> "recall", user |-> u, k |-> ClampTopK(k), gone |-> Deleted]
        OBVIOUS
      <4>2. ClampTopK(k) \in 1..MaxTopK
        BY MemoryAssumption DEF ClampTopK
      <4>3. q \in Jobs /\ JobTrue(q)
        BY <4>1, <4>2 DEF Jobs, JobTrue, Deleted
      <4> QED
        BY <3>2, <4>1, <4>3 DEF BeginRecall
    <3> QED
      BY <1>5, <3>1, <3>2
  <2>4. JobTrue(q)'
    BY <2>2, <2>3 DEF JobTrue
  <2>5. \A v \in Workers : jobs'[v] = IF v = w THEN q ELSE jobs[v]
    BY <2>3 DEF MemInv
  <2>6. \A v \in Workers : JobTrue(jobs[v])'
    BY <2>2, <2>4, <2>5 DEF JobTrue
  <2> QED
    BY <2>1, <2>2, <2>3, <2>6 DEF MemInv
<1>6. ASSUME NEW i \in MemoryIds, NEW u \in People, Forget(i, u) PROVE MemInv'
  <2>1. PICK row : row = memories[i]
    OBVIOUS
  <2>2. PICK q : q = [row EXCEPT !.state = "deleted"]
    OBVIOUS
  <2>3. row \in MemoryRows
    BY <2>1 DEF MemInv
  <2>4. q \in MemoryRows /\ q.state = "deleted" /\ q.owner = row.owner
    BY <2>2, <2>3 DEF MemoryRows
  <2>5. memories' = [memories EXCEPT ![i] = q]
    BY <1>6, <2>1, <2>2 DEF Forget
  <2>6. \A h \in MemoryIds : memories'[h] = IF h = i THEN q ELSE memories[h]
    BY <2>5 DEF MemInv
  <2>7. \A h \in MemoryIds : memories[h].state # "free" =>
           /\ memories'[h].state # "free" /\ memories'[h].owner = memories[h].owner
           /\ memories[h].state = "deleted" => memories'[h].state = "deleted"
    BY <2>1, <2>4, <2>6
  <2>8. jobs' = jobs /\ recalled' = recalled
    BY <1>6 DEF Forget
  <2>9. (\A w \in Workers : JobTrue(jobs[w])') /\ AnswerTrue(recalled)'
    BY <2>7, <2>8, MemoriesKeep
  <2> QED
    BY <2>4, <2>5, <2>8, <2>9 DEF MemInv
<1> QED
  BY <1>1, <1>2, <1>3, <1>4, <1>5, <1>6 DEF MemNext
----------------------------------------------------------------------------
\* Notes and the document editor.

Drafts == 0..drafts
NoteStates == {"free", "live", "deleted"}
NoteRows == [state : NoteStates, owner : {Owner, None} \cup Others, text : Drafts, home : Drafts]
Entries == [doc : NoteIds, text : Drafts]
Editors == [doc : NoteIds \cup {None}, text : Drafts]
NoteCalls ==
  [op : {"idle", "save", "saved", "edit"}, doc : NoteIds \cup {None}, text : Drafts, new : BOOLEAN]

\* The types, and that all notes are Owner's.
NotesTypeOK ==
  /\ drafts \in Nat
  /\ notes \in [NoteIds -> NoteRows]
  /\ \A n \in NoteIds : notes[n].state # "free" => notes[n].owner = Owner
  /\ list \subseteq Entries
  /\ editor \in Editors
  /\ calls \in [Calls -> NoteCalls]
  /\ impatient \in BOOLEAN

\* The note was created for the draft.
Filed(n, draft) == notes[n].state # "free" /\ notes[n].home = draft
\* The note may hold the text.
Holds(n, text) == n \in NoteIds /\ (Filed(n, text) \/ n \in crossed)
\* What may be filed twice.
Blamed == lost \cup rushed
\* The call creates a document, or has.
IsNew(c) == c.op \in {"save", "saved"} /\ c.new

\* A call writes into a document what the document may hold, or creates one.
CallKept(c) ==
  /\ c.op = "save" => c.new = (c.doc = None)
  /\ (c.op = "save" /\ ~c.new) => Holds(c.doc, c.text)
  /\ c.op = "saved" => Holds(c.doc, c.text)

\* Documents, entries, calls and the screen agree on what belongs where.
Kept ==
  /\ \A n \in NoteIds : notes[n].state = "live" => notes[n].text = notes[n].home \/ n \in crossed
  /\ \A entry \in list : Holds(entry.doc, entry.text)
  /\ editor.doc # None => Holds(editor.doc, editor.text)
  /\ \A k \in Calls : CallKept(calls[k])

\* A draft that is about to be filed is not filed yet.
CallOnce(c) ==
  (c.op = "save" /\ c.new) => c.text \in Blamed \/ \A n \in NoteIds : ~Filed(n, c.text)
\* Two calls create one draft only if it was rushed.
CallsApart ==
  \A k, l \in Calls :
    (IsNew(calls[k]) /\ IsNew(calls[l]) /\ calls[k].text = calls[l].text) =>
      k = l \/ calls[k].text \in Blamed
\* A text on the screen that belongs to no document has none, unless the answer
\* that names it is on its way or was lost, or it was rushed.
Unsaved ==
  (editor.doc = None /\ editor.text # 0) =>
    \/ editor.text \in Blamed
    \/ \E k \in Calls : IsNew(calls[k]) /\ calls[k].text = editor.text
    \/ \A n \in NoteIds : ~Filed(n, editor.text)
FiledOnce ==
  \A n, m \in NoteIds : (n # m /\ Filed(n, notes[m].home) /\ notes[m].state # "free") =>
    notes[n].home \in Blamed

Once == (\A k \in Calls : CallOnce(calls[k])) /\ CallsApart /\ Unsaved /\ FiledOnce

\* As long as the user waits for each answer, the one call under way is about what
\* is on the screen.
Waiting ==
  /\ crossed = {} /\ rushed = {}
  /\ \A k, l \in Calls : calls[k].op # "idle" /\ calls[l].op # "idle" => k = l
  /\ \A k \in Calls : calls[k].op # "idle" => calls[k].text = editor.text

NotesInv == NotesTypeOK /\ Kept /\ Once /\ (~impatient => Waiting)

LEMMA NotesInvInit == NotesInit => NotesInv
<1> SUFFICES ASSUME NotesInit PROVE NotesInv
  OBVIOUS
<1>1. 0 \in Drafts /\ drafts \in Nat
  BY DEF NotesInit, Drafts
<1>2. NoNote \in NoteRows /\ NoCall \in NoteCalls
  BY <1>1 DEF NoNote, NoteRows, NoteStates, NoCall, NoteCalls
<1>3. NotesTypeOK
  BY <1>1, <1>2 DEF NotesInit, NotesTypeOK, NoNote, Editors
<1>4. \A n \in NoteIds : notes[n].state = "free"
  BY DEF NotesInit, NoNote
<1>5. \A k \in Calls : calls[k].op = "idle"
  BY DEF NotesInit, NoCall
<1>6. editor.doc = None /\ editor.text = 0 /\ list = {} /\ crossed = {} /\ rushed = {}
  BY DEF NotesInit
<1>7. Kept
  BY <1>4, <1>5, <1>6 DEF Kept, CallKept
<1>8. Once
  BY <1>4, <1>5, <1>6 DEF Once, CallOnce, CallsApart, IsNew, Unsaved, FiledOnce, Filed
<1>9. Waiting
  BY <1>5, <1>6 DEF Waiting
<1> QED
  BY <1>3, <1>7, <1>8, <1>9 DEF NotesInv

\* Who acts and is found to have waited has waited, and no call is under way.
LEMMA ActsAlone ==
  ASSUME Acts, ~impatient'
  PROVE  ~impatient /\ \A k \in Calls : calls[k].op = "idle"
BY DEF Acts, Busy

\* What a note may hold it may hold from then on.
LEMMA HoldsStays ==
  ASSUME NEW n, NEW text, Holds(n, text), crossed \subseteq crossed',
         \A m \in NoteIds : \A t : Filed(m, t) => Filed(m, t)'
  PROVE  Holds(n, text)'
BY DEF Holds

\* One call begins, goes on or ends; the others may still write what they write.
LEMMA CallsKept ==
  ASSUME NotesTypeOK, Kept, NEW k \in Calls, NEW q \in NoteCalls, calls' = [calls EXCEPT ![k] = q],
         crossed \subseteq crossed', \A m \in NoteIds : \A t : Filed(m, t) => Filed(m, t)',
         CallKept(q)'
  PROVE  /\ calls' \in [Calls -> NoteCalls]
         /\ calls'[k] = q /\ \A l \in Calls : l # k => calls'[l] = calls[l]
         /\ \A l \in Calls : CallKept(calls[l])'
<1>1. /\ calls' \in [Calls -> NoteCalls]
      /\ calls'[k] = q /\ \A l \in Calls : l # k => calls'[l] = calls[l]
  BY DEF NotesTypeOK
<1>2. ASSUME NEW l \in Calls PROVE CallKept(calls[l])'
  <2>1. PICK o : o = calls'[l]
    OBVIOUS
  <2>2. CallKept(o)'
    <3>1. CASE l = k
      BY <1>1, <2>1, <3>1
    <3>2. CASE l # k
      <4>1. CallKept(o)
        BY <1>1, <2>1, <3>2 DEF Kept
      <4>2. Holds(o.doc, o.text) => Holds(o.doc, o.text)'
        BY HoldsStays
      <4> QED
        BY <4>1, <4>2 DEF CallKept
    <3> QED
      BY <3>1, <3>2
  <2> QED
    BY <2>1, <2>2 DEF CallKept, Holds, Filed
<1> QED
  BY <1>1, <1>2

\* It creates a draft that no other does, or one that is blamed.
LEMMA CallsOnce ==
  ASSUME NotesTypeOK, Once, NEW k \in Calls, NEW q \in NoteCalls, calls' = [calls EXCEPT ![k] = q],
         Blamed \subseteq Blamed', \A m \in NoteIds : \A t : Filed(m, t)' => Filed(m, t),
         CallOnce(q)',
         IsNew(q) => \/ IsNew(calls[k]) /\ calls[k].text = q.text
                     \/ q.text \in Blamed'
                     \/ \A l \in Calls : IsNew(calls[l]) => calls[l].text # q.text
  PROVE  (\A l \in Calls : CallOnce(calls[l])') /\ CallsApart'
<1>1. calls'[k] = q /\ \A l \in Calls : l # k => calls'[l] = calls[l]
  BY DEF NotesTypeOK
<1>2. ASSUME NEW l \in Calls PROVE CallOnce(calls[l])'
  <2>1. PICK o : o = calls'[l]
    OBVIOUS
  <2>2. CallOnce(o)'
    <3>1. CASE l = k
      BY <1>1, <2>1, <3>1
    <3>2. CASE l # k
      <4>1. CallOnce(o)
        BY <1>1, <2>1, <3>2 DEF Once
      <4> QED
        BY <4>1 DEF CallOnce
    <3> QED
      BY <3>1, <3>2
  <2> QED
    BY <2>1, <2>2 DEF CallOnce, Filed, Blamed
<1>3. CallsApart'
  <2>1. SUFFICES ASSUME NEW i \in Calls, NEW j \in Calls, i # j,
                        IsNew(calls'[i]), IsNew(calls'[j]), calls'[i].text = calls'[j].text
                 PROVE  calls'[i].text \in Blamed'
    BY DEF CallsApart, IsNew
  <2>2. CallsApart
    BY DEF Once
  <2>3. ASSUME NEW l \in Calls, l # k, IsNew(q), IsNew(calls[l]), calls[l].text = q.text
        PROVE  q.text \in Blamed'
    BY <2>2, <2>3 DEF CallsApart
  <2>4. CASE i = k
    BY <1>1, <2>1, <2>3, <2>4
  <2>5. CASE j = k
    BY <1>1, <2>1, <2>3, <2>5
  <2>6. CASE i # k /\ j # k
    BY <1>1, <2>1, <2>2, <2>6 DEF CallsApart
  <2> QED
    BY <2>4, <2>5, <2>6
<1> QED
  BY <1>2, <1>3

\* Where no note is filed or lost, no document is filed twice that was not.
LEMMA FiledOnceStays ==
  ASSUME FiledOnce, Blamed \subseteq Blamed',
         \A m \in NoteIds : notes'[m].home = notes[m].home /\ (notes'[m].state = "free" <=> notes[m].state = "free")
  PROVE  FiledOnce' /\ \A m \in NoteIds : \A t : Filed(m, t)' <=> Filed(m, t)
BY DEF FiledOnce, Filed

\* An update changes the text of a live note of its caller's only.
LEMMA UpdateFacts ==
  ASSUME NotesTypeOK, NEW n \in NoteIds, NEW u, NEW text \in Drafts, UpdateNote(n, u, text)
  PROVE  /\ notes' \in [NoteIds -> NoteRows]
         /\ \A m \in NoteIds :
              /\ notes'[m].state = notes[m].state
              /\ notes'[m].owner = notes[m].owner
              /\ notes'[m].home = notes[m].home
              /\ notes'[m].text = IF m = n /\ Own(n, u) THEN text ELSE notes[m].text
<1>1. CASE ~Own(n, u)
  BY <1>1 DEF UpdateNote, NotesTypeOK
<1>2. CASE Own(n, u)
  <2>1. PICK row : row = notes[n]
    OBVIOUS
  <2>2. PICK q : q = [row EXCEPT !.text = text]
    OBVIOUS
  <2>3. row \in NoteRows
    BY <2>1 DEF NotesTypeOK
  <2>4. q \in NoteRows /\ q.text = text /\ q.state = row.state /\ q.owner = row.owner /\ q.home = row.home
    BY <2>2, <2>3 DEF NoteRows
  <2>5. notes' = [notes EXCEPT ![n] = q]
    BY <1>2, <2>1, <2>2 DEF UpdateNote
  <2>6. \A m \in NoteIds : notes'[m] = IF m = n THEN q ELSE notes[m]
    BY <2>5 DEF NotesTypeOK
  <2> QED
    BY <1>2, <2>1, <2>4, <2>5, <2>6 DEF NotesTypeOK
<1> QED
  BY <1>1, <1>2

\* A delete keeps whose note it was and what it was for.
LEMMA DeleteFacts ==
  ASSUME NotesTypeOK, NEW n \in NoteIds, NEW u, DeleteNote(n, u)
  PROVE  /\ notes' \in [NoteIds -> NoteRows]
         /\ \A m \in NoteIds :
              /\ notes'[m].owner = notes[m].owner
              /\ notes'[m].home = notes[m].home
              /\ notes'[m].state = IF m = n /\ Own(n, u) THEN "deleted" ELSE notes[m].state
              /\ notes'[m].state # "deleted" => notes'[m].text = notes[m].text
<1>1. CASE ~Own(n, u)
  BY <1>1 DEF DeleteNote, NotesTypeOK
<1>2. CASE Own(n, u)
  <2>1. PICK row : row = notes[n]
    OBVIOUS
  <2>2. PICK q : q = [row EXCEPT !.state = "deleted", !.text = 0]
    OBVIOUS
  <2>3. row \in NoteRows
    BY <2>1 DEF NotesTypeOK
  <2>4. /\ q \in NoteRows /\ q.state = "deleted"
        /\ q.owner = row.owner /\ q.home = row.home
    <3>1. 0 \in Drafts
      BY DEF NotesTypeOK, Drafts
    <3> QED
      BY <2>2, <2>3, <3>1 DEF NoteRows, NoteStates
  <2>5. notes' = [notes EXCEPT ![n] = q]
    BY <1>2, <2>1, <2>2 DEF DeleteNote
  <2>6. \A m \in NoteIds : notes'[m] = IF m = n THEN q ELSE notes[m]
    BY <2>5 DEF NotesTypeOK
  <2> QED
    BY <1>2, <2>1, <2>4, <2>5, <2>6 DEF NotesTypeOK
<1> QED
  BY <1>1, <1>2

\* newDoc: the draft is a new one, so no note is filed under it.
LEMMA NewDocStep ==
  ASSUME NotesInv, NewDoc PROVE NotesInv'
<1> USE DEF NotesInv
<1>1. PICK d : d = drafts + 1
  OBVIOUS
<1>2. drafts \in Nat /\ drafts' = d /\ d \in Nat /\ editor' = [doc |-> None, text |-> d]
  BY <1>1 DEF NewDoc, NotesTypeOK
<1>3. Drafts \subseteq Drafts' /\ d \in Drafts' /\ d \notin Drafts
  BY <1>1, <1>2 DEF Drafts
<1>4. notes' = notes /\ list' = list /\ calls' = calls /\ UNCHANGED mixups
  BY DEF NewDoc
<1>5. NoteRows \subseteq NoteRows' /\ NoteCalls \subseteq NoteCalls' /\ Entries \subseteq Entries'
  BY <1>3 DEF NoteRows, NoteCalls, Entries
<1>6. NotesTypeOK'
  <2>1. notes' \in [NoteIds -> NoteRows'] /\ calls' \in [Calls -> NoteCalls'] /\ list' \subseteq Entries'
    BY <1>4, <1>5 DEF NotesTypeOK
  <2>2. editor' \in Editors'
    BY <1>2, <1>3 DEF Editors
  <2>3. impatient' \in BOOLEAN
    BY DEF NewDoc, Acts, NotesTypeOK, Busy
  <2> QED
    BY <1>2, <1>4, <2>1, <2>2, <2>3 DEF NotesTypeOK
<1>7. editor'.doc = None /\ editor'.text = d
  BY <1>2
<1>8. Kept'
  BY <1>4, <1>7 DEF mixups, Kept, CallKept, Holds, Filed
<1>9. Once'
  <2>1. \A n \in NoteIds : notes[n].home # d
    BY <1>3 DEF NotesTypeOK, NoteRows
  <2>2. Unsaved'
    BY <1>4, <1>7, <2>1 DEF Unsaved, Filed
  <2> QED
    BY <1>4, <2>2 DEF mixups, Once, CallOnce, CallsApart, IsNew, FiledOnce, Filed, Blamed
<1>10. ASSUME ~impatient' PROVE Waiting'
  <2>1. ~impatient /\ \A k \in Calls : calls[k].op = "idle"
    BY <1>10, ActsAlone DEF NewDoc
  <2> QED
    BY <1>4, <2>1 DEF mixups, Waiting
<1> QED
  BY <1>6, <1>8, <1>9, <1>10

\* openDoc: the document may hold what its entry has.
LEMMA OpenDocStep ==
  ASSUME NotesInv, NEW entry \in list, OpenDoc(entry) PROVE NotesInv'
<1> USE DEF NotesInv
<1>1. PICK n, text : n = entry.doc /\ text = entry.text
  OBVIOUS
<1>2. /\ notes' = notes /\ list' = list /\ calls' = calls /\ UNCHANGED mixups /\ drafts' = drafts
      /\ editor' = [doc |-> n, text |-> text]
  BY <1>1 DEF OpenDoc
<1>3. n \in NoteIds /\ text \in Drafts /\ n # None
  BY <1>1, NotesAssumption DEF NotesTypeOK, Entries, None
<1>4. editor' \in Editors /\ editor'.doc = n /\ editor'.text = text
  BY <1>2, <1>3 DEF Editors
<1>5. NotesTypeOK'
  <2>1. impatient' \in BOOLEAN
    BY DEF OpenDoc, Acts, NotesTypeOK, Busy
  <2> QED
    BY <1>2, <1>4, <2>1 DEF NotesTypeOK, NoteRows, Entries, Editors, NoteCalls, Drafts
<1>6. Kept'
  <2>1. Holds(n, text)
    BY <1>1 DEF Kept
  <2> QED
    BY <1>2, <1>4, <2>1 DEF mixups, Kept, CallKept, Holds, Filed
<1>7. Once'
  BY <1>2, <1>3, <1>4 DEF mixups, Once, CallOnce, CallsApart, IsNew, Unsaved, FiledOnce, Filed, Blamed
<1>8. ASSUME ~impatient' PROVE Waiting'
  <2>1. ~impatient /\ \A k \in Calls : calls[k].op = "idle"
    BY <1>8, ActsAlone DEF OpenDoc
  <2> QED
    BY <1>2, <2>1 DEF mixups, Waiting
<1> QED
  BY <1>5, <1>6, <1>7, <1>8

\* refreshDocs shows notes as they are.
LEMMA RefreshDocsStep ==
  ASSUME NotesInv, RefreshDocs PROVE NotesInv'
<1> USE DEF NotesInv
<1>1. UNCHANGED <<notes, editor, drafts, calls, mixups, impatient>>
  BY DEF RefreshDocs
<1>2. \A entry \in list' : \E n \in NoteIds : Own(n, Owner) /\ entry = [doc |-> n, text |-> notes[n].text]
  <2>1. PICK docs \in Listings(Owner) : list' = docs
    BY DEF RefreshDocs
  <2>2. PICK p \in SUBSET {n \in NoteIds : Own(n, Owner)} : docs = {[doc |-> n, text |-> notes[n].text] : n \in p}
    BY <2>1 DEF Listings
  <2> QED
    BY <2>1, <2>2
<1>3. \A entry \in list' : entry \in Entries /\ Holds(entry.doc, entry.text)
  <2>1. ASSUME NEW n \in NoteIds, Own(n, Owner)
        PROVE  notes[n].text \in Drafts /\ Holds(n, notes[n].text)
    BY <2>1 DEF NotesTypeOK, NoteRows, Kept, Own, Holds, Filed
  <2> QED
    BY <1>2, <2>1 DEF Entries
<1>4. NotesTypeOK'
  BY <1>1, <1>3 DEF NotesTypeOK, NoteRows, Entries, Editors, NoteCalls, Drafts
<1>5. Kept'
  BY <1>1, <1>3 DEF mixups, Kept, CallKept, Holds, Filed
<1>6. Once'
  BY <1>1 DEF mixups, Once, CallOnce, CallsApart, IsNew, Unsaved, FiledOnce, Filed, Blamed
<1>7. ASSUME ~impatient' PROVE Waiting'
  BY <1>1, <1>7 DEF mixups, Waiting
<1> QED
  BY <1>4, <1>5, <1>6, <1>7

\* saveDoc sends what is on the screen, to the document on the screen or to be
\* filed; a draft whose creation is under way is rushed.
LEMMA SaveDocStep ==
  ASSUME NotesInv, NEW k \in Calls, SaveDoc(k) PROVE NotesInv'
<1> USE DEF NotesInv
<1>1. PICK doc, text : doc = editor.doc /\ text = editor.text
  OBVIOUS
<1>2. doc \in NoteIds \cup {None} /\ text \in Drafts /\ text # 0 /\ 0 \in Drafts
  BY <1>1 DEF NotesTypeOK, Editors, SaveDoc, Drafts
<1>3. PICK q : q = [NoCall EXCEPT !.op = "save", !.doc = doc, !.text = text, !.new = doc = None]
  OBVIOUS
<1>4. q = [op |-> "save", doc |-> doc, text |-> text, new |-> doc = None]
  BY <1>3 DEF NoCall
<1>5. q \in NoteCalls /\ q.op = "save" /\ q.doc = doc /\ q.text = text /\ q.new = (doc = None)
  BY <1>2, <1>4 DEF NoteCalls
<1>6. /\ notes' = notes /\ list' = list /\ editor' = editor /\ drafts' = drafts
      /\ lost' = lost /\ crossed' = crossed /\ calls[k].op = "idle" /\ Acts
      /\ calls' = [calls EXCEPT ![k] = q]
  BY <1>1, <1>3 DEF SaveDoc
<1>7. /\ rushed \subseteq rushed'
      /\ (doc = None /\ Creating(text) # {}) => text \in Blamed'
      /\ Creating(text) = {} => rushed' = rushed
  BY <1>1 DEF SaveDoc, Blamed
<1>8. CallKept(q)'
  BY <1>1, <1>2, <1>5, <1>6 DEF Kept, CallKept, Holds, Filed
<1>9. /\ calls' \in [Calls -> NoteCalls]
      /\ calls'[k] = q /\ \A l \in Calls : l # k => calls'[l] = calls[l]
      /\ \A l \in Calls : CallKept(calls[l])'
  BY <1>5, <1>6, <1>8, CallsKept DEF Filed
<1>10. NotesTypeOK'
  <2>1. impatient' \in BOOLEAN
    BY <1>6 DEF Acts, NotesTypeOK, Busy
  <2> QED
    BY <1>6, <1>9, <2>1 DEF NotesTypeOK, NoteRows, Entries, Editors, NoteCalls, Drafts
<1>11. Kept'
  BY <1>6, <1>9 DEF Kept, Holds, Filed
<1>12. Once'
  <2>1. Blamed \subseteq Blamed'
    BY <1>6, <1>7 DEF Blamed
  <2>2. (\A l \in Calls : IsNew(calls[l]) => calls[l].text # text) \/ Creating(text) # {}
    BY DEF Creating, IsNew
  <2>3. IsNew(q) => text \in Blamed' \/ \A l \in Calls : IsNew(calls[l]) => calls[l].text # text
    BY <1>5, <1>7, <2>2 DEF IsNew
  <2>4. CallOnce(q)'
    <3>1. (doc = None /\ text \notin Blamed') => \A n \in NoteIds : ~Filed(n, text)
      BY <1>1, <1>2, <1>5, <2>1, <2>2, <1>7 DEF Once, Unsaved
    <3> QED
      BY <1>5, <1>6, <3>1 DEF CallOnce, Filed
  <2>5. (\A l \in Calls : CallOnce(calls[l])') /\ CallsApart'
    BY <1>5, <1>6, <2>1, <2>3, <2>4, CallsOnce DEF Filed
  <2>6. Unsaved'
    <3>1. ASSUME doc = None, text \notin Blamed', NEW l \in Calls, IsNew(calls[l]), calls[l].text = text
          PROVE  FALSE
      BY <1>7, <2>2, <3>1 DEF Creating, IsNew
    <3> QED
      BY <1>1, <1>6, <2>1, <3>1 DEF Once, Unsaved, Filed
  <2> QED
    BY <1>6, <2>1, <2>5, <2>6 DEF Once, FiledOnce, Filed
<1>13. ASSUME ~impatient' PROVE Waiting'
  <2>1. ~impatient /\ \A l \in Calls : calls[l].op = "idle"
    BY <1>6, <1>13, ActsAlone
  <2>2. Creating(text) = {}
    BY <2>1 DEF Creating
  <2>3. \A l \in Calls : calls'[l].op # "idle" => l = k
    BY <1>9, <2>1
  <2> QED
    BY <1>1, <1>5, <1>6, <1>7, <1>9, <2>1, <2>2, <2>3 DEF Waiting
<1> QED
  BY <1>10, <1>11, <1>12, <1>13

\* aiEditDoc sends the text on the screen.
LEMMA AiEditDocStep ==
  ASSUME NotesInv, NEW k \in Calls, AiEditDoc(k) PROVE NotesInv'
<1> USE DEF NotesInv
<1>1. PICK text : text = editor.text
  OBVIOUS
<1>2. text \in Drafts
  BY <1>1 DEF NotesTypeOK, Editors
<1>3. PICK q : q = [NoCall EXCEPT !.op = "edit", !.text = text]
  OBVIOUS
<1>4. q = [op |-> "edit", doc |-> None, text |-> text, new |-> FALSE]
  BY <1>3 DEF NoCall
<1>5. q \in NoteCalls /\ q.op = "edit" /\ q.text = text
  BY <1>2, <1>4 DEF NoteCalls
<1>6. /\ notes' = notes /\ list' = list /\ editor' = editor /\ drafts' = drafts
      /\ UNCHANGED mixups /\ calls[k].op = "idle" /\ Acts /\ calls' = [calls EXCEPT ![k] = q]
  BY <1>1, <1>3 DEF AiEditDoc
<1>7. CallKept(q)' /\ CallOnce(q)' /\ ~IsNew(q)
  BY <1>5 DEF CallKept, CallOnce, IsNew
<1>8. /\ calls' \in [Calls -> NoteCalls]
      /\ calls'[k] = q /\ \A l \in Calls : l # k => calls'[l] = calls[l]
      /\ \A l \in Calls : CallKept(calls[l])'
  BY <1>5, <1>6, <1>7, CallsKept DEF mixups, Filed
<1>9. NotesTypeOK'
  <2>1. impatient' \in BOOLEAN
    BY <1>6 DEF Acts, NotesTypeOK, Busy
  <2> QED
    BY <1>6, <1>8, <2>1 DEF NotesTypeOK, NoteRows, Entries, Editors, NoteCalls, Drafts
<1>10. Kept'
  BY <1>6, <1>8 DEF mixups, Kept, Holds, Filed
<1>11. Once'
  <2>1. (\A l \in Calls : CallOnce(calls[l])') /\ CallsApart'
    BY <1>5, <1>6, <1>7, CallsOnce DEF mixups, Filed, Blamed
  <2>2. ASSUME NEW l \in Calls, IsNew(calls[l]) PROVE IsNew(calls'[l]) /\ calls'[l].text = calls[l].text
    BY <1>6, <1>8, <2>2 DEF IsNew
  <2>3. Unsaved'
    BY <1>6, <2>2 DEF mixups, Once, Unsaved, IsNew, Filed, Blamed
  <2> QED
    BY <1>6, <2>1, <2>3 DEF mixups, Once, FiledOnce, Filed, Blamed
<1>12. ASSUME ~impatient' PROVE Waiting'
  <2>1. ~impatient /\ \A l \in Calls : calls[l].op = "idle"
    BY <1>6, <1>12, ActsAlone
  <2>2. \A l \in Calls : calls'[l].op # "idle" => l = k
    BY <1>8, <2>1
  <2> QED
    BY <1>1, <1>5, <1>6, <1>8, <2>1, <2>2 DEF mixups, Waiting
<1> QED
  BY <1>9, <1>10, <1>11, <1>12

\* The Delete button clears the screen if it shows the document.
LEMMA DeleteDocStep ==
  ASSUME NotesInv, NEW entry \in list, DeleteDoc(entry) PROVE NotesInv'
<1> USE DEF NotesInv
<1>0. PICK n : n = entry.doc
  OBVIOUS
<1>1. calls' = calls /\ UNCHANGED mixups /\ drafts' = drafts /\ Acts /\ n \in NoteIds
  BY <1>0 DEF DeleteDoc, NotesTypeOK, Entries
<1>2. /\ notes' \in [NoteIds -> NoteRows]
      /\ \A m \in NoteIds :
           /\ notes'[m].owner = notes[m].owner /\ notes'[m].home = notes[m].home
           /\ notes'[m].state = "free" <=> notes[m].state = "free"
           /\ notes'[m].state = "live" => notes[m].state = "live" /\ notes'[m].text = notes[m].text
  <2>1. CASE DeleteNote(n, Owner)
    BY <1>1, <2>1, DeleteFacts DEF Own
  <2>2. CASE notes' = notes
    BY <2>2 DEF NotesTypeOK
  <2> QED
    BY <1>0, <2>1, <2>2 DEF DeleteDoc
<1>3. list' \subseteq list
  BY DEF DeleteDoc
<1>4. \/ editor' = editor
      \/ editor'.doc = None /\ editor'.text = 0 /\ editor' \in Editors
  <2>1. 0 \in Drafts
    BY DEF NotesTypeOK, Drafts
  <2>2. CASE editor.doc = n
    BY <1>0, <2>1, <2>2 DEF DeleteDoc, Editors
  <2> QED
    BY <1>0, <2>2 DEF DeleteDoc
<1>5. NotesTypeOK'
  <2>1. impatient' \in BOOLEAN
    BY <1>1 DEF Acts, NotesTypeOK, Busy
  <2>2. editor' \in Editors
    BY <1>4 DEF NotesTypeOK
  <2>3. \A m \in NoteIds : notes'[m].state # "free" => notes'[m].owner = Owner
    BY <1>2 DEF NotesTypeOK
  <2> QED
    BY <1>1, <1>2, <1>3, <2>1, <2>2, <2>3 DEF NotesTypeOK, NoteRows, Entries, Editors, NoteCalls, Drafts
<1>6. FiledOnce' /\ \A m \in NoteIds : \A t : Filed(m, t)' <=> Filed(m, t)
  BY <1>1, <1>2, FiledOnceStays DEF mixups, Once, Blamed
<1>7. \A m, t : Holds(m, t) => Holds(m, t)'
  BY <1>1, <1>6, HoldsStays DEF mixups
<1>8. Kept'
  <2>1. \A m \in NoteIds : notes'[m].state = "live" => notes'[m].text = notes'[m].home \/ m \in crossed'
    BY <1>1, <1>2 DEF mixups, Kept
  <2>2. \A e \in list' : Holds(e.doc, e.text)'
    BY <1>3, <1>7 DEF Kept
  <2>3. editor'.doc # None => Holds(editor.doc, editor.text)'
    BY <1>4, <1>7 DEF Kept
  <2>4. \A k \in Calls : CallKept(calls[k])'
    <3>1. SUFFICES ASSUME NEW k \in Calls, NEW o, o = calls[k] PROVE CallKept(o)'
      BY <1>1 DEF CallKept, Holds, Filed
    <3> QED
      BY <1>7, <3>1 DEF Kept, CallKept
  <2> QED
    BY <2>1, <2>2, <2>3, <2>4 DEF Kept, Holds, Filed
<1>9. Once'
  <2>1. \A k \in Calls : CallOnce(calls[k])'
    <3>1. SUFFICES ASSUME NEW k \in Calls, NEW o, o = calls[k] PROVE CallOnce(o)'
      BY <1>1 DEF CallOnce, Filed, Blamed
    <3> QED
      BY <1>1, <1>6, <3>1 DEF mixups, Once, CallOnce, Blamed
  <2>2. CallsApart'
    BY <1>1 DEF mixups, Once, CallsApart, IsNew, Blamed
  <2>3. Unsaved'
    <3>1. CASE editor' = editor
      <4>1. PICK t : t = editor.text
        OBVIOUS
      <4>2. \A m \in NoteIds : Filed(m, t)' <=> Filed(m, t)
        BY <1>6
      <4> QED
        BY <1>1, <3>1, <4>1, <4>2 DEF mixups, Once, Unsaved, IsNew, Filed, Blamed
    <3>2. CASE editor'.doc = None /\ editor'.text = 0
      BY <3>2 DEF Unsaved
    <3> QED
      BY <1>4, <3>1, <3>2
  <2> QED
    BY <1>6, <2>1, <2>2, <2>3 DEF Once
<1>10. ASSUME ~impatient' PROVE Waiting'
  <2>1. ~impatient /\ \A k \in Calls : calls[k].op = "idle"
    BY <1>1, <1>10, ActsAlone
  <2> QED
    BY <1>1, <2>1 DEF mixups, Waiting
<1> QED
  BY <1>5, <1>8, <1>9, <1>10

\* The server creates the document of a save that names none, under an id that
\* was free: unless the draft is blamed, nothing was filed under it before.
LEMMA ServeNewStep ==
  ASSUME NotesInv, NEW k \in Calls, ServeSave(k), calls[k].doc = None PROVE NotesInv'
<1> USE DEF NotesInv
<1>1. PICK c : c = calls[k]
  OBVIOUS
<1>2. /\ list' = list /\ editor' = editor /\ drafts' = drafts /\ UNCHANGED mixups /\ impatient' = impatient
      /\ c.op = "save" /\ c.doc = None
  BY <1>1 DEF ServeSave
<1>3. PICK n \in NoteIds : /\ CreateNote(n, Owner, c.text)
                          /\ calls' = [calls EXCEPT ![k].op = "saved", ![k].doc = n]
  BY <1>1, <1>2 DEF ServeSave
<1>4. c \in NoteCalls /\ c.new
  BY <1>1, <1>2 DEF NotesTypeOK, Kept, CallKept
<1>5. PICK row : row = [state |-> "live", owner |-> Owner, text |-> c.text, home |-> c.text]
  OBVIOUS
<1>6. row \in NoteRows /\ notes' = [notes EXCEPT ![n] = row] /\ notes[n].state = "free"
  BY <1>3, <1>4, <1>5 DEF CreateNote, NoteRows, NoteStates, NoteCalls
<1>7. \A m \in NoteIds : notes'[m] = IF m = n THEN row ELSE notes[m]
  BY <1>6 DEF NotesTypeOK
<1>8. PICK q : q = [c EXCEPT !.op = "saved", !.doc = n]
  OBVIOUS
<1>9. q \in NoteCalls /\ q.op = "saved" /\ q.doc = n /\ q.text = c.text /\ q.new = c.new
  <2>1. n \in NoteIds
    OBVIOUS
  <2> QED
    BY <1>4, <1>8, <2>1, Zenon DEF NoteCalls
<1>10. calls' = [calls EXCEPT ![k] = q]
  BY <1>1, <1>3, <1>8, Zenon
<1>11. \A m \in NoteIds : \A t : Filed(m, t)' <=> (Filed(m, t) \/ (m = n /\ t = c.text))
  BY <1>5, <1>6, <1>7 DEF Filed
<1>12. CallKept(q)'
  BY <1>9, <1>11 DEF CallKept, Holds
<1>13. /\ calls' \in [Calls -> NoteCalls]
       /\ calls'[k] = q /\ \A l \in Calls : l # k => calls'[l] = calls[l]
       /\ \A l \in Calls : CallKept(calls[l])'
  BY <1>2, <1>9, <1>10, <1>11, <1>12, CallsKept DEF mixups
<1>14. NotesTypeOK'
  <2>1. notes' \in [NoteIds -> NoteRows]
    BY <1>6 DEF NotesTypeOK
  <2>2. \A m \in NoteIds : notes'[m].state # "free" => notes'[m].owner = Owner
    BY <1>5, <1>7 DEF NotesTypeOK
  <2> QED
    BY <1>2, <1>13, <2>1, <2>2 DEF NotesTypeOK, NoteRows, Entries, Editors, NoteCalls, Drafts
<1>15. Kept'
  <2>1. \A m \in NoteIds : notes'[m].state = "live" => notes'[m].text = notes'[m].home \/ m \in crossed'
    BY <1>2, <1>5, <1>7 DEF mixups, Kept
  <2>2. \A m, t : Holds(m, t) => Holds(m, t)'
    BY <1>2, <1>11, HoldsStays DEF mixups
  <2>3. (\A e \in list' : Holds(e.doc, e.text)') /\ (editor'.doc # None => Holds(editor.doc, editor.text)')
    BY <1>2, <2>2 DEF Kept
  <2> QED
    BY <1>13, <2>1, <2>3 DEF Kept, Holds, Filed
<1>16. c.text \in Blamed \/ \A m \in NoteIds : ~Filed(m, c.text)
  BY <1>1, <1>2, <1>4 DEF Once, CallOnce
<1>17. Blamed' = Blamed
  BY <1>2 DEF mixups, Blamed
<1>18. ASSUME NEW l \in Calls, l # k, IsNew(calls[l]), calls[l].text = c.text PROVE c.text \in Blamed
  <2>1. IsNew(c)
    BY <1>2, <1>4 DEF IsNew
  <2> QED
    BY <1>1, <1>18, <2>1 DEF Once, CallsApart
<1>19. Once'
  <2>1. \A l \in Calls : CallOnce(calls[l])'
    <3>1. SUFFICES ASSUME NEW l \in Calls, NEW o, o = calls'[l] PROVE CallOnce(o)'
      BY DEF CallOnce, Filed, Blamed
    <3>2. CASE l = k
      BY <1>9, <1>13, <3>1, <3>2 DEF CallOnce
    <3>3. CASE l # k
      <4>1. CallOnce(o) /\ o = calls[l]
        BY <1>13, <3>1, <3>3 DEF Once
      <4>2. (o.op = "save" /\ o.new /\ o.text = c.text) => c.text \in Blamed
        BY <1>18, <3>3, <4>1 DEF IsNew
      <4> QED
        BY <1>11, <1>17, <4>1, <4>2 DEF CallOnce
    <3> QED
      BY <3>2, <3>3
  <2>2. \A l \in Calls : (IsNew(calls'[l]) <=> IsNew(calls[l])) /\ calls'[l].text = calls[l].text
    BY <1>1, <1>2, <1>4, <1>9, <1>13 DEF IsNew
  <2>3. CallsApart'
    <3>1. SUFFICES ASSUME NEW i \in Calls, NEW j \in Calls, i # j,
                          IsNew(calls'[i]), IsNew(calls'[j]), calls'[i].text = calls'[j].text
                   PROVE  calls'[i].text \in Blamed'
      BY DEF CallsApart, IsNew
    <3> QED
      BY <1>17, <2>2, <3>1 DEF Once, CallsApart
  <2>4. Unsaved'
    <3>1. PICK t : t = editor.text
      OBVIOUS
    <3>2. CASE t = c.text
      <4>1. IsNew(calls'[k]) /\ calls'[k].text = t
        BY <1>4, <1>9, <1>13, <3>2 DEF IsNew
      <4> QED
        BY <1>2, <3>1, <4>1 DEF Unsaved, IsNew
    <3>3. CASE t # c.text
      <4>1. \A m \in NoteIds : Filed(m, t)' <=> Filed(m, t)
        BY <1>11, <3>3
      <4>2. (editor.doc = None /\ t # 0) =>
              \/ t \in Blamed
              \/ \E l \in Calls : IsNew(calls'[l]) /\ calls'[l].text = t
              \/ \A m \in NoteIds : ~Filed(m, t)'
        BY <2>2, <3>1, <4>1 DEF Once, Unsaved
      <4> QED
        BY <1>2, <1>17, <3>1, <4>2 DEF Unsaved, IsNew, Filed
    <3> QED
      BY <3>2, <3>3
  <2>5. FiledOnce'
    <3>1. SUFFICES ASSUME NEW l \in NoteIds, NEW m \in NoteIds,
                          l # m, notes'[l].state # "free", notes'[l].home = notes'[m].home,
                          notes'[m].state # "free"
                   PROVE  notes'[l].home \in Blamed
      BY <1>17 DEF FiledOnce, Filed
    <3>2. notes'[n].home = c.text /\ \A o \in NoteIds : o # n => notes'[o] = notes[o]
      BY <1>5, <1>7
    <3>3. CASE l = n
      <4>1. Filed(m, c.text)
        BY <3>1, <3>2, <3>3 DEF Filed
      <4> QED
        BY <1>16, <3>2, <3>3, <4>1
    <3>4. CASE m = n
      <4>1. Filed(l, c.text)
        BY <3>1, <3>2, <3>4 DEF Filed
      <4> QED
        BY <1>16, <3>1, <3>2, <3>4, <4>1
    <3>5. CASE l # n /\ m # n
      BY <3>1, <3>2, <3>5 DEF Once, FiledOnce, Filed
    <3> QED
      BY <3>3, <3>4, <3>5
  <2> QED
    BY <2>1, <2>3, <2>4, <2>5 DEF Once
<1>20. ASSUME ~impatient PROVE Waiting'
  <2>1. \A l \in Calls : calls'[l].op # "idle" => calls[l].op # "idle"
    BY <1>1, <1>2, <1>13
  <2>2. \A l \in Calls : calls'[l].text = calls[l].text
    BY <1>1, <1>9, <1>13
  <2> QED
    BY <1>2, <1>20, <2>1, <2>2 DEF mixups, Waiting
<1> QED
  BY <1>2, <1>14, <1>15, <1>19, <1>20

\* What a step that files nothing under another draft, and creates nothing, does to
\* a call: it ends or goes on, and is what it was.
LEMMA CallGoesOn ==
  ASSUME NotesInv, NEW k \in Calls, NEW q \in NoteCalls, calls' = [calls EXCEPT ![k] = q],
         CallKept(q)', q.op # "save", IsNew(q) => IsNew(calls[k]) /\ calls[k].text = q.text,
         list' \subseteq list, drafts' = drafts, impatient' = impatient,
         crossed \subseteq crossed', lost \subseteq lost', rushed \subseteq rushed',
         notes' \in [NoteIds -> NoteRows],
         \A m \in NoteIds :
           /\ notes'[m].state = notes[m].state /\ notes'[m].owner = notes[m].owner
           /\ notes'[m].home = notes[m].home
           /\ notes'[m].state = "live" => notes'[m].text = notes[m].text \/ Holds(m, notes'[m].text),
         editor' \in Editors, editor'.doc # None => Holds(editor.doc, editor.text)', Unsaved',
         ~impatient => Waiting'
  PROVE  NotesInv'
<1> USE DEF NotesInv
<1>1. FiledOnce' /\ \A m \in NoteIds : \A t : Filed(m, t)' <=> Filed(m, t)
  BY FiledOnceStays DEF Once, Blamed
<1>2. /\ calls' \in [Calls -> NoteCalls]
      /\ \A l \in Calls : CallKept(calls[l])'
  BY <1>1, CallsKept
<1>3. Blamed \subseteq Blamed' /\ CallOnce(q)'
  BY DEF Blamed, CallOnce
<1>4. (\A l \in Calls : CallOnce(calls[l])') /\ CallsApart'
  BY <1>1, <1>3, CallsOnce
<1>5. NotesTypeOK'
  BY <1>2 DEF NotesTypeOK, NoteRows, Entries, Editors, NoteCalls, Drafts
<1>6. Kept'
  <2>1. \A m \in NoteIds : notes'[m].state = "live" => notes'[m].text = notes'[m].home \/ m \in crossed'
    BY DEF Kept, Holds, Filed
  <2>2. \A m, t : Holds(m, t) => Holds(m, t)'
    BY <1>1, HoldsStays
  <2>3. \A e \in list' : Holds(e.doc, e.text)'
    BY <2>2 DEF Kept
  <2> QED
    BY <1>2, <2>1, <2>3 DEF Kept, Holds, Filed
<1> QED
  BY <1>1, <1>4, <1>5, <1>6 DEF Once

LEMMA NoCallFacts ==
  NotesTypeOK => /\ NoCall \in NoteCalls /\ NoCall.op = "idle"
                 /\ CallKept(NoCall)' /\ ~IsNew(NoCall)
<1> SUFFICES ASSUME NotesTypeOK
             PROVE  NoCall \in NoteCalls /\ NoCall.op = "idle" /\ CallKept(NoCall)' /\ ~IsNew(NoCall)
  OBVIOUS
<1>1. 0 \in Drafts
  BY DEF NotesTypeOK, Drafts
<1>2. NoCall \in NoteCalls /\ NoCall.op = "idle"
  BY <1>1 DEF NoCall, NoteCalls
<1> QED
  BY <1>2 DEF CallKept, IsNew

\* The text on the screen still belongs where it did if no call that creates it
\* has ended.
LEMMA UnsavedStays ==
  ASSUME NotesTypeOK, Unsaved, editor' = editor, NEW k \in Calls, NEW q, calls' = [calls EXCEPT ![k] = q],
         Blamed \subseteq Blamed',
         \A m \in NoteIds : notes'[m].home = notes[m].home /\ notes'[m].state = notes[m].state,
         IsNew(calls[k]) => \/ calls[k].text \in Blamed'
                            \/ \A n \in NoteIds : ~Filed(n, calls[k].text)
  PROVE  Unsaved'
<1>1. PICK t : t = editor.text
  OBVIOUS
<1>2. \A l \in Calls : l # k => calls'[l] = calls[l]
  BY DEF NotesTypeOK
<1>3. \A m \in NoteIds : Filed(m, t)' <=> Filed(m, t)
  BY DEF Filed
<1>4. SUFFICES ASSUME editor.doc = None, t # 0, t \notin Blamed', ~\A m \in NoteIds : ~Filed(m, t)
               PROVE  \E l \in Calls : IsNew(calls'[l]) /\ calls'[l].text = t
  BY <1>1, <1>3 DEF Unsaved, IsNew, Filed
<1>5. PICK l \in Calls : IsNew(calls[l]) /\ calls[l].text = t
  BY <1>1, <1>4 DEF Unsaved
<1>6. l # k
  BY <1>4, <1>5
<1> QED
  BY <1>2, <1>5, <1>6

\* An update goes to a document that may hold the text; a note that is gone
\* refuses it.
LEMMA ServeOldStep ==
  ASSUME NotesInv, NEW k \in Calls, ServeSave(k), calls[k].doc # None PROVE NotesInv'
<1>1. PICK c : c = calls[k]
  OBVIOUS
<1>2. /\ list' = list /\ editor' = editor /\ drafts' = drafts /\ UNCHANGED mixups /\ impatient' = impatient
      /\ c.op = "save" /\ c.doc # None
  BY <1>1 DEF ServeSave
<1>3. /\ NotesTypeOK /\ c \in NoteCalls /\ c.doc \in NoteIds /\ c.text \in Drafts
      /\ ~c.new /\ Holds(c.doc, c.text)
  BY <1>1, <1>2 DEF NotesInv, NotesTypeOK, NoteCalls, Kept, CallKept
<1>4. PICK q : q = IF Own(c.doc, Owner) THEN [c EXCEPT !.op = "saved"] ELSE NoCall
  OBVIOUS
<1>5. UpdateNote(c.doc, Owner, c.text) /\ calls' = [calls EXCEPT ![k] = q]
  BY <1>1, <1>2, <1>4 DEF ServeSave
<1>6. /\ notes' \in [NoteIds -> NoteRows]
      /\ \A m \in NoteIds :
           /\ notes'[m].state = notes[m].state
           /\ notes'[m].owner = notes[m].owner
           /\ notes'[m].home = notes[m].home
           /\ notes'[m].text = IF m = c.doc /\ Own(c.doc, Owner) THEN c.text ELSE notes[m].text
  BY <1>3, <1>5, UpdateFacts
<1>7. /\ q \in NoteCalls /\ ~IsNew(q) /\ q.op # "save"
      /\ q.op = "saved" => q.doc = c.doc /\ q.text = c.text
  <2>1. CASE Own(c.doc, Owner)
    <3>1. q = [c EXCEPT !.op = "saved"]
      BY <1>4, <2>1
    <3>2. q \in NoteCalls /\ q.op = "saved" /\ q.doc = c.doc /\ q.text = c.text /\ q.new = c.new
      BY <1>3, <3>1, Zenon DEF NoteCalls
    <3> QED
      BY <1>3, <3>2 DEF IsNew
  <2>2. CASE ~Own(c.doc, Owner)
    BY <1>3, <1>4, <2>2, NoCallFacts
  <2> QED
    BY <2>1, <2>2
<1>8. \A m, t : Holds(m, t) => Holds(m, t)'
  BY <1>2, <1>6 DEF mixups, Holds, Filed
<1>9. CallKept(q)'
  BY <1>3, <1>7, <1>8 DEF CallKept
<1>10. Unsaved'
  <2>1. Unsaved /\ Blamed \subseteq Blamed' /\ ~IsNew(c)
    BY <1>2, <1>3 DEF mixups, NotesInv, Once, Blamed, IsNew
  <2> QED
    BY <1>1, <1>2, <1>3, <1>5, <1>6, <2>1, UnsavedStays
<1>11. editor' \in Editors /\ (editor'.doc # None => Holds(editor.doc, editor.text)')
  BY <1>2, <1>8 DEF NotesInv, NotesTypeOK, Kept
<1>12. ASSUME ~impatient PROVE Waiting'
  <2>1. \A l \in Calls : calls'[l] = IF l = k THEN q ELSE calls[l]
    BY <1>3, <1>5 DEF NotesTypeOK
  <2>2. q.op # "idle" => q.text = c.text
    BY <1>4, <1>7 DEF NoCall
  <2> QED
    BY <1>1, <1>2, <1>12, <2>1, <2>2 DEF mixups, NotesInv, Waiting
<1>13. \A m \in NoteIds :
         /\ notes'[m].state = notes[m].state /\ notes'[m].owner = notes[m].owner
         /\ notes'[m].home = notes[m].home
         /\ notes'[m].state = "live" => notes'[m].text = notes[m].text \/ Holds(m, notes'[m].text)
  BY <1>3, <1>6
<1> QED
  BY <1>2, <1>5, <1>6, <1>7, <1>9, <1>10, <1>11, <1>12, <1>13, CallGoesOn DEF mixups

\* saveDoc after its answer: the saved document becomes the current one, and is
\* crossed if what is on the screen is not what was saved.
LEMMA SavedDocStep ==
  ASSUME NotesInv, NEW k \in Calls, SavedDoc(k) PROVE NotesInv'
<1>1. PICK c : c = calls[k]
  OBVIOUS
<1>2. /\ notes' = notes /\ drafts' = drafts /\ lost' = lost /\ rushed' = rushed /\ impatient' = impatient
      /\ list' = list /\ c.op = "saved" /\ calls' = [calls EXCEPT ![k] = NoCall]
      /\ crossed' = crossed \cup {n \in {c.doc} : editor.text # c.text}
      /\ editor' = [editor EXCEPT !.doc = c.doc]
  BY <1>1 DEF SavedDoc
<1>3. NotesTypeOK /\ c \in NoteCalls /\ editor \in Editors /\ Holds(c.doc, c.text) /\ c.doc # None
  BY <1>1, <1>2, NotesAssumption DEF NotesInv, NotesTypeOK, Kept, CallKept, Holds, None
<1>4. editor' \in Editors /\ editor'.doc = c.doc /\ editor'.text = editor.text
  BY <1>2, <1>3 DEF Editors, NoteCalls
<1>5. /\ NoCall \in NoteCalls /\ NoCall.op = "idle" /\ CallKept(NoCall)' /\ ~IsNew(NoCall)
  BY <1>3, NoCallFacts
<1>6. Holds(editor.doc, editor.text)'
  <2>1. Holds(c.doc, editor.text)'
    BY <1>2, <1>3 DEF Holds, Filed
  <2> QED
    BY <1>4, <2>1
<1>7. Unsaved'
  BY <1>3, <1>4 DEF Unsaved
<1>8. ASSUME ~impatient PROVE Waiting'
  <2>1. \A l \in Calls : calls'[l] = IF l = k THEN NoCall ELSE calls[l]
    BY <1>2, <1>3 DEF NotesTypeOK
  <2>2. editor.text = c.text
    BY <1>1, <1>2, <1>8 DEF NotesInv, Waiting
  <2>3. crossed' = crossed
    BY <1>2, <2>2
  <2> QED
    BY <1>2, <1>4, <1>5, <1>8, <2>1, <2>3 DEF NotesInv, Waiting
<1>9. notes' \in [NoteIds -> NoteRows]
  BY <1>2, <1>3 DEF NotesTypeOK
<1> QED
  BY <1>2, <1>4, <1>5, <1>6, <1>7, <1>8, <1>9, CallGoesOn

\* A failure of the call that created a document leaves a draft in it that the
\* editor does not know to be there.
LEMMA FailsDocStep ==
  ASSUME NotesInv, NEW k \in Calls, FailsDoc(k) PROVE NotesInv'
<1>1. PICK c : c = calls[k]
  OBVIOUS
<1>2. /\ notes' = notes /\ drafts' = drafts /\ list' = list /\ editor' = editor /\ impatient' = impatient
      /\ rushed' = rushed /\ crossed' = crossed
      /\ c.op # "idle" /\ calls' = [calls EXCEPT ![k] = NoCall]
      /\ lost' = lost \cup {t \in {c.text} \ rushed : c.op = "saved" /\ c.new}
  BY <1>1 DEF FailsDoc
<1>3. NotesTypeOK /\ Unsaved /\ CallOnce(c) /\ editor \in Editors
  BY <1>1 DEF NotesInv, NotesTypeOK, Once
<1>4. /\ NoCall \in NoteCalls /\ NoCall.op = "idle" /\ CallKept(NoCall)' /\ ~IsNew(NoCall)
  BY <1>3, NoCallFacts
<1>5. Unsaved'
  <2>1. Blamed \subseteq Blamed'
    BY <1>2 DEF Blamed
  <2>2. IsNew(c) => c.text \in Blamed' \/ \A n \in NoteIds : ~Filed(n, c.text)
    <3>1. CASE c.op = "saved"
      BY <1>2, <3>1 DEF IsNew, Blamed
    <3>2. CASE c.op = "save"
      BY <1>3, <2>1, <3>2 DEF IsNew, CallOnce
    <3> QED
      BY <3>1, <3>2 DEF IsNew
  <2>3. \A m \in NoteIds : notes'[m].home = notes[m].home /\ notes'[m].state = notes[m].state
    BY <1>2
  <2> QED
    BY <1>1, <1>2, <1>3, <2>1, <2>2, <2>3, UnsavedStays
<1>6. editor'.doc # None => Holds(editor.doc, editor.text)'
  BY <1>2 DEF NotesInv, Kept, Holds, Filed
<1>7. ASSUME ~impatient PROVE Waiting'
  <2>1. \A l \in Calls : calls'[l] = IF l = k THEN NoCall ELSE calls[l]
    BY <1>2, <1>3 DEF NotesTypeOK
  <2> QED
    BY <1>2, <1>4, <1>7, <2>1 DEF NotesInv, Waiting
<1>8. notes' \in [NoteIds -> NoteRows]
  BY <1>2, <1>3 DEF NotesTypeOK
<1> QED
  BY <1>2, <1>3, <1>4, <1>5, <1>6, <1>7, <1>8, CallGoesOn

\* The revision of a text replaces what is on the screen: another text crosses the
\* document there, or is rushed if there is none.
LEMMA EditedDocStep ==
  ASSUME NotesInv, NEW k \in Calls, EditedDoc(k) PROVE NotesInv'
<1>1. PICK c : c = calls[k]
  OBVIOUS
<1>2. /\ notes' = notes /\ drafts' = drafts /\ list' = list /\ lost' = lost /\ impatient' = impatient
      /\ c.op = "edit" /\ calls' = [calls EXCEPT ![k] = NoCall]
      /\ editor' = [editor EXCEPT !.text = c.text]
      /\ crossed' = crossed \cup {n \in {editor.doc} : n # None /\ editor.text # c.text}
      /\ rushed' = rushed \cup {t \in {c.text} \ lost : editor.doc = None /\ editor.text # t}
  BY <1>1 DEF EditedDoc
<1>3. NotesTypeOK /\ Unsaved /\ c \in NoteCalls /\ editor \in Editors
  BY <1>1 DEF NotesInv, NotesTypeOK, Once
<1>4. editor' \in Editors /\ editor'.doc = editor.doc /\ editor'.text = c.text
  BY <1>2, <1>3 DEF Editors, NoteCalls
<1>5. /\ NoCall \in NoteCalls /\ NoCall.op = "idle" /\ CallKept(NoCall)' /\ ~IsNew(NoCall)
  BY <1>3, NoCallFacts
<1>6. editor'.doc # None => Holds(editor.doc, editor.text)'
  <2>1. editor.doc # None => Holds(editor.doc, editor.text) /\ Holds(editor.doc, c.text)'
    BY <1>2 DEF NotesInv, Kept, Holds, Filed
  <2> QED
    BY <1>4, <2>1
<1>7. Unsaved'
  <2>1. CASE editor.text = c.text
    <3>1. editor' = editor
      BY <1>2, <1>3, <2>1 DEF Editors
    <3>2. Blamed \subseteq Blamed' /\ ~IsNew(c)
      BY <1>2 DEF Blamed, IsNew
    <3>3. \A m \in NoteIds : notes'[m].home = notes[m].home /\ notes'[m].state = notes[m].state
      BY <1>2
    <3> QED
      BY <1>1, <1>2, <1>3, <3>1, <3>2, <3>3, UnsavedStays
  <2>2. CASE editor.text # c.text
    <3>1. editor.doc = None => c.text \in Blamed'
      BY <1>2, <2>2 DEF Blamed
    <3> QED
      BY <1>4, <3>1 DEF Unsaved
  <2> QED
    BY <2>1, <2>2
<1>8. ASSUME ~impatient PROVE Waiting'
  <2>1. \A l \in Calls : calls'[l] = IF l = k THEN NoCall ELSE calls[l]
    BY <1>2, <1>3 DEF NotesTypeOK
  <2>2. editor.text = c.text
    BY <1>1, <1>2, <1>8 DEF NotesInv, Waiting
  <2>3. crossed' = crossed /\ rushed' = rushed
    BY <1>2, <2>2
  <2> QED
    BY <1>2, <1>4, <1>5, <1>8, <2>1, <2>2, <2>3 DEF NotesInv, Waiting
<1>9. notes' \in [NoteIds -> NoteRows]
  BY <1>2, <1>3 DEF NotesTypeOK
<1> QED
  BY <1>2, <1>4, <1>5, <1>6, <1>7, <1>8, <1>9, CallGoesOn

\* Another user's update or delete finds no note of Owner's.
LEMMA StrangerStep ==
  ASSUME NotesInv, NEW n \in NoteIds, NEW u \in Others, Stranger(n, u) PROVE UNCHANGED noteVars
<1>1. ~Own(n, u)
  BY NotesAssumption DEF Own, NotesInv, NotesTypeOK
<1> QED
  BY <1>1 DEF Stranger, UpdateNote, DeleteNote, noteVars

LEMMA NotesStutter ==
  ASSUME NotesInv, UNCHANGED noteVars PROVE NotesInv'
<1>1. NotesTypeOK'
  BY DEF noteVars, NotesInv, NotesTypeOK, NoteRows, Entries, Editors, NoteCalls, Drafts
<1>2. Kept'
  BY DEF noteVars, mixups, NotesInv, Kept, CallKept, Holds, Filed
<1>3. Once'
  BY DEF noteVars, mixups, NotesInv, Once, CallOnce, CallsApart, IsNew, Unsaved, FiledOnce, Filed, Blamed
<1> QED
  BY <1>1, <1>2, <1>3 DEF noteVars, mixups, NotesInv, Waiting

LEMMA NotesStep ==
  ASSUME NotesInv, [NotesNext]_noteVars PROVE NotesInv'
<1>1. CASE UNCHANGED noteVars
  BY <1>1, NotesStutter
<1>2. CASE NewDoc \/ RefreshDocs
  BY <1>2, NewDocStep, RefreshDocsStep
<1>3. ASSUME NEW n \in NoteIds, NEW u \in Others, Stranger(n, u) PROVE NotesInv'
  BY <1>3, StrangerStep, NotesStutter
<1>4. ASSUME NEW entry \in list, OpenDoc(entry) \/ DeleteDoc(entry) PROVE NotesInv'
  BY <1>4, OpenDocStep, DeleteDocStep
<1>5. ASSUME NEW k \in Calls,
             SaveDoc(k) \/ ServeSave(k) \/ SavedDoc(k) \/ FailsDoc(k) \/ AiEditDoc(k) \/ EditedDoc(k)
      PROVE  NotesInv'
  <2>1. CASE SaveDoc(k)
    BY <2>1, SaveDocStep
  <2>2. CASE ServeSave(k)
    BY <2>2, ServeNewStep, ServeOldStep
  <2>3. CASE SavedDoc(k)
    BY <2>3, SavedDocStep
  <2>4. CASE FailsDoc(k)
    BY <2>4, FailsDocStep
  <2>5. CASE EditedDoc(k)
    BY <2>5, EditedDocStep
  <2>6. CASE AiEditDoc(k)
    BY <2>6, AiEditDocStep
  <2> QED
    BY <1>5, <2>1, <2>2, <2>3, <2>4, <2>5, <2>6
<1> QED
  BY <1>1, <1>2, <1>3, <1>4, <1>5 DEF NotesNext

----------------------------------------------------------------------------
\* The order in which a get answers.

Ascending(s) == \A i, j \in DOMAIN s : i < j => s[i].id < s[j].id
Covers(s, ms) == \A m \in ms : \E i \in DOMAIN s : s[i] = m
Upto(ms, k) == {m \in ms : m.id <= k}
\* Messages whose stamps are numbers, each its own.
Stamped(ms) ==
  /\ \A m \in ms : m.id \in Nat \ {0}
  /\ \A m, n \in ms : m.id = n.id => m = n

Orders(n, ms) == {s \in [1..n -> ms] : Ascending(s) /\ Covers(s, ms)}

Unordered(ms) == {k \in Nat : \A n \in Nat : Orders(n, Upto(ms, k)) = {}}

\* A set of numbers has a least one.
LEMMA LeastNatural ==
  ASSUME NEW T, T \subseteq Nat, T # {}
  PROVE  \E k \in T : \A j \in T : k <= j
<1>1. PICK k \in T : \A j \in T : ~(<<j, k>> \in OpToRel(<, Nat))
  BY NatLessThanWellFounded, WFMin, Zenon
<1>2. \A j \in T : ~(j < k)
  BY <1>1 DEF OpToRel
<1> QED
  BY <1>2

\* A message is the last of those up to its stamp.
LEMMA OrderExtends ==
  ASSUME NEW ms, Stamped(ms), NEW k \in Nat \ {0}, NEW n \in Nat, NEW s \in Orders(n, Upto(ms, k - 1))
  PROVE  \E l \in Nat : Orders(l, Upto(ms, k)) # {}
<1>1. /\ s \in [1..n -> Upto(ms, k - 1)] /\ DOMAIN s = 1..n
      /\ Ascending(s) /\ Covers(s, Upto(ms, k - 1))
  BY DEF Orders
<1>2. CASE \A m \in ms : m.id # k
  <2>1. Upto(ms, k) = Upto(ms, k - 1)
    BY <1>2 DEF Upto, Stamped
  <2> QED
    BY <2>1
<1>3. ASSUME NEW m \in ms, m.id = k
      PROVE  Orders(n + 1, Upto(ms, k)) # {}
  <2>1. PICK t : t = [i \in 1..(n + 1) |-> IF i = n + 1 THEN m ELSE s[i]]
    OBVIOUS
  <2>2. DOMAIN t = 1..(n + 1) /\ t[n + 1] = m /\ \A i \in 1..n : t[i] = s[i] /\ i \in 1..(n + 1)
    BY <2>1
  <2>3. \A i \in 1..(n + 1) : i = n + 1 \/ i \in 1..n
    OBVIOUS
  <2>4. \A i \in 1..n : s[i] \in ms /\ s[i].id \in Nat /\ s[i].id < k
    BY <1>1 DEF Upto, Stamped
  <2>5. \A i \in 1..(n + 1) : t[i] \in Upto(ms, k)
    BY <1>3, <2>2, <2>3, <2>4 DEF Upto
  <2>6. t \in [1..(n + 1) -> Upto(ms, k)]
    BY <2>1, <2>5
  <2>7. Ascending(t)
    <3>1. SUFFICES ASSUME NEW i \in 1..(n + 1), NEW j \in 1..(n + 1), i < j
                   PROVE  t[i].id < t[j].id
      BY <2>2 DEF Ascending
    <3>2. i \in 1..n /\ t[i] = s[i] /\ s[i].id < k
      BY <2>2, <2>4, <3>1
    <3>3. CASE j = n + 1
      BY <1>3, <2>2, <3>2, <3>3
    <3>4. CASE j \in 1..n
      BY <1>1, <2>2, <3>1, <3>2, <3>4 DEF Ascending
    <3> QED
      BY <2>3, <3>3, <3>4
  <2>8. Covers(t, Upto(ms, k))
    <3>1. SUFFICES ASSUME NEW o \in ms, o.id <= k
                   PROVE  \E i \in 1..(n + 1) : t[i] = o
      BY <2>2 DEF Covers, Upto
    <3>2. CASE o.id = k
      <4>1. o = m
        BY <1>3, <3>2 DEF Stamped
      <4>2. n + 1 \in 1..(n + 1)
        OBVIOUS
      <4> QED
        BY <2>2, <4>1, <4>2
    <3>3. CASE o.id # k
      <4>1. o \in Upto(ms, k - 1)
        BY <3>1, <3>3 DEF Upto, Stamped
      <4>2. PICK i \in 1..n : s[i] = o
        BY <1>1, <4>1 DEF Covers
      <4> QED
        BY <2>2, <4>2
    <3> QED
      BY <3>2, <3>3
  <2> QED
    BY <2>6, <2>7, <2>8 DEF Orders
<1> QED
  BY <1>2, <1>3

\* So the messages up to any stamp can be put in order: there is no least stamp up
\* to which they cannot.
LEMMA OrderExists ==
  ASSUME NEW ms, Stamped(ms), NEW b \in Nat
  PROVE  \E n \in Nat : Orders(n, Upto(ms, b)) # {}
<1>1. SUFFICES ASSUME Unordered(ms) # {} PROVE FALSE
  BY DEF Unordered
<1>2. PICK k \in Unordered(ms) : \A j \in Unordered(ms) : k <= j
  <2>1. Unordered(ms) \subseteq Nat
    BY DEF Unordered
  <2> QED
    BY <1>1, <2>1, LeastNatural
<1>3. CASE k = 0
  <2>1. Upto(ms, 0) = {}
    BY DEF Upto, Stamped
  <2>2. PICK s : s = [i \in 1..0 |-> i]
    OBVIOUS
  <2>3. 1..0 = {}
    OBVIOUS
  <2>4. DOMAIN s = {} /\ s \in [1..0 -> Upto(ms, 0)]
    BY <2>2, <2>3
  <2>5. s \in Orders(0, Upto(ms, 0))
    BY <2>1, <2>4 DEF Orders, Ascending, Covers
  <2> QED
    BY <1>3, <2>5 DEF Unordered
<1>4. CASE k # 0
  <2>1. k \in Nat \ {0} /\ k - 1 \in Nat /\ k - 1 < k
    BY <1>4 DEF Unordered
  <2>3. k - 1 \notin Unordered(ms)
    BY <1>2, <2>1
  <2>4. PICK n \in Nat : Orders(n, Upto(ms, k - 1)) # {}
    BY <2>1, <2>3 DEF Unordered
  <2>5. PICK s : s \in Orders(n, Upto(ms, k - 1))
    BY <2>4
  <2>6. \E l \in Nat : Orders(l, Upto(ms, k)) # {}
    BY <2>1, <2>5, OrderExtends
  <2> QED
    BY <2>6 DEF Unordered
<1> QED
  BY <1>3, <1>4

\* What is in ascending order has nothing twice.
LEMMA AscendingInjective ==
  ASSUME NEW ms, Stamped(ms), NEW n \in Nat, NEW s \in [1..n -> ms], Ascending(s)
  PROVE  s \in Injection(1..n, ms)
<1>1. SUFFICES ASSUME NEW i \in 1..n, NEW j \in 1..n, s[i] = s[j], i < j
               PROVE  FALSE
  BY DEF Injection, IsInjective
<1>2. s[i].id < s[j].id /\ s[i].id \in Nat
  BY <1>1 DEF Ascending, Stamped
<1> QED
  BY <1>1, <1>2

\* ORDER BY created_at answers every message once, in order.
LEMMA InOrderWhole ==
  ASSUME NEW ms, Stamped(ms), NEW b \in Nat, \A m \in ms : m.id <= b
  PROVE  /\ InOrder(ms) \in [1..Cardinality(ms) -> ms]
         /\ Ascending(InOrder(ms)) /\ Covers(InOrder(ms), ms)
         /\ Cardinality(ms) \in Nat
<1>1. Upto(ms, b) = ms
  BY DEF Upto
<1>2. PICK n \in Nat : Orders(n, ms) # {}
  BY <1>1, OrderExists
<1>3. PICK s : s \in Orders(n, ms)
  BY <1>2
<1>4. s \in [1..n -> ms] /\ Ascending(s) /\ Covers(s, ms)
  BY <1>3 DEF Orders
<1>5. s \in Injection(1..n, ms)
  BY <1>4, AscendingInjective
<1>6. s \in Surjection(1..n, ms)
  BY <1>4 DEF Surjection, Covers
<1>7. Cardinality(ms) = n
  BY <1>5, <1>6, FS_CountingElements DEF ExistsBijection, Bijection
<1>8. IsFiniteSet(1..n) /\ Cardinality(1..n) = n
  BY FS_Interval
<1>9. IsFiniteSet(ms)
  BY <1>6, <1>8, FS_Surjection
<1>10. PICK t : t = InOrder(ms)
  OBVIOUS
<1>11. t \in [1..n -> ms] /\ Ascending(t)
  BY <1>4, <1>7, <1>10 DEF InOrder, Ascending
<1>12. t \in Injection(1..n, ms)
  BY <1>11, AscendingInjective
<1>13. t \in Surjection(1..n, ms)
  BY <1>7, <1>8, <1>9, <1>12, FS_Injection
<1>14. Covers(t, ms)
  BY <1>11, <1>13 DEF Surjection, Covers
<1> QED
  BY <1>7, <1>10, <1>11, <1>14

----------------------------------------------------------------------------
\* Conversations.

ConvStates == {"free", "open", "deleted"}
ConvRows == [state : ConvStates, owner : Users \cup {"none"}, title : Int, updated : Nat]
MessageRows == [id : Nat, conv : Convs, by : Users, role : Roles, names : BOOLEAN, nth : Nat]
Requests ==
  [op : {"idle", "stamped", "read", "get"}, user : Users \cup {"none"}, conv : Convs \cup {"none"},
   id : Nat, role : Roles, names : BOOLEAN, title : Int, known : SUBSET Nat]

ConvTypeOK ==
  /\ convs \in [Convs -> ConvRows]
  /\ messages \subseteq MessageRows
  /\ requests \in [Threads -> Requests]
  /\ stamps \subseteq 1..MaxMessages
  /\ commits \in Nat
  /\ answered \subseteq Nat

IsOpen(c) == convs[c].state = "open"
Appends(r) == r.op \in {"stamped", "read"}
MaySeed(m) == m.role = "user" /\ m.names

\* A request is about a conversation; one that has found it in its user's name
\* finds no other owner later.  What a get knows to be answered is.
Named(r) ==
  /\ r.op # "idle" => r.user \in Users /\ r.conv \in Convs
  /\ r.op \in {"read", "get"} => convs[r.conv].owner = r.user /\ convs[r.conv].state # "free"
  /\ r.known \subseteq answered

\* The stamp of an append under way is on no message yet.
Fresh(r) ==
  Appends(r) => r.id \in stamps /\ r.id \notin answered /\ \A m \in messages : m.id # r.id

\* A seeded title that an append has read is still that of a message.
SeedRead(r) ==
  (r.op = "read" /\ IsOpen(r.conv) /\ r.title > 0) =>
    \E m \in MessagesOf(r.conv) : m.id = r.title /\ MaySeed(m)

\* Where no appends have overlapped, the title that the one under way has read
\* stands.
InLine(r) ==
  (r.op = "read" /\ r.conv \notin overlaps /\ IsOpen(r.conv)) => r.title = convs[r.conv].title

RequestTrue(r) == Named(r) /\ Fresh(r) /\ SeedRead(r) /\ InLine(r)

\* Two appends under way have two stamps, and have overlapped if they are on one
\* conversation.
Apart ==
  \A s, t \in Threads :
    (/\ Appends(requests[s]) /\ Appends(requests[t])
     /\ \/ requests[s].id = requests[t].id
        \/ requests[s].conv = requests[t].conv /\ requests[s].conv \notin overlaps) => s = t

\* The title of the first of ms, as they were committed, that may seed it.
FirstOf(title, ms) ==
  IF \E m \in ms : MaySeed(m)
  THEN \E m \in ms : /\ MaySeed(m) /\ m.id = title
                    /\ \A n \in ms : MaySeed(n) => m.nth <= n.nth
  ELSE title = NewTitle

Whole(c) ==
  IsOpen(c) =>
    /\ MessagesOf(c) # {} => \E m \in MessagesOf(c) : m.id = convs[c].updated
    /\ convs[c].title > 0 => \E m \in MessagesOf(c) : m.id = convs[c].title /\ MaySeed(m)
    /\ (c \notin overlaps /\ convs[c].title # GivenTitle) => FirstOf(convs[c].title, MessagesOf(c))

ConvInv ==
  /\ ConvTypeOK
  /\ Stamped(messages) /\ \A m \in messages : m.id \in stamps /\ m.nth <= commits
  /\ answered \subseteq stamps
  /\ MessagesHaveHome
  /\ \A t \in Threads : RequestTrue(requests[t])
  /\ Apart
  /\ \A c \in Convs : Whole(c)
  /\ GetIsComplete

LEMMA IdleTrue ==
  /\ Idle \in Requests /\ RequestTrue(Idle) /\ RequestTrue(Idle)'
  /\ ~Appends(Idle) /\ Idle.op = "idle"
<1>1. Idle \in Requests
  BY DEF Idle, Requests, Roles, NewTitle
<1>2. Idle.op = "idle" /\ Idle.known = {}
  BY DEF Idle
<1> QED
  BY <1>1, <1>2 DEF RequestTrue, Named, Fresh, SeedRead, InLine, Appends

LEMMA ConvInvInit == ConvInit => ConvInv
<1> SUFFICES ASSUME ConvInit PROVE ConvInv
  OBVIOUS
<1>1. Absent \in ConvRows /\ Absent.state = "free"
  BY DEF Absent, ConvRows, ConvStates, NewTitle
<1>2. \A t \in Threads : requests[t] = Idle
  BY DEF ConvInit
<1>3. ConvTypeOK
  BY <1>1, IdleTrue DEF ConvInit, ConvTypeOK
<1>4. view.conv = "none"
  BY DEF ConvInit, NoView
<1>5. \A c \in Convs : Whole(c)
  BY <1>1 DEF Whole, IsOpen, ConvInit
<1>6. Apart
  BY <1>2, IdleTrue DEF Apart
<1>7. \A t \in Threads : RequestTrue(requests[t])
  BY <1>2, IdleTrue
<1> QED
  BY <1>3, <1>4, <1>5, <1>6, <1>7 DEF ConvInit, ConvInv, Stamped, MessagesHaveHome, GetIsComplete

\* A request that ends leaves the others.
LEMMA RequestEnds ==
  ASSUME ConvTypeOK, NEW t \in Threads, requests' = [requests EXCEPT ![t] = Idle]
  PROVE  /\ requests' \in [Threads -> Requests]
         /\ requests'[t] = Idle /\ \A s \in Threads : s # t => requests'[s] = requests[s]
BY IdleTrue DEF ConvTypeOK

\* A step that answers no get says nothing of one.
LEMMA NothingViewed ==
  ASSUME view' = NoView PROVE GetIsComplete'
BY DEF GetIsComplete, NoView

\* A request ends in an error, or is turned away: nothing else has changed.
LEMMA EndStep ==
  ASSUME ConvInv, NEW t \in Threads, requests' = [requests EXCEPT ![t] = Idle],
         UNCHANGED <<convs, messages, stamps, commits, answered, overlaps>>,
         GetIsComplete'
  PROVE  ConvInv'
<1>1. /\ requests' \in [Threads -> Requests]
      /\ requests'[t] = Idle /\ \A s \in Threads : s # t => requests'[s] = requests[s]
  BY RequestEnds DEF ConvInv
<1>2. ConvTypeOK'
  BY <1>1 DEF ConvInv, ConvTypeOK
<1>3. \A s \in Threads : RequestTrue(requests[s])'
  <2>1. RequestTrue(requests[t])'
    BY <1>1, IdleTrue DEF RequestTrue, Named, Fresh, SeedRead, InLine
  <2>2. ASSUME NEW s \in Threads, s # t PROVE RequestTrue(requests[s])'
    BY <1>1, <2>2 DEF ConvInv, RequestTrue, Named, Fresh, SeedRead, InLine, IsOpen, MessagesOf
  <2> QED
    BY <2>1, <2>2
<1>4. Apart'
  BY <1>1, IdleTrue DEF ConvInv, Apart
<1>5. \A c \in Convs : Whole(c)'
  BY DEF ConvInv, Whole, IsOpen, MessagesOf
<1>6. MessagesHaveHome' /\ Stamped(messages)'
  BY DEF ConvInv, MessagesHaveHome, Stamped
<1> QED
  BY <1>2, <1>3, <1>4, <1>5, <1>6 DEF ConvInv

\* build_conversation_create_response: nobody has a request on the conversation.
LEMMA CreateStep ==
  ASSUME ConvInv, NEW c \in Convs, NEW u \in Users, NEW title \in {NewTitle, GivenTitle},
         Create(c, u, title), view' = NoView
  PROVE  ConvInv'
<1>1. PICK row : row = [state |-> "open", owner |-> u, title |-> title, updated |-> 0]
  OBVIOUS
<1>2. /\ convs[c].state = "free" /\ convs' = [convs EXCEPT ![c] = row]
      /\ UNCHANGED <<messages, requests, stamps, commits, answered, overlaps>>
  BY <1>1 DEF Create
<1>3. row \in ConvRows /\ row.state = "open" /\ row.owner = u /\ row.title = title /\ title <= 0
  BY <1>1 DEF ConvInv, ConvTypeOK, ConvRows, ConvStates, NewTitle, GivenTitle
<1>4. /\ convs' \in [Convs -> ConvRows] /\ convs'[c] = row
      /\ \A d \in Convs : d # c => convs'[d] = convs[d]
  BY <1>2, <1>3 DEF ConvInv, ConvTypeOK
<1>5. ConvTypeOK'
  BY <1>2, <1>4 DEF ConvInv, ConvTypeOK
<1>6. MessagesOf(c) = {} /\ \A d : MessagesOf(d)' = MessagesOf(d)
  BY <1>2 DEF ConvInv, MessagesHaveHome, MessagesOf
<1>7. MessagesHaveHome'
  BY <1>2, <1>4 DEF ConvInv, MessagesHaveHome, ConvTypeOK, MessageRows
<1>8. ASSUME NEW d \in Convs PROVE Whole(d)'
  <2>1. CASE d = c
    <3>1. MessagesOf(d)' = {} /\ convs'[d].title = title
      BY <1>3, <1>4, <1>6, <2>1
    <3>2. (title # GivenTitle => title = NewTitle) /\ ~(title > 0)
      BY DEF NewTitle, GivenTitle
    <3>3. FirstOf(NewTitle, {})
      BY DEF FirstOf
    <3> QED
      BY <3>1, <3>2, <3>3 DEF Whole
  <2>2. CASE d # c
    BY <1>2, <1>4, <1>6, <2>2 DEF ConvInv, Whole, IsOpen
  <2> QED
    BY <2>1, <2>2
<1>9. ASSUME NEW t \in Threads PROVE RequestTrue(requests[t])'
  <2>1. PICK r : r = requests[t]
    OBVIOUS
  <2>2. RequestTrue(r) /\ r \in Requests /\ requests'[t] = r
    BY <1>2, <2>1 DEF ConvInv, ConvTypeOK
  <2>3. r.op \in {"read", "get"} => r.conv # c /\ r.conv \in Convs
    BY <1>2, <2>2 DEF RequestTrue, Named
  <2>4. Named(r)'
    BY <1>2, <1>4, <2>2, <2>3 DEF RequestTrue, Named
  <2>5. Fresh(r)' /\ SeedRead(r)' /\ InLine(r)'
    BY <1>2, <1>4, <1>6, <2>2, <2>3 DEF RequestTrue, Fresh, SeedRead, InLine, IsOpen
  <2>6. RequestTrue(r)'
    BY <2>4, <2>5 DEF RequestTrue
  <2> QED
    BY <2>2, <2>6 DEF RequestTrue, Named, Fresh, SeedRead, InLine
<1>10. GetIsComplete'
  BY NothingViewed
<1>11. Apart'
  BY <1>2 DEF ConvInv, Apart
<1> QED
  BY <1>2, <1>5, <1>7, <1>8, <1>9, <1>10, <1>11 DEF ConvInv, Stamped

\* build_conversation_delete_response: the messages go with their conversation.
LEMMA DeleteStep ==
  ASSUME ConvInv, NEW c \in Convs, NEW u \in Users, Delete(c, u), view' = NoView
  PROVE  ConvInv'
<1>1. PICK row : row = convs[c]
  OBVIOUS
<1>2. PICK q : q = [row EXCEPT !.state = "deleted"]
  OBVIOUS
<1>3. row \in ConvRows
  BY <1>1 DEF ConvInv, ConvTypeOK
<1>4. q \in ConvRows /\ q.state = "deleted" /\ q.owner = row.owner
  BY <1>2, <1>3 DEF ConvRows, ConvStates
<1>5. /\ convs' = [convs EXCEPT ![c] = q] /\ messages' = messages \ MessagesOf(c)
      /\ UNCHANGED <<requests, stamps, commits, answered, overlaps>>
  BY <1>1, <1>2 DEF Delete
<1>6. /\ convs' \in [Convs -> ConvRows] /\ convs'[c] = q
      /\ \A d \in Convs : d # c => convs'[d] = convs[d]
  BY <1>4, <1>5 DEF ConvInv, ConvTypeOK
<1>7. ConvTypeOK'
  BY <1>5, <1>6 DEF ConvInv, ConvTypeOK
<1>8. /\ messages' \subseteq messages /\ \A m \in messages' : m.conv # c
      /\ \A d : d # c => MessagesOf(d)' = MessagesOf(d)
  BY <1>5 DEF MessagesOf
<1>9. MessagesHaveHome'
  BY <1>6, <1>8 DEF ConvInv, MessagesHaveHome, ConvTypeOK, MessageRows
<1>10. ASSUME NEW d \in Convs PROVE Whole(d)'
  <2>1. CASE d = c
    BY <1>4, <1>6, <2>1 DEF Whole, IsOpen
  <2>2. CASE d # c
    BY <1>5, <1>6, <1>8, <2>2 DEF ConvInv, Whole, IsOpen
  <2> QED
    BY <2>1, <2>2
<1>11. ASSUME NEW t \in Threads PROVE RequestTrue(requests[t])'
  <2>1. PICK r : r = requests[t]
    OBVIOUS
  <2>2. RequestTrue(r) /\ r \in Requests /\ requests'[t] = r
    BY <1>5, <2>1 DEF ConvInv, ConvTypeOK
  <2>3. Named(r)' /\ Fresh(r)'
    BY <1>1, <1>4, <1>5, <1>6, <1>8, <2>2 DEF RequestTrue, Named, Fresh
  <2>4. CASE r.op = "idle" \/ r.conv = c
    <3>1. ~Appends(r) \/ ~IsOpen(r.conv)'
      BY <1>4, <1>6, <2>4 DEF Appends, IsOpen
    <3>2. SeedRead(r)' /\ InLine(r)'
      BY <1>5, <1>8, <2>2, <2>4, <3>1 DEF RequestTrue, SeedRead, InLine, Appends, MessagesOf
    <3> QED
      BY <2>2, <2>3, <3>2 DEF RequestTrue, Named, Fresh, SeedRead, InLine
  <2>5. CASE r.op # "idle" /\ r.conv # c
    <3>1. r.conv \in Convs
      BY <2>2, <2>5 DEF RequestTrue, Named
    <3>2. SeedRead(r)' /\ InLine(r)'
      BY <1>5, <1>6, <1>8, <2>2, <2>5, <3>1 DEF RequestTrue, SeedRead, InLine, IsOpen
    <3> QED
      BY <2>2, <2>3, <3>2 DEF RequestTrue, Named, Fresh, SeedRead, InLine
  <2> QED
    BY <2>4, <2>5
<1>12. GetIsComplete'
  BY NothingViewed
<1>13. Apart'
  BY <1>5 DEF ConvInv, Apart
<1>14. Stamped(messages)' /\ \A m \in messages' : m.id \in stamps /\ m.nth <= commits
  BY <1>8 DEF ConvInv, Stamped
<1> QED
  BY <1>5, <1>7, <1>9, <1>10, <1>11, <1>12, <1>13, <1>14 DEF ConvInv

\* A request begins or goes on: nothing but the request itself changes, and what is
\* said of a request holds of it.
LEMMA RequestStep ==
  ASSUME ConvInv, NEW t \in Threads, NEW q \in Requests, requests' = [requests EXCEPT ![t] = q],
         UNCHANGED <<convs, messages, stamps, commits, answered, overlaps>>, view' = NoView, RequestTrue(q),
         Appends(q) => /\ Appends(requests[t])
                       /\ q.id = requests[t].id /\ q.conv = requests[t].conv
  PROVE  ConvInv'
<1>1. /\ requests' \in [Threads -> Requests]
      /\ requests'[t] = q /\ \A s \in Threads : s # t => requests'[s] = requests[s]
  BY DEF ConvInv, ConvTypeOK
<1>2. ConvTypeOK'
  BY <1>1 DEF ConvInv, ConvTypeOK
<1>3. ASSUME NEW s \in Threads PROVE RequestTrue(requests[s])'
  <2>1. PICK r : r = requests'[s]
    OBVIOUS
  <2>2. RequestTrue(r)
    BY <1>1, <2>1 DEF ConvInv
  <2>3. RequestTrue(r)'
    BY <2>2 DEF RequestTrue, Named, Fresh, SeedRead, InLine, IsOpen, MessagesOf
  <2> QED
    BY <2>1, <2>3 DEF RequestTrue, Named, Fresh, SeedRead, InLine
<1>4. Apart'
  BY <1>1 DEF ConvInv, Apart
<1>5. \A c \in Convs : Whole(c)'
  BY DEF ConvInv, Whole, IsOpen, MessagesOf
<1>6. MessagesHaveHome' /\ Stamped(messages)' /\ GetIsComplete'
  BY NothingViewed DEF ConvInv, MessagesHaveHome, Stamped
<1> QED
  BY <1>2, <1>3, <1>4, <1>5, <1>6 DEF ConvInv

\* The first SELECT of a get.
LEMMA BeginGetStep ==
  ASSUME ConvInv, NEW t \in Threads, NEW c \in Convs, NEW u \in Users, BeginGet(t, c, u),
         view' = NoView
  PROVE  ConvInv'
<1>1. PICK q : q = [Idle EXCEPT !.op = "get", !.user = u, !.conv = c, !.known = answered]
  OBVIOUS
<1>2. answered \in SUBSET Nat
  BY DEF ConvInv, ConvTypeOK
<1>3. q \in Requests /\ q.op = "get" /\ q.user = u /\ q.conv = c /\ q.known = answered
  BY <1>1, <1>2, IdleTrue, Zenon DEF Requests
<1>4. /\ requests' = [requests EXCEPT ![t] = q] /\ Owned(c, u)
      /\ UNCHANGED <<convs, messages, stamps, commits, answered, overlaps>>
  BY <1>1, Zenon DEF BeginGet
<1>5. RequestTrue(q) /\ ~Appends(q)
  BY <1>3, <1>4 DEF RequestTrue, Named, Fresh, SeedRead, InLine, Appends, Owned
<1> QED
  BY <1>3, <1>4, <1>5, RequestStep

\* append's read of the title: a seeded one is that of a message that is there.
LEMMA ReadTitleStep ==
  ASSUME ConvInv, NEW t \in Threads, ReadTitle(t), view' = NoView
  PROVE  ConvInv'
<1>1. PICK r : r = requests[t]
  OBVIOUS
<1>2. r \in Requests /\ RequestTrue(r) /\ r.op = "stamped"
  BY <1>1 DEF ConvInv, ConvTypeOK, ReadTitle
<1>3. UNCHANGED <<convs, messages, stamps, commits, answered, overlaps>>
  BY DEF ReadTitle
<1>4. CASE ~Owned(r.conv, r.user)
  <2>1. requests' = [requests EXCEPT ![t] = Idle]
    BY <1>1, <1>4, Zenon DEF ReadTitle
  <2>2. GetIsComplete'
    BY NothingViewed
  <2> QED
    BY <1>3, <2>1, <2>2, EndStep
<1>5. CASE Owned(r.conv, r.user)
  <2>0. PICK title : title = convs[r.conv].title
    OBVIOUS
  <2>1. PICK q : q = [r EXCEPT !.op = "read", !.title = title]
    OBVIOUS
  <2>2. r.conv \in Convs /\ title \in Int
    BY <1>2, <2>0 DEF RequestTrue, Named, ConvInv, ConvTypeOK, ConvRows
  <2>3. /\ q \in Requests /\ q.op = "read" /\ q.title = title
        /\ q.user = r.user /\ q.conv = r.conv /\ q.id = r.id /\ q.known = r.known
    BY <1>2, <2>1, <2>2, Zenon DEF Requests
  <2>4. requests' = [requests EXCEPT ![t] = q]
    BY <1>1, <1>5, <2>0, <2>1, Zenon DEF ReadTitle
  <2>5. Appends(q) /\ Appends(r)
    BY <1>2, <2>3 DEF Appends
  <2>6. Named(q) /\ Fresh(q)
    BY <1>2, <1>5, <2>2, <2>3, <2>5 DEF RequestTrue, Named, Fresh, Owned
  <2>7. SeedRead(q)
    BY <2>0, <2>2, <2>3 DEF ConvInv, Whole, SeedRead
  <2>8. InLine(q)
    BY <1>2, <2>0, <2>3, <2>5 DEF RequestTrue, InLine
  <2>9. RequestTrue(q)
    BY <2>6, <2>7, <2>8 DEF RequestTrue
  <2> QED
    BY <1>1, <1>3, <2>3, <2>4, <2>5, <2>9, RequestStep
<1> QED
  BY <1>4, <1>5

\* An append takes a stamp; if another is under way on the conversation they
\* overlap from now on.
LEMMA BeginAppendStep ==
  ASSUME ConvInv, NEW t \in Threads, NEW c \in Convs, NEW u \in Users, NEW text \in Texts,
         NEW stamp \in 1..MaxMessages, BeginAppend(t, c, u, text, stamp), view' = NoView
  PROVE  ConvInv'
<1>1. PICK role, names : role = text.role /\ names = text.names /\ role \in Roles /\ names \in BOOLEAN
  BY DEF Texts
<1>2. PICK q : q = [Idle EXCEPT !.op = "stamped", !.user = u, !.conv = c, !.id = stamp,
                                !.role = role, !.names = names]
  OBVIOUS
<1>3. stamp \in Nat \ {0} /\ stamp \notin stamps /\ stamps' = stamps \cup {stamp}
  BY ConvAssumption DEF ConvInv, ConvTypeOK, BeginAppend
<1>4. /\ q \in Requests /\ q.op = "stamped" /\ q.user = u /\ q.conv = c /\ q.id = stamp
      /\ q.known = {}
  <2>1. "stamped" \in {"idle", "stamped", "read", "get"}
    OBVIOUS
  <2>2. Idle.known = {}
    BY DEF Idle
  <2>3. Idle \in Requests /\ stamp \in Nat
    BY <1>3, IdleTrue
  <2> QED
    BY <1>1, <1>2, <2>1, <2>2, <2>3, Zenon DEF Requests
<1>5. /\ requests' = [requests EXCEPT ![t] = q]
      /\ overlaps' = overlaps \cup {d \in {c} : \E s \in Threads : Appends(requests[s]) /\ requests[s].conv = d}
      /\ UNCHANGED <<convs, messages, commits, answered>> /\ ~Appends(requests[t])
  BY <1>1, <1>2 DEF BeginAppend, Appends
<1>6. /\ requests' \in [Threads -> Requests] /\ requests'[t] = q
      /\ \A s \in Threads : s # t => requests'[s] = requests[s]
  BY <1>4, <1>5 DEF ConvInv, ConvTypeOK
<1>7. ConvTypeOK'
  BY <1>3, <1>5, <1>6 DEF ConvInv, ConvTypeOK
<1>8. /\ overlaps \subseteq overlaps'
      /\ \A s \in Threads : (Appends(requests[s]) /\ requests[s].conv = c) => c \in overlaps'
  BY <1>5
<1>9. \A m \in messages : m.id # stamp
  BY <1>3 DEF ConvInv
<1>11. RequestTrue(q)'
  <2>1. Named(q)' /\ SeedRead(q)'
    BY <1>4, <1>5 DEF Named, SeedRead
  <2>2. Fresh(q)'
    <3>1. stamp \notin answered
      BY <1>3 DEF ConvInv
    <3> QED
      BY <1>3, <1>4, <1>5, <1>9, <3>1 DEF Fresh
  <2>3. InLine(q)'
    BY <1>4 DEF InLine
  <2> QED
    BY <2>1, <2>2, <2>3 DEF RequestTrue
<1>12. ASSUME NEW s \in Threads PROVE RequestTrue(requests[s])'
  <2>1. PICK r : r = requests'[s]
    OBVIOUS
  <2>2. CASE s = t
    BY <1>6, <1>11, <2>2 DEF RequestTrue, Named, Fresh, SeedRead, InLine
  <2>3. CASE s # t
    <3>1. RequestTrue(r)
      BY <1>6, <2>1, <2>3 DEF ConvInv
    <3>2. Named(r)' /\ SeedRead(r)'
      BY <1>5, <3>1 DEF RequestTrue, Named, SeedRead, IsOpen, MessagesOf
    <3>3. Fresh(r)'
      BY <1>3, <1>5, <3>1 DEF RequestTrue, Fresh
    <3>4. InLine(r)'
      BY <1>5, <1>8, <3>1 DEF RequestTrue, InLine, IsOpen, MessagesOf
    <3> QED
      BY <2>1, <3>2, <3>3, <3>4 DEF RequestTrue, Named, Fresh, SeedRead, InLine
  <2> QED
    BY <2>2, <2>3
<1>13. Apart'
  <2>1. SUFFICES ASSUME NEW s \in Threads, NEW o \in Threads,
                        Appends(requests'[s]), Appends(requests'[o]),
                        \/ requests'[s].id = requests'[o].id
                        \/ requests'[s].conv = requests'[o].conv /\ requests'[s].conv \notin overlaps'
                 PROVE  s = o
    BY DEF Apart
  <2>2. \A p \in Threads : (p # t /\ Appends(requests'[p])) =>
           requests[p].id # stamp /\ (requests[p].conv = c => c \in overlaps')
    BY <1>3, <1>6, <1>8 DEF ConvInv, RequestTrue, Fresh
  <2>3. CASE s = t /\ o # t
    BY <1>4, <1>6, <2>1, <2>2, <2>3
  <2>4. CASE o = t /\ s # t
    BY <1>4, <1>6, <2>1, <2>2, <2>4
  <2>5. CASE s # t /\ o # t
    <3>1. Apart
      BY DEF ConvInv
    <3>2. requests'[s] = requests[s] /\ requests'[o] = requests[o]
      BY <1>6, <2>5
    <3>3. requests[s].conv \notin overlaps' => requests[s].conv \notin overlaps
      BY <1>8
    <3> QED
      BY <2>1, <3>1, <3>2, <3>3 DEF Apart
  <2> QED
    BY <2>3, <2>4, <2>5
<1>14. \A d \in Convs : Whole(d)'
  BY <1>5, <1>8 DEF ConvInv, Whole, IsOpen, MessagesOf
<1>15. \A m \in messages' : m.id \in stamps' /\ m.nth <= commits'
  BY <1>3, <1>5 DEF ConvInv
<1>16. answered' \subseteq stamps'
  BY <1>3, <1>5 DEF ConvInv
<1>17. GetIsComplete'
  BY NothingViewed
<1>18. MessagesHaveHome' /\ Stamped(messages)'
  BY <1>5 DEF ConvInv, MessagesHaveHome, Stamped
<1> QED
  BY <1>5, <1>7, <1>12, <1>13, <1>14, <1>15, <1>16, <1>17, <1>18 DEF ConvInv

\* The title of the first of the messages is still that of the first when a message
\* that is committed after all of them is written with the title append computes.
LEMMA FirstStays ==
  ASSUME NEW ms, NEW k \in Nat, \A m \in ms : m.id \in Nat \ {0} /\ m.nth \in Nat /\ m.nth <= k,
         NEW title, FirstOf(title, ms), NEW r, NEW x,
         x.id = r.id, x.nth = k + 1, r.title = title,
         MaySeed(x) <=> r.role = "user" /\ r.names
  PROVE  FirstOf(Seeded(r), ms \cup {x})
<1>1. CASE \E m \in ms : MaySeed(m)
  <2>1. PICK m \in ms : MaySeed(m) /\ m.id = title /\ \A n \in ms : MaySeed(n) => m.nth <= n.nth
    BY <1>1 DEF FirstOf
  <2>2. title # NewTitle
    BY <2>1 DEF NewTitle
  <2>3. Seeded(r) = title
    BY <2>2 DEF Seeded
  <2>4. \A o \in ms \cup {x} : MaySeed(o) => m.nth <= o.nth
    BY <2>1
  <2> QED
    BY <2>1, <2>3, <2>4 DEF FirstOf
<1>2. CASE ~\E m \in ms : MaySeed(m)
  <2>1. title = NewTitle
    BY <1>2 DEF FirstOf
  <2>2. CASE MaySeed(x)
    <3>1. Seeded(r) = r.id
      BY <2>1, <2>2 DEF Seeded
    <3> QED
      BY <1>2, <2>2, <3>1 DEF FirstOf
  <2>3. CASE ~MaySeed(x)
    <3>1. Seeded(r) = NewTitle
      BY <2>1, <2>3 DEF Seeded
    <3> QED
      BY <1>2, <2>3, <3>1 DEF FirstOf
  <2> QED
    BY <2>2, <2>3
<1> QED
  BY <1>1, <1>2

\* The commit of an append: the message, and its stamp and title on the conversation.
LEMMA CommitStep ==
  ASSUME ConvInv, NEW t \in Threads, NEW r, r = requests[t], r.op = "read", IsOpen(r.conv),
         messages' = Inserted(r), commits' = commits + 1, convs' = Touched(r), requests' = [requests EXCEPT ![t] = Idle],
         answered' = answered \/ answered' = answered \cup {r.id},
         UNCHANGED <<stamps, overlaps>>, view' = NoView
  PROVE  ConvInv'
<1>1. PICK x : x = [id |-> r.id, conv |-> r.conv, by |-> r.user, role |-> r.role,
                    names |-> r.names, nth |-> commits + 1]
  OBVIOUS
<1>2. PICK c : c = r.conv
  OBVIOUS
<1>3. r \in Requests /\ RequestTrue(r) /\ Appends(r)
  BY DEF ConvInv, ConvTypeOK, Appends
<1>4. /\ c \in Convs /\ r.user \in Users /\ convs[c].owner = r.user
      /\ r.id \in stamps /\ r.id \in Nat \ {0} /\ commits \in Nat
      /\ r.id \notin answered /\ \A m \in messages : m.id # r.id
  <2>1. r.id \in stamps /\ stamps \subseteq 1..MaxMessages /\ commits \in Nat
    BY <1>3 DEF RequestTrue, Fresh, ConvInv, ConvTypeOK
  <2>2. r.id \in Nat \ {0}
    <3>1. PICK stamp : stamp = r.id
      OBVIOUS
    <3>2. stamp \in 1..MaxMessages
      BY <2>1, <3>1
    <3>3. stamp \in Nat \ {0}
      BY ONLY <3>2, ConvAssumption
    <3> QED
      BY <3>1, <3>3
  <2>3. Named(r) /\ Fresh(r)
    BY <1>3 DEF RequestTrue
  <2>4. c \in Convs /\ r.user \in Users /\ convs[c].owner = r.user
    BY <1>2, <2>3 DEF Named
  <2>5. r.id \notin answered /\ \A m \in messages : m.id # r.id
    BY <1>3, <2>3 DEF Fresh
  <2> QED
    BY <2>1, <2>2, <2>4, <2>5
<1>5. /\ x \in MessageRows /\ x.id = r.id /\ x.conv = c /\ x.by = r.user
      /\ x.nth = commits + 1
      /\ MaySeed(x) <=> r.role = "user" /\ r.names
  BY <1>1, <1>2, <1>3, <1>4 DEF MessageRows, Requests, MaySeed
<1>6. messages' = messages \cup {x}
  BY <1>1 DEF Inserted
<1>7. MessagesOf(c)' = MessagesOf(c) \cup {x} /\ \A d : d # c => MessagesOf(d)' = MessagesOf(d)
  BY <1>5, <1>6 DEF MessagesOf
<1>8. PICK row : row = convs[c]
  OBVIOUS
<1>9. PICK title : title = Seeded(r)
  OBVIOUS
<1>10. PICK q : q = [row EXCEPT !.updated = r.id, !.title = title]
  OBVIOUS
<1>11. row \in ConvRows /\ title \in Int /\ r.id \in Nat
  BY <1>3, <1>4, <1>8, <1>9 DEF ConvInv, ConvTypeOK, Seeded, Requests
<1>12. /\ q \in ConvRows /\ q.state = row.state /\ q.owner = row.owner
       /\ q.updated = r.id /\ q.title = title
  BY <1>10, <1>11, Zenon DEF ConvRows
<1>13. convs' = [convs EXCEPT ![c] = q]
  BY <1>2, <1>8, <1>9, <1>10, Zenon DEF Touched
<1>14. /\ convs' \in [Convs -> ConvRows] /\ convs'[c] = q
       /\ \A d \in Convs : d # c => convs'[d] = convs[d]
  BY <1>4, <1>12, <1>13 DEF ConvInv, ConvTypeOK
<1>15. \A d \in Convs : convs'[d].state = convs[d].state /\ convs'[d].owner = convs[d].owner
  BY <1>8, <1>12, <1>14
<1>16. /\ requests' \in [Threads -> Requests]
       /\ requests'[t] = Idle /\ \A s \in Threads : s # t => requests'[s] = requests[s]
  BY RequestEnds DEF ConvInv
<1>17. answered \subseteq answered' /\ answered' \subseteq answered \cup {r.id}
  OBVIOUS
<1>18. ConvTypeOK'
  BY <1>4, <1>5, <1>6, <1>14, <1>16, <1>17 DEF ConvInv, ConvTypeOK
<1>19. Stamped(messages)' /\ answered' \subseteq stamps'
  BY <1>4, <1>5, <1>6, <1>17 DEF ConvInv, Stamped
<1>27. \A m \in messages' : m.id \in stamps' /\ m.nth <= commits'
  <2>1. \A m \in messages : m.id \in stamps /\ m.nth \in Nat /\ m.nth <= commits
    BY DEF ConvInv, ConvTypeOK, MessageRows
  <2> QED
    BY <1>4, <1>5, <1>6, <2>1
<1>20. MessagesHaveHome'
  BY <1>2, <1>4, <1>5, <1>6, <1>15 DEF ConvInv, MessagesHaveHome, IsOpen, ConvTypeOK, MessageRows
<1>21. Whole(c)'
  <2>1. x \in MessagesOf(c)' /\ convs'[c].updated = x.id /\ convs'[c].title = title
    BY <1>5, <1>7, <1>12, <1>14
  <2>2. ASSUME title > 0 PROVE \E m \in MessagesOf(c)' : m.id = title /\ MaySeed(m)
    <3>1. CASE r.title = NewTitle /\ r.role = "user" /\ r.names
      BY <1>5, <1>9, <2>1, <3>1 DEF Seeded
    <3>2. CASE ~(r.title = NewTitle /\ r.role = "user" /\ r.names)
      <4>1. r.title = title
        BY <1>9, <3>2 DEF Seeded
      <4>2. \E m \in MessagesOf(c) : m.id = title /\ MaySeed(m)
        BY <1>2, <1>3, <2>2, <4>1 DEF RequestTrue, SeedRead
      <4> QED
        BY <1>7, <4>2
    <3> QED
      BY <3>1, <3>2
  <2>3. ASSUME c \notin overlaps, title # GivenTitle PROVE FirstOf(title, MessagesOf(c)')
    <3>1. r.title = convs[c].title
      BY <1>2, <1>3, <2>3 DEF RequestTrue, InLine
    <3>2. r.title # GivenTitle
      BY <1>9, <2>3 DEF Seeded, NewTitle, GivenTitle
    <3>3. FirstOf(r.title, MessagesOf(c))
      BY <1>2, <1>4, <2>3, <3>1, <3>2 DEF ConvInv, Whole
    <3>4. \A m \in MessagesOf(c) : m.id \in Nat \ {0} /\ m.nth \in Nat /\ m.nth <= commits
      BY DEF ConvInv, ConvTypeOK, MessageRows, Stamped, MessagesOf
    <3>5. FirstOf(Seeded(r), MessagesOf(c) \cup {x})
      BY <1>4, <1>5, <3>1, <3>3, <3>4, FirstStays
    <3> QED
      BY <1>7, <1>9, <3>5
  <2>4. overlaps' = overlaps
    OBVIOUS
  <2> QED
    BY <2>1, <2>2, <2>3, <2>4 DEF Whole
<1>22. \A d \in Convs : Whole(d)'
  <2>1. ASSUME NEW d \in Convs, d # c PROVE Whole(d)'
    BY <1>7, <1>14, <2>1 DEF ConvInv, Whole, IsOpen
  <2> QED
    BY <1>21, <2>1
<1>23. ASSUME NEW s \in Threads PROVE RequestTrue(requests[s])'
  <2>1. CASE s = t
    BY <1>16, <2>1, IdleTrue DEF RequestTrue, Named, Fresh, SeedRead, InLine
  <2>2. CASE s # t
    <3>1. PICK o : o = requests[s]
      OBVIOUS
    <3>2. RequestTrue(o) /\ requests'[s] = o
      BY <1>16, <2>2, <3>1 DEF ConvInv
    <3>3. Appends(o) => o.id # r.id /\ (o.conv = c => c \in overlaps)
      <4>1. Apart
        BY DEF ConvInv
      <4> QED
        BY <1>2, <1>3, <2>2, <3>1, <4>1 DEF Apart
    <3>4. o.op # "idle" => o.conv \in Convs
      BY <3>2 DEF RequestTrue, Named
    <3>5. Named(o)'
      BY <1>15, <1>17, <3>2, <3>4 DEF RequestTrue, Named
    <3>6. Fresh(o)'
      BY <1>5, <1>6, <1>17, <3>2, <3>3 DEF RequestTrue, Fresh
    <3>7. SeedRead(o)'
      <4>1. SUFFICES ASSUME o.op = "read", IsOpen(o.conv)', o.title > 0
                     PROVE  \E m \in MessagesOf(o.conv)' : m.id = o.title /\ MaySeed(m)
        BY DEF SeedRead
      <4>2. IsOpen(o.conv)
        BY <1>15, <3>4, <4>1 DEF IsOpen
      <4>3. \E m \in MessagesOf(o.conv) : m.id = o.title /\ MaySeed(m)
        BY <3>2, <4>1, <4>2 DEF RequestTrue, SeedRead
      <4>4. MessagesOf(o.conv) \subseteq MessagesOf(o.conv)'
        BY <1>7
      <4> QED
        BY <4>3, <4>4
    <3>8. InLine(o)'
      <4>1. CASE o.op # "read" \/ o.conv \in overlaps
        BY <4>1 DEF InLine
      <4>2. CASE o.op = "read" /\ o.conv \notin overlaps
        <5>1. o.conv # c /\ o.conv \in Convs
          BY <3>3, <3>4, <4>2 DEF Appends
        <5>2. MessagesOf(o.conv)' = MessagesOf(o.conv) /\ convs'[o.conv] = convs[o.conv]
          BY <1>7, <1>14, <5>1
        <5> QED
          BY <3>2, <5>2 DEF RequestTrue, InLine, IsOpen
      <4> QED
        BY <4>1, <4>2
    <3>9. RequestTrue(o)'
      BY <3>5, <3>6, <3>7, <3>8 DEF RequestTrue
    <3> QED
      BY <3>2, <3>9 DEF RequestTrue, Named, Fresh, SeedRead, InLine
  <2> QED
    BY <2>1, <2>2
<1>24. Apart'
  <2>1. Apart
    BY DEF ConvInv
  <2> QED
    BY <1>16, <2>1, IdleTrue DEF Apart
<1>25. GetIsComplete'
  BY NothingViewed
<1> QED
  BY <1>18, <1>19, <1>27, <1>20, <1>22, <1>23, <1>24, <1>25 DEF ConvInv

\* append's transaction: it commits, fails, or commits without being heard of.
LEMMA WriteStep ==
  ASSUME ConvInv, NEW t \in Threads, WriteMessage(t) \/ AppendFails(t), view' = NoView
  PROVE  ConvInv'
<1>1. PICK r : r = requests[t]
  OBVIOUS
<1>2. requests' = [requests EXCEPT ![t] = Idle] /\ UNCHANGED <<stamps, overlaps>>
  BY DEF WriteMessage, AppendFails
<1>3. \/ UNCHANGED <<convs, messages, commits, answered>>
      \/ /\ r.op = "read" /\ IsOpen(r.conv) /\ messages' = Inserted(r) /\ convs' = Touched(r)
         /\ commits' = commits + 1
         /\ answered' = answered \/ answered' = answered \cup {r.id}
  BY <1>1, Zenon DEF WriteMessage, AppendFails, IsOpen
<1>4. CASE UNCHANGED <<convs, messages, commits, answered>>
  <2>1. GetIsComplete'
    BY NothingViewed
  <2> QED
    BY <1>2, <1>4, <2>1, EndStep
<1>5. CASE /\ r.op = "read" /\ IsOpen(r.conv) /\ messages' = Inserted(r) /\ convs' = Touched(r)
           /\ commits' = commits + 1
           /\ answered' = answered \/ answered' = answered \cup {r.id}
  BY <1>1, <1>2, <1>5, CommitStep
<1> QED
  BY <1>3, <1>4, <1>5

\* The second SELECT of a get: the messages are the caller's, as the conversation
\* is, and all that had been answered are among them if it is still there.
LEMMA FinishGetStep ==
  ASSUME ConvInv, NEW t \in Threads, FinishGet(t) PROVE ConvInv'
<1>1. PICK r : r = requests[t]
  OBVIOUS
<1>2. PICK ms : ms = MessagesOf(r.conv)
  OBVIOUS
<1>3. PICK s : s = InOrder(ms)
  OBVIOUS
<1>4. /\ requests' = [requests EXCEPT ![t] = Idle]
      /\ view' = [conv |-> r.conv, user |-> r.user, found |-> s, known |-> r.known]
      /\ UNCHANGED <<convs, messages, stamps, commits, answered, overlaps>>
      /\ r.op = "get"
  BY <1>1, <1>2, <1>3 DEF FinishGet
<1>5. RequestTrue(r)
  BY <1>1 DEF ConvInv
<1>6. \A m \in ms : m.by = r.user
  BY <1>2, <1>4, <1>5 DEF RequestTrue, Named, ConvInv, MessagesHaveHome, MessagesOf
<1>7. /\ s \in [1..Cardinality(ms) -> ms] /\ Ascending(s) /\ Covers(s, ms)
      /\ Cardinality(ms) \in Nat
  <2>1. Stamped(ms) /\ MaxMessages \in Nat /\ \A m \in ms : m.id <= MaxMessages
    BY <1>2, ConvAssumption DEF ConvInv, ConvTypeOK, Stamped, MessagesOf
  <2> QED
    BY <1>3, <2>1, InOrderWhole
<1>8. DOMAIN s = 1..Cardinality(ms) /\ Len(s) = Cardinality(ms)
  BY <1>7
<1>9. \A m \in ms : Contains(s, m)
  BY <1>7, <1>8 DEF Contains, Covers
<1>10. GetIsComplete'
  <2>1. /\ view'.found = s /\ view'.user = r.user /\ view'.conv = r.conv
        /\ MessagesOf(r.conv)' = ms
    BY <1>2, <1>4 DEF MessagesOf
  <2>2. \A i \in DOMAIN s : s[i].by = r.user
    BY <1>6, <1>7, <1>8
  <2>3. \A i, j \in DOMAIN s : i < j => s[i].id < s[j].id
    BY <1>7 DEF Ascending
  <2> QED
    BY <1>9, <2>1, <2>2, <2>3 DEF GetIsComplete
<1> QED
  BY <1>4, <1>10, EndStep

LEMMA ConvStep ==
  ASSUME ConvInv, [ConvNext]_convVars PROVE ConvInv'
<1>1. CASE UNCHANGED convVars
  <2> USE <1>1 DEF convVars
  <2>1. ConvTypeOK' /\ Stamped(messages)' /\ MessagesHaveHome' /\ Apart' /\ GetIsComplete'
    BY DEF ConvInv, ConvTypeOK, Stamped, MessagesHaveHome, Apart, GetIsComplete, MessagesOf
  <2>2. \A t \in Threads : RequestTrue(requests[t])'
    BY DEF ConvInv, RequestTrue, Named, Fresh, SeedRead, InLine, IsOpen, MessagesOf
  <2>3. \A c \in Convs : Whole(c)'
    BY DEF ConvInv, Whole, IsOpen, MessagesOf
  <2> QED
    BY <2>1, <2>2, <2>3 DEF ConvInv
<1>2. ASSUME view' = NoView, NEW c \in Convs, NEW u \in Users,
             \/ \E title \in {NewTitle, GivenTitle} : Create(c, u, title)
             \/ Delete(c, u)
             \/ \E t \in Threads : BeginGet(t, c, u)
             \/ \E t \in Threads, text \in Texts, stamp \in 1..MaxMessages : BeginAppend(t, c, u, text, stamp)
      PROVE  ConvInv'
  BY <1>2, CreateStep, DeleteStep, BeginGetStep, BeginAppendStep
<1>3. ASSUME view' = NoView, NEW t \in Threads, ReadTitle(t) \/ WriteMessage(t) \/ AppendFails(t)
      PROVE  ConvInv'
  BY <1>3, ReadTitleStep, WriteStep
<1>4. ASSUME NEW t \in Threads, FinishGet(t) PROVE ConvInv'
  BY <1>4, FinishGetStep
<1> QED
  BY <1>1, <1>2, <1>3, <1>4 DEF ConvNext

----------------------------------------------------------------------------
\* The theorems.

\* The stores share no state: a step of one stutters in the others.
LEMMA DataInvariant == DataSpec => [](ConvInv /\ NotesInv /\ MemInv)
<1>1. DataInit => ConvInv /\ NotesInv /\ MemInv
  BY ConvInvInit, NotesInvInit, MemInvInit DEF DataInit
<1>2. [DataNext]_dataVars => [ConvNext]_convVars /\ [NotesNext]_noteVars /\ [MemNext]_memVars
  BY DEF DataNext, dataVars
<1>3. ConvInv /\ NotesInv /\ MemInv /\ [DataNext]_dataVars => (ConvInv /\ NotesInv /\ MemInv)'
  BY <1>2, ConvStep, NotesStep, MemStep
<1> QED
  BY <1>1, <1>3, PTL DEF DataSpec

\* Appends of one user overlap, fail halfway and are overtaken by deletes, with a
\* title read in one statement and written in another: every message is in an open
\* conversation of its sender's, whose stamp and title are those of messages in it,
\* and which is named after the first committed that may name it where no appends
\* have overlapped, whatever the clocks of the replicas say.
THEOREM ConversationsAreWhole == DataSpec => []ConversationsWhole
<1>1. ConvInv => AppendIsWhole
  BY DEF ConvInv, Whole, IsOpen, MaySeed, Seeds, AppendIsWhole
<1>2. ConvInv => FirstMessageNames
  <2>1. SUFFICES ASSUME ConvInv, NEW c \in Convs,
                        IsOpen(c), c \notin overlaps, convs[c].title # GivenTitle
                 PROVE  IF Seeds(c) = {} THEN convs[c].title = NewTitle
                        ELSE \E m \in Seeds(c) : m.id = convs[c].title /\ \A n \in Seeds(c) : m.nth <= n.nth
    BY DEF FirstMessageNames, IsOpen
  <2>2. FirstOf(convs[c].title, MessagesOf(c))
    BY <2>1 DEF ConvInv, Whole
  <2>3. Seeds(c) = {m \in MessagesOf(c) : MaySeed(m)}
    BY DEF Seeds, MaySeed
  <2> QED
    BY <2>2, <2>3 DEF FirstOf
<1>3. ConvInv => MessagesHaveHome
  BY DEF ConvInv
<1> QED
  BY <1>1, <1>2, <1>3, DataInvariant, PTL DEF ConversationsWhole

\* Other requests commit between the two SELECTs of a get: it answers the caller's
\* messages alone, in order, and every one that had been answered 201 when it began
\* and is still there.
THEOREM GetsAreComplete == DataSpec => []GetIsComplete
<1>1. ConvInv => GetIsComplete
  BY DEF ConvInv
<1> QED
  BY <1>1, DataInvariant, PTL

\* The editor applies answers to whatever is on the screen, and answers may be lost
\* after the server has done its work: a document holds what was written for another
\* only if an answer found the other on the screen, a draft is saved twice only if
\* the answer to its creation was lost or not waited for, and a user who waits for
\* saves and revisions has neither happen.
THEOREM EditorIsFaithful == DataSpec => []EditorFaithful
<1>1. NotesInv => EditsStayHome
  BY DEF NotesInv, NotesTypeOK, Kept, EditsStayHome
<1>2. NotesInv => DraftSavedOnce
  BY DEF NotesInv, Once, FiledOnce, Filed, Blamed, DraftSavedOnce
<1>3. NotesInv => WaitingIsSafe
  BY DEF NotesInv, Waiting, WaitingIsSafe
<1> QED
  BY <1>1, <1>2, <1>3, DataInvariant, PTL DEF EditorFaithful

\* Embedding the query of a recall takes any time, and memories are recorded and
\* deleted meanwhile: what it answers is the caller's, was not deleted when it was
\* asked for, and is no more than the cap whatever was asked for.
THEOREM RecallsAreSound == DataSpec => []RecallIsSound
<1>1. MemInv => RecallIsSound
  BY DEF MemInv, AnswerTrue, RecallIsSound
<1> QED
  BY <1>1, DataInvariant, PTL
=============================================================================
