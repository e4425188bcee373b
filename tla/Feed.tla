-------------------------------- MODULE Feed --------------------------------
(***************************************************************************)
(* What the notification service promises the reader of a push stream,     *)
(* whatever store is behind it and however it is polled: on a connection   *)
(* each event is pushed at most once, only events of the reader, and only  *)
(* events that were unread at some time since the connection was opened.   *)
(***************************************************************************)
EXTENDS Sequences, FiniteSets

CONSTANTS Events, Owners, Reader

VARIABLES
  past,      \* events that have ever been in a box
  unread,    \* owner -> unread events
  open,      \* the reader's connection
  eligible,  \* events that may be pushed on it
  delivered  \* events pushed on it, in order

feedVars == <<past, unread, open, eligible, delivered>>

Init ==
  /\ past = {} /\ unread = [u \in Owners |-> {}]
  /\ open = FALSE /\ eligible = {} /\ delivered = <<>>

\* An event comes in, once, and may push others out of its owner's box.
Arrive(u, e) ==
  /\ e \notin past
  /\ past' = past \cup {e}
  /\ \E gone \in SUBSET unread[u] : unread' = [unread EXCEPT ![u] = (@ \ gone) \cup {e}]
  /\ eligible' = IF open /\ u = Reader THEN eligible \cup {e} ELSE eligible
  /\ UNCHANGED <<open, delivered>>

MarkRead(u, e) ==
  /\ unread' = [unread EXCEPT ![u] = @ \ {e}]
  /\ UNCHANGED <<past, open, eligible, delivered>>

Connect ==
  /\ ~open
  /\ open' = TRUE
  /\ eligible' = unread[Reader]
  /\ UNCHANGED <<past, unread, delivered>>

Deliver(e) ==
  /\ open
  /\ e \in eligible
  /\ \A i \in DOMAIN delivered : delivered[i] # e
  /\ delivered' = Append(delivered, e)
  /\ UNCHANGED <<past, unread, open, eligible>>

Disconnect ==
  /\ open
  /\ open' = FALSE
  /\ eligible' = {} /\ delivered' = <<>>
  /\ UNCHANGED <<past, unread>>

Next ==
  \/ \E u \in Owners, e \in Events : Arrive(u, e) \/ MarkRead(u, e)
  \/ \E e \in Events : Deliver(e)
  \/ Connect \/ Disconnect

Spec == Init /\ [][Next]_feedVars
============================================================================
