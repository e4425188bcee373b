--------------------------- MODULE Conversations ---------------------------
(***************************************************************************)
(* Server-side conversations (src/app/control_plane/conversations.py on    *)
(* PostgreSQL, READ COMMITTED).  append stamps its message before it has a *)
(* connection, reads the title, then inserts and updates in the same       *)
(* transaction with the title it read; get is two SELECTs.  The browser    *)
(* posts its messages without waiting for the answers, so requests of one  *)
(* user overlap too.                                                       *)
(*                                                                         *)
(* A message is its stamp, of the clock of the replica that takes it: no   *)
(* two are the same, and they need not be in the order of the requests.  A *)
(* title is the message it was seeded from, NewTitle or GivenTitle.  The   *)
(* inserted row locks its conversation until the commit (foreign key), so  *)
(* insert, update and commit are one step against a delete.                *)
(***************************************************************************)
EXTENDS Integers, Sequences, FiniteSets, SequencesExt

CONSTANTS
  Convs,       \* conversation ids
  Users,       \* callers, (tenant, user)
  Threads,     \* requests that can be under way at once
  MaxMessages  \* bound on append requests

ASSUME ConvAssumption == MaxMessages \in Nat

VARIABLES
  convs,     \* table conversations: state, owner, title, updated_at
  messages,  \* table conversation_messages
  requests,  \* thread -> the append or get it serves
  stamps,    \* stamps taken so far
  commits,   \* appends committed so far
  answered,  \* append requests answered 201
  view,      \* what the last step, a get's, answered
  overlaps   \* conversations on which two appends overlapped

convVars == <<convs, messages, requests, stamps, commits, answered, view, overlaps>>

NewTitle == 0
GivenTitle == -1
Roles == {"user", "assistant"}  \* _VALID_ROLES but "system", which is like "assistant"
\* What a message may be: who speaks, and whether the text, cut and stripped, is
\* neither empty nor "New conversation"; only the user's is asked.
Texts == {text \in [role : Roles, names : BOOLEAN] : text.names => text.role = "user"}
Absent == [state |-> "free", owner |-> "none", title |-> NewTitle, updated |-> 0]
Idle == [op |-> "idle", user |-> "none", conv |-> "none", id |-> 0, role |-> "user",
         names |-> FALSE, title |-> NewTitle, known |-> {}]
NoView == [conv |-> "none", user |-> "none", found |-> <<>>, known |-> {}]

\* WHERE id = ... AND tenant_id = ... AND user_id = ...
Owned(c, u) == convs[c].state = "open" /\ convs[c].owner = u

MessagesOf(c) == {m \in messages : m.conv = c}

----------------------------------------------------------------------------
\* build_conversation_create_response
Create(c, u, title) ==
  /\ convs[c].state = "free"
  /\ convs' = [convs EXCEPT ![c] = [state |-> "open", owner |-> u, title |-> title, updated |-> 0]]
  /\ UNCHANGED <<messages, requests, stamps, commits, answered, overlaps>>

\* build_conversation_delete_response, with the cascade.
Delete(c, u) ==
  /\ Owned(c, u)
  /\ convs' = [convs EXCEPT ![c].state = "deleted"]
  /\ messages' = messages \ MessagesOf(c)
  /\ UNCHANGED <<requests, stamps, commits, answered, overlaps>>

\* build_conversation_append_response up to append's _now_utc(), on any replica.
BeginAppend(t, c, u, text, stamp) ==
  /\ requests[t].op = "idle"
  /\ stamp \in (1..MaxMessages) \ stamps
  /\ stamps' = stamps \cup {stamp}
  /\ requests' = [requests EXCEPT ![t] =
       [Idle EXCEPT !.op = "stamped", !.user = u, !.conv = c, !.id = stamp,
                    !.role = text.role, !.names = text.names]]
  /\ overlaps' = overlaps \cup
       {d \in {c} : \E s \in Threads : requests[s].op \in {"stamped", "read"} /\ requests[s].conv = d}
  /\ UNCHANGED <<convs, messages, commits, answered>>

\* append gets its connection and reads the title; not the caller's: 404.
ReadTitle(t) ==
  LET r == requests[t]
  IN /\ r.op = "stamped"
     /\ requests' = [requests EXCEPT ![t] =
          IF Owned(r.conv, r.user) THEN [r EXCEPT !.op = "read", !.title = convs[r.conv].title] ELSE Idle]
     /\ UNCHANGED <<convs, messages, stamps, commits, answered, overlaps>>

\* The title append writes: a title that reads "New conversation" still is the
\* text of a user message; if that names nothing, the title reads as before.
Seeded(r) == IF r.title = NewTitle /\ r.role = "user" /\ r.names THEN r.id ELSE r.title

\* INSERT and UPDATE as they stand after the commit, whatever number it has.
Inserted(r) ==
  messages \cup {[id |-> r.id, conv |-> r.conv, by |-> r.user, role |-> r.role,
                  names |-> r.names, nth |-> commits + 1]}
Touched(r) == [convs EXCEPT ![r.conv].updated = r.id, ![r.conv].title = Seeded(r)]

\* The rest of append; the insert fails if the conversation has gone (500).
WriteMessage(t) ==
  LET r == requests[t]
  IN /\ r.op = "read"
     /\ requests' = [requests EXCEPT ![t] = Idle]
     /\ IF convs[r.conv].state = "open"
        THEN /\ messages' = Inserted(r) /\ commits' = commits + 1
             /\ convs' = Touched(r)
             /\ answered' = answered \cup {r.id}
        ELSE UNCHANGED <<messages, commits, convs, answered>>
     /\ UNCHANGED <<stamps, overlaps>>

\* Mutant: the statements commit one by one.
AppendFailsHalfway(t) ==
  LET r == requests[t]
  IN /\ r.op \in {"stamped", "read"}
     /\ requests' = [requests EXCEPT ![t] = Idle]
     /\ r.op = "read" /\ convs[r.conv].state = "open"
     /\ messages' = Inserted(r) /\ commits' = commits + 1
     /\ UNCHANGED <<convs, stamps, answered, overlaps>>

\* The connection breaks: nothing happened, or the commit did and is not heard of.
AppendFails(t) ==
  LET r == requests[t]
  IN /\ r.op \in {"stamped", "read"}
     /\ requests' = [requests EXCEPT ![t] = Idle]
     /\ \/ UNCHANGED <<messages, commits, convs>>
        \/ /\ r.op = "read" /\ convs[r.conv].state = "open"
           /\ messages' = Inserted(r) /\ commits' = commits + 1
           /\ convs' = Touched(r)
     /\ UNCHANGED <<stamps, answered, overlaps>>

\* get, its first SELECT; not the caller's: 404.
BeginGet(t, c, u) ==
  /\ requests[t].op = "idle"
  /\ Owned(c, u)
  /\ requests' = [requests EXCEPT ![t] = [Idle EXCEPT !.op = "get", !.user = u, !.conv = c, !.known = answered]]
  /\ UNCHANGED <<convs, messages, stamps, commits, answered, overlaps>>

\* Mutant: newest first.
InOrderDescending(ms) ==
  CHOOSE s \in [1..Cardinality(ms) -> ms] : \A i, j \in DOMAIN s : i < j => s[i].id > s[j].id

\* ORDER BY created_at ASC
InOrder(ms) ==
  CHOOSE s \in [1..Cardinality(ms) -> ms] : \A i, j \in DOMAIN s : i < j => s[i].id < s[j].id

\* Its second SELECT, after whatever others committed in between.
FinishGet(t) ==
  LET r == requests[t]
  IN /\ r.op = "get"
     /\ requests' = [requests EXCEPT ![t] = Idle]
     /\ view' = [conv |-> r.conv, user |-> r.user, found |-> InOrder(MessagesOf(r.conv)), known |-> r.known]
     /\ UNCHANGED <<convs, messages, stamps, commits, answered, overlaps>>

ConvInit ==
  /\ convs = [c \in Convs |-> Absent]
  /\ messages = {} /\ stamps = {} /\ commits = 0 /\ answered = {} /\ overlaps = {}
  /\ requests = [t \in Threads |-> Idle]
  /\ view = NoView

ConvNext ==
  \/ \E t \in Threads : FinishGet(t)
  \/ /\ view' = NoView
     /\ \/ \E c \in Convs, u \in Users :
             \/ \E title \in {NewTitle, GivenTitle} : Create(c, u, title)
             \/ Delete(c, u)
             \/ \E t \in Threads : BeginGet(t, c, u)
             \/ \E t \in Threads, text \in Texts, stamp \in 1..MaxMessages :
                  BeginAppend(t, c, u, text, stamp)
        \/ \E t \in Threads : ReadTitle(t) \/ WriteMessage(t) \/ AppendFails(t)

----------------------------------------------------------------------------
\* Properties.

\* A message belongs to an open conversation of the user who sent it: no append
\* overtaken by a delete leaves a row behind or brings one back.
MessagesHaveHome ==
  \A m \in messages : convs[m.conv].state = "open" /\ convs[m.conv].owner = m.by

\* The messages that may name their conversation.
Seeds(c) == {m \in MessagesOf(c) : m.role = "user" /\ m.names}

\* A failed append leaves all of its effects or none: the conversation's stamp
\* is that of one of its messages, and a seeded title is that of one that may
\* seed it.
AppendIsWhole ==
  \A c \in Convs : convs[c].state = "open" =>
    /\ MessagesOf(c) # {} => \E m \in MessagesOf(c) : m.id = convs[c].updated
    /\ convs[c].title > 0 => \E m \in Seeds(c) : m.id = convs[c].title

\* A conversation whose appends never overlapped, created without a title, is
\* named after the first message of the user, in the order of the commits, that
\* names anything: blank ones and "New conversation" leave that to the next.
FirstMessageNames ==
  \A c \in Convs : (convs[c].state = "open" /\ c \notin overlaps /\ convs[c].title # GivenTitle) =>
    IF Seeds(c) = {} THEN convs[c].title = NewTitle
    ELSE \E m \in Seeds(c) : m.id = convs[c].title /\ \A n \in Seeds(c) : m.nth <= n.nth

\* A get answers only the caller's messages, in the order of their stamps, with
\* every message that had been answered 201 when it began, unless the
\* conversation was deleted between its two statements.
GetIsComplete ==
  view.conv # "none" =>
    /\ \A i \in DOMAIN view.found : view.found[i].by = view.user
    /\ \A i, j \in DOMAIN view.found : i < j => view.found[i].id < view.found[j].id
    /\ \A m \in MessagesOf(view.conv) : m.id \in view.known => Contains(view.found, m)

\* Overlapping appends, deletes and failures leave whole conversations: every
\* message in one, stamp and title from its messages, named by the first to.
ConversationsWhole == MessagesHaveHome /\ AppendIsWhole /\ FirstMessageNames
============================================================================
