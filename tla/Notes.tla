------------------------------- MODULE Notes -------------------------------
(***************************************************************************)
(* Notes and documents (src/app/control_plane/notes.py) and the document   *)
(* editor of the browser (src/app/ui/static/app.js), which keeps one       *)
(* "current" document.  It saves the document, has it revised              *)
(* (documents.py), deletes it and fetches the list by calls whose answers  *)
(* it applies to whatever is on the screen when they come.                 *)
(*                                                                         *)
(* A text is the draft it was written for: what matters is whether it ends *)
(* up in the document of that draft.                                       *)
(***************************************************************************)
EXTENDS Integers, FiniteSets

CONSTANTS
  NoteIds,   \* ids (uuid4) the server may draw
  Owner,     \* who sits at the editor, (tenant, user)
  Others,    \* other users, who may name any id
  Calls,     \* saves and revisions that can be under way at once
  MaxDrafts, \* bound on the documents begun
  MaxListed  \* documents a list answers at most (limit)

ASSUME NotesAssumption ==
  /\ Owner \notin Others /\ MaxDrafts \in Nat /\ MaxListed \in Nat \ {0}
  /\ "none" \notin NoteIds  \* a uuid4

VARIABLES
  notes,     \* table notes: state, owner, text; home: the draft it was created for
  list,      \* the entries of the panel, a document and its text each
  editor,    \* currentDocId and the text on the screen
  drafts,    \* drafts begun
  calls,     \* the saves and revisions under way
  lost,      \* drafts the answer to whose creation was lost
  crossed,   \* documents made current, or revised, with another draft on the screen
  rushed,    \* drafts saved while being created, or put back by a late revision
  impatient  \* the user acted while a save or a revision was under way

mixups == <<lost, crossed, rushed>>
noteVars == <<notes, list, editor, drafts, calls, mixups, impatient>>

None == "none"
NoNote == [state |-> "free", owner |-> None, text |-> 0, home |-> 0]
NoCall == [op |-> "idle", doc |-> None, text |-> 0, new |-> FALSE]

Busy == \E k \in Calls : calls[k].op # "idle"
Acts == impatient' = (impatient \/ Busy)

\* The creations of a draft that the editor has not heard of yet.
Creating(text) == {k \in Calls : calls[k].op \in {"save", "saved"} /\ calls[k].new /\ calls[k].text = text}

\* WHERE id = ... AND tenant_id = ... AND user_id = ...
Own(n, u) == notes[n].state = "live" /\ notes[n].owner = u

----------------------------------------------------------------------------
\* The server.

\* build_note_create_response
CreateNote(n, u, text) ==
  /\ notes[n].state = "free"
  /\ notes' = [notes EXCEPT ![n] = [state |-> "live", owner |-> u, text |-> text, home |-> text]]

\* build_note_update_response; a note that is not the caller's is not found.
UpdateNote(n, u, text) ==
  notes' = IF Own(n, u) THEN [notes EXCEPT ![n].text = text] ELSE notes

\* build_note_delete_response
DeleteNote(n, u) ==
  notes' = IF Own(n, u) THEN [notes EXCEPT ![n].state = "deleted", ![n].text = 0] ELSE notes

\* What GET /v1/notes?kind=doc may answer: the caller's documents, or the newest.
Listings(u) ==
  LET own == {n \in NoteIds : Own(n, u)}
      Page(p) == p = own \/ (Cardinality(p) = MaxListed /\ Cardinality(own) > MaxListed)
  IN {{[doc |-> n, text |-> notes[n].text] : n \in p} : p \in {q \in SUBSET own : Page(q)}}

----------------------------------------------------------------------------
\* The editor.

\* newDoc
NewDoc ==
  /\ drafts < MaxDrafts
  /\ drafts' = drafts + 1
  /\ editor' = [doc |-> None, text |-> drafts + 1]
  /\ Acts
  /\ UNCHANGED <<notes, list, calls, mixups>>

\* openDoc, with what its entry has.
OpenDoc(entry) ==
  /\ entry \in list
  /\ editor' = [doc |-> entry.doc, text |-> entry.text]
  /\ Acts
  /\ UNCHANGED <<notes, list, drafts, calls, mixups>>

\* saveDoc up to its request; a text that was never begun has no title.
SaveDoc(k) ==
  /\ calls[k].op = "idle"
  /\ editor.text # 0
  /\ calls' = [calls EXCEPT ![k] =
       [NoCall EXCEPT !.op = "save", !.doc = editor.doc, !.text = editor.text, !.new = editor.doc = None]]
  /\ rushed' = rushed \cup {t \in {editor.text} \ lost : editor.doc = None /\ Creating(t) # {}}
  /\ Acts
  /\ UNCHANGED <<notes, list, editor, drafts, lost, crossed>>

\* The server serves the save: it creates the document or updates it; of a 404
\* only the status line says so.
ServeSave(k) ==
  LET c == calls[k]
  IN /\ c.op = "save"
     /\ IF c.doc = None
        THEN \E n \in NoteIds : /\ CreateNote(n, Owner, c.text)
                                /\ calls' = [calls EXCEPT ![k].op = "saved", ![k].doc = n]
        ELSE /\ UpdateNote(c.doc, Owner, c.text)
             /\ calls' = [calls EXCEPT ![k] = IF Own(c.doc, Owner) THEN [c EXCEPT !.op = "saved"] ELSE NoCall]
     /\ UNCHANGED <<list, editor, drafts, mixups, impatient>>

\* Mutant: the id of the answer is not kept.
SavedDocForgets(k) ==
  /\ calls[k].op = "saved"
  /\ calls' = [calls EXCEPT ![k] = NoCall]
  /\ UNCHANGED <<notes, list, editor, drafts, mixups, impatient>>

\* saveDoc after its answer: the saved document becomes the current one whatever
\* is on the screen, and refreshDocs is called and not awaited.
SavedDoc(k) ==
  LET c == calls[k]
  IN /\ c.op = "saved"
     /\ editor' = [editor EXCEPT !.doc = c.doc]
     /\ crossed' = crossed \cup {n \in {c.doc} : editor.text # c.text}
     /\ calls' = [calls EXCEPT ![k] = NoCall]
     /\ UNCHANGED <<notes, list, drafts, lost, rushed, impatient>>

\* The call is refused, or its request or answer is lost.
FailsDoc(k) ==
  LET c == calls[k]
  IN /\ c.op # "idle"
     /\ lost' = lost \cup {t \in {c.text} \ rushed : c.op = "saved" /\ c.new}
     /\ calls' = [calls EXCEPT ![k] = NoCall]
     /\ UNCHANGED <<notes, list, editor, drafts, crossed, rushed, impatient>>

\* aiEditDoc up to its request to /v1/documents/edit.
AiEditDoc(k) ==
  /\ calls[k].op = "idle"
  /\ editor.text # 0
  /\ calls' = [calls EXCEPT ![k] = [NoCall EXCEPT !.op = "edit", !.text = editor.text]]
  /\ Acts
  /\ UNCHANGED <<notes, list, editor, drafts, mixups>>

\* aiEditDoc after its answer: the revision replaces the text on the screen,
\* whatever document that is.
EditedDoc(k) ==
  LET c == calls[k]
  IN /\ c.op = "edit"
     /\ editor' = [editor EXCEPT !.text = c.text]
     /\ crossed' = crossed \cup {n \in {editor.doc} : n # None /\ editor.text # c.text}
     /\ rushed' = rushed \cup {t \in {c.text} \ lost : editor.doc = None /\ editor.text # t}
     /\ calls' = [calls EXCEPT ![k] = NoCall]
     /\ UNCHANGED <<notes, list, drafts, lost, impatient>>

\* refreshDocs, which opening a panel calls too and nothing awaits: its answer
\* comes at any time.  The panel it empties meanwhile offers nothing to press.
RefreshDocs ==
  /\ \E docs \in Listings(Owner) : list' = docs
  /\ UNCHANGED <<notes, editor, drafts, calls, mixups, impatient>>

\* The Delete button: the editor is cleared if it shows the document; the entry
\* goes when the answer says so, unless the panel has been drawn again since.
DeleteDoc(entry) ==
  /\ entry \in list
  /\ notes' = notes \/ DeleteNote(entry.doc, Owner)
  /\ list' = list \/ (Own(entry.doc, Owner) /\ ~Own(entry.doc, Owner)' /\ list' = list \ {entry})
  /\ editor' = IF editor.doc = entry.doc THEN [doc |-> None, text |-> 0] ELSE editor
  /\ Acts
  /\ UNCHANGED <<drafts, calls, mixups>>

\* Another user names a note in a request.
Stranger(n, u) ==
  /\ UpdateNote(n, u, 0) \/ DeleteNote(n, u)
  /\ UNCHANGED <<list, editor, drafts, calls, mixups, impatient>>

NotesInit ==
  /\ notes = [n \in NoteIds |-> NoNote]
  /\ list = {}
  /\ editor = [doc |-> None, text |-> 0]
  /\ drafts = 0 /\ impatient = FALSE
  /\ lost = {} /\ crossed = {} /\ rushed = {}
  /\ calls = [k \in Calls |-> NoCall]

NotesNext ==
  \/ NewDoc \/ RefreshDocs
  \/ \E n \in NoteIds, u \in Others : Stranger(n, u)
  \/ \E entry \in list : OpenDoc(entry) \/ DeleteDoc(entry)
  \/ \E k \in Calls :
       SaveDoc(k) \/ ServeSave(k) \/ SavedDoc(k) \/ FailsDoc(k) \/ AiEditDoc(k) \/ EditedDoc(k)

----------------------------------------------------------------------------
\* Properties.

\* A document is its user's whatever others ask for, and holds what was written
\* for another only if an answer was applied to it with the other on the screen.
EditsStayHome ==
  \A n \in NoteIds : notes[n].state = "live" =>
    notes[n].owner = Owner /\ (notes[n].text = notes[n].home \/ n \in crossed)

\* A draft is saved as a second document only if the answer to its creation was
\* lost, or it was saved, or put back on the screen, before that answer.
DraftSavedOnce ==
  \A n, m \in NoteIds :
    (n # m /\ notes[n].state # "free" /\ notes[m].state # "free" /\ notes[n].home = notes[m].home) =>
      notes[n].home \in lost \cup rushed

\* None of this happens to a user who waits for each save and revision, although
\* lists and deletes are answered at any time.
WaitingIsSafe == ~impatient => crossed = {} /\ rushed = {}

\* The editor mixes documents up, or saves a draft twice, only through an answer
\* that is lost or is applied to a screen that has moved on.
EditorFaithful == EditsStayHome /\ DraftSavedOnce /\ WaitingIsSafe
============================================================================
