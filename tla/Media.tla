------------------------------- MODULE Media -------------------------------
(***************************************************************************)
(* MediaExecutor (src/app/control_plane/media.py): one call to a GPU       *)
(* backend, and for images and speech an object in S3 (src/app/storage/    *)
(* s3.py) under a key made of the caller and a fresh id; and the artifact  *)
(* endpoints, which build the key again from whoever asks.  A caller is a  *)
(* tenant here: the key holds tenant and user alike.                       *)
(***************************************************************************)
EXTENDS Harness

CONSTANTS
  Storage  \* an S3 client is configured

VARIABLES
  objects,  \* S3: key -> who made it
  drawn,    \* artifact ids (uuid4) drawn so far
  shown     \* what the last artifact request got

mediaVars == <<objects, drawn, shown>>

NoArtifact == [caller |-> "none", maker |-> "none"]
MediaKinds == {"image", "tts", "stt"}
OnMedia(h, pc) == job[h].pc = pc /\ job[h].wants \in MediaKinds

\* The handlers up to the executor; each takes a service of any kind.
MediaRequest(h, t, s, kind) ==
  /\ Kind[s] \in MediaKinds
  /\ Admit(h, t, s, kind)
  /\ UNCHANGED mediaVars
Transcribe(h, t, s) == MediaRequest(h, t, s, "stt")
Generate(h, t, s) == MediaRequest(h, t, s, "image")
Synthesize(h, t, s) == MediaRequest(h, t, s, "tts")

\* media/{tenant_id}/{user_id}/{artifact_id}.bin, read as its parts: a tenant is an
\* e-mail domain and an id a uuid4, or one that _SAFE_ARTIFACT_ID lets through; as
\* neither has a slash, a path has one reading whatever the user's id is.
ArtifactKey(t, id) == <<t, id>>

\* transcribe, generate, synthesize up to the backend's answer; a malformed one
\* (http.client.HTTPException) escapes.
CallBackend(h) ==
  LET r == job[h]
  IN /\ OnMedia(h, "call")
     /\ \/ Kind[r.service] # r.wants /\ Finish(h, r, "wrong_kind")
        \/ /\ Kind[r.service] = r.wants
           /\ \/ \E result \in {"error", "timeout"} : Finish(h, r, result)
              \/ r.wants = "stt" /\ Finish(h, r, "success")
              \/ r.wants # "stt" /\ job' = [job EXCEPT ![h] = [r EXCEPT !.pc = "put"]]
              \/ Escape(h, r)
     /\ UNCHANGED <<now, offered, disabled, requests, mediaVars>>

PutObject(key, t) == [k \in DOMAIN objects \cup {key} |-> IF k = key THEN t ELSE objects[k]]

\* Mutant: a failed upload is only logged.
PutArtifactLogged(h) ==
  LET id == drawn + 1
      r == [job[h] EXCEPT !.artifact = id]
      key == ArtifactKey(r.tenant, id)
  IN /\ OnMedia(h, "put")
     /\ drawn' = id
     /\ \/ UNCHANGED objects
        \/ Storage /\ objects' = PutObject(key, r.tenant)
     /\ Finish(h, r, "success")
     /\ UNCHANGED <<now, offered, disabled, requests, shown>>

\* put_object: done, or failed, though the object may be there; without storage
\* the answer says stored = FALSE.
PutArtifact(h) ==
  LET id == drawn + 1
      r == [job[h] EXCEPT !.artifact = id]
      key == ArtifactKey(r.tenant, id)
      put == PutObject(key, r.tenant)
  IN /\ OnMedia(h, "put")
     /\ drawn' = id
     /\ \/ Storage /\ objects' = put /\ Finish(h, r, "success")
        \/ Storage /\ objects' \in {objects, put} /\ Finish(h, [r EXCEPT !.artifact = 0], "error")
        \/ ~Storage /\ UNCHANGED objects /\ Finish(h, r, "success")
     /\ UNCHANGED <<now, offered, disabled, requests, shown>>

\* build_media_artifact_response and _content: anyone asks for any id.
ShowArtifact(t, id) ==
  LET key == ArtifactKey(t, id)
  IN /\ key \in DOMAIN objects
     /\ shown' = [caller |-> t, maker |-> objects[key]]
     /\ UNCHANGED <<harnessVars, objects, drawn>>

MediaInit == objects = [k \in {} |-> "none"] /\ drawn = 0 /\ shown = NoArtifact

MediaNext ==
  \/ \E h \in Handlers, t \in Tenants, s \in Services : Transcribe(h, t, s) \/ Generate(h, t, s) \/ Synthesize(h, t, s)
  \/ \E h \in Handlers : CallBackend(h) \/ PutArtifact(h)
  \/ \E t \in Tenants, id \in 1..drawn : ShowArtifact(t, id)

----------------------------------------------------------------------------
\* Properties.

\* A caller who knows or guesses an id is shown what was made for him only.
ArtifactsOwn == shown.maker = shown.caller

\* When the answer, the audit log or the feed says that a generation succeeded,
\* its artifact is in storage.
ArtifactThere ==
  \A h \in Handlers :
    (/\ Storage /\ OnMedia(h, "answered") /\ job[h].wants # "stt"
     /\ job[h].answer = 200 \/ job[h].audit = <<"success">>) =>
    ArtifactKey(job[h].tenant, job[h].artifact) \in DOMAIN objects

\* A success means a stored artifact, and an artifact is shown to its maker only.
ArtifactsSafe == ArtifactsOwn /\ ArtifactThere
============================================================================
