--------------------------- MODULE ServicesProofs ---------------------------
(***************************************************************************)
(* What holds of every request to an integration, a GPU backend or an MCP  *)
(* server, for any number of handlers, tenants and requests, whatever the  *)
(* operator switches and rotates meanwhile: it has its own tenant's        *)
(* credentials and none out of date, its socket goes where the guard has   *)
(* looked, its artifact is in storage and its maker's alone, and its       *)
(* server process is gone with it unless it could not be killed.           *)
(***************************************************************************)
EXTENDS Services, TLAPS

----------------------------------------------------------------------------
\* The invariant.

\* The guard has judged address a for service s.
Vetted(a, s) == a = "public" \/ (a = "private" /\ s \in Permitted)

\* One request.
Right(r) ==
  /\ r \in Request
  /\ r.pc # "idle" => r.tenant \in Tenants
  /\ r.creds.tenant \in {"none", r.tenant}
  /\ r.token.tenant \in {"none", r.tenant}
  /\ r.pc = "send" => Vetted(r.address, r.service)
  /\ r.pc \in {"refresh", "minted"} => r.address = "public"
  /\ r.sent => Vetted(r.address, r.service)
  /\ r.process = "running" => r.pc = "exchange"

\* The requests, and the cache of tokens that they share.
ServicesInv ==
  /\ TypeOK
  /\ \A h \in Handlers : Right(job[h])
  /\ \A t \in Tenants : tokens[t].token.tenant \in {"none", t}

----------------------------------------------------------------------------
\* What the handlers do to a request.

\* A handler without a request.
LEMMA IdleRight == Right(Idle)
  BY DEF Right, Request, Creds, Token, PCs, Wants, Anyone, Idle, NoCreds, NoToken

\* A request begins.
LEMMA BeginsRight ==
  ASSUME NEW t \in Tenants, NEW s \in Services, NEW kind \in Wants,
         NEW q, q = [Idle EXCEPT !.pc = "call", !.tenant = t, !.service = s, !.wants = kind]
  PROVE  Right(q) /\ q.pc = "call"
<1>1. q = [pc |-> "call", tenant |-> t, service |-> s, wants |-> kind,
           audit |-> <<>>, answer |-> 0, read |-> 0, creds |-> NoCreds,
           resolved |-> 0, token |-> NoToken, checked |-> 0, address |-> "none",
           sent |-> FALSE, artifact |-> 0, process |-> "none"]
  BY Zenon DEF Idle
<1>2. PICK p : p = [pc |-> "call", tenant |-> t, service |-> s, wants |-> kind,
           audit |-> <<>>, answer |-> 0, read |-> 0, creds |-> NoCreds,
           resolved |-> 0, token |-> NoToken, checked |-> 0, address |-> "none",
           sent |-> FALSE, artifact |-> 0, process |-> "none"]
  OBVIOUS
<1>3. Right(p) /\ p.pc = "call"
  BY <1>2 DEF Right, Request, Creds, Token, PCs, Wants, Anyone, NoCreds, NoToken
<1> QED
  BY <1>1, <1>2, <1>3, Zenon

\* Another status.
LEMMA AnswersRight ==
  ASSUME NEW r, Right(r), NEW n \in Nat,
         NEW q, q = [r EXCEPT !.answer = n]
  PROVE  Right(q)
<1>1. r \in Request
  BY DEF Right
<1>2. q = [pc |-> r.pc, tenant |-> r.tenant, service |-> r.service,
           wants |-> r.wants, audit |-> r.audit, answer |-> n, read |-> r.read,
           creds |-> r.creds, resolved |-> r.resolved, token |-> r.token,
           checked |-> r.checked, address |-> r.address, sent |-> r.sent,
           artifact |-> r.artifact, process |-> r.process]
  BY <1>1, Zenon DEF Request
<1>3. PICK p : p = [pc |-> r.pc, tenant |-> r.tenant, service |-> r.service,
           wants |-> r.wants, audit |-> r.audit, answer |-> n, read |-> r.read,
           creds |-> r.creds, resolved |-> r.resolved, token |-> r.token,
           checked |-> r.checked, address |-> r.address, sent |-> r.sent,
           artifact |-> r.artifact, process |-> r.process]
  OBVIOUS
<1>4. Right(p)
  BY <1>3 DEF Right, Request, Creds, Token, PCs, Wants, Anyone
<1> QED
  BY <1>2, <1>3, <1>4, Zenon

\* It is turned away.
LEMMA RefusesRight ==
  ASSUME NEW r, Right(r), r.process # "running", r.tenant \in Tenants, NEW a \in Seq(Decisions), NEW n \in Nat,
         NEW q, q = [r EXCEPT !.pc = "answered", !.audit = a, !.answer = n]
  PROVE  Right(q)
<1>1. r \in Request
  BY DEF Right
<1>2. q = [pc |-> "answered", tenant |-> r.tenant, service |-> r.service,
           wants |-> r.wants, audit |-> a, answer |-> n, read |-> r.read,
           creds |-> r.creds, resolved |-> r.resolved, token |-> r.token,
           checked |-> r.checked, address |-> r.address, sent |-> r.sent,
           artifact |-> r.artifact, process |-> r.process]
  BY <1>1, Zenon DEF Request
<1>3. PICK p : p = [pc |-> "answered", tenant |-> r.tenant, service |-> r.service,
           wants |-> r.wants, audit |-> a, answer |-> n, read |-> r.read,
           creds |-> r.creds, resolved |-> r.resolved, token |-> r.token,
           checked |-> r.checked, address |-> r.address, sent |-> r.sent,
           artifact |-> r.artifact, process |-> r.process]
  OBVIOUS
<1>4. Right(p)
  BY <1>3 DEF Right, Request, Creds, Token, PCs, Wants, Anyone
<1> QED
  BY <1>2, <1>3, <1>4, Zenon

\* It is audited and answered.
LEMMA AuditsRight ==
  ASSUME NEW r, Right(r), NEW a \in Seq(Decisions), NEW n \in Nat,
         NEW q, q = [r EXCEPT !.audit = a, !.answer = n]
  PROVE  Right(q)
<1>1. r \in Request
  BY DEF Right
<1>2. q = [pc |-> r.pc, tenant |-> r.tenant, service |-> r.service,
           wants |-> r.wants, audit |-> a, answer |-> n, read |-> r.read,
           creds |-> r.creds, resolved |-> r.resolved, token |-> r.token,
           checked |-> r.checked, address |-> r.address, sent |-> r.sent,
           artifact |-> r.artifact, process |-> r.process]
  BY <1>1, Zenon DEF Request
<1>3. PICK p : p = [pc |-> r.pc, tenant |-> r.tenant, service |-> r.service,
           wants |-> r.wants, audit |-> a, answer |-> n, read |-> r.read,
           creds |-> r.creds, resolved |-> r.resolved, token |-> r.token,
           checked |-> r.checked, address |-> r.address, sent |-> r.sent,
           artifact |-> r.artifact, process |-> r.process]
  OBVIOUS
<1>4. Right(p)
  BY <1>3 DEF Right, Request, Creds, Token, PCs, Wants, Anyone
<1> QED
  BY <1>2, <1>3, <1>4, Zenon

\* Its executor returns.
LEMMA ReturnsRight ==
  ASSUME NEW r, Right(r), r.process # "running", r.tenant \in Tenants,
         NEW q, q = [r EXCEPT !.pc = "answered", !.read = 0, !.creds = NoCreds, !.resolved = 0, !.token = NoToken, !.checked = 0]
  PROVE  Right(q)
<1>1. r \in Request
  BY DEF Right
<1>2. q = [pc |-> "answered", tenant |-> r.tenant, service |-> r.service,
           wants |-> r.wants, audit |-> r.audit, answer |-> r.answer, read |-> 0,
           creds |-> NoCreds, resolved |-> 0, token |-> NoToken, checked |-> 0,
           address |-> r.address, sent |-> r.sent, artifact |-> r.artifact,
           process |-> r.process]
  BY <1>1, Zenon DEF Request, NoCreds, NoToken
<1>3. PICK p : p = [pc |-> "answered", tenant |-> r.tenant, service |-> r.service,
           wants |-> r.wants, audit |-> r.audit, answer |-> r.answer, read |-> 0,
           creds |-> NoCreds, resolved |-> 0, token |-> NoToken, checked |-> 0,
           address |-> r.address, sent |-> r.sent, artifact |-> r.artifact,
           process |-> r.process]
  OBVIOUS
<1>4. Right(p)
  BY <1>3 DEF Right, Request, Creds, Token, PCs, Wants, Anyone, NoCreds, NoToken
<1> QED
  BY <1>2, <1>3, <1>4, Zenon

\* Its secret is not in the cache.
LEMMA FetchesRight ==
  ASSUME NEW r, Right(r), r.process # "running", r.tenant \in Tenants, NEW n \in Nat,
         NEW q, q = [r EXCEPT !.pc = "fetch", !.resolved = n]
  PROVE  Right(q)
<1>1. r \in Request
  BY DEF Right
<1>2. q = [pc |-> "fetch", tenant |-> r.tenant, service |-> r.service,
           wants |-> r.wants, audit |-> r.audit, answer |-> r.answer,
           read |-> r.read, creds |-> r.creds, resolved |-> n, token |-> r.token,
           checked |-> r.checked, address |-> r.address, sent |-> r.sent,
           artifact |-> r.artifact, process |-> r.process]
  BY <1>1, Zenon DEF Request
<1>3. PICK p : p = [pc |-> "fetch", tenant |-> r.tenant, service |-> r.service,
           wants |-> r.wants, audit |-> r.audit, answer |-> r.answer,
           read |-> r.read, creds |-> r.creds, resolved |-> n, token |-> r.token,
           checked |-> r.checked, address |-> r.address, sent |-> r.sent,
           artifact |-> r.artifact, process |-> r.process]
  OBVIOUS
<1>4. Right(p)
  BY <1>3 DEF Right, Request, Creds, Token, PCs, Wants, Anyone
<1> QED
  BY <1>2, <1>3, <1>4, Zenon

\* Its secret is in the cache.
LEMMA CachedRight ==
  ASSUME NEW r, Right(r), r.process # "running", r.tenant \in Tenants, NEW n \in Nat, NEW v \in Nat,
         NEW q, q = [r EXCEPT !.pc = "token", !.resolved = n, !.creds = [tenant |-> r.tenant, version |-> v]]
  PROVE  Right(q)
<1>1. r \in Request
  BY DEF Right
<1>2. q = [pc |-> "token", tenant |-> r.tenant, service |-> r.service,
           wants |-> r.wants, audit |-> r.audit, answer |-> r.answer,
           read |-> r.read, creds |-> [tenant |-> r.tenant, version |-> v],
           resolved |-> n, token |-> r.token, checked |-> r.checked,
           address |-> r.address, sent |-> r.sent, artifact |-> r.artifact,
           process |-> r.process]
  BY <1>1, Zenon DEF Request
<1>3. PICK p : p = [pc |-> "token", tenant |-> r.tenant, service |-> r.service,
           wants |-> r.wants, audit |-> r.audit, answer |-> r.answer,
           read |-> r.read, creds |-> [tenant |-> r.tenant, version |-> v],
           resolved |-> n, token |-> r.token, checked |-> r.checked,
           address |-> r.address, sent |-> r.sent, artifact |-> r.artifact,
           process |-> r.process]
  OBVIOUS
<1>4. Right(p)
  BY <1>3 DEF Right, Request, Creds, Token, PCs, Wants, Anyone
<1> QED
  BY <1>2, <1>3, <1>4, Zenon

\* Its secret has been fetched.
LEMMA FetchedRight ==
  ASSUME NEW r, Right(r), r.process # "running", r.tenant \in Tenants, NEW v \in Nat,
         NEW q, q = [r EXCEPT !.pc = "fetched", !.read = v]
  PROVE  Right(q)
<1>1. r \in Request
  BY DEF Right
<1>2. q = [pc |-> "fetched", tenant |-> r.tenant, service |-> r.service,
           wants |-> r.wants, audit |-> r.audit, answer |-> r.answer, read |-> v,
           creds |-> r.creds, resolved |-> r.resolved, token |-> r.token,
           checked |-> r.checked, address |-> r.address, sent |-> r.sent,
           artifact |-> r.artifact, process |-> r.process]
  BY <1>1, Zenon DEF Request
<1>3. PICK p : p = [pc |-> "fetched", tenant |-> r.tenant, service |-> r.service,
           wants |-> r.wants, audit |-> r.audit, answer |-> r.answer, read |-> v,
           creds |-> r.creds, resolved |-> r.resolved, token |-> r.token,
           checked |-> r.checked, address |-> r.address, sent |-> r.sent,
           artifact |-> r.artifact, process |-> r.process]
  OBVIOUS
<1>4. Right(p)
  BY <1>3 DEF Right, Request, Creds, Token, PCs, Wants, Anyone
<1> QED
  BY <1>2, <1>3, <1>4, Zenon

\* Its secret has been stored in the cache.
LEMMA StoredRight ==
  ASSUME NEW r, Right(r), r.process # "running", r.tenant \in Tenants,
         NEW q, q = [r EXCEPT !.pc = "token", !.read = 0, !.creds = [tenant |-> r.tenant, version |-> r.read]]
  PROVE  Right(q)
<1>1. r \in Request
  BY DEF Right
<1>2. q = [pc |-> "token", tenant |-> r.tenant, service |-> r.service,
           wants |-> r.wants, audit |-> r.audit, answer |-> r.answer, read |-> 0,
           creds |-> [tenant |-> r.tenant, version |-> r.read],
           resolved |-> r.resolved, token |-> r.token, checked |-> r.checked,
           address |-> r.address, sent |-> r.sent, artifact |-> r.artifact,
           process |-> r.process]
  BY <1>1, Zenon DEF Request
<1>3. PICK p : p = [pc |-> "token", tenant |-> r.tenant, service |-> r.service,
           wants |-> r.wants, audit |-> r.audit, answer |-> r.answer, read |-> 0,
           creds |-> [tenant |-> r.tenant, version |-> r.read],
           resolved |-> r.resolved, token |-> r.token, checked |-> r.checked,
           address |-> r.address, sent |-> r.sent, artifact |-> r.artifact,
           process |-> r.process]
  OBVIOUS
<1>4. Right(p)
  BY <1>3 DEF Right, Request, Creds, Token, PCs, Wants, Anyone
<1> QED
  BY <1>2, <1>3, <1>4, Zenon

\* It reads the clock for its token.
LEMMA ChecksRight ==
  ASSUME NEW r, Right(r), NEW n \in Nat,
         NEW q, q = [r EXCEPT !.checked = n]
  PROVE  Right(q)
<1>1. r \in Request
  BY DEF Right
<1>2. q = [pc |-> r.pc, tenant |-> r.tenant, service |-> r.service,
           wants |-> r.wants, audit |-> r.audit, answer |-> r.answer,
           read |-> r.read, creds |-> r.creds, resolved |-> r.resolved,
           token |-> r.token, checked |-> n, address |-> r.address, sent |-> r.sent,
           artifact |-> r.artifact, process |-> r.process]
  BY <1>1, Zenon DEF Request
<1>3. PICK p : p = [pc |-> r.pc, tenant |-> r.tenant, service |-> r.service,
           wants |-> r.wants, audit |-> r.audit, answer |-> r.answer,
           read |-> r.read, creds |-> r.creds, resolved |-> r.resolved,
           token |-> r.token, checked |-> n, address |-> r.address, sent |-> r.sent,
           artifact |-> r.artifact, process |-> r.process]
  OBVIOUS
<1>4. Right(p)
  BY <1>3 DEF Right, Request, Creds, Token, PCs, Wants, Anyone
<1> QED
  BY <1>2, <1>3, <1>4, Zenon

\* It has no token.
LEMMA RefreshesRight ==
  ASSUME NEW r, Right(r), r.process # "running", r.tenant \in Tenants,
         NEW q, q = [r EXCEPT !.pc = "refresh", !.address = "public"]
  PROVE  Right(q)
<1>1. r \in Request
  BY DEF Right
<1>2. q = [pc |-> "refresh", tenant |-> r.tenant, service |-> r.service,
           wants |-> r.wants, audit |-> r.audit, answer |-> r.answer,
           read |-> r.read, creds |-> r.creds, resolved |-> r.resolved,
           token |-> r.token, checked |-> r.checked, address |-> "public",
           sent |-> r.sent, artifact |-> r.artifact, process |-> r.process]
  BY <1>1, Zenon DEF Request
<1>3. PICK p : p = [pc |-> "refresh", tenant |-> r.tenant, service |-> r.service,
           wants |-> r.wants, audit |-> r.audit, answer |-> r.answer,
           read |-> r.read, creds |-> r.creds, resolved |-> r.resolved,
           token |-> r.token, checked |-> r.checked, address |-> "public",
           sent |-> r.sent, artifact |-> r.artifact, process |-> r.process]
  OBVIOUS
<1>4. Right(p)
  BY <1>3 DEF Right, Request, Creds, Token, PCs, Wants, Anyone, Addresses, Vetted
<1> QED
  BY <1>2, <1>3, <1>4, Zenon

\* It has a token.
LEMMA ReadyRight ==
  ASSUME NEW r, Right(r), r.process # "running", r.tenant \in Tenants, NEW k \in Token, k.tenant \in {"none", r.tenant},
         NEW q, q = [r EXCEPT !.pc = "request", !.token = k, !.creds = NoCreds, !.resolved = 0,
                        !.address = "none", !.sent = FALSE]
  PROVE  Right(q)
<1>1. r \in Request
  BY DEF Right
<1>2. q = [pc |-> "request", tenant |-> r.tenant, service |-> r.service,
           wants |-> r.wants, audit |-> r.audit, answer |-> r.answer,
           read |-> r.read, creds |-> NoCreds, resolved |-> 0, token |-> k,
           checked |-> r.checked, address |-> "none", sent |-> FALSE,
           artifact |-> r.artifact, process |-> r.process]
  BY <1>1, Zenon DEF Request, NoCreds
<1>3. PICK p : p = [pc |-> "request", tenant |-> r.tenant, service |-> r.service,
           wants |-> r.wants, audit |-> r.audit, answer |-> r.answer,
           read |-> r.read, creds |-> NoCreds, resolved |-> 0, token |-> k,
           checked |-> r.checked, address |-> "none", sent |-> FALSE,
           artifact |-> r.artifact, process |-> r.process]
  OBVIOUS
<1>4. Right(p)
  BY <1>3 DEF Right, Request, Creds, Token, PCs, Wants, Anyone, NoCreds
<1> QED
  BY <1>2, <1>3, <1>4, Zenon

\* Its token is new.
LEMMA MintedRight ==
  ASSUME NEW r, Right(r), r.process # "running", r.tenant \in Tenants, NEW k \in Token, k.tenant \in {"none", r.tenant},
         r.address = "public",
         NEW q, q = [r EXCEPT !.pc = "minted", !.token = k]
  PROVE  Right(q)
<1>1. r \in Request
  BY DEF Right
<1>2. q = [pc |-> "minted", tenant |-> r.tenant, service |-> r.service,
           wants |-> r.wants, audit |-> r.audit, answer |-> r.answer,
           read |-> r.read, creds |-> r.creds, resolved |-> r.resolved, token |-> k,
           checked |-> r.checked, address |-> r.address, sent |-> r.sent,
           artifact |-> r.artifact, process |-> r.process]
  BY <1>1, Zenon DEF Request
<1>3. PICK p : p = [pc |-> "minted", tenant |-> r.tenant, service |-> r.service,
           wants |-> r.wants, audit |-> r.audit, answer |-> r.answer,
           read |-> r.read, creds |-> r.creds, resolved |-> r.resolved, token |-> k,
           checked |-> r.checked, address |-> r.address, sent |-> r.sent,
           artifact |-> r.artifact, process |-> r.process]
  OBVIOUS
<1>4. Right(p)
  BY <1>3 DEF Right, Request, Creds, Token, PCs, Wants, Anyone
<1> QED
  BY <1>2, <1>3, <1>4, Zenon

\* Its address has been judged.
LEMMA PinnedRight ==
  ASSUME NEW r, Right(r), r.process # "running", r.tenant \in Tenants, NEW a \in Addresses, Vetted(a, r.service),
         NEW q, q = [r EXCEPT !.pc = "send", !.address = a]
  PROVE  Right(q)
<1>1. r \in Request
  BY DEF Right
<1>2. q = [pc |-> "send", tenant |-> r.tenant, service |-> r.service,
           wants |-> r.wants, audit |-> r.audit, answer |-> r.answer,
           read |-> r.read, creds |-> r.creds, resolved |-> r.resolved,
           token |-> r.token, checked |-> r.checked, address |-> a, sent |-> r.sent,
           artifact |-> r.artifact, process |-> r.process]
  BY <1>1, Zenon DEF Request, Addresses
<1>3. PICK p : p = [pc |-> "send", tenant |-> r.tenant, service |-> r.service,
           wants |-> r.wants, audit |-> r.audit, answer |-> r.answer,
           read |-> r.read, creds |-> r.creds, resolved |-> r.resolved,
           token |-> r.token, checked |-> r.checked, address |-> a, sent |-> r.sent,
           artifact |-> r.artifact, process |-> r.process]
  OBVIOUS
<1>4. Right(p)
  BY <1>3 DEF Right, Request, Creds, Token, PCs, Wants, Anyone, Addresses
<1> QED
  BY <1>2, <1>3, <1>4, Zenon

\* It is sent.
LEMMA SendsRight ==
  ASSUME NEW r, Right(r), NEW a \in Addresses, Vetted(a, r.service),
         r.pc \in {"refresh", "minted"} => a = "public",
         NEW q, q = [r EXCEPT !.sent = TRUE, !.address = a]
  PROVE  Right(q)
<1>1. r \in Request
  BY DEF Right
<1>2. q = [pc |-> r.pc, tenant |-> r.tenant, service |-> r.service,
           wants |-> r.wants, audit |-> r.audit, answer |-> r.answer,
           read |-> r.read, creds |-> r.creds, resolved |-> r.resolved,
           token |-> r.token, checked |-> r.checked, address |-> a, sent |-> TRUE,
           artifact |-> r.artifact, process |-> r.process]
  BY <1>1, Zenon DEF Request, Addresses
<1>3. PICK p : p = [pc |-> r.pc, tenant |-> r.tenant, service |-> r.service,
           wants |-> r.wants, audit |-> r.audit, answer |-> r.answer,
           read |-> r.read, creds |-> r.creds, resolved |-> r.resolved,
           token |-> r.token, checked |-> r.checked, address |-> a, sent |-> TRUE,
           artifact |-> r.artifact, process |-> r.process]
  OBVIOUS
<1>4. Right(p)
  BY <1>3 DEF Right, Request, Creds, Token, PCs, Wants, Anyone, Addresses
<1> QED
  BY <1>2, <1>3, <1>4, Zenon

\* Its artifact goes to the storage.
LEMMA PutsRight ==
  ASSUME NEW r, Right(r), r.process # "running", r.tenant \in Tenants,
         NEW q, q = [r EXCEPT !.pc = "put"]
  PROVE  Right(q)
<1>1. r \in Request
  BY DEF Right
<1>2. q = [pc |-> "put", tenant |-> r.tenant, service |-> r.service,
           wants |-> r.wants, audit |-> r.audit, answer |-> r.answer,
           read |-> r.read, creds |-> r.creds, resolved |-> r.resolved,
           token |-> r.token, checked |-> r.checked, address |-> r.address,
           sent |-> r.sent, artifact |-> r.artifact, process |-> r.process]
  BY <1>1, Zenon DEF Request
<1>3. PICK p : p = [pc |-> "put", tenant |-> r.tenant, service |-> r.service,
           wants |-> r.wants, audit |-> r.audit, answer |-> r.answer,
           read |-> r.read, creds |-> r.creds, resolved |-> r.resolved,
           token |-> r.token, checked |-> r.checked, address |-> r.address,
           sent |-> r.sent, artifact |-> r.artifact, process |-> r.process]
  OBVIOUS
<1>4. Right(p)
  BY <1>3 DEF Right, Request, Creds, Token, PCs, Wants, Anyone
<1> QED
  BY <1>2, <1>3, <1>4, Zenon

\* Its artifact is named.
LEMMA NamesRight ==
  ASSUME NEW r, Right(r), NEW n \in Nat,
         NEW q, q = [r EXCEPT !.artifact = n]
  PROVE  Right(q)
<1>1. r \in Request
  BY DEF Right
<1>2. q = [pc |-> r.pc, tenant |-> r.tenant, service |-> r.service,
           wants |-> r.wants, audit |-> r.audit, answer |-> r.answer,
           read |-> r.read, creds |-> r.creds, resolved |-> r.resolved,
           token |-> r.token, checked |-> r.checked, address |-> r.address,
           sent |-> r.sent, artifact |-> n, process |-> r.process]
  BY <1>1, Zenon DEF Request
<1>3. PICK p : p = [pc |-> r.pc, tenant |-> r.tenant, service |-> r.service,
           wants |-> r.wants, audit |-> r.audit, answer |-> r.answer,
           read |-> r.read, creds |-> r.creds, resolved |-> r.resolved,
           token |-> r.token, checked |-> r.checked, address |-> r.address,
           sent |-> r.sent, artifact |-> n, process |-> r.process]
  OBVIOUS
<1>4. Right(p)
  BY <1>3 DEF Right, Request, Creds, Token, PCs, Wants, Anyone
<1> QED
  BY <1>2, <1>3, <1>4, Zenon

\* Its server process runs.
LEMMA SpawnsRight ==
  ASSUME NEW r, Right(r), r.tenant \in Tenants,
         NEW q, q = [r EXCEPT !.pc = "exchange", !.process = "running"]
  PROVE  Right(q)
<1>1. r \in Request
  BY DEF Right
<1>2. q = [pc |-> "exchange", tenant |-> r.tenant, service |-> r.service,
           wants |-> r.wants, audit |-> r.audit, answer |-> r.answer,
           read |-> r.read, creds |-> r.creds, resolved |-> r.resolved,
           token |-> r.token, checked |-> r.checked, address |-> r.address,
           sent |-> r.sent, artifact |-> r.artifact, process |-> "running"]
  BY <1>1, Zenon DEF Request
<1>3. PICK p : p = [pc |-> "exchange", tenant |-> r.tenant, service |-> r.service,
           wants |-> r.wants, audit |-> r.audit, answer |-> r.answer,
           read |-> r.read, creds |-> r.creds, resolved |-> r.resolved,
           token |-> r.token, checked |-> r.checked, address |-> r.address,
           sent |-> r.sent, artifact |-> r.artifact, process |-> "running"]
  OBVIOUS
<1>4. Right(p)
  BY <1>3 DEF Right, Request, Creds, Token, PCs, Wants, Anyone
<1> QED
  BY <1>2, <1>3, <1>4, Zenon

\* Its server process is gone, or nobody kills it.
LEMMA ExitsRight ==
  ASSUME NEW r, Right(r), NEW p \in {"none", "orphan"},
         NEW q, q = [r EXCEPT !.process = p]
  PROVE  Right(q)
<1>1. r \in Request
  BY DEF Right
<1>2. q = [pc |-> r.pc, tenant |-> r.tenant, service |-> r.service,
           wants |-> r.wants, audit |-> r.audit, answer |-> r.answer,
           read |-> r.read, creds |-> r.creds, resolved |-> r.resolved,
           token |-> r.token, checked |-> r.checked, address |-> r.address,
           sent |-> r.sent, artifact |-> r.artifact, process |-> p]
  BY <1>1, Zenon DEF Request
<1>3. PICK x : x = [pc |-> r.pc, tenant |-> r.tenant, service |-> r.service,
           wants |-> r.wants, audit |-> r.audit, answer |-> r.answer,
           read |-> r.read, creds |-> r.creds, resolved |-> r.resolved,
           token |-> r.token, checked |-> r.checked, address |-> r.address,
           sent |-> r.sent, artifact |-> r.artifact, process |-> p]
  OBVIOUS
<1>4. Right(x)
  BY <1>3 DEF Right, Request, Creds, Token, PCs, Wants, Anyone
<1> QED
  BY <1>2, <1>3, <1>4, Zenon

----------------------------------------------------------------------------
\* What they do with several.

\* Its executor's locals go.
LEMMA ReturnedRight ==
  ASSUME NEW r, Right(r), r.process # "running", r.tenant \in Tenants
  PROVE  Right(Returned(r)) /\ Returned(r).audit = r.audit
<1>1. PICK q : q = [r EXCEPT !.pc = "answered", !.read = 0, !.creds = NoCreds, !.resolved = 0,
                             !.token = NoToken, !.checked = 0]
  OBVIOUS
<1>2. q = Returned(r)
  BY <1>1, Zenon DEF Returned
<1>3. Right(q)
  BY <1>1, ReturnsRight, Zenon
<1>4. r \in Request
  BY DEF Right
<1>5. q.audit = r.audit
  BY <1>1, <1>4, Zenon DEF Request
<1> QED
  BY <1>2, <1>3, <1>5, Zenon

\* Release, audit and answer.
LEMMA FinishRight ==
  ASSUME NEW r, Right(r), r.process # "running", r.tenant \in Tenants,
         NEW result \in {"success", "unknown", "wrong_kind", "timeout", "error"}
  PROVE  Right([Returned(r) EXCEPT !.audit = Append(@, result), !.answer = Status(result)])
<1>1. PICK o : o = Returned(r)
  OBVIOUS
<1>2. Right(o) /\ o.audit = r.audit /\ r.audit \in Seq(Decisions)
  BY <1>1, ReturnedRight DEF Right, Request
<1>3. PICK a \in Seq(Decisions) : a = Append(o.audit, result)
  <2>1. result \in Decisions
    BY DEF Decisions
  <2>2. Append(o.audit, result) \in Seq(Decisions)
    BY <1>2, <2>1
  <2> QED
    BY <2>2, Zenon
<1>4. PICK n \in Nat : n = Status(result)
  BY DEF Status
<1>5. PICK q : q = [o EXCEPT !.audit = a, !.answer = n]
  OBVIOUS
<1>6. Right(q)
  BY <1>2, <1>3, <1>4, <1>5, AuditsRight, Zenon
<1> QED
  BY <1>1, <1>3, <1>4, <1>5, <1>6, Zenon

\* An exception nobody catches, and the answer of a list.
LEMMA EscapeRight ==
  ASSUME NEW r, Right(r), r.process # "running", r.tenant \in Tenants, NEW n \in Nat
  PROVE  Right([Returned(r) EXCEPT !.answer = n])
<1>1. PICK o : o = Returned(r)
  OBVIOUS
<1>2. Right(o)
  BY <1>1, ReturnedRight
<1>3. PICK q : q = [o EXCEPT !.answer = n]
  OBVIOUS
<1>4. Right(q)
  BY <1>2, <1>3, AnswersRight, Zenon
<1> QED
  BY <1>1, <1>3, <1>4, Zenon

\* Not allowed, switched off or over the limit.
LEMMA RefusedRight ==
  ASSUME NEW r, Right(r), r.process # "running", r.tenant \in Tenants,
         NEW decision \in {"denied", "tenant_disabled", "rate_limited"}
  PROVE  Right(Refused(r, decision)) /\ Right([Refused(r, decision) EXCEPT !.answer = 429])
<1>1. PICK a \in Seq(Decisions) : a = <<decision>>
  <2>1. decision \in Decisions
    BY DEF Decisions
  <2>2. <<decision>> \in Seq(Decisions)
    BY <2>1
  <2> QED
    BY <2>2, Zenon
<1>2. PICK n \in Nat, m \in Nat : n = 403 /\ m = 429
  OBVIOUS
<1>3. n \in Nat /\ m \in Nat
  BY <1>2
<1>4. PICK q : q = [r EXCEPT !.pc = "answered", !.audit = a, !.answer = n]
  OBVIOUS
<1>5. Right(q)
  <2>1. a \in Seq(Decisions)
    BY <1>1
  <2> QED
    BY <1>3, <1>4, <2>1, RefusesRight, Zenon
<1>6. PICK p : p = [q EXCEPT !.answer = m]
  OBVIOUS
<1>7. Right(p)
  BY <1>3, <1>5, <1>6, AnswersRight, Zenon
<1>8. q = Refused(r, decision)
  BY <1>1, <1>2, <1>4, Zenon DEF Refused
<1> QED
  BY <1>2, <1>5, <1>6, <1>7, <1>8, Zenon

----------------------------------------------------------------------------
\* The steps.

RequestsRight == job \in [Handlers -> Request] /\ \A h \in Handlers : Right(job[h])

\* One handler's request changes into a right one.
LEMMA OneRequestChanges ==
  ASSUME RequestsRight, NEW h \in Handlers, NEW q, Right(q), job' = [job EXCEPT ![h] = q]
  PROVE  RequestsRight'
  BY DEF RequestsRight, Right

\* From the gate to the limiter.
LEMMA AdmitStep ==
  ASSUME RequestsRight, NEW h \in Handlers, NEW t \in Tenants, NEW s \in Services,
         NEW kind \in Wants, Admit(h, t, s, kind)
  PROVE  RequestsRight'
<1>1. PICK r : r = [Idle EXCEPT !.pc = "call", !.tenant = t, !.service = s, !.wants = kind]
  OBVIOUS
<1>2. Right(r) /\ r.pc = "call"
  BY <1>1, BeginsRight, Zenon
<1>3. r.process # "running" /\ r.tenant \in Tenants
  BY <1>2 DEF Right
<1>4. /\ Right(Refused(r, "denied")) /\ Right(Refused(r, "tenant_disabled"))
      /\ Right([Refused(r, "rate_limited") EXCEPT !.answer = 429])
  BY <1>2, <1>3, RefusedRight
<1>5. PICK full \in BOOLEAN :
        job' = [job EXCEPT ![h] =
            CASE <<t, s>> \notin Allowed -> Refused(r, "denied")
              [] <<t, s>> \in Allowed /\ SwitchedOff(t, s) -> Refused(r, "tenant_disabled")
              [] <<t, s>> \in Allowed /\ ~SwitchedOff(t, s) /\ full -> [Refused(r, "rate_limited") EXCEPT !.answer = 429]
              [] OTHER -> r]
  BY <1>1, Zenon DEF Admit
<1>6. PICK q : /\ Right(q)
               /\ job' = [job EXCEPT ![h] = q]
  <2>1. CASE <<t, s>> \notin Allowed
    BY <1>4, <1>5, <2>1
  <2>2. CASE <<t, s>> \in Allowed /\ SwitchedOff(t, s)
    BY <1>4, <1>5, <2>2
  <2>3. CASE <<t, s>> \in Allowed /\ ~SwitchedOff(t, s) /\ full
    <3>1. job' = [job EXCEPT ![h] = [Refused(r, "rate_limited") EXCEPT !.answer = 429]]
      BY <1>5, <2>3
    <3> QED
      BY <1>4, <3>1, Zenon
  <2>4. CASE <<t, s>> \in Allowed /\ ~SwitchedOff(t, s) /\ ~full
    BY <1>2, <1>5, <2>4
  <2> QED
    BY <2>1, <2>2, <2>3, <2>4
<1> QED
  BY <1>6, OneRequestChanges, Zenon

\* The executor of an outcome is done.
LEMMA FinishStep ==
  ASSUME RequestsRight, NEW h \in Handlers, NEW r, Right(r), r.process # "running", r.tenant \in Tenants,
         NEW result \in {"success", "unknown", "wrong_kind", "timeout", "error"}, Finish(h, r, result)
  PROVE  RequestsRight'
<1>1. Right([Returned(r) EXCEPT !.audit = Append(@, result), !.answer = Status(result)])
  BY FinishRight, Zenon
<1>2. job' = [job EXCEPT ![h] = [Returned(r) EXCEPT !.audit = Append(@, result), !.answer = Status(result)]]
  BY Zenon DEF Finish
<1> QED
  BY <1>1, <1>2, OneRequestChanges, Zenon

LEMMA EscapeStep ==
  ASSUME RequestsRight, NEW h \in Handlers, NEW r, Right(r), r.process # "running", r.tenant \in Tenants, Escape(h, r)
  PROVE  RequestsRight'
<1>1. PICK n \in Nat : n = 500
  OBVIOUS
<1>2. n \in Nat
  BY <1>1
<1>3. Right([Returned(r) EXCEPT !.answer = n])
  BY <1>2, EscapeRight, Zenon
<1>4. job' = [job EXCEPT ![h] = [Returned(r) EXCEPT !.answer = n]]
  BY <1>1, Zenon DEF Escape
<1> QED
  BY <1>3, <1>4, OneRequestChanges, Zenon

\* Integrations.
LEMMA IntegrationStep ==
  ASSUME ServicesInv, NEW h \in Handlers,
         Resolve(h) \/ Fetch(h) \/ StoreSecret(h) \/ CheckToken(h)
         \/ Refresh(h) \/ StoreToken(h) \/ Validate(h) \/ Send(h)
  PROVE  RequestsRight'
<1>1. PICK r : r = job[h]
  OBVIOUS
<1>2. Right(r) /\ RequestsRight
  BY <1>1 DEF ServicesInv, TypeOK, RequestsRight
<1>3. r.pc \notin {"idle", "exchange"} => r.process # "running" /\ r.tenant \in Tenants
  BY <1>2 DEF Right
<1>4. CASE Resolve(h)
  <2>1. PICK entry : entry = secrets[r.tenant]
    OBVIOUS
  <2>2. /\ r.pc = "call"
        /\ IF entry.until > now
           THEN IF entry.version = 0
                THEN Finish(h, r, "error")
                ELSE job' = [job EXCEPT ![h] = [r EXCEPT !.pc = "token", !.resolved = now,
                       !.creds = [tenant |-> r.tenant, version |-> entry.version]]]
           ELSE job' = [job EXCEPT ![h] = [r EXCEPT !.pc = "fetch", !.resolved = now]]
    BY <1>1, <1>4, <2>1, Zenon DEF Resolve, At
  <2>3. r.process # "running" /\ r.tenant \in Tenants /\ now \in Nat
    BY <1>3, <2>2 DEF ServicesInv, TypeOK
  <2>4. entry.version \in Nat
    BY <2>1, <2>3 DEF ServicesInv, TypeOK
  <2>5. Right([r EXCEPT !.pc = "token", !.resolved = now, !.creds = [tenant |-> r.tenant, version |-> entry.version]])
    BY <1>2, <2>3, <2>4, CachedRight, Zenon
  <2>6. Right([r EXCEPT !.pc = "fetch", !.resolved = now])
    BY <1>2, <2>3, FetchesRight, Zenon
  <2>7. CASE Finish(h, r, "error")
    BY <1>2, <2>3, <2>7, FinishStep
  <2>8. CASE job' = [job EXCEPT ![h] = [r EXCEPT !.pc = "token", !.resolved = now,
                       !.creds = [tenant |-> r.tenant, version |-> entry.version]]]
    BY <1>2, <2>5, <2>8, OneRequestChanges, Zenon
  <2>9. CASE job' = [job EXCEPT ![h] = [r EXCEPT !.pc = "fetch", !.resolved = now]]
    BY <1>2, <2>6, <2>9, OneRequestChanges, Zenon
  <2> QED
    BY <2>2, <2>7, <2>8, <2>9, Zenon
<1>5. CASE Fetch(h)
  <2>1. /\ r.pc = "fetch"
        /\ \/ job' = [job EXCEPT ![h] = [r EXCEPT !.pc = "fetched", !.read = secret[r.tenant]]]
           \/ Escape(h, r)
    BY <1>1, <1>5, Zenon DEF Fetch, At
  <2>2. r.process # "running" /\ r.tenant \in Tenants
    BY <1>3, <2>1
  <2>3. secret[r.tenant] \in Nat
    BY <2>2 DEF ServicesInv, TypeOK
  <2>4. Right([r EXCEPT !.pc = "fetched", !.read = secret[r.tenant]])
    BY <1>2, <2>2, <2>3, FetchedRight, Zenon
  <2>5. CASE Escape(h, r)
    BY <1>2, <2>2, <2>5, EscapeStep, Zenon
  <2> QED
    BY <1>2, <2>1, <2>4, <2>5, OneRequestChanges, Zenon
<1>6. CASE StoreSecret(h)
  <2>1. /\ r.pc = "fetched"
        /\ IF r.read = 0
           THEN Finish(h, r, "error")
           ELSE job' = [job EXCEPT ![h] = [r EXCEPT !.pc = "token", !.read = 0,
                  !.creds = [tenant |-> r.tenant, version |-> r.read]]]
    BY <1>1, <1>6, Zenon DEF StoreSecret, At
  <2>2. r.process # "running" /\ r.tenant \in Tenants
    BY <1>3, <2>1
  <2>3. Right([r EXCEPT !.pc = "token", !.read = 0, !.creds = [tenant |-> r.tenant, version |-> r.read]])
    BY <1>2, <2>2, StoredRight, Zenon
  <2>4. CASE Finish(h, r, "error")
    BY <1>2, <2>2, <2>4, FinishStep
  <2> QED
    BY <1>2, <2>1, <2>3, <2>4, OneRequestChanges, Zenon
<1>7. CASE CheckToken(h)
  <2>1. PICK c : c = [r EXCEPT !.checked = now]
    OBVIOUS
  <2>0. PICK entry : entry = tokens[TokenKey(r.tenant)]
    OBVIOUS
  <2>2. /\ r.pc = "token"
        /\ IF entry.until > now
           THEN job' = [job EXCEPT ![h] = Ready(c, entry.token)]
           ELSE \E found \in SUBSET Addresses :
                  IF found = {"public"}
                  THEN job' = [job EXCEPT ![h] = [c EXCEPT !.pc = "refresh", !.address = "public"]]
                  ELSE Finish(h, c, "error")
    BY <1>1, <1>7, <2>1, <2>0, Zenon DEF CheckToken, At
  <2>3. r.process # "running" /\ r.tenant \in Tenants /\ now \in Nat /\ r \in Request
    BY <1>2, <1>3, <2>2 DEF ServicesInv, TypeOK, Right
  <2>4. Right(c)
    BY <1>2, <2>1, <2>3, ChecksRight, Zenon
  <2>5. c.process = r.process /\ c.tenant = r.tenant
    BY <2>1, <2>3, Zenon DEF Request
  <2>6. entry.token \in Token /\ entry.token.tenant \in {"none", c.tenant}
    BY <2>0, <2>3, <2>5 DEF ServicesInv, TypeOK, TokenKey
  <2>7. Right([c EXCEPT !.pc = "request", !.token = entry.token, !.creds = NoCreds, !.resolved = 0,
                        !.address = "none", !.sent = FALSE])
    BY <2>3, <2>4, <2>5, <2>6, ReadyRight, Zenon
  <2>8. Right(Ready(c, entry.token))
    BY <2>7, Zenon DEF Ready
  <2>9. Right([c EXCEPT !.pc = "refresh", !.address = "public"])
    BY <2>3, <2>4, <2>5, RefreshesRight, Zenon
  <2>10. c.process # "running" /\ c.tenant \in Tenants
    BY <2>3, <2>5
  <2>11. CASE Finish(h, c, "error")
    BY <1>2, <2>4, <2>10, <2>11, FinishStep
  <2> QED
    BY <1>2, <2>2, <2>8, <2>9, <2>11, OneRequestChanges, Zenon
<1>8. CASE Refresh(h)
  <2>1. PICK k : k = [tenant |-> r.creds.tenant, version |-> r.creds.version, dies |-> now + Lifetime]
    OBVIOUS
  <2>2. PICK c : c = [r EXCEPT !.sent = TRUE, !.address = r.address]
    OBVIOUS
  <2>3. r.pc = "refresh" /\ r \in Request /\ r.address = "public"
    BY <1>1, <1>2, <1>8 DEF Refresh, At, Right
  <2>4. c.process = r.process /\ c.tenant = r.tenant /\ c.creds = r.creds /\ c.address = "public"
    BY <2>2, <2>3, Zenon DEF Request
  <2>5. \/ \E result \in {"timeout", "error"} : Finish(h, c, result)
        \/ Escape(h, c)
        \/ job' = [job EXCEPT ![h] = [c EXCEPT !.pc = "minted", !.token = k]]
    <3>1. PICK creds : creds = c.creds
      OBVIOUS
    <3>2. \/ \E result \in {"timeout", "error"} : Finish(h, c, result)
          \/ Escape(h, c)
          \/ job' = [job EXCEPT ![h] = [c EXCEPT !.pc = "minted",
               !.token = [tenant |-> creds.tenant, version |-> creds.version, dies |-> now + Lifetime]]]
      BY <1>1, <1>8, <2>2, <3>1, Zenon DEF Refresh, Connected
    <3>3. creds = r.creds
      BY <2>4, <3>1
    <3> QED
      BY <2>1, <3>2, <3>3, Zenon
  <2>6. c.process # "running" /\ c.tenant \in Tenants /\ now \in Nat
    BY <1>3, <2>3, <2>4 DEF ServicesInv, TypeOK
  <2>7. Right(c)
    <3>1. r.address \in Addresses /\ Vetted(r.address, r.service)
      BY <2>3 DEF Addresses, Vetted
    <3> QED
      BY <1>2, <2>2, <2>3, <3>1, SendsRight
  <2>8. k \in Token /\ k.tenant \in {"none", c.tenant}
    BY <1>2, <2>1, <2>4, <2>6, CredentialAssumption DEF Right, Request, Creds, Token, Anyone
  <2>9. Right([c EXCEPT !.pc = "minted", !.token = k])
    BY <2>4, <2>6, <2>7, <2>8, MintedRight, Zenon
  <2>10. ASSUME NEW result \in {"timeout", "error"}, Finish(h, c, result)
         PROVE  RequestsRight'
    BY <1>2, <2>6, <2>7, <2>10, FinishStep
  <2>11. CASE Escape(h, c)
    BY <1>2, <2>6, <2>7, <2>11, EscapeStep, Zenon
  <2>12. CASE job' = [job EXCEPT ![h] = [c EXCEPT !.pc = "minted", !.token = k]]
    BY <1>2, <2>9, <2>12, OneRequestChanges, Zenon
  <2> QED
    BY <2>5, <2>10, <2>11, <2>12, Zenon
<1>9. CASE StoreToken(h)
  <2>1. r.pc = "minted" /\ job' = [job EXCEPT ![h] = Ready(r, r.token)]
    BY <1>1, <1>9, Zenon DEF StoreToken, At
  <2>2. r.process # "running" /\ r.tenant \in Tenants /\ r.token \in Token /\ r.token.tenant \in {"none", r.tenant}
    BY <1>2, <1>3, <2>1 DEF Right, Request
  <2>3. Right([r EXCEPT !.pc = "request", !.token = r.token, !.creds = NoCreds, !.resolved = 0,
                        !.address = "none", !.sent = FALSE])
    BY <1>2, <2>2, ReadyRight, Zenon
  <2>4. Right(Ready(r, r.token))
    BY <2>3, Zenon DEF Ready
  <2> QED
    BY <1>2, <2>1, <2>4, OneRequestChanges, Zenon
<1>10. CASE Validate(h)
  <2>1. /\ r.pc = "request"
        /\ \/ Finish(h, r, "unknown")
           \/ \E found \in SUBSET Addresses :
                IF found # {} /\ Safe(found, r.service)
                THEN \E a \in found : job' = [job EXCEPT ![h] = [r EXCEPT !.pc = "send", !.address = a]]
                ELSE Finish(h, r, "error")
    BY <1>1, <1>10, Zenon DEF Validate, At
  <2>2. r.process # "running" /\ r.tenant \in Tenants
    BY <1>3, <2>1
  <2>3. CASE Finish(h, r, "unknown")
    BY <1>2, <2>2, <2>3, FinishStep
  <2>4. CASE Finish(h, r, "error")
    BY <1>2, <2>2, <2>4, FinishStep
  <2>5. ASSUME NEW found \in SUBSET Addresses, Safe(found, r.service), NEW a \in found,
               job' = [job EXCEPT ![h] = [r EXCEPT !.pc = "send", !.address = a]]
        PROVE  RequestsRight'
    <3>1. a \in Addresses /\ Vetted(a, r.service)
      BY <2>5 DEF Safe, Vetted
    <3>2. Right([r EXCEPT !.pc = "send", !.address = a])
      BY <1>2, <2>2, <3>1, PinnedRight, Zenon
    <3> QED
      BY <1>2, <2>5, <3>2, OneRequestChanges, Zenon
  <2> QED
    BY <2>1, <2>3, <2>4, <2>5, Zenon
<1>11. CASE Send(h)
  <2>1. /\ r.pc = "send"
        /\ \E a \in {r.address} :
             \/ \E result \in {"success", "timeout", "error"} : Finish(h, [r EXCEPT !.sent = TRUE, !.address = a], result)
             \/ Escape(h, [r EXCEPT !.sent = TRUE, !.address = a])
    BY <1>1, <1>11, Zenon DEF Send, At, Connected
  <2>2. PICK a, c : /\ a = r.address /\ c = [r EXCEPT !.sent = TRUE, !.address = a]
                    /\ (\E result \in {"success", "timeout", "error"} : Finish(h, c, result)) \/ Escape(h, c)
    BY <2>1, Zenon
  <2>3. /\ r.process # "running" /\ r.tenant \in Tenants /\ r \in Request
        /\ a \in Addresses /\ Vetted(a, r.service)
    BY <1>2, <1>3, <2>1, <2>2 DEF Right, Vetted, Addresses
  <2>4. Right(c)
    BY <1>2, <2>1, <2>2, <2>3, SendsRight
  <2>5. c.process = r.process /\ c.tenant = r.tenant
    BY <2>2, <2>3, Zenon DEF Request
  <2>6. c.process # "running" /\ c.tenant \in Tenants
    BY <2>3, <2>5
  <2>7. ASSUME NEW result \in {"success", "timeout", "error"}, Finish(h, c, result)
        PROVE  RequestsRight'
    BY <1>2, <2>4, <2>6, <2>7, FinishStep
  <2>8. CASE Escape(h, c)
    BY <1>2, <2>4, <2>6, <2>8, EscapeStep, Zenon
  <2> QED
    BY <2>2, <2>7, <2>8, Zenon
<1> QED
  BY <1>4, <1>5, <1>6, <1>7, <1>8, <1>9, <1>10, <1>11

\* Media.
LEMMA MediaStep ==
  ASSUME ServicesInv, NEW h \in Handlers, CallBackend(h) \/ PutArtifact(h)
  PROVE  RequestsRight'
<1>1. PICK r : r = job[h]
  OBVIOUS
<1>2. Right(r) /\ RequestsRight
  BY <1>1 DEF ServicesInv, TypeOK, RequestsRight
<1>3. r.pc \notin {"idle", "exchange"} => r.process # "running" /\ r.tenant \in Tenants
  BY <1>2 DEF Right
<1>4. CASE CallBackend(h)
  <2>1. /\ r.pc = "call"
        /\ \/ Finish(h, r, "wrong_kind")
           \/ \E result \in {"error", "timeout"} : Finish(h, r, result)
           \/ Finish(h, r, "success")
           \/ job' = [job EXCEPT ![h] = [r EXCEPT !.pc = "put"]]
           \/ Escape(h, r)
    BY <1>1, <1>4, Zenon DEF CallBackend, OnMedia
  <2>2. r.process # "running" /\ r.tenant \in Tenants
    BY <1>3, <2>1
  <2>3. ASSUME NEW result \in {"success", "unknown", "wrong_kind", "timeout", "error"}, Finish(h, r, result)
        PROVE  RequestsRight'
    BY <1>2, <2>2, <2>3, FinishStep
  <2>4. CASE Escape(h, r)
    BY <1>2, <2>2, <2>4, EscapeStep, Zenon
  <2>5. CASE job' = [job EXCEPT ![h] = [r EXCEPT !.pc = "put"]]
    <3>1. Right([r EXCEPT !.pc = "put"])
      BY <1>2, <2>2, PutsRight, Zenon
    <3> QED
      BY <1>2, <2>5, <3>1, OneRequestChanges, Zenon
  <2> QED
    BY <2>1, <2>3, <2>4, <2>5, Zenon
<1>5. CASE PutArtifact(h)
  <2>1. PICK id : id = drawn + 1
    OBVIOUS
  <2>2. PICK c : c = [r EXCEPT !.artifact = id]
    OBVIOUS
  <2>3. PICK d : d = [c EXCEPT !.artifact = 0]
    OBVIOUS
  <2>4. /\ r.pc = "put"
        /\ Finish(h, c, "success") \/ Finish(h, d, "error")
    BY <1>1, <1>5, <2>1, <2>2, <2>3, Zenon DEF PutArtifact, OnMedia
  <2>5. r.process # "running" /\ r.tenant \in Tenants /\ id \in Nat /\ r \in Request
    BY <1>2, <1>3, <2>1, <2>4 DEF ServicesInv, TypeOK, Right
  <2>6. Right(c)
    BY <1>2, <2>2, <2>5, NamesRight, Zenon
  <2>7. c.process = r.process /\ c.tenant = r.tenant
    BY <2>2, <2>5, Zenon DEF Request
  <2>8. 0 \in Nat /\ c \in Request
    BY <2>6 DEF Right
  <2>9. Right(d)
    BY <2>3, <2>6, <2>8, NamesRight, Zenon
  <2>10. d.process = c.process /\ d.tenant = c.tenant
    BY <2>3, <2>8, Zenon DEF Request
  <2>11. c.process # "running" /\ c.tenant \in Tenants /\ d.process # "running" /\ d.tenant \in Tenants
    BY <2>5, <2>7, <2>10
  <2>12. CASE Finish(h, c, "success")
    BY <1>2, <2>6, <2>11, <2>12, FinishStep
  <2>13. CASE Finish(h, d, "error")
    BY <1>2, <2>9, <2>11, <2>13, FinishStep
  <2> QED
    BY <2>4, <2>12, <2>13, Zenon
<1> QED
  BY <1>4, <1>5

\* The rest of an MCP handler.
LEMMA ConcludeStep ==
  ASSUME RequestsRight, NEW h \in Handlers, NEW r, Right(r), r.process # "running", r.tenant \in Tenants,
         NEW result \in {"success", "unknown", "timeout", "error"}, Conclude(h, r, result)
  PROVE  RequestsRight'
<1>1. PICK n : n = IF result = "success" THEN 200 ELSE 502
  OBVIOUS
<1>2. n \in Nat
  BY <1>1
<1>3. CASE Finish(h, r, result)
  BY <1>3, FinishStep
<1>4. CASE job' = [job EXCEPT ![h] = [Returned(r) EXCEPT !.answer = n]]
  <2>1. Right([Returned(r) EXCEPT !.answer = n])
    BY <1>2, EscapeRight, Zenon
  <2> QED
    BY <1>4, <2>1, OneRequestChanges, Zenon
<1> QED
  BY <1>1, <1>3, <1>4, Zenon DEF Conclude

\* An MCP request without a slot.
LEMMA ListStep ==
  ASSUME RequestsRight, NEW h \in Handlers, NEW t \in Tenants, NEW s \in Services, ListTools(h, t, s)
  PROVE  RequestsRight'
<1>1. PICK r : r = [Idle EXCEPT !.pc = "call", !.tenant = t, !.service = s, !.wants = "list"]
  OBVIOUS
<1>2. "list" \in Wants
  BY DEF Wants
<1>3. Right(r) /\ r.pc = "call"
  BY <1>1, <1>2, BeginsRight, Zenon
<1>4. r.process # "running" /\ r.tenant \in Tenants
  BY <1>3 DEF Right
<1>5. Right(Refused(r, "denied"))
  BY <1>3, <1>4, RefusedRight
<1>6. job' = [job EXCEPT ![h] = IF <<t, s>> \in Allowed THEN r ELSE Refused(r, "denied")]
  BY <1>1, Zenon DEF ListTools
<1>7. CASE <<t, s>> \in Allowed
  BY <1>3, <1>6, <1>7, OneRequestChanges
<1>8. CASE <<t, s>> \notin Allowed
  BY <1>5, <1>6, <1>8, OneRequestChanges
<1> QED
  BY <1>7, <1>8

\* An exchange with a server process.
LEMMA McpStep ==
  ASSUME ServicesInv, NEW h \in Handlers, Spawn(h) \/ Exits(h) \/ TimesOut(h) \/ Breaks(h)
  PROVE  RequestsRight'
<1>1. PICK r : r = job[h]
  OBVIOUS
<1>2. Right(r) /\ RequestsRight
  BY <1>1 DEF ServicesInv, TypeOK, RequestsRight
<1>3. r \in Request
  BY <1>2 DEF Right
<1>4. ASSUME NEW p \in {"none", "orphan"}, NEW c, c = [r EXCEPT !.process = p], r.pc = "exchange"
      PROVE  Right(c) /\ c.process # "running" /\ c.tenant \in Tenants
  <2>1. c.process = p /\ c.tenant = r.tenant
    BY <1>3, <1>4, Zenon DEF Request
  <2>2. Right(c)
    BY <1>2, <1>4, ExitsRight, Zenon
  <2> QED
    BY <1>2, <1>4, <2>1, <2>2 DEF Right
<1>7. CASE Spawn(h)
  <2>1. /\ r.pc = "call"
        /\ job' = [job EXCEPT ![h] = [r EXCEPT !.pc = "exchange", !.process = "running"]] \/ Conclude(h, r, "error")
    BY <1>1, <1>7, Zenon DEF Spawn, OnMcp
  <2>2. r.process # "running" /\ r.tenant \in Tenants
    BY <1>2, <2>1 DEF Right
  <2>3. CASE Conclude(h, r, "error")
    BY <1>2, <2>2, <2>3, ConcludeStep
  <2>4. Right([r EXCEPT !.pc = "exchange", !.process = "running"])
    BY <1>2, <2>2, SpawnsRight, Zenon
  <2>5. CASE job' = [job EXCEPT ![h] = [r EXCEPT !.pc = "exchange", !.process = "running"]]
    BY <1>2, <2>4, <2>5, OneRequestChanges, Zenon
  <2> QED
    BY <2>1, <2>3, <2>5, Zenon
<1>8. CASE Exits(h)
  <2>1. PICK c : c = [r EXCEPT !.process = "none"]
    OBVIOUS
  <2>2. /\ r.pc = "exchange"
        /\ (\E result \in {"success", "unknown", "error"} : Conclude(h, c, result)) \/ Escape(h, c)
    BY <1>1, <1>8, <2>1, Zenon DEF Exits, OnMcp
  <2>3. Right(c) /\ c.process # "running" /\ c.tenant \in Tenants
    BY <1>4, <2>1, <2>2
  <2>4. ASSUME NEW result \in {"success", "unknown", "error"}, Conclude(h, c, result)
        PROVE  RequestsRight'
    BY <1>2, <2>3, <2>4, ConcludeStep
  <2>5. CASE Escape(h, c)
    BY <1>2, <2>3, <2>5, EscapeStep, Zenon
  <2> QED
    BY <2>2, <2>4, <2>5, Zenon
<1>9. CASE TimesOut(h) \/ Breaks(h)
  <2>1. PICK p \in {"none", "orphan"}, result \in {"timeout", "error"} :
          r.pc = "exchange" /\ Conclude(h, [r EXCEPT !.process = p], result)
    BY <1>1, <1>9, Zenon DEF TimesOut, Breaks, OnMcp
  <2>2. PICK c : c = [r EXCEPT !.process = p]
    OBVIOUS
  <2>3. Right(c) /\ c.process # "running" /\ c.tenant \in Tenants
    BY <1>4, <2>1, <2>2
  <2> QED
    BY <1>2, <2>1, <2>2, <2>3, ConcludeStep
<1> QED
  BY <1>7, <1>8, <1>9

----------------------------------------------------------------------------
\* The state that the requests share.

SharedRight ==
  /\ now \in Nat /\ offered \subseteq Services /\ requests \in Nat
  /\ secret \in [Tenants -> Nat]
  /\ secrets \in [Tenants -> [until : Int, version : Nat]]
  /\ tokens \in [Tenants -> [until : Int, token : Token]]
  /\ drawn \in Nat
  /\ \A t \in Tenants : tokens[t].token.tenant \in {"none", t}

\* The invariant is that of the requests and that of what they share.
LEMMA TwoParts == ServicesInv <=> RequestsRight /\ SharedRight
  BY DEF ServicesInv, TypeOK, RequestsRight, SharedRight

\* Another entry of the resolver's cache.
LEMMA SecretStored ==
  ASSUME ServicesInv, NEW h \in Handlers, StoreSecret(h), UNCHANGED drawn
  PROVE  SharedRight'
<1>1. PICK r : r = job[h]
  OBVIOUS
<1>2. PICK entry : entry = [until |-> Until(h), version |-> r.read]
  OBVIOUS
<1>3. /\ secrets' = [secrets EXCEPT ![r.tenant] = entry]
      /\ UNCHANGED <<now, offered, requests, secret, tokens>>
  BY <1>1, <1>2, Zenon DEF StoreSecret
<1>4. r.read \in Nat /\ r.resolved \in Nat
  BY <1>1 DEF ServicesInv, TypeOK, Right, Request
<1>5. entry \in [until : Int, version : Nat]
  BY <1>1, <1>2, <1>4, CredentialAssumption DEF Until
<1> QED
  BY <1>3, <1>5 DEF ServicesInv, TypeOK, SharedRight

\* Another entry of the token cache: under the tenant it was minted for.
LEMMA TokenStored ==
  ASSUME ServicesInv, NEW h \in Handlers, StoreToken(h), UNCHANGED drawn
  PROVE  SharedRight'
<1>1. PICK r : r = job[h]
  OBVIOUS
<1>2. PICK entry : entry = [until |-> TokenUntil(h), token |-> r.token]
  OBVIOUS
<1>3. /\ tokens' = [tokens EXCEPT ![r.tenant] = entry]
      /\ UNCHANGED <<now, offered, requests, secret, secrets>>
  BY <1>1, <1>2, Zenon DEF StoreToken, TokenKey
<1>4. r.token \in Token /\ r.checked \in Nat /\ r.token.tenant \in {"none", r.tenant}
  BY <1>1 DEF ServicesInv, TypeOK, Right, Request
<1>5. TokenUntil(h) \in Int
  BY <1>1, <1>4, CredentialAssumption DEF TokenUntil
<1>6. entry \in [until : Int, token : Token] /\ entry.token = r.token
  BY <1>2, <1>4, <1>5
<1>7. tokens' \in [Tenants -> [until : Int, token : Token]]
  BY <1>3, <1>6 DEF ServicesInv, TypeOK
<1>8. ASSUME NEW t \in Tenants
      PROVE  tokens'[t].token.tenant \in {"none", t}
  <2>1. CASE t = r.tenant
    BY <1>3, <1>4, <1>6, <2>1 DEF ServicesInv, TypeOK
  <2>2. CASE t # r.tenant
    BY <1>3, <2>2 DEF ServicesInv, TypeOK
  <2> QED
    BY <2>1, <2>2
<1> QED
  BY <1>3, <1>7, <1>8 DEF ServicesInv, TypeOK, SharedRight

----------------------------------------------------------------------------
\* The invariant is inductive.

LEMMA ServicesInvInit == Init => ServicesInv
<1> SUFFICES ASSUME Init PROVE ServicesInv
  OBVIOUS
<1>1. /\ offered \in Deployments /\ now = 0 /\ requests = 0 /\ job = [h \in Handlers |-> Idle]
      /\ secret = [t \in Tenants |-> 1]
      /\ secrets = [t \in Tenants |-> NoEntry]
      /\ tokens = [t \in Tenants |-> NoTokenEntry]
      /\ drawn = 0
  BY DEF Init, HarnessInit, IntInit, MediaInit
<1>2. Right(Idle) /\ Idle \in Request
  BY IdleRight DEF Right
<1>3. RequestsRight
  BY <1>1, <1>2 DEF RequestsRight
<1>4. /\ NoEntry \in [until : Int, version : Nat]
      /\ NoTokenEntry \in [until : Int, token : Token]
      /\ NoTokenEntry.token.tenant = "none"
  BY DEF NoEntry, NoTokenEntry, NoToken, Token, Anyone
<1>5. SharedRight
  BY <1>1, <1>4, HarnessAssumption DEF SharedRight
<1> QED
  BY <1>3, <1>5, TwoParts

\* The clock and the operator's switches.
LEMMA HarnessKeeps ==
  ASSUME ServicesInv, HarnessNext, UNCHANGED <<intVars, mediaVars>>
  PROVE  ServicesInv'
<1>1. UNCHANGED <<offered, job, requests, secret, secrets, tokens, drawn>>
  BY Zenon DEF HarnessNext, Tick, Switch, intVars, mediaVars
<1>2. now' = now \/ now' = now + 1
  BY Zenon DEF HarnessNext, Tick, Switch
<1> QED
  BY <1>1, <1>2 DEF ServicesInv, TypeOK, Right

\* A request that begins.
LEMMA BeginKeeps ==
  ASSUME ServicesInv, RequestsRight', requests' = requests + 1,
         UNCHANGED <<now, offered>>, UNCHANGED <<secret, secrets, tokens>>, UNCHANGED drawn
  PROVE  ServicesInv'
  BY DEF ServicesInv, TypeOK, RequestsRight

LEMMA IntegrationsKeep ==
  ASSUME ServicesInv, IntNext, UNCHANGED mediaVars
  PROVE  ServicesInv'
<1>1. RequestsRight /\ UNCHANGED drawn
  BY TwoParts DEF mediaVars
<1>2. ASSUME NEW t \in Rotated, Rotate(t)
      PROVE  ServicesInv'
  <2>1. PICK v \in Versions : secret' = [secret EXCEPT ![t] = v]
    BY <1>2, Zenon DEF Rotate
  <2>2. UNCHANGED <<now, offered, job, requests, secrets, tokens>>
    BY <1>2, Zenon DEF Rotate, harnessVars
  <2>3. v \in Nat
    BY <2>1, CredentialAssumption DEF Versions
  <2> QED
    BY <1>1, <2>1, <2>2, <2>3 DEF ServicesInv, TypeOK, Right
<1>3. ASSUME NEW h \in Handlers, NEW t \in Tenants, NEW s \in Services, Invoke(h, t, s)
      PROVE  ServicesInv'
  <2>1. /\ Admit(h, t, s, "integration")
        /\ UNCHANGED <<secret, secrets, tokens>>
    BY <1>3, Zenon DEF Invoke, intVars
  <2>2. requests' = requests + 1 /\ UNCHANGED <<now, offered>>
    BY <2>1, Zenon DEF Admit
  <2>3. "integration" \in Wants
    BY DEF Wants
  <2>4. RequestsRight'
    BY <1>1, <2>1, <2>3, AdmitStep, Zenon
  <2> QED
    BY <1>1, <2>1, <2>2, <2>4, BeginKeeps
<1>4. ASSUME NEW h \in Handlers,
             Resolve(h) \/ Fetch(h) \/ StoreSecret(h) \/ CheckToken(h)
             \/ Refresh(h) \/ StoreToken(h) \/ Validate(h) \/ Send(h)
      PROVE  ServicesInv'
  <2>1. RequestsRight'
    BY <1>4, IntegrationStep, Zenon
  <2>2. CASE StoreSecret(h)
    <3>1. SharedRight'
      BY <1>1, <2>2, SecretStored
    <3> QED
      BY <2>1, <3>1 DEF ServicesInv, TypeOK, RequestsRight, SharedRight
  <2>3. CASE StoreToken(h)
    <3>1. SharedRight'
      BY <1>1, <2>3, TokenStored
    <3> QED
      BY <2>1, <3>1 DEF ServicesInv, TypeOK, RequestsRight, SharedRight
  <2>4. CASE Resolve(h) \/ Fetch(h) \/ CheckToken(h) \/ Refresh(h) \/ Validate(h) \/ Send(h)
    <3>1. UNCHANGED <<now, offered, requests, secret, secrets, tokens>>
      BY <2>4, Zenon DEF Resolve, Fetch, CheckToken, Refresh, Validate, Send, intVars
    <3> QED
      BY <1>1, <2>1, <3>1 DEF ServicesInv, TypeOK, RequestsRight
  <2> QED
    BY <1>4, <2>2, <2>3, <2>4, Zenon
<1> QED
  BY <1>2, <1>3, <1>4, Zenon DEF IntNext

LEMMA MediaKeeps ==
  ASSUME ServicesInv, MediaNext, UNCHANGED intVars
  PROVE  ServicesInv'
<1>1. RequestsRight /\ UNCHANGED <<secret, secrets, tokens>>
  BY TwoParts DEF intVars
<1>2. ASSUME NEW h \in Handlers, NEW t \in Tenants, NEW s \in Services,
             Transcribe(h, t, s) \/ Generate(h, t, s) \/ Synthesize(h, t, s)
      PROVE  ServicesInv'
  <2>1. "stt" \in Wants /\ "image" \in Wants /\ "tts" \in Wants
    BY DEF Wants
  <2>2. PICK kind \in Wants : MediaRequest(h, t, s, kind)
    BY <1>2, <2>1, Zenon DEF Transcribe, Generate, Synthesize
  <2>3. Admit(h, t, s, kind) /\ UNCHANGED drawn
    BY <2>2, Zenon DEF MediaRequest, mediaVars
  <2>4. requests' = requests + 1 /\ UNCHANGED <<now, offered>>
    BY <2>3, Zenon DEF Admit
  <2>5. RequestsRight'
    BY <1>1, <2>3, AdmitStep, Zenon
  <2> QED
    BY <1>1, <2>3, <2>4, <2>5, BeginKeeps
<1>3. ASSUME NEW h \in Handlers, CallBackend(h) \/ PutArtifact(h)
      PROVE  ServicesInv'
  <2>1. RequestsRight'
    BY <1>3, MediaStep, Zenon
  <2>2. UNCHANGED <<now, offered, requests>> /\ (drawn' = drawn \/ drawn' = drawn + 1)
    BY <1>3, Zenon DEF CallBackend, PutArtifact, mediaVars
  <2> QED
    BY <1>1, <2>1, <2>2 DEF ServicesInv, TypeOK, RequestsRight
<1>4. ASSUME NEW t \in Tenants, NEW id \in 1..drawn, ShowArtifact(t, id)
      PROVE  ServicesInv'
  <2>1. UNCHANGED <<now, offered, job, requests, drawn>>
    BY <1>4, Zenon DEF ShowArtifact, harnessVars
  <2> QED
    BY <1>1, <2>1 DEF ServicesInv, TypeOK, Right
<1> QED
  BY <1>2, <1>3, <1>4, Zenon DEF MediaNext

LEMMA McpKeeps ==
  ASSUME ServicesInv, McpNext, UNCHANGED <<intVars, mediaVars>>
  PROVE  ServicesInv'
<1>1. RequestsRight /\ UNCHANGED <<secret, secrets, tokens, drawn>>
  BY TwoParts DEF intVars, mediaVars
<1>2. ASSUME NEW h \in Handlers, NEW t \in Tenants, NEW s \in Services, InvokeTool(h, t, s)
      PROVE  ServicesInv'
  <2>1. Admit(h, t, s, "mcp")
    BY <1>2, Zenon DEF InvokeTool
  <2>2. requests' = requests + 1 /\ UNCHANGED <<now, offered>>
    BY <2>1, Zenon DEF Admit
  <2>3. "mcp" \in Wants
    BY DEF Wants
  <2>4. RequestsRight'
    BY <1>1, <2>1, <2>3, AdmitStep, Zenon
  <2> QED
    BY <1>1, <2>2, <2>4, BeginKeeps
<1>3. ASSUME NEW h \in Handlers, NEW t \in Tenants, NEW s \in Services, ListTools(h, t, s)
      PROVE  ServicesInv'
  <2>1. requests' = requests + 1 /\ UNCHANGED <<now, offered>>
    BY <1>3, Zenon DEF ListTools
  <2>2. RequestsRight'
    BY <1>1, <1>3, ListStep, Zenon
  <2> QED
    BY <1>1, <2>1, <2>2, BeginKeeps
<1>4. ASSUME NEW h \in Handlers, Spawn(h) \/ Exits(h) \/ TimesOut(h) \/ Breaks(h)
      PROVE  ServicesInv'
  <2>1. RequestsRight'
    BY <1>4, McpStep, Zenon
  <2>2. UNCHANGED <<now, offered, requests>>
    BY <1>4, Zenon DEF Spawn, Exits, TimesOut, Breaks
  <2> QED
    BY <1>1, <2>1, <2>2 DEF ServicesInv, TypeOK, RequestsRight
<1> QED
  BY <1>2, <1>3, <1>4, Zenon DEF McpNext

LEMMA ServicesInvStep == ServicesInv /\ [Next]_vars => ServicesInv'
<1> SUFFICES ASSUME ServicesInv, [Next]_vars PROVE ServicesInv'
  OBVIOUS
<1>1. CASE HarnessNext /\ UNCHANGED <<intVars, mediaVars>>
  BY <1>1, HarnessKeeps
<1>2. CASE IntNext /\ UNCHANGED mediaVars
  BY <1>2, IntegrationsKeep
<1>3. CASE MediaNext /\ UNCHANGED intVars
  BY <1>3, MediaKeeps
<1>4. CASE McpNext /\ UNCHANGED <<intVars, mediaVars>>
  BY <1>4, McpKeeps
<1>5. CASE UNCHANGED vars
  <2>1. UNCHANGED <<now, offered, job, requests, secret, secrets, tokens, drawn>>
    BY <1>5, Zenon DEF vars, harnessVars, intVars, mediaVars
  <2> QED
    BY <2>1 DEF ServicesInv, TypeOK, Right
<1> QED
  BY <1>1, <1>2, <1>3, <1>4, <1>5, Zenon DEF Next

\* Every reachable state has what the theorems below say of it.
LEMMA ServicesInvariant == Spec => []ServicesInv
<1>1. Init => ServicesInv
  BY ServicesInvInit
<1>2. ServicesInv /\ [Next]_vars => ServicesInv'
  BY ServicesInvStep
<1> QED
  BY <1>1, <1>2, PTL DEF Spec

----------------------------------------------------------------------------
\* How old a credential or a token is, and what a success has in storage.

\* What a request knows of time.
Fresh(r) ==
  /\ r.creds.version # 0 =>
       /\ r.pc \in {"token", "refresh", "minted"} /\ r.creds.version \in Versions
       /\ r.resolved < retired[r.tenant][r.creds.version] + TTL
  /\ r.pc \in {"fetch", "fetched", "token", "refresh", "minted"} => r.resolved <= now
  /\ r.pc = "fetched" /\ r.read # 0 => r.read \in Versions /\ r.resolved <= retired[r.tenant][r.read]
  /\ r.pc = "refresh" => r.checked <= now
  /\ r.pc = "minted" => r.checked + Lifetime <= r.token.dies
  /\ r.pc \in {"request", "send"} => r.checked + Margin < r.token.dies

\* What it has in storage.
Backed(r) ==
  /\ r.pc \notin {"idle", "answered"} => r.audit = <<>>
  /\ (/\ Storage /\ r.pc = "answered" /\ r.wants \in {"image", "tts"}
      /\ r.answer = 200 \/ r.audit = <<"success">>) => <<r.tenant, r.artifact>> \in DOMAIN objects

\* What the caches and the storage have for it.
SharedFresh ==
  /\ now <= MaxTime
  /\ retired \in [Tenants -> [Versions -> Nat]]
  /\ \A t \in Tenants :
       /\ secret[t] \in Versions
       /\ secret[t] # 0 => retired[t][secret[t]] = Current
       /\ secrets[t].version # 0 =>
            /\ secrets[t].version \in Versions /\ secrets[t].until <= now + TTL
            /\ secrets[t].until <= retired[t][secrets[t].version] + TTL
       /\ tokens[t].until = -1 \/ tokens[t].until + Margin <= tokens[t].token.dies
SharedBacked ==
  /\ shown.maker = shown.caller
  /\ \A t, id : <<t, id>> \in DOMAIN objects => objects[<<t, id>>] = t

RequestsFresh == \A h \in Handlers : Fresh(job[h]) /\ Backed(job[h])
FreshInv == RequestsFresh /\ SharedFresh /\ SharedBacked

\* A request that is answered.
Result(q, r, a, n) ==
  /\ q.pc = "answered" /\ q.creds = NoCreds /\ q.tenant = r.tenant /\ q.wants = r.wants
  /\ q.artifact = r.artifact /\ q.audit = a /\ q.answer = n

\* A request whose executor knows nothing of time.
Calm(q, r, pc) ==
  q.pc = pc /\ q.creds = r.creds /\ q.audit = r.audit

LEMMA ResultFresh ==
  ASSUME NEW q, NEW r, NEW a, NEW n, Result(q, r, a, n)
  PROVE  Fresh(q)
  BY DEF Result, Fresh, NoCreds

LEMMA CalmFresh ==
  ASSUME NEW r, Fresh(r), Backed(r), r.pc = "call", NEW q, NEW pc \in {"put", "exchange"}, Calm(q, r, pc)
  PROVE  Fresh(q) /\ Backed(q)
  BY DEF Calm, Fresh, Backed

\* What its executor leaves behind.
LEMMA ReturnedAs ==
  ASSUME NEW r, Right(r), r.process # "running", r.tenant \in Tenants
  PROVE  Returned(r) \in Request /\ Result(Returned(r), r, r.audit, r.answer)
<1>1. PICK q : q = [r EXCEPT !.pc = "answered", !.read = 0, !.creds = NoCreds, !.resolved = 0,
                             !.token = NoToken, !.checked = 0]
  OBVIOUS
<1>2. q = Returned(r)
  BY <1>1, Zenon DEF Returned
<1>3. r \in Request
  BY DEF Right
<1>4. q.pc = "answered" /\ q.creds = NoCreds
  BY <1>1, <1>3, Zenon DEF Request
<1>5. q.tenant = r.tenant /\ q.wants = r.wants /\ q.artifact = r.artifact
  BY <1>1, <1>3, Zenon DEF Request
<1>6. q.audit = r.audit /\ q.answer = r.answer
  BY <1>1, <1>3, Zenon DEF Request
<1>7. q \in Request
  BY <1>2, ReturnedRight DEF Right
<1> QED
  BY <1>2, <1>4, <1>5, <1>6, <1>7, Zenon DEF Result

\* It holds no server process that runs.
Serverless(r) == r.process # "running"

LEMMA FinishAs ==
  ASSUME NEW h, NEW r, Right(r), Serverless(r), r.tenant \in Tenants, NEW result, Finish(h, r, result)
  PROVE  \E q : Result(q, r, Append(r.audit, result), Status(result)) /\ job' = [job EXCEPT ![h] = q]
<1>1. PICK o : o = Returned(r)
  OBVIOUS
<1>2. o \in Request /\ Result(o, r, r.audit, r.answer)
  BY <1>1, ReturnedAs DEF Serverless
<1>3. PICK n : n = Status(result)
  OBVIOUS
<1>6. PICK a : a = Append(r.audit, result)
  OBVIOUS
<1>4. PICK q : q = [o EXCEPT !.audit = a, !.answer = n]
  OBVIOUS
<1>5. o.audit = r.audit
  BY <1>2 DEF Result
<1>7. job' = [job EXCEPT ![h] = q]
  BY <1>1, <1>3, <1>4, <1>5, <1>6, Zenon DEF Finish
<1>8. q.audit = a /\ q.answer = n
  BY <1>2, <1>4, Zenon DEF Request
<1>9. q.pc = o.pc /\ q.creds = o.creds /\ q.tenant = o.tenant /\ q.wants = o.wants /\ q.artifact = o.artifact
  BY <1>2, <1>4, Zenon DEF Request
<1>10. Result(q, r, a, n)
  BY <1>2, <1>8, <1>9 DEF Result
<1> QED
  BY <1>3, <1>6, <1>7, <1>10, Zenon

\* An answer that no audit record goes with.
LEMMA AnsweredAs ==
  ASSUME NEW h, NEW r, Right(r), r.process # "running", r.tenant \in Tenants, NEW n,
         job' = [job EXCEPT ![h] = [Returned(r) EXCEPT !.answer = n]]
  PROVE  \E q : Result(q, r, r.audit, n) /\ job' = [job EXCEPT ![h] = q]
<1>1. PICK o : o = Returned(r)
  OBVIOUS
<1>2. o \in Request /\ Result(o, r, r.audit, r.answer)
  BY <1>1, ReturnedAs
<1>4. PICK q : q = [o EXCEPT !.answer = n]
  OBVIOUS
<1>7. job' = [job EXCEPT ![h] = q]
  BY <1>1, <1>4, Zenon
<1>8. q.answer = n
  BY <1>2, <1>4, Zenon DEF Request
<1>9. q.pc = o.pc /\ q.creds = o.creds /\ q.tenant = o.tenant /\ q.wants = o.wants /\ q.artifact = o.artifact
      /\ q.audit = o.audit
  BY <1>2, <1>4, Zenon DEF Request
<1>10. Result(q, r, r.audit, n)
  BY <1>2, <1>8, <1>9 DEF Result
<1> QED
  BY <1>7, <1>10, Zenon

\* One request changes, the storage at most grows.
LEMMA OneFresh ==
  ASSUME RequestsRight, RequestsFresh, NEW h \in Handlers, NEW q, job' = [job EXCEPT ![h] = q],
         Fresh(q), Backed(q)', UNCHANGED <<now, retired>>, DOMAIN objects \subseteq DOMAIN objects'
  PROVE  RequestsFresh'
<1>1. ASSUME NEW u \in Handlers, NEW x, x = job'[u]
      PROVE  Fresh(x)' /\ Backed(x)'
  <2>1. CASE u = h
    <3>1. x = q
      BY <1>1, <2>1 DEF RequestsRight
    <3>2. Fresh(q)'
      BY DEF Fresh
    <3> QED
      BY <3>1, <3>2
  <2>2. CASE u # h
    <3>1. x = job[u]
      BY <1>1, <2>2 DEF RequestsRight
    <3>2. Fresh(x) /\ Backed(x)
      BY <3>1 DEF RequestsFresh
    <3>5. Fresh(x)'
      BY <3>2 DEF Fresh
    <3>6. Backed(x)'
      BY <3>2 DEF Backed
    <3> QED
      BY <3>5, <3>6
  <2> QED
    BY <2>1, <2>2
<1>2. ASSUME NEW u \in Handlers
      PROVE  (Fresh(job[u]) /\ Backed(job[u]))'
  <2>1. PICK x : x = job'[u]
    OBVIOUS
  <2>2. Fresh(x)' /\ Backed(x)'
    BY <1>1, <2>1
  <2> QED
    BY <2>1, <2>2 DEF Fresh, Backed
<1> QED
  BY <1>2 DEF RequestsFresh

\* An executor that is done, or its handler.
LEMMA FinishFresh ==
  ASSUME RequestsRight, RequestsFresh, NEW h \in Handlers, NEW r, Right(r), r.process # "running", r.tenant \in Tenants,
         r.audit = <<>>, NEW result, result \in {"success", "unknown", "wrong_kind", "timeout", "error"},
         result = "success" /\ r.wants \in {"image", "tts"} => <<r.tenant, r.artifact>> \in DOMAIN objects',
         Finish(h, r, result), UNCHANGED <<now, retired>>, DOMAIN objects \subseteq DOMAIN objects'
  PROVE  RequestsFresh'
<1>0. Serverless(r) /\ Right(r) /\ r.tenant \in Tenants /\ Finish(h, r, result)
  BY DEF Serverless
<1>1. PICK q : Result(q, r, Append(r.audit, result), Status(result)) /\ job' = [job EXCEPT ![h] = q]
  BY ONLY <1>0, FinishAs, Zenon
<1>2. q.audit = <<result>> /\ q.answer = Status(result)
  BY <1>1 DEF Result
<1>3. result # "success" => Status(result) # 200 /\ <<result>> # <<"success">>
  BY DEF Status
<1>4. q.pc = "answered" /\ q.wants = r.wants /\ q.tenant = r.tenant /\ q.artifact = r.artifact
  BY <1>1 DEF Result
<1>5. Backed(q)'
  BY <1>2, <1>3, <1>4 DEF Backed
<1> QED
  BY <1>1, <1>5, ResultFresh, OneFresh

LEMMA AnsweredFresh ==
  ASSUME RequestsRight, RequestsFresh, NEW h \in Handlers, NEW r, Right(r), r.process # "running", r.tenant \in Tenants,
         r.audit = <<>>, NEW n, n # 200 \/ r.wants \notin {"image", "tts"},
         job' = [job EXCEPT ![h] = [Returned(r) EXCEPT !.answer = n]],
         UNCHANGED <<now, retired>>, DOMAIN objects \subseteq DOMAIN objects'
  PROVE  RequestsFresh'
<1>1. PICK q : Result(q, r, r.audit, n) /\ job' = [job EXCEPT ![h] = q]
  BY AnsweredAs, Zenon
<1>2. q.audit = <<>> /\ q.answer = n /\ q.pc = "answered" /\ q.wants = r.wants
  BY <1>1 DEF Result
<1>3. <<>> # <<"success">>
  OBVIOUS
<1>5. Backed(q)'
  BY <1>2, <1>3 DEF Backed
<1> QED
  BY <1>1, <1>5, ResultFresh, OneFresh

LEMMA EscapeFresh ==
  ASSUME RequestsRight, RequestsFresh, NEW h \in Handlers, NEW r, Right(r), r.process # "running", r.tenant \in Tenants,
         r.audit = <<>>, Escape(h, r),
         UNCHANGED <<now, retired>>, DOMAIN objects \subseteq DOMAIN objects'
  PROVE  RequestsFresh'
<1>1. PICK n : n = 500
  OBVIOUS
<1>2. n # 200
  BY <1>1
<1>3. job' = [job EXCEPT ![h] = [Returned(r) EXCEPT !.answer = n]]
  BY <1>1, Zenon DEF Escape
<1> QED
  BY <1>2, <1>3, AnsweredFresh, Zenon

\* What a handler that takes a step knows.
LEMMA Known ==
  ASSUME ServicesInv, FreshInv, NEW h \in Handlers, NEW r, r = job[h]
  PROVE  /\ RequestsRight /\ RequestsFresh /\ Right(r) /\ Fresh(r) /\ Backed(r) /\ r \in Request
         /\ r.pc \notin {"idle", "exchange"} => r.process # "running" /\ r.tenant \in Tenants
         /\ r.pc \notin {"idle", "answered"} => r.audit = <<>> /\ r.tenant \in Tenants
         /\ now \in Nat /\ now <= MaxTime
  BY DEF ServicesInv, TypeOK, RequestsRight, FreshInv, RequestsFresh, SharedFresh, Right, Backed

\* The resolver: from its cache, a credential that has not been out of date for
\* as long as the cache keeps it.
LEMMA ResolveFresh ==
  ASSUME ServicesInv, FreshInv, NEW h \in Handlers, Resolve(h), UNCHANGED mediaVars
  PROVE  RequestsFresh'
<1>1. PICK r : r = job[h]
  OBVIOUS
<1>2. PICK entry : entry = secrets[r.tenant]
  OBVIOUS
<1>3. /\ r.pc = "call" /\ r.wants = "integration"
      /\ IF entry.until > now
         THEN IF entry.version = 0
              THEN Finish(h, r, "error")
              ELSE job' = [job EXCEPT ![h] = [r EXCEPT !.pc = "token", !.resolved = now,
                     !.creds = [tenant |-> r.tenant, version |-> entry.version]]]
         ELSE job' = [job EXCEPT ![h] = [r EXCEPT !.pc = "fetch", !.resolved = now]]
      /\ UNCHANGED <<now, retired, objects>>
  BY <1>1, <1>2, Zenon DEF Resolve, At, intVars, mediaVars
<1>4. /\ RequestsRight /\ RequestsFresh /\ Right(r) /\ Fresh(r) /\ r \in Request
      /\ r.process # "running" /\ r.tenant \in Tenants /\ r.audit = <<>> /\ now \in Nat
  BY <1>1, <1>3, Known
<1>5. CASE Finish(h, r, "error")
  BY <1>3, <1>4, <1>5, FinishFresh
<1>6. CASE entry.until > now /\ entry.version # 0
           /\ job' = [job EXCEPT ![h] = [r EXCEPT !.pc = "token", !.resolved = now,
                       !.creds = [tenant |-> r.tenant, version |-> entry.version]]]
  <2>1. PICK creds : creds = [tenant |-> r.tenant, version |-> entry.version]
    OBVIOUS
  <2>2. PICK q : q = [r EXCEPT !.pc = "token", !.resolved = now, !.creds = creds]
    OBVIOUS
  <2>3. q.pc = "token" /\ q.resolved = now /\ q.creds = creds /\ q.tenant = r.tenant /\ q.audit = r.audit
    BY <1>4, <2>2, Zenon DEF Request
  <2>4. creds.version = entry.version
    BY <2>1
  <2>5. entry.version \in Versions /\ entry.until <= retired[r.tenant][entry.version] + TTL
    BY <1>2, <1>4, <1>6 DEF FreshInv, SharedFresh
  <2>6. retired[r.tenant][entry.version] \in Nat /\ entry.until \in Int
    BY <1>2, <1>4, <2>5 DEF FreshInv, SharedFresh, ServicesInv, TypeOK
  <2>10. now < retired[r.tenant][entry.version] + TTL
    <3>1. PICK x \in Nat, u \in Int : x = retired[r.tenant][entry.version] /\ u = entry.until
      BY <2>6
    <3>2. now < u /\ u <= x + TTL
      BY <1>6, <2>5, <3>1
    <3>4. now \in Nat
      BY <1>4
    <3>5. TTL \in Nat
      BY CredentialAssumption
    <3>3. now < x + TTL
      BY <3>1, <3>2, <3>4, <3>5
    <3> QED
      BY <3>1, <3>3
  <2>7. Fresh(q)
    BY <1>4, <2>3, <2>4, <2>5, <2>10 DEF Fresh
  <2>8. Backed(q)'
    BY <1>4, <2>3 DEF Backed
  <2>9. job' = [job EXCEPT ![h] = q]
    BY <1>6, <2>1, <2>2, Zenon
  <2> QED
    BY <1>3, <1>4, <2>7, <2>8, <2>9, OneFresh
<1>7. CASE job' = [job EXCEPT ![h] = [r EXCEPT !.pc = "fetch", !.resolved = now]]
  <2>1. PICK q : q = [r EXCEPT !.pc = "fetch", !.resolved = now]
    OBVIOUS
  <2>2. q.pc = "fetch" /\ q.resolved = now /\ q.creds = r.creds /\ q.audit = r.audit
    BY <1>4, <2>1, Zenon DEF Request
  <2>3. Fresh(q)
    BY <1>3, <1>4, <2>2 DEF Fresh
  <2>4. Backed(q)'
    BY <1>4, <2>2 DEF Backed
  <2> QED
    BY <1>3, <1>4, <1>7, <2>1, <2>3, <2>4, OneFresh
<1> QED
  BY <1>3, <1>5, <1>6, <1>7, Zenon

\* GetSecretValue: what is stored has not been replaced.
LEMMA FetchFresh ==
  ASSUME ServicesInv, FreshInv, NEW h \in Handlers, Fetch(h), UNCHANGED mediaVars
  PROVE  RequestsFresh'
<1>1. PICK r : r = job[h]
  OBVIOUS
<1>2. PICK v : v = secret[r.tenant]
  OBVIOUS
<1>3. /\ r.pc = "fetch" /\ r.wants = "integration"
      /\ \/ job' = [job EXCEPT ![h] = [r EXCEPT !.pc = "fetched", !.read = v]]
         \/ Escape(h, r)
      /\ UNCHANGED <<now, retired, objects>>
  BY <1>1, <1>2, Zenon DEF Fetch, At, intVars, mediaVars
<1>4. /\ RequestsRight /\ RequestsFresh /\ Right(r) /\ Fresh(r) /\ r \in Request
      /\ r.process # "running" /\ r.tenant \in Tenants /\ r.audit = <<>> /\ now \in Nat /\ now <= MaxTime
  BY <1>1, <1>3, Known
<1>5. CASE Escape(h, r)
  BY <1>3, <1>4, <1>5, EscapeFresh
<1>6. CASE job' = [job EXCEPT ![h] = [r EXCEPT !.pc = "fetched", !.read = v]]
  <2>1. PICK q : q = [r EXCEPT !.pc = "fetched", !.read = v]
    OBVIOUS
  <2>2. q.pc = "fetched" /\ q.read = v /\ q.creds = r.creds /\ q.tenant = r.tenant
        /\ q.resolved = r.resolved /\ q.audit = r.audit
    BY <1>4, <2>1, Zenon DEF Request
  <2>3. v \in Versions /\ (v # 0 => retired[r.tenant][v] = Current)
    BY <1>2, <1>4 DEF FreshInv, SharedFresh
  <2>4. r.resolved \in Nat /\ r.resolved <= now
    BY <1>3, <1>4 DEF Request, Fresh
  <2>5. r.resolved <= Current
    BY <1>4, <2>4, HarnessAssumption DEF Current
  <2>6. Fresh(q)
    BY <1>3, <1>4, <2>2, <2>3, <2>4, <2>5 DEF Fresh
  <2>7. Backed(q)'
    BY <1>4, <2>2 DEF Backed
  <2> QED
    BY <1>3, <1>4, <1>6, <2>1, <2>6, <2>7, OneFresh
<1> QED
  BY <1>3, <1>5, <1>6

\* The credential fetched goes on, and into the cache.
LEMMA StoreSecretFresh ==
  ASSUME ServicesInv, FreshInv, NEW h \in Handlers, StoreSecret(h), UNCHANGED mediaVars
  PROVE  RequestsFresh' /\ SharedFresh'
<1>1. PICK r : r = job[h]
  OBVIOUS
<1>2. PICK entry : entry = [until |-> Until(h), version |-> r.read]
  OBVIOUS
<1>3. /\ r.pc = "fetched" /\ r.wants = "integration"
      /\ secrets' = [secrets EXCEPT ![r.tenant] = entry]
      /\ IF r.read = 0
         THEN Finish(h, r, "error")
         ELSE job' = [job EXCEPT ![h] = [r EXCEPT !.pc = "token", !.read = 0,
                !.creds = [tenant |-> r.tenant, version |-> r.read]]]
      /\ UNCHANGED <<now, retired, objects, secret, tokens>>
  BY <1>1, <1>2, Zenon DEF StoreSecret, At, mediaVars
<1>4. /\ RequestsRight /\ RequestsFresh /\ Right(r) /\ Fresh(r) /\ r \in Request
      /\ r.process # "running" /\ r.tenant \in Tenants /\ r.audit = <<>> /\ now \in Nat
  BY <1>1, <1>3, Known
<1>5. /\ r.resolved \in Nat /\ r.resolved <= now /\ r.read \in Nat
      /\ r.read # 0 => r.read \in Versions /\ r.resolved <= retired[r.tenant][r.read]
  BY <1>3, <1>4 DEF Request, Fresh
<1>6. r.read \in Versions => retired[r.tenant][r.read] \in Nat
  BY <1>4 DEF FreshInv, SharedFresh
<1>10. r.read # 0 =>
         /\ r.read \in Versions /\ r.resolved + TTL <= now + TTL
         /\ r.resolved + TTL <= retired[r.tenant][r.read] + TTL
         /\ r.resolved < retired[r.tenant][r.read] + TTL
  <2>1. SUFFICES ASSUME r.read # 0 PROVE
         /\ r.read \in Versions /\ r.resolved + TTL <= now + TTL
         /\ r.resolved + TTL <= retired[r.tenant][r.read] + TTL
         /\ r.resolved < retired[r.tenant][r.read] + TTL
    OBVIOUS
  <2>2. PICK x \in Nat, n \in Nat : x = retired[r.tenant][r.read] /\ n = r.resolved /\ n <= x /\ n <= now
    BY <1>5, <1>6, <2>1
  <2>4. now \in Nat
    BY <1>4
  <2>5. TTL \in Nat /\ TTL # 0
    BY CredentialAssumption
  <2>3. n + TTL <= now + TTL /\ n + TTL <= x + TTL /\ n < x + TTL
    BY <2>2, <2>4, <2>5
  <2> QED
    BY <1>5, <2>1, <2>2, <2>3
<1>7. RequestsFresh'
  <2>1. CASE Finish(h, r, "error")
    BY <1>3, <1>4, <2>1, FinishFresh
  <2>2. CASE r.read # 0 /\ job' = [job EXCEPT ![h] = [r EXCEPT !.pc = "token", !.read = 0,
                !.creds = [tenant |-> r.tenant, version |-> r.read]]]
    <3>1. PICK creds : creds = [tenant |-> r.tenant, version |-> r.read]
      OBVIOUS
    <3>2. PICK q : q = [r EXCEPT !.pc = "token", !.read = 0, !.creds = creds]
      OBVIOUS
    <3>3. q.pc = "token" /\ q.resolved = r.resolved /\ q.creds = creds /\ q.tenant = r.tenant /\ q.audit = r.audit
      BY <1>4, <3>2, Zenon DEF Request
    <3>4. creds.version = r.read
      BY <3>1
    <3>8. r.read \in Versions /\ r.resolved < retired[r.tenant][r.read] + TTL
      BY <1>10, <2>2
    <3>5. Fresh(q)
      BY <1>5, <3>3, <3>4, <3>8 DEF Fresh
    <3>6. Backed(q)'
      BY <1>4, <3>3 DEF Backed
    <3>7. job' = [job EXCEPT ![h] = q]
      BY <2>2, <3>1, <3>2, Zenon
    <3> QED
      BY <1>3, <1>4, <3>5, <3>6, <3>7, OneFresh
  <2> QED
    BY <1>3, <2>1, <2>2, Zenon
<1>8. entry.version = r.read /\ entry.until = r.resolved + TTL
  BY <1>1, <1>2 DEF Until
<1>9. entry.version # 0 =>
        /\ entry.version \in Versions /\ entry.until <= now + TTL
        /\ entry.until <= retired[r.tenant][entry.version] + TTL
  BY <1>8, <1>10
<1>11. ASSUME NEW t \in Tenants
       PROVE  secrets'[t].version # 0 =>
                /\ secrets'[t].version \in Versions /\ secrets'[t].until <= now + TTL
                /\ secrets'[t].until <= retired[t][secrets'[t].version] + TTL
  <2>1. CASE t = r.tenant
    BY <1>3, <1>4, <1>9, <2>1 DEF ServicesInv, TypeOK
  <2>2. CASE t # r.tenant
    <3>1. secrets'[t] = secrets[t]
      BY <1>3, <2>2 DEF ServicesInv, TypeOK
    <3> QED
      BY <3>1 DEF FreshInv, SharedFresh
  <2> QED
    BY <2>1, <2>2
<1>12. SharedFresh'
  BY <1>3, <1>11 DEF FreshInv, SharedFresh
<1> QED
  BY <1>7, <1>12

\* A token from the cache lives longer than the entry by the margin.
LEMMA CheckTokenFresh ==
  ASSUME ServicesInv, FreshInv, NEW h \in Handlers, CheckToken(h), UNCHANGED mediaVars
  PROVE  RequestsFresh'
<1>1. PICK r : r = job[h]
  OBVIOUS
<1>2. PICK c : c = [r EXCEPT !.checked = now]
  OBVIOUS
<1>3. PICK entry : entry = tokens[r.tenant]
  OBVIOUS
<1>4. /\ r.pc = "token" /\ r.wants = "integration"
      /\ IF entry.until > now
         THEN job' = [job EXCEPT ![h] = Ready(c, entry.token)]
         ELSE \E found \in SUBSET Addresses :
                IF found = {"public"}
                THEN job' = [job EXCEPT ![h] = [c EXCEPT !.pc = "refresh", !.address = "public"]]
                ELSE Finish(h, c, "error")
      /\ UNCHANGED <<now, retired, objects>>
  BY <1>1, <1>2, <1>3, Zenon DEF CheckToken, At, TokenKey, intVars, mediaVars
<1>5. /\ RequestsRight /\ RequestsFresh /\ Right(r) /\ Fresh(r) /\ r \in Request
      /\ r.process # "running" /\ r.tenant \in Tenants /\ r.audit = <<>> /\ now \in Nat
  BY <1>1, <1>4, Known
<1>6. Right(c)
  BY <1>2, <1>5, ChecksRight, Zenon
<1>7. c.checked = now /\ c.creds = r.creds /\ c.tenant = r.tenant /\ c.resolved = r.resolved /\ c.audit = r.audit
  BY <1>2, <1>5, Zenon DEF Request
<1>8. c \in Request
  BY <1>6 DEF Right
<1>9. CASE entry.until > now /\ job' = [job EXCEPT ![h] = Ready(c, entry.token)]
  <2>1. PICK token : token = entry.token
    OBVIOUS
  <2>2. PICK q : q = [c EXCEPT !.pc = "request", !.token = token, !.creds = NoCreds, !.resolved = 0,
                               !.address = "none", !.sent = FALSE]
    OBVIOUS
  <2>3. q.pc = "request" /\ q.token = token /\ q.creds = NoCreds /\ q.checked = c.checked /\ q.audit = c.audit
    BY <1>8, <2>2, Zenon DEF Request
  <2>4. entry.until \in Int /\ token.dies \in Nat
    BY <1>3, <1>5, <2>1 DEF ServicesInv, TypeOK, Token
  <2>5. entry.until = -1 \/ entry.until + Margin <= token.dies
    BY <1>3, <1>5, <2>1 DEF FreshInv, SharedFresh
  <2>6. now + Margin < token.dies
    BY <1>5, <1>9, <2>4, <2>5, CredentialAssumption
  <2>7. Fresh(q)
    BY <1>7, <2>3, <2>6 DEF Fresh, NoCreds
  <2>8. Backed(q)'
    BY <1>5, <1>7, <2>3 DEF Backed
  <2>9. job' = [job EXCEPT ![h] = q]
    BY <1>9, <2>1, <2>2, Zenon DEF Ready
  <2> QED
    BY <1>4, <1>5, <2>7, <2>8, <2>9, OneFresh
<1>10. CASE job' = [job EXCEPT ![h] = [c EXCEPT !.pc = "refresh", !.address = "public"]]
  <2>1. PICK q : q = [c EXCEPT !.pc = "refresh", !.address = "public"]
    OBVIOUS
  <2>2. q.pc = "refresh" /\ q.creds = c.creds /\ q.tenant = c.tenant /\ q.resolved = c.resolved
        /\ q.checked = c.checked /\ q.audit = c.audit
    BY <1>8, <2>1, Zenon DEF Request
  <2>3. Fresh(q)
    BY <1>4, <1>5, <1>7, <2>2 DEF Fresh
  <2>4. Backed(q)'
    BY <1>5, <1>7, <2>2 DEF Backed
  <2> QED
    BY <1>4, <1>5, <1>10, <2>1, <2>3, <2>4, OneFresh
<1>11. CASE Finish(h, c, "error")
  <2>1. c.process # "running" /\ c.tenant \in Tenants /\ c.audit = <<>>
    <3>1. c.process = r.process
      BY <1>2, <1>5, Zenon DEF Request
    <3> QED
      BY <1>5, <1>7, <3>1
  <2> QED
    BY <1>4, <1>5, <1>6, <1>11, <2>1, FinishFresh
<1> QED
  BY <1>4, <1>9, <1>10, <1>11, Zenon

\* A new token lives from when the server gave it, which was after the request
\* had looked at the clock.
LEMMA RefreshFresh ==
  ASSUME ServicesInv, FreshInv, NEW h \in Handlers, Refresh(h), UNCHANGED mediaVars
  PROVE  RequestsFresh'
<1>1. PICK r : r = job[h]
  OBVIOUS
<1>2. PICK k : k = [tenant |-> r.creds.tenant, version |-> r.creds.version, dies |-> now + Lifetime]
  OBVIOUS
<1>3. PICK c : c = [r EXCEPT !.sent = TRUE, !.address = r.address]
  OBVIOUS
<1>4. r.pc = "refresh" /\ r.wants = "integration" /\ UNCHANGED <<now, retired, objects>>
  BY <1>1, Zenon DEF Refresh, At, intVars, mediaVars
<1>5. /\ RequestsRight /\ RequestsFresh /\ Right(r) /\ Fresh(r) /\ r \in Request
      /\ r.process # "running" /\ r.tenant \in Tenants /\ r.audit = <<>> /\ now \in Nat
  BY <1>1, <1>4, Known
<1>6. /\ c.process = r.process /\ c.tenant = r.tenant /\ c.creds = r.creds /\ c.audit = r.audit
      /\ c.resolved = r.resolved /\ c.checked = r.checked
  BY <1>3, <1>5, Zenon DEF Request
<1>7. \/ \E result \in {"timeout", "error"} : Finish(h, c, result)
      \/ Escape(h, c)
      \/ job' = [job EXCEPT ![h] = [c EXCEPT !.pc = "minted", !.token = k]]
  <2>1. PICK creds : creds = c.creds
    OBVIOUS
  <2>2. \/ \E result \in {"timeout", "error"} : Finish(h, c, result)
        \/ Escape(h, c)
        \/ job' = [job EXCEPT ![h] = [c EXCEPT !.pc = "minted",
             !.token = [tenant |-> creds.tenant, version |-> creds.version, dies |-> now + Lifetime]]]
    BY <1>1, <1>3, <2>1, Zenon DEF Refresh, Connected
  <2>3. creds = r.creds
    BY <1>6, <2>1
  <2> QED
    BY <1>2, <2>2, <2>3, Zenon
<1>8. Right(c) /\ c.process # "running" /\ c.tenant \in Tenants /\ c.audit = <<>>
  <2>1. r.address = "public" /\ r.address \in Addresses /\ Vetted(r.address, r.service)
    BY <1>4, <1>5 DEF Right, Addresses, Vetted
  <2>2. Right(c)
    BY <1>3, <1>5, <2>1, SendsRight
  <2> QED
    BY <1>5, <1>6, <2>2
<1>9. ASSUME NEW result \in {"timeout", "error"}, Finish(h, c, result)
      PROVE  RequestsFresh'
  BY <1>4, <1>5, <1>8, <1>9, FinishFresh
<1>10. CASE Escape(h, c)
  BY <1>4, <1>5, <1>8, <1>10, EscapeFresh
<1>11. CASE job' = [job EXCEPT ![h] = [c EXCEPT !.pc = "minted", !.token = k]]
  <2>1. PICK q : q = [c EXCEPT !.pc = "minted", !.token = k]
    OBVIOUS
  <2>2. q.pc = "minted" /\ q.token = k /\ q.creds = c.creds /\ q.tenant = c.tenant
        /\ q.resolved = c.resolved /\ q.checked = c.checked /\ q.audit = c.audit
    <3>1. c \in Request
      BY <1>8 DEF Right
    <3> QED
      BY <2>1, <3>1, Zenon DEF Request
  <2>3. k.dies = now + Lifetime
    BY <1>2
  <2>4. r.checked \in Nat /\ r.checked <= now
    BY <1>4, <1>5 DEF Request, Fresh
  <2>5. r.checked + Lifetime <= k.dies
    BY <1>5, <2>3, <2>4, CredentialAssumption
  <2>6. Fresh(q)
    BY <1>4, <1>5, <1>6, <2>2, <2>5 DEF Fresh
  <2>7. Backed(q)'
    BY <1>8, <2>2 DEF Backed
  <2> QED
    BY <1>4, <1>5, <1>11, <2>1, <2>6, <2>7, OneFresh
<1> QED
  BY <1>7, <1>9, <1>10, <1>11

\* A request that begins, or is refused.
LEMMA BeginsFresh ==
  ASSUME NEW t \in Tenants, NEW s \in Services, NEW kind \in Wants,
         NEW q, q = [Idle EXCEPT !.pc = "call", !.tenant = t, !.service = s, !.wants = kind]
  PROVE  q \in Request /\ Fresh(q) /\ Backed(q)' /\ q.creds = NoCreds
<1>1. Right(q) /\ q.pc = "call"
  BY BeginsRight, Zenon
<1>2. q.creds = NoCreds /\ q.audit = <<>>
  BY Zenon DEF Idle
<1> QED
  BY <1>1, <1>2 DEF Fresh, Backed, NoCreds, Right

\* What a refusal says, and does not.
Turned(q) == q.pc = "answered" /\ q.creds = NoCreds /\ q.answer # 200 /\ q.audit # <<"success">>

LEMMA TurnedFresh ==
  ASSUME NEW q, Turned(q)
  PROVE  Fresh(q) /\ Backed(q)'
<1>1. q.pc = "answered" /\ q.creds = NoCreds /\ q.answer # 200 /\ q.audit # <<"success">>
  BY DEF Turned
<1>2. Fresh(q)
  BY <1>1 DEF Fresh, NoCreds
<1>3. Backed(q)'
  BY <1>1 DEF Backed
<1> QED
  BY <1>2, <1>3

LEMMA RefusedFresh ==
  ASSUME NEW r \in Request, r.creds = NoCreds, NEW decision \in {"denied", "tenant_disabled", "rate_limited"}
  PROVE  Refused(r, decision) \in Request /\ Turned(Refused(r, decision))
<1>1. PICK a : a = <<decision>>
  OBVIOUS
<1>2. PICK n : n = 403
  OBVIOUS
<1>3. a \in Seq(Decisions) /\ a # <<"success">> /\ n \in Nat /\ n # 200
  BY <1>1, <1>2 DEF Decisions
<1>4. PICK o : o = [r EXCEPT !.pc = "answered", !.audit = a, !.answer = n]
  OBVIOUS
<1>5. o.pc = "answered" /\ o.audit = a /\ o.answer = n /\ o.creds = r.creds
  BY <1>4, Zenon DEF Request
<1>6. "answered" \in PCs
  BY DEF PCs
<1>7. o \in Request
  BY <1>3, <1>4, <1>6, Zenon DEF Request
<1>8. Turned(o)
  BY <1>3, <1>5 DEF Turned
<1> QED
  BY <1>1, <1>2, <1>4, <1>7, <1>8, Zenon DEF Refused

LEMMA OverFresh ==
  ASSUME NEW r \in Request, Turned(r), NEW q, q = [r EXCEPT !.answer = 429]
  PROVE  Turned(q)
<1>1. PICK n : n = 429
  OBVIOUS
<1>2. q.answer = n /\ q.pc = r.pc /\ q.audit = r.audit /\ q.creds = r.creds
  BY <1>1, Zenon DEF Request
<1> QED
  BY <1>1, <1>2 DEF Turned

LEMMA AdmitFresh ==
  ASSUME ServicesInv, FreshInv, NEW h \in Handlers, NEW t \in Tenants, NEW s \in Services,
         NEW kind \in Wants, Admit(h, t, s, kind),
         UNCHANGED <<secret, retired, secrets, tokens>>, UNCHANGED <<objects, shown>>
  PROVE  FreshInv'
<1>1. PICK r : r = [Idle EXCEPT !.pc = "call", !.tenant = t, !.service = s, !.wants = kind]
  OBVIOUS
<1>2. r \in Request /\ Fresh(r) /\ Backed(r)' /\ r.creds = NoCreds
  BY <1>1, BeginsFresh, Zenon
<1>3. PICK full \in BOOLEAN :
        job' = [job EXCEPT ![h] =
            CASE <<t, s>> \notin Allowed -> Refused(r, "denied")
              [] <<t, s>> \in Allowed /\ SwitchedOff(t, s) -> Refused(r, "tenant_disabled")
              [] <<t, s>> \in Allowed /\ ~SwitchedOff(t, s) /\ full -> [Refused(r, "rate_limited") EXCEPT !.answer = 429]
              [] OTHER -> r]
  BY <1>1, Zenon DEF Admit
<1>4. UNCHANGED now
  BY Zenon DEF Admit
<1>5. PICK denied, off, over : /\ denied = Refused(r, "denied") /\ off = Refused(r, "tenant_disabled")
                               /\ over = [Refused(r, "rate_limited") EXCEPT !.answer = 429]
  BY Zenon
<1>6. PICK q : q \in {r, denied, off, over} /\ job' = [job EXCEPT ![h] = q]
  <2>1. job' = [job EXCEPT ![h] =
            CASE <<t, s>> \notin Allowed -> denied
              [] <<t, s>> \in Allowed /\ SwitchedOff(t, s) -> off
              [] <<t, s>> \in Allowed /\ ~SwitchedOff(t, s) /\ full -> over
              [] OTHER -> r]
    BY <1>3, <1>5, Zenon
  <2> QED
    BY <2>1
<1>7. Fresh(q) /\ Backed(q)'
  <2>1. r \in Request /\ r.creds = NoCreds
    BY <1>2
  <2>2. Turned(denied) /\ Turned(off)
    BY <1>5, <2>1, RefusedFresh
  <2>3. PICK limited : limited = Refused(r, "rate_limited")
    OBVIOUS
  <2>4. limited \in Request /\ Turned(limited)
    BY <2>1, <2>3, RefusedFresh
  <2>5. over = [limited EXCEPT !.answer = 429]
    BY <1>5, <2>3, Zenon
  <2>6. Turned(over)
    BY <2>4, <2>5, OverFresh, Zenon
  <2> QED
    BY <1>2, <1>6, <2>2, <2>6, TurnedFresh
<1>8. RequestsRight /\ RequestsFresh
  BY TwoParts DEF FreshInv
<1>9. RequestsFresh'
  BY <1>4, <1>6, <1>7, <1>8, OneFresh
<1>10. SharedFresh' /\ SharedBacked'
  BY <1>4 DEF FreshInv, SharedFresh, SharedBacked
<1> QED
  BY <1>9, <1>10 DEF FreshInv

\* The token minted goes on, and into the cache, where it is kept for less.
LEMMA StoreTokenFresh ==
  ASSUME ServicesInv, FreshInv, NEW h \in Handlers, StoreToken(h), UNCHANGED mediaVars
  PROVE  RequestsFresh' /\ SharedFresh'
<1>1. PICK r : r = job[h]
  OBVIOUS
<1>2. PICK entry : entry = [until |-> TokenUntil(h), token |-> r.token]
  OBVIOUS
<1>3. /\ r.pc = "minted" /\ r.wants = "integration"
      /\ tokens' = [tokens EXCEPT ![r.tenant] = entry]
      /\ job' = [job EXCEPT ![h] = Ready(r, r.token)]
      /\ UNCHANGED <<now, retired, objects, secret, secrets>>
  BY <1>1, <1>2, Zenon DEF StoreToken, At, TokenKey, mediaVars
<1>4. /\ RequestsRight /\ RequestsFresh /\ Right(r) /\ Fresh(r) /\ r \in Request
      /\ r.process # "running" /\ r.tenant \in Tenants /\ r.audit = <<>> /\ now \in Nat
  BY <1>1, <1>3, Known
<1>5. r.checked \in Nat /\ r.token.dies \in Nat /\ r.checked + Lifetime <= r.token.dies
  BY <1>3, <1>4 DEF Request, Token, Fresh
<1>6. r.checked + Margin < r.token.dies /\ r.checked + (Lifetime - Margin) + Margin <= r.token.dies
  <2>1. Lifetime \in Nat /\ Margin \in Nat /\ Margin < Lifetime
    BY CredentialAssumption
  <2> QED
    BY <1>5, <2>1
<1>7. RequestsFresh'
  <2>1. PICK q : q = [r EXCEPT !.pc = "request", !.token = r.token, !.creds = NoCreds, !.resolved = 0,
                               !.address = "none", !.sent = FALSE]
    OBVIOUS
  <2>2. q.pc = "request" /\ q.token = r.token /\ q.creds = NoCreds /\ q.checked = r.checked /\ q.audit = r.audit
    BY <1>4, <2>1, Zenon DEF Request
  <2>3. Fresh(q)
    BY <1>6, <2>2 DEF Fresh, NoCreds
  <2>4. Backed(q)'
    BY <1>4, <2>2 DEF Backed
  <2>5. job' = [job EXCEPT ![h] = q]
    BY <1>3, <2>1, Zenon DEF Ready
  <2> QED
    BY <1>3, <1>4, <2>3, <2>4, <2>5, OneFresh
<1>8. entry.until + Margin <= entry.token.dies
  <2>1. TokenUntil(h) = r.checked + (Lifetime - Margin)
    BY <1>1, CredentialAssumption DEF TokenUntil
  <2> QED
    BY <1>2, <1>6, <2>1
<1>9. ASSUME NEW t \in Tenants
      PROVE  tokens'[t].until = -1 \/ tokens'[t].until + Margin <= tokens'[t].token.dies
  <2>1. CASE t = r.tenant
    BY <1>3, <1>4, <1>8, <2>1 DEF ServicesInv, TypeOK
  <2>2. CASE t # r.tenant
    <3>1. tokens'[t] = tokens[t]
      BY <1>3, <2>2 DEF ServicesInv, TypeOK
    <3> QED
      BY <3>1 DEF FreshInv, SharedFresh
  <2> QED
    BY <2>1, <2>2
<1>10. SharedFresh'
  BY <1>3, <1>9 DEF FreshInv, SharedFresh
<1> QED
  BY <1>7, <1>10

\* The guard.
LEMMA ValidateFresh ==
  ASSUME ServicesInv, FreshInv, NEW h \in Handlers, Validate(h), UNCHANGED mediaVars
  PROVE  RequestsFresh'
<1>1. PICK r : r = job[h]
  OBVIOUS
<1>2. /\ r.pc = "request" /\ r.wants = "integration"
      /\ \/ Finish(h, r, "unknown")
         \/ \E found \in SUBSET Addresses :
              IF found # {} /\ Safe(found, r.service)
              THEN \E a \in found : job' = [job EXCEPT ![h] = [r EXCEPT !.pc = "send", !.address = a]]
              ELSE Finish(h, r, "error")
      /\ UNCHANGED <<now, retired, objects>>
  BY <1>1, Zenon DEF Validate, At, intVars, mediaVars
<1>6. r.pc = "request" /\ r.wants = "integration" /\ UNCHANGED <<now, retired, objects>>
  BY <1>2, Zenon
<1>3. /\ RequestsRight /\ RequestsFresh /\ Right(r) /\ Fresh(r) /\ r \in Request
      /\ r.process # "running" /\ r.tenant \in Tenants /\ r.audit = <<>>
  BY <1>1, <1>6, Known
<1>4. ASSUME NEW result \in {"unknown", "error"}, Finish(h, r, result)
      PROVE  RequestsFresh'
  BY <1>3, <1>4, <1>6, FinishFresh
<1>5. ASSUME NEW a, job' = [job EXCEPT ![h] = [r EXCEPT !.pc = "send", !.address = a]]
      PROVE  RequestsFresh'
  <2>1. PICK q : q = [r EXCEPT !.pc = "send", !.address = a]
    OBVIOUS
  <2>2. q.pc = "send" /\ q.token = r.token /\ q.creds = r.creds /\ q.checked = r.checked /\ q.audit = r.audit
    BY <1>3, <2>1, Zenon DEF Request
  <2>3. Fresh(q)
    BY <1>3, <1>6, <2>2 DEF Fresh
  <2>4. Backed(q)'
    BY <1>3, <2>2 DEF Backed
  <2> QED
    BY <1>3, <1>5, <1>6, <2>1, <2>3, <2>4, OneFresh
<1> QED
  BY <1>2, <1>4, <1>5, Zenon

\* The call.
LEMMA SendFresh ==
  ASSUME ServicesInv, FreshInv, NEW h \in Handlers, Send(h), UNCHANGED mediaVars
  PROVE  RequestsFresh'
<1>1. PICK r : r = job[h]
  OBVIOUS
<1>2. /\ r.pc = "send" /\ r.wants = "integration"
      /\ \E a \in {r.address} :
           \/ \E result \in {"success", "timeout", "error"} : Finish(h, [r EXCEPT !.sent = TRUE, !.address = a], result)
           \/ Escape(h, [r EXCEPT !.sent = TRUE, !.address = a])
      /\ UNCHANGED <<now, retired, objects>>
  BY <1>1, Zenon DEF Send, At, Connected, intVars, mediaVars
<1>3. PICK a, c : /\ a = r.address /\ c = [r EXCEPT !.sent = TRUE, !.address = a]
                  /\ (\E result \in {"success", "timeout", "error"} : Finish(h, c, result)) \/ Escape(h, c)
  BY <1>2, Zenon
<1>4. /\ RequestsRight /\ RequestsFresh /\ Right(r) /\ r \in Request
      /\ r.process # "running" /\ r.tenant \in Tenants /\ r.audit = <<>>
  BY <1>1, <1>2, Known
<1>5. a \in Addresses /\ Vetted(a, r.service)
  BY <1>2, <1>3, <1>4 DEF Right, Vetted, Addresses
<1>6. Right(c)
  BY <1>2, <1>3, <1>4, <1>5, SendsRight
<1>7. c.process = r.process /\ c.tenant = r.tenant /\ c.wants = r.wants /\ c.audit = r.audit
  BY <1>3, <1>4, Zenon DEF Request
<1>8. c.process # "running" /\ c.tenant \in Tenants /\ c.audit = <<>> /\ c.wants \notin {"image", "tts"}
  BY <1>2, <1>4, <1>7
<1>9. ASSUME NEW result \in {"success", "timeout", "error"}, Finish(h, c, result)
      PROVE  RequestsFresh'
  BY <1>2, <1>4, <1>6, <1>8, <1>9, FinishFresh
<1>10. CASE Escape(h, c)
  BY <1>2, <1>4, <1>6, <1>8, <1>10, EscapeFresh
<1> QED
  BY <1>3, <1>9, <1>10, Zenon

\* A secret is replaced, now: who has it has it since it was good.
LEMMA RotateFresh ==
  ASSUME ServicesInv, FreshInv, NEW t \in Tenants, Rotate(t), UNCHANGED mediaVars
  PROVE  FreshInv'
<1>1. PICK v \in Versions : /\ v # secret[t]
                            /\ v = 0 \/ (v > secret[t] /\ retired[t][v] = Current)
                            /\ secret' = [secret EXCEPT ![t] = v]
  BY Zenon DEF Rotate
<1>2. /\ retired' = [retired EXCEPT ![t][secret[t]] = now]
      /\ UNCHANGED <<now, job, secrets, tokens, objects, shown>>
  BY Zenon DEF Rotate, harnessVars, mediaVars
<1>3. /\ retired \in [Tenants -> [Versions -> Nat]] /\ now \in Nat /\ secret[t] \in Versions /\ t \in Tenants
      /\ secret \in [Tenants -> Nat] /\ now <= MaxTime
  BY DEF ServicesInv, TypeOK, FreshInv, SharedFresh
<1>4. retired' \in [Tenants -> [Versions -> Nat]]
  BY <1>2, <1>3
<1>5. ASSUME NEW u \in Tenants, NEW w \in Versions
      PROVE  \/ retired'[u][w] = retired[u][w]
             \/ u = t /\ w = secret[t] /\ retired'[u][w] = now
  BY <1>2, <1>3
<1>6. TTL \in Nat /\ TTL # 0
  BY CredentialAssumption
<1>7. ASSUME NEW r, Right(r), Fresh(r), Backed(r)
      PROVE  Fresh(r)' /\ Backed(r)'
  <2>1. r.creds.version # 0 => r.pc \in {"token", "refresh", "minted"} /\ r.creds.version \in Versions
                               /\ r.tenant \in Tenants /\ r.resolved \in Nat /\ r.resolved <= now
    BY <1>7 DEF Fresh, Right, Request
  <2>2. r.creds.version # 0 => r.resolved < retired'[r.tenant][r.creds.version] + TTL
    <3>1. SUFFICES ASSUME r.creds.version # 0
                   PROVE  r.resolved < retired'[r.tenant][r.creds.version] + TTL
      OBVIOUS
    <3>2. CASE retired'[r.tenant][r.creds.version] = retired[r.tenant][r.creds.version]
      BY <1>7, <3>1, <3>2 DEF Fresh
    <3>3. CASE retired'[r.tenant][r.creds.version] = now
      BY <1>3, <1>6, <2>1, <3>1, <3>3
    <3> QED
      BY <1>5, <2>1, <3>1, <3>2, <3>3
  <2>3. r.pc = "fetched" /\ r.read # 0 => r.read \in Versions /\ r.resolved <= retired'[r.tenant][r.read]
    <3>1. SUFFICES ASSUME r.pc = "fetched", r.read # 0
                   PROVE  r.read \in Versions /\ r.resolved <= retired'[r.tenant][r.read]
      OBVIOUS
    <3>2. r.read \in Versions /\ r.resolved <= now /\ r.resolved <= retired[r.tenant][r.read] /\ r.tenant \in Tenants
      BY <1>7, <3>1 DEF Fresh, Right
    <3> QED
      BY <1>5, <3>2
  <2>4. Fresh(r)'
    BY <1>2, <1>7, <2>1, <2>2, <2>3 DEF Fresh
  <2>5. Backed(r)'
    BY <1>2, <1>7 DEF Backed
  <2> QED
    BY <2>4, <2>5
<1>8. RequestsFresh'
  <2>1. ASSUME NEW h \in Handlers
        PROVE  (Fresh(job[h]) /\ Backed(job[h]))'
    <3>1. PICK r : r = job[h]
      OBVIOUS
    <3>2. Right(r) /\ Fresh(r) /\ Backed(r)
      BY <3>1 DEF ServicesInv, FreshInv, RequestsFresh
    <3>3. Fresh(r)' /\ Backed(r)' /\ job'[h] = r
      BY <1>2, <1>7, <3>1, <3>2
    <3> QED
      BY <3>3 DEF Fresh, Backed
  <2> QED
    BY <2>1 DEF RequestsFresh
<1>9. ASSUME NEW u \in Tenants
      PROVE  /\ secret'[u] \in Versions
             /\ secret'[u] # 0 => retired'[u][secret'[u]] = Current
  <2>1. CASE u = t
    <3>1. secret'[u] = v
      BY <1>1, <1>3, <2>1
    <3>2. v # 0 => retired'[u][v] = retired[u][v] /\ retired[u][v] = Current
      BY <1>1, <1>5, <2>1
    <3> QED
      BY <1>1, <3>1, <3>2
  <2>2. CASE u # t
    <3>1. secret'[u] = secret[u] /\ secret[u] \in Versions
      BY <1>1, <1>3, <2>2 DEF FreshInv, SharedFresh
    <3>2. retired'[u][secret[u]] = retired[u][secret[u]]
      BY <1>5, <2>2, <3>1
    <3> QED
      BY <3>1, <3>2 DEF FreshInv, SharedFresh
  <2> QED
    BY <2>1, <2>2
<1>10. ASSUME NEW u \in Tenants, secrets[u].version # 0
       PROVE  secrets[u].until <= retired'[u][secrets[u].version] + TTL
  <2>1. /\ secrets[u].version \in Versions /\ secrets[u].until <= now + TTL
        /\ secrets[u].until <= retired[u][secrets[u].version] + TTL
    BY <1>10 DEF FreshInv, SharedFresh
  <2> QED
    BY <1>5, <2>1
<1>11. SharedFresh'
  BY <1>2, <1>3, <1>4, <1>9, <1>10 DEF FreshInv, SharedFresh
<1>12. SharedBacked'
  BY <1>2 DEF FreshInv, SharedBacked
<1> QED
  BY <1>8, <1>11, <1>12 DEF FreshInv

\* A secret that no request has.
LEMMA RotateElsewhere ==
  ASSUME ServicesInv, FreshInv, NEW t, t \notin Tenants, Rotate(t), UNCHANGED mediaVars
  PROVE  FreshInv'
<1>1. PICK v : secret' = [secret EXCEPT ![t] = v]
  BY Zenon DEF Rotate
<1>2. /\ retired' = [retired EXCEPT ![t][secret[t]] = now]
      /\ UNCHANGED <<now, job, secrets, tokens, objects, shown>>
  BY Zenon DEF Rotate, harnessVars, mediaVars
<1>3. secret \in [Tenants -> Nat] /\ retired \in [Tenants -> [Versions -> Nat]]
  BY DEF ServicesInv, TypeOK, FreshInv, SharedFresh
<1>4. UNCHANGED <<secret, retired>>
  BY <1>1, <1>2, <1>3
<1> QED
  BY <1>2, <1>4 DEF FreshInv, RequestsFresh, SharedFresh, SharedBacked, Fresh, Backed

\* Integrations.
LEMMA IntegrationsFresh ==
  ASSUME ServicesInv, FreshInv, IntNext, UNCHANGED mediaVars
  PROVE  FreshInv'
<1>1. UNCHANGED <<objects, shown>>
  BY DEF mediaVars
<1>2. SharedBacked'
  BY <1>1 DEF FreshInv, SharedBacked
<1>3. ASSUME NEW t \in Rotated, Rotate(t)
      PROVE  FreshInv'
  <2>1. CASE t \in Tenants
    BY <1>3, <2>1, RotateFresh
  <2>2. CASE t \notin Tenants
    BY <1>3, <2>2, RotateElsewhere
  <2> QED
    BY <2>1, <2>2
<1>4. ASSUME NEW h \in Handlers, NEW t \in Tenants, NEW s \in Services, Invoke(h, t, s)
      PROVE  FreshInv'
  <2>1. Admit(h, t, s, "integration") /\ UNCHANGED <<secret, retired, secrets, tokens>>
    BY <1>4, Zenon DEF Invoke, intVars
  <2>2. "integration" \in Wants
    BY DEF Wants
  <2> QED
    BY <1>1, <2>1, <2>2, AdmitFresh
<1>5. ASSUME NEW h \in Handlers,
             Resolve(h) \/ Fetch(h) \/ CheckToken(h) \/ Refresh(h) \/ Validate(h) \/ Send(h)
      PROVE  FreshInv'
  <2>1. RequestsFresh'
    BY <1>5, ResolveFresh, FetchFresh, CheckTokenFresh, RefreshFresh, ValidateFresh, SendFresh, Zenon
  <2>2. UNCHANGED <<now, secret, retired, secrets, tokens>>
    BY <1>5, Zenon DEF Resolve, Fetch, CheckToken, Refresh, Validate, Send, intVars
  <2>3. SharedFresh'
    BY <2>2 DEF FreshInv, SharedFresh
  <2> QED
    BY <1>2, <2>1, <2>3 DEF FreshInv
<1>6. ASSUME NEW h \in Handlers, StoreSecret(h) \/ StoreToken(h)
      PROVE  FreshInv'
  BY <1>2, <1>6, StoreSecretFresh, StoreTokenFresh DEF FreshInv
<1> QED
  BY <1>3, <1>4, <1>5, <1>6, Zenon DEF IntNext

\* A backend's answer.
LEMMA CallBackendFresh ==
  ASSUME ServicesInv, FreshInv, NEW h \in Handlers, CallBackend(h), UNCHANGED intVars
  PROVE  RequestsFresh'
<1>1. PICK r : r = job[h]
  OBVIOUS
<1>2. /\ r.pc = "call"
      /\ \/ Finish(h, r, "wrong_kind")
         \/ \E result \in {"error", "timeout"} : Finish(h, r, result)
         \/ r.wants = "stt" /\ Finish(h, r, "success")
         \/ job' = [job EXCEPT ![h] = [r EXCEPT !.pc = "put"]]
         \/ Escape(h, r)
      /\ UNCHANGED <<now, retired, objects>>
  BY <1>1, Zenon DEF CallBackend, OnMedia, intVars, mediaVars
<1>3. /\ RequestsRight /\ RequestsFresh /\ Right(r) /\ Fresh(r) /\ Backed(r) /\ r \in Request
      /\ r.process # "running" /\ r.tenant \in Tenants /\ r.audit = <<>>
  BY <1>1, <1>2, Known
<1>4. ASSUME NEW result \in {"wrong_kind", "error", "timeout", "success"}, Finish(h, r, result),
             result = "success" => r.wants = "stt"
      PROVE  RequestsFresh'
  BY <1>2, <1>3, <1>4, FinishFresh
<1>5. CASE Escape(h, r)
  BY <1>2, <1>3, <1>5, EscapeFresh
<1>6. CASE job' = [job EXCEPT ![h] = [r EXCEPT !.pc = "put"]]
  <2>1. PICK q : q = [r EXCEPT !.pc = "put"]
    OBVIOUS
  <2>2. Calm(q, r, "put")
    BY <1>3, <2>1, Zenon DEF Calm, Request
  <2>3. Fresh(q) /\ Backed(q)
    BY <1>2, <1>3, <2>2, CalmFresh
  <2>4. Backed(q)'
    BY <1>2, <2>3 DEF Backed
  <2> QED
    BY <1>2, <1>3, <1>6, <2>1, <2>3, <2>4, OneFresh
<1> QED
  BY <1>2, <1>4, <1>5, <1>6

\* Storage has, under a key, what its tenant made.
LEMMA PutBacked ==
  ASSUME SharedBacked, NEW t, NEW id, objects' = PutObject(<<t, id>>, t), UNCHANGED shown
  PROVE  SharedBacked' /\ <<t, id>> \in DOMAIN objects' /\ DOMAIN objects \subseteq DOMAIN objects'
<1>1. PICK key : key = <<t, id>>
  OBVIOUS
<1>2. objects' = [k \in DOMAIN objects \cup {key} |-> IF k = key THEN t ELSE objects[k]]
  BY <1>1 DEF PutObject
<1>3. ASSUME NEW u, NEW i, <<u, i>> \in DOMAIN objects'
      PROVE  objects'[<<u, i>>] = u
  <2>1. CASE <<u, i>> = key
    BY <1>1, <1>2, <1>3, <2>1
  <2>2. CASE <<u, i>> # key
    <3>1. <<u, i>> \in DOMAIN objects
      BY <1>2, <1>3, <2>2
    <3> QED
      BY <1>2, <1>3, <2>2, <3>1 DEF SharedBacked
  <2> QED
    BY <2>1, <2>2
<1>4. key \in DOMAIN objects' /\ DOMAIN objects \subseteq DOMAIN objects'
  BY <1>2
<1> QED
  BY <1>1, <1>3, <1>4 DEF SharedBacked

\* An artifact goes to the storage, and then the answer out; or it does not.
LEMMA PutArtifactFresh ==
  ASSUME ServicesInv, FreshInv, NEW h \in Handlers, PutArtifact(h), UNCHANGED intVars
  PROVE  RequestsFresh' /\ SharedBacked'
<1>1. PICK r : r = job[h]
  OBVIOUS
<1>2. PICK id : id = drawn + 1
  OBVIOUS
<1>3. PICK c : c = [r EXCEPT !.artifact = id]
  OBVIOUS
<1>4. PICK d : d = [c EXCEPT !.artifact = 0]
  OBVIOUS
<1>14. PICK put : put = PutObject(<<c.tenant, id>>, c.tenant)
  OBVIOUS
<1>5. /\ r.pc = "put"
      /\ \/ Storage /\ objects' = put /\ Finish(h, c, "success")
         \/ Storage /\ objects' \in {objects, put} /\ Finish(h, d, "error")
         \/ ~Storage /\ UNCHANGED objects /\ Finish(h, c, "success")
      /\ UNCHANGED <<now, retired, shown>>
  BY <1>1, <1>2, <1>3, <1>4, <1>14, Zenon DEF PutArtifact, OnMedia, ArtifactKey, intVars
<1>6. /\ RequestsRight /\ RequestsFresh /\ Right(r) /\ r \in Request
      /\ r.process # "running" /\ r.tenant \in Tenants /\ r.audit = <<>> /\ SharedBacked
  BY <1>1, <1>5, Known DEF FreshInv
<1>7. id \in Nat /\ 0 \in Nat
  BY <1>2 DEF ServicesInv, TypeOK
<1>8. Right(c)
  BY <1>3, <1>6, <1>7, NamesRight, Zenon
<1>9. c.process = r.process /\ c.tenant = r.tenant /\ c.audit = r.audit /\ c.artifact = id
  BY <1>3, <1>6, Zenon DEF Request
<1>10. Right(d)
  BY <1>4, <1>7, <1>8, NamesRight, Zenon
<1>11. c \in Request
  BY <1>8 DEF Right
<1>12. d.process = c.process /\ d.tenant = c.tenant /\ d.audit = c.audit
  BY <1>4, <1>11, Zenon DEF Request
<1>13. objects' = objects \/ objects' = put
  BY <1>5, Zenon
<1>15. /\ SharedBacked' /\ DOMAIN objects \subseteq DOMAIN objects'
       /\ objects' = put => <<c.tenant, id>> \in DOMAIN objects'
  <2>1. CASE objects' = put
    BY <1>5, <1>6, <1>14, <2>1, PutBacked
  <2>2. CASE objects' = objects /\ objects' # put
    BY <1>5, <1>6, <2>2 DEF SharedBacked
  <2> QED
    BY <1>13, <2>1, <2>2
<1>16. CASE Storage /\ objects' = put /\ Finish(h, c, "success")
  BY <1>5, <1>6, <1>8, <1>9, <1>15, <1>16, FinishFresh
<1>17. CASE Finish(h, d, "error")
  BY <1>5, <1>6, <1>9, <1>10, <1>12, <1>15, <1>17, FinishFresh
<1>18. CASE ~Storage /\ Finish(h, c, "success")
  <2>3. Serverless(c) /\ c.tenant \in Tenants /\ Finish(h, c, "success") /\ Right(c)
    BY <1>6, <1>8, <1>9, <1>18 DEF Serverless
  <2>1. PICK q : Result(q, c, Append(c.audit, "success"), Status("success")) /\ job' = [job EXCEPT ![h] = q]
    BY <2>3, FinishAs, Zenon
  <2>2. Backed(q)'
    BY <1>18, <2>1 DEF Backed, Result
  <2> QED
    BY <1>5, <1>6, <1>15, <2>1, <2>2, ResultFresh, OneFresh
<1> QED
  BY <1>5, <1>15, <1>16, <1>17, <1>18, Zenon

\* What is shown is what the key of whoever asks names.
LEMMA ShowFresh ==
  ASSUME FreshInv, NEW t, NEW id, ShowArtifact(t, id), UNCHANGED intVars
  PROVE  FreshInv'
<1>1. /\ <<t, id>> \in DOMAIN objects
      /\ shown' = [caller |-> t, maker |-> objects[<<t, id>>]]
      /\ UNCHANGED <<now, job, objects, secret, retired, secrets, tokens>>
  BY Zenon DEF ShowArtifact, ArtifactKey, harnessVars, intVars
<1>2. shown'.maker = shown'.caller
  BY <1>1 DEF FreshInv, SharedBacked
<1>3. UNCHANGED <<now, job, objects, secret, retired, secrets, tokens>>
  BY <1>1
<1> QED
  BY <1>2, <1>3 DEF FreshInv, RequestsFresh, SharedFresh, SharedBacked, Fresh, Backed

\* Media.
LEMMA MediaFresh ==
  ASSUME ServicesInv, FreshInv, MediaNext, UNCHANGED intVars
  PROVE  FreshInv'
<1>1. UNCHANGED <<secret, retired, secrets, tokens>>
  BY DEF intVars
<1>2. ASSUME NEW h \in Handlers, NEW t \in Tenants, NEW s \in Services,
             Transcribe(h, t, s) \/ Generate(h, t, s) \/ Synthesize(h, t, s)
      PROVE  FreshInv'
  <2>1. "stt" \in Wants /\ "image" \in Wants /\ "tts" \in Wants
    BY DEF Wants
  <2>2. PICK kind \in Wants : MediaRequest(h, t, s, kind)
    BY <1>2, <2>1, Zenon DEF Transcribe, Generate, Synthesize
  <2>3. Admit(h, t, s, kind) /\ UNCHANGED <<objects, shown>>
    BY <2>2, Zenon DEF MediaRequest, mediaVars
  <2> QED
    BY <1>1, <2>3, AdmitFresh
<1>3. ASSUME NEW h \in Handlers, CallBackend(h) \/ PutArtifact(h)
      PROVE  FreshInv'
  <2>1. UNCHANGED now /\ RequestsFresh'
    BY <1>3, CallBackendFresh, PutArtifactFresh, Zenon DEF CallBackend, PutArtifact
  <2>2. SharedBacked'
    <3>1. CASE CallBackend(h)
      <4>1. UNCHANGED <<objects, shown>>
        BY <3>1, Zenon DEF CallBackend, mediaVars
      <4> QED
        BY <4>1 DEF FreshInv, SharedBacked
    <3>2. CASE PutArtifact(h)
      BY <3>2, PutArtifactFresh
    <3> QED
      BY <1>3, <3>1, <3>2
  <2>3. SharedFresh'
    BY <1>1, <2>1 DEF FreshInv, SharedFresh
  <2> QED
    BY <2>1, <2>2, <2>3 DEF FreshInv
<1>4. ASSUME NEW t \in Tenants, NEW id \in 1..drawn, ShowArtifact(t, id)
      PROVE  FreshInv'
  BY <1>4, ShowFresh, Zenon
<1> QED
  BY <1>2, <1>3, <1>4, Zenon DEF MediaNext

\* The rest of an MCP handler.
LEMMA ConcludeFresh ==
  ASSUME RequestsRight, RequestsFresh, NEW h \in Handlers, NEW r, Right(r), r.process # "running", r.tenant \in Tenants,
         r.audit = <<>>, r.wants \notin {"image", "tts"},
         NEW result \in {"success", "unknown", "timeout", "error"}, Conclude(h, r, result),
         UNCHANGED <<now, retired, objects>>
  PROVE  RequestsFresh'
<1>1. PICK n : n = IF result = "success" THEN 200 ELSE 502
  OBVIOUS
<1>2. DOMAIN objects \subseteq DOMAIN objects'
  OBVIOUS
<1>3. CASE Finish(h, r, result)
  BY <1>2, <1>3, FinishFresh
<1>4. CASE job' = [job EXCEPT ![h] = [Returned(r) EXCEPT !.answer = n]]
  BY <1>2, <1>4, AnsweredFresh, Zenon
<1> QED
  BY <1>1, <1>3, <1>4, Zenon DEF Conclude

\* An exchange with a server process.
LEMMA ExchangeFresh ==
  ASSUME ServicesInv, FreshInv, NEW h \in Handlers, Spawn(h) \/ Exits(h) \/ TimesOut(h) \/ Breaks(h),
         UNCHANGED <<intVars, mediaVars>>
  PROVE  RequestsFresh'
<1>1. PICK r : r = job[h]
  OBVIOUS
<1>3. r.pc \in {"call", "exchange"} /\ r.wants \in {"mcp", "list"} /\ UNCHANGED now
  BY <1>1, Zenon DEF Spawn, Exits, TimesOut, Breaks, OnMcp
<1>4. UNCHANGED <<now, retired, objects>>
  BY <1>3 DEF intVars, mediaVars
<1>5. /\ RequestsRight /\ RequestsFresh /\ Right(r) /\ Fresh(r) /\ Backed(r) /\ r \in Request
      /\ r.tenant \in Tenants /\ r.audit = <<>> /\ r.wants \notin {"image", "tts"}
  <2>1. Right(r) /\ Fresh(r) /\ Backed(r) /\ RequestsRight /\ RequestsFresh
    BY <1>1 DEF ServicesInv, TypeOK, RequestsRight, FreshInv, RequestsFresh
  <2> QED
    BY <1>3, <2>1 DEF Right, Backed
<1>6. ASSUME NEW p \in {"none", "orphan"}, NEW c, c = [r EXCEPT !.process = p]
      PROVE  /\ Right(c) /\ c.process # "running" /\ c.tenant \in Tenants
             /\ c.audit = <<>> /\ c.wants \notin {"image", "tts"}
  <2>1. c.process = p /\ c.tenant = r.tenant /\ c.audit = r.audit /\ c.wants = r.wants
    BY <1>5, <1>6, Zenon DEF Request
  <2>2. Right(c)
    BY <1>5, <1>6, ExitsRight, Zenon
  <2> QED
    BY <1>5, <2>1, <2>2
<1>9. CASE Spawn(h)
  <2>1. /\ r.pc = "call"
        /\ job' = [job EXCEPT ![h] = [r EXCEPT !.pc = "exchange", !.process = "running"]] \/ Conclude(h, r, "error")
    BY <1>1, <1>9, Zenon DEF Spawn, OnMcp
  <2>2. r.process # "running"
    BY <1>5, <2>1 DEF Right
  <2>3. CASE Conclude(h, r, "error")
    BY <1>4, <1>5, <2>2, <2>3, ConcludeFresh
  <2>4. CASE job' = [job EXCEPT ![h] = [r EXCEPT !.pc = "exchange", !.process = "running"]]
    <3>1. PICK q : q = [r EXCEPT !.pc = "exchange", !.process = "running"]
      OBVIOUS
    <3>2. Calm(q, r, "exchange")
      BY <1>5, <3>1, Zenon DEF Calm, Request
    <3>3. Fresh(q) /\ Backed(q)
      BY <1>5, <2>1, <3>2, CalmFresh
    <3>4. Backed(q)'
      BY <1>4, <3>3 DEF Backed
    <3> QED
      BY <1>4, <1>5, <2>4, <3>1, <3>3, <3>4, OneFresh
  <2> QED
    BY <2>1, <2>3, <2>4, Zenon
<1>10. CASE Exits(h)
  <2>1. PICK c : c = [r EXCEPT !.process = "none"]
    OBVIOUS
  <2>2. (\E result \in {"success", "unknown", "error"} : Conclude(h, c, result)) \/ Escape(h, c)
    BY <1>1, <1>10, <2>1, Zenon DEF Exits
  <2>3. /\ Right(c) /\ c.process # "running" /\ c.tenant \in Tenants
        /\ c.audit = <<>> /\ c.wants \notin {"image", "tts"}
    BY <1>6, <2>1
  <2>4. ASSUME NEW result \in {"success", "unknown", "error"}, Conclude(h, c, result)
        PROVE  RequestsFresh'
    BY <1>4, <1>5, <2>3, <2>4, ConcludeFresh
  <2>5. CASE Escape(h, c)
    BY <1>4, <1>5, <2>3, <2>5, EscapeFresh
  <2> QED
    BY <2>2, <2>4, <2>5, Zenon
<1>11. CASE TimesOut(h) \/ Breaks(h)
  <2>1. PICK p \in {"none", "orphan"}, result \in {"timeout", "error"} :
          Conclude(h, [r EXCEPT !.process = p], result)
    BY <1>1, <1>11, Zenon DEF TimesOut, Breaks
  <2>2. PICK c : c = [r EXCEPT !.process = p]
    OBVIOUS
  <2>3. /\ Right(c) /\ c.process # "running" /\ c.tenant \in Tenants
        /\ c.audit = <<>> /\ c.wants \notin {"image", "tts"}
    BY <1>6, <2>2
  <2> QED
    BY <1>4, <1>5, <2>1, <2>2, <2>3, ConcludeFresh
<1> QED
  BY <1>9, <1>10, <1>11

\* An MCP request without a slot.
LEMMA ListFresh ==
  ASSUME ServicesInv, FreshInv, NEW h \in Handlers, NEW t \in Tenants, NEW s \in Services, ListTools(h, t, s),
         UNCHANGED <<retired, objects>>
  PROVE  RequestsFresh'
<1>1. PICK r : r = [Idle EXCEPT !.pc = "call", !.tenant = t, !.service = s, !.wants = "list"]
  OBVIOUS
<1>2. "list" \in Wants
  BY DEF Wants
<1>3. r \in Request /\ Fresh(r) /\ Backed(r)' /\ r.creds = NoCreds
  BY <1>1, <1>2, BeginsFresh, Zenon
<1>4. PICK q : q = Refused(r, "denied")
  OBVIOUS
<1>5. Fresh(q) /\ Backed(q)'
  <2>1. Turned(q)
    BY <1>3, <1>4, RefusedFresh
  <2> QED
    BY <2>1, TurnedFresh
<1>6. job' = [job EXCEPT ![h] = IF <<t, s>> \in Allowed THEN r ELSE q] /\ UNCHANGED now
  BY <1>1, <1>4, Zenon DEF ListTools
<1>7. RequestsRight /\ RequestsFresh
  BY TwoParts DEF FreshInv
<1>8. CASE <<t, s>> \in Allowed
  <2>1. job' = [job EXCEPT ![h] = r]
    BY <1>6, <1>8
  <2> QED
    BY <1>3, <1>6, <1>7, <2>1, OneFresh
<1>9. CASE <<t, s>> \notin Allowed
  <2>1. job' = [job EXCEPT ![h] = q]
    BY <1>6, <1>9
  <2> QED
    BY <1>5, <1>6, <1>7, <2>1, OneFresh
<1> QED
  BY <1>8, <1>9

\* MCP servers.
LEMMA McpFresh ==
  ASSUME ServicesInv, FreshInv, McpNext, UNCHANGED <<intVars, mediaVars>>
  PROVE  FreshInv'
<1>1. UNCHANGED <<secret, retired, secrets, tokens>> /\ UNCHANGED <<objects, shown>>
  BY DEF intVars, mediaVars
<1>2. ASSUME NEW h \in Handlers, NEW t \in Tenants, NEW s \in Services, InvokeTool(h, t, s)
      PROVE  FreshInv'
  <2>1. Admit(h, t, s, "mcp") /\ "mcp" \in Wants
    BY <1>2, Zenon DEF InvokeTool, Wants
  <2> QED
    BY <1>1, <2>1, AdmitFresh
<1>3. ASSUME RequestsFresh', UNCHANGED now
      PROVE  FreshInv'
  BY <1>1, <1>3 DEF FreshInv, SharedFresh, SharedBacked
<1>4. ASSUME NEW h \in Handlers, NEW t \in Tenants, NEW s \in Services, ListTools(h, t, s)
      PROVE  FreshInv'
  <2>1. UNCHANGED now
    BY <1>4, Zenon DEF ListTools
  <2>2. RequestsFresh'
    BY <1>1, <1>4, ListFresh
  <2> QED
    BY <1>3, <2>1, <2>2
<1>5. ASSUME NEW h \in Handlers, Spawn(h) \/ Exits(h) \/ TimesOut(h) \/ Breaks(h)
      PROVE  FreshInv'
  <2>1. UNCHANGED now
    BY <1>5, Zenon DEF Spawn, Exits, TimesOut, Breaks
  <2>2. RequestsFresh'
    BY <1>5, ExchangeFresh
  <2> QED
    BY <1>3, <2>1, <2>2
<1> QED
  BY <1>2, <1>4, <1>5, Zenon DEF McpNext

\* The clock makes nothing staler than it was, and the switches touch no cache.
LEMMA HarnessFresh ==
  ASSUME ServicesInv, FreshInv, HarnessNext, UNCHANGED <<intVars, mediaVars>>
  PROVE  FreshInv'
<1>1. UNCHANGED <<job, secret, retired, secrets, tokens, objects, shown>>
  BY Zenon DEF HarnessNext, Tick, Switch, intVars, mediaVars
<1>2. now' = now \/ (now < MaxTime /\ now' = now + 1)
  BY Zenon DEF HarnessNext, Tick, Switch
<1>3. now \in Nat /\ now' \in Nat /\ now' >= now /\ now' <= MaxTime
  BY <1>2, HarnessAssumption DEF ServicesInv, TypeOK, FreshInv, SharedFresh
<1>4. TTL \in Nat
  BY CredentialAssumption
<1>5. ASSUME NEW h \in Handlers
      PROVE  (Fresh(job[h]) /\ Backed(job[h]))'
  <2>1. PICK r : r = job[h]
    OBVIOUS
  <2>5. Fresh(r) /\ Backed(r) /\ Right(r) /\ job'[h] = r
    BY <1>1, <2>1, Zenon DEF ServicesInv, FreshInv, RequestsFresh
  <2>2. Fresh(r) /\ Backed(r) /\ r.resolved \in Nat /\ r.checked \in Nat /\ job'[h] = r
    BY <2>5 DEF Right, Request
  <2>3. Fresh(r)'
    BY <1>1, <1>3, <2>2 DEF Fresh
  <2>4. Backed(r)'
    BY <1>1, <2>2 DEF Backed
  <2> QED
    BY <2>2, <2>3, <2>4 DEF Fresh, Backed
<1>6. SharedBacked'
  BY <1>1 DEF FreshInv, SharedBacked
<1>7. ASSUME NEW t \in Tenants, secrets[t].version # 0
      PROVE  secrets[t].until <= now' + TTL
  <2>1. secrets[t].until <= now + TTL
    BY <1>7 DEF FreshInv, SharedFresh
  <2>2. secrets[t].until \in Int
    <3>1. secrets \in [Tenants -> [until : Int, version : Nat]]
      BY DEF ServicesInv, TypeOK
    <3> QED
      BY <3>1
  <2> QED
    BY <1>3, <1>4, <2>1, <2>2
<1>8. SharedFresh'
  BY <1>1, <1>3, <1>7 DEF FreshInv, SharedFresh
<1> QED
  BY <1>5, <1>6, <1>8 DEF FreshInv, RequestsFresh

\* The first state.
LEMMA FreshInvInit == Init => FreshInv
<1> SUFFICES ASSUME Init PROVE FreshInv
  OBVIOUS
<1>1. /\ now = 0 /\ job = [h \in Handlers |-> Idle]
      /\ secret = [t \in Tenants |-> 1]
      /\ retired = [t \in Tenants |-> [v \in Versions |-> Current]]
      /\ secrets = [t \in Tenants |-> NoEntry]
      /\ tokens = [t \in Tenants |-> NoTokenEntry]
      /\ objects = [k \in {} |-> "none"] /\ shown = NoArtifact
  BY DEF Init, HarnessInit, IntInit, MediaInit
<1>2. 1 \in Versions /\ Current \in Nat /\ 0 <= MaxTime
  BY HarnessAssumption, CredentialAssumption DEF Versions, Current
<1>3. NoEntry.version = 0 /\ NoTokenEntry.until = -1
  BY DEF NoEntry, NoTokenEntry
<1>4. NoArtifact.maker = NoArtifact.caller
  BY DEF NoArtifact
<1>5. SharedFresh /\ SharedBacked
  BY <1>1, <1>2, <1>3, <1>4 DEF SharedFresh, SharedBacked
<1>6. Fresh(Idle) /\ Backed(Idle)
  BY DEF Fresh, Backed, Idle, NoCreds, NoToken
<1>7. RequestsFresh
  BY <1>1, <1>6 DEF RequestsFresh
<1> QED
  BY <1>5, <1>7 DEF FreshInv

LEMMA FreshInvStep == ServicesInv /\ FreshInv /\ [Next]_vars => FreshInv'
<1> SUFFICES ASSUME ServicesInv, FreshInv, [Next]_vars PROVE FreshInv'
  OBVIOUS
<1>1. CASE HarnessNext /\ UNCHANGED <<intVars, mediaVars>>
  BY <1>1, HarnessFresh
<1>2. CASE IntNext /\ UNCHANGED mediaVars
  BY <1>2, IntegrationsFresh
<1>3. CASE MediaNext /\ UNCHANGED intVars
  BY <1>3, MediaFresh
<1>4. CASE McpNext /\ UNCHANGED <<intVars, mediaVars>>
  BY <1>4, McpFresh
<1>5. CASE UNCHANGED vars
  <2>1. UNCHANGED <<now, job, secret, retired, secrets, tokens, objects, shown>>
    BY <1>5, Zenon DEF vars, harnessVars, intVars, mediaVars
  <2> QED
    BY <2>1 DEF FreshInv, RequestsFresh, SharedFresh, SharedBacked, Fresh, Backed
<1> QED
  BY <1>1, <1>2, <1>3, <1>4, <1>5, Zenon DEF Next

\* Nothing is staler than promised, and nothing succeeds without its artifact.
LEMMA FreshInvariant == Spec => []FreshInv
<1>1. Init => FreshInv
  BY FreshInvInit
<1>2. ServicesInv /\ FreshInv /\ [Next]_vars => FreshInv'
  BY FreshInvStep
<1> QED
  BY <1>1, <1>2, ServicesInvariant, PTL DEF Spec

----------------------------------------------------------------------------
\* The theorems.

\* A request record has a place, a caller and what its executor knows; the
\* caches hold what they are declared to hold.
THEOREM ServicesTypeCorrect == Spec => []TypeOK
<1>1. ServicesInv => TypeOK
  BY Zenon DEF ServicesInv
<1> QED
  BY <1>1, ServicesInvariant, PTL

\* The two caches of integrations have no lock, and threads overwrite each
\* other's entries: a request still has a credential and a token of its tenant.
THEOREM CredentialsAreOwn == Spec => []OwnCredentials
<1>1. ServicesInv => OwnCredentials
  BY DEF ServicesInv, Right, OwnCredentials
<1> QED
  BY <1>1, ServicesInvariant, PTL

\* A host may resolve to anything, each time anew: a request was sent to an
\* address that validate_outbound_url has judged, if it was sent.
THEOREM SocketsAreVetted == Spec => []GuardHolds
<1>1. ServicesInv => GuardHolds
  BY DEF ServicesInv, Right, Vetted, GuardHolds
<1> QED
  BY <1>1, ServicesInvariant, PTL

\* MCPExecutor leaves no server process behind, whichever way an exchange ends, but
\* one that it could not kill or whose pipes failed.
THEOREM ProcessesEnd == Spec => []NoProcessLeft
<1>1. ServicesInv => NoProcessLeft
  BY DEF ServicesInv, Right, NoProcessLeft
<1> QED
  BY <1>1, ServicesInvariant, PTL

\* The two caches of integrations have no lock, fetches and refreshes take any
\* time, and the operator rotates the secrets meanwhile: no request goes on with a
\* credential that was out of date for the cache's time to live, or sends, within
\* the margin after it has looked, a token that is dead.
THEOREM CredentialsStayFresh == Spec => []CredentialsFresh
<1>1. ServicesInv /\ FreshInv => RotationPropagates
  BY DEF FreshInv, RequestsFresh, Fresh, RotationPropagates
<1>2. ServicesInv /\ FreshInv => TokenAlive
  <2>1. SUFFICES ASSUME ServicesInv, FreshInv, NEW h \in Handlers,
                        job[h].pc = "send", now <= job[h].checked + Margin
                 PROVE  now < job[h].token.dies
    BY DEF TokenAlive
  <2>2. PICK r : r = job[h]
    OBVIOUS
  <2>3. Right(r) /\ Fresh(r) /\ now \in Nat
    BY <2>1, <2>2 DEF ServicesInv, TypeOK, FreshInv, RequestsFresh
  <2>4. r.checked \in Nat /\ r.token.dies \in Nat /\ r.checked + Margin < r.token.dies
    BY <2>1, <2>2, <2>3 DEF Right, Request, Token, Fresh
  <2>5. Margin \in Nat
    BY CredentialAssumption
  <2> QED
    BY <2>1, <2>2, <2>3, <2>4, <2>5
<1> QED
  BY <1>1, <1>2, ServicesInvariant, FreshInvariant, PTL DEF CredentialsFresh

\* Whoever asks for whatever id is shown what was made for him only, and a
\* generation that is said to have succeeded has its artifact in storage, though an
\* upload may fail before the object is there or after.
THEOREM ArtifactsAreSafe == Spec => []ArtifactsSafe
<1>1. FreshInv => ArtifactsOwn
  BY DEF FreshInv, SharedBacked, ArtifactsOwn
<1>2. ServicesInv /\ FreshInv => ArtifactThere
  <2>1. SUFFICES ASSUME FreshInv, NEW h \in Handlers,
                        Storage, OnMedia(h, "answered"), job[h].wants # "stt",
                        job[h].answer = 200 \/ job[h].audit = <<"success">>
                 PROVE  ArtifactKey(job[h].tenant, job[h].artifact) \in DOMAIN objects
    BY DEF ArtifactThere
  <2> QED
    BY <2>1 DEF FreshInv, RequestsFresh, Backed, ArtifactKey, OnMedia, MediaKinds
<1> QED
  BY <1>1, <1>2, ServicesInvariant, FreshInvariant, PTL DEF ArtifactsSafe
=============================================================================
