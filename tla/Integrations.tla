---------------------------- MODULE Integrations ----------------------------
(***************************************************************************)
(* IntegrationExecutor.invoke for an integration with a secret and a token *)
(* refresh, as Google Calendar is (integrations.py, integrations_google.   *)
(* py): the resolver's cache (integration_secrets.py), the token cache,    *)
(* and the outbound guard (outbound.py).  Both caches are plain dicts that *)
(* threads read, refill after a slow call, and overwrite without a lock.   *)
(*                                                                         *)
(* A credential is (tenant, version); the operator rotates versions and    *)
(* may remove the secret (version 0).  A host resolves to any addresses,   *)
(* each time anew.                                                         *)
(***************************************************************************)
EXTENDS Harness

CONSTANTS
  TTL,          \* ttl_seconds of the resolver's cache
  Lifetime,     \* expires_in of an access token
  Margin,       \* _TOKEN_MARGIN_S
  Permitted,    \* services with permit_private_hosts (the dev fixture)
  Rotated,      \* bound: the tenants whose secret the operator changes
  MaxRotations  \* bound: how often

ASSUME CredentialAssumption ==
  /\ TTL \in Nat \ {0} /\ Lifetime \in Nat /\ Margin \in Nat /\ MaxRotations \in Nat
  /\ Margin < Lifetime  \* Google: an hour, less a minute

VARIABLES
  secret,   \* Secrets Manager: tenant -> the version stored
  retired,  \* tenant -> version -> when it was replaced
  secrets,  \* the resolver's cache: tenant -> expiry and version
  tokens    \* _token_cache: tenant -> expiry and token

intVars == <<secret, retired, secrets, tokens>>

Addresses == {"public", "private", "metadata"}
Versions == 0..(MaxRotations + 1)
Current == MaxTime + 1  \* retired never
NoEntry == [until |-> -1, version |-> 0]
NoTokenEntry == [until |-> -1, token |-> NoToken]

At(h, pc) == job[h].pc = pc /\ job[h].wants = "integration"

\* build_integrations_invoke_response up to the executor.
Invoke(h, t, s) ==
  /\ Kind[s] = "integration"
  /\ Admit(h, t, s, "integration")
  /\ UNCHANGED intVars

\* Mutant: the token cache is keyed by the integration alone.
TokenKeyShared(t) == CHOOSE x \in Tenants : TRUE

\* key = (tenant_id, integration)
TokenKey(t) == t

\* The operator rotates or removes a secret.
Rotate(t) ==
  /\ \E v \in Versions :
       /\ v # secret[t]
       /\ v = 0 \/ (v > secret[t] /\ retired[t][v] = Current)
       /\ secret' = [secret EXCEPT ![t] = v]
  /\ Cardinality({v \in Versions : retired[t][v] # Current}) < MaxRotations
  /\ retired' = [retired EXCEPT ![t][secret[t]] = now]
  /\ UNCHANGED <<harnessVars, secrets, tokens>>

\* resolver: the clock and the cache.
Resolve(h) ==
  LET r == job[h]
      entry == secrets[r.tenant]
  IN /\ At(h, "call")
     /\ IF entry.until > now
        THEN IF entry.version = 0
             THEN Finish(h, r, "error")
             ELSE job' = [job EXCEPT ![h] = [r EXCEPT !.pc = "token", !.resolved = now,
                    !.creds = [tenant |-> r.tenant, version |-> entry.version]]]
        ELSE job' = [job EXCEPT ![h] = [r EXCEPT !.pc = "fetch", !.resolved = now]]
     /\ UNCHANGED <<now, offered, disabled, requests, intVars>>

\* GetSecretValue; any failure but "not found" escapes invoke.
Fetch(h) ==
  LET r == job[h]
  IN /\ At(h, "fetch")
     /\ \/ job' = [job EXCEPT ![h] = [r EXCEPT !.pc = "fetched", !.read = secret[r.tenant]]]
        \/ Escape(h, r)
     /\ UNCHANGED <<now, offered, disabled, requests, intVars>>

\* Mutant: the time to live is counted from when the value is there.
UntilLate(h) == now + TTL

\* (now + ttl_seconds, value), now as read before the fetch.
Until(h) == job[h].resolved + TTL

\* The entry is stored, whatever another thread has stored meanwhile, and invoke
\* goes on with the value or, without one, ends.
StoreSecret(h) ==
  LET r == job[h]
  IN /\ At(h, "fetched")
     /\ secrets' = [secrets EXCEPT ![r.tenant] = [until |-> Until(h), version |-> r.read]]
     /\ IF r.read = 0
        THEN Finish(h, r, "error")
        ELSE job' = [job EXCEPT ![h] = [r EXCEPT !.pc = "token", !.read = 0,
               !.creds = [tenant |-> r.tenant, version |-> r.read]]]
     /\ UNCHANGED <<now, offered, disabled, requests, secret, retired, tokens>>

\* _classify_ip over every address, and the waiver for permitted hosts.
Safe(addresses, s) ==
  \A a \in addresses : a = "public" \/ (a = "private" /\ s \in Permitted)

\* With its token a request goes on, to a socket of its own; the calendar's
\* requests carry nothing else of the credentials.
Ready(r, token) ==
  [r EXCEPT !.pc = "request", !.token = token, !.creds = NoCreds, !.resolved = 0,
            !.address = "none", !.sent = FALSE]

\* _ensure_access_token: the clock and the cache; without an entry the refresh
\* request, for whose host no address but a public one is permitted.
CheckToken(h) ==
  LET r == [job[h] EXCEPT !.checked = now]
      entry == tokens[TokenKey(job[h].tenant)]
  IN /\ At(h, "token")
     /\ IF entry.until > now
        THEN job' = [job EXCEPT ![h] = Ready(r, entry.token)]
        ELSE \E found \in SUBSET Addresses :
               IF found = {"public"}
               THEN job' = [job EXCEPT ![h] = [r EXCEPT !.pc = "refresh", !.address = "public"]]
               ELSE Finish(h, r, "error")
     /\ UNCHANGED <<now, offered, disabled, requests, intVars>>

\* Mutant: the connection looks the host up again.
ConnectedAnew(h) == Addresses

\* Where guarded_open's socket goes: the pinned address.
Connected(h) == {job[h].address}

\* The refresh call: timed out, refused, or a token of Lifetime.
Refresh(h) ==
  /\ At(h, "refresh")
  /\ \E a \in Connected(h) :
       LET r == [job[h] EXCEPT !.sent = TRUE, !.address = a]
       IN \/ \E result \in {"timeout", "error"} : Finish(h, r, result)
          \/ Escape(h, r)
          \/ job' = [job EXCEPT ![h] = [r EXCEPT !.pc = "minted",
               !.token = [tenant |-> r.creds.tenant, version |-> r.creds.version, dies |-> now + Lifetime]]]
  /\ UNCHANGED <<now, offered, disabled, requests, intVars>>

\* now + max(0, lifetime - _TOKEN_MARGIN_S), now as read before the call.
TokenUntil(h) == job[h].checked + (IF Lifetime > Margin THEN Lifetime - Margin ELSE 0)

StoreToken(h) ==
  LET r == job[h]
  IN /\ At(h, "minted")
     /\ tokens' = [tokens EXCEPT ![TokenKey(r.tenant)] = [until |-> TokenUntil(h), token |-> r.token]]
     /\ job' = [job EXCEPT ![h] = Ready(r, r.token)]
     /\ UNCHANGED <<now, offered, disabled, requests, secret, retired, secrets>>

\* build_request (which may refuse the operation) and validate_outbound_url: the
\* host resolves once, every address must be safe, the first is pinned.
Validate(h) ==
  LET r == job[h]
  IN /\ At(h, "request")
     /\ \/ Finish(h, r, "unknown")
        \/ \E found \in SUBSET Addresses :
             IF found # {} /\ Safe(found, r.service)
             THEN \E a \in found : job' = [job EXCEPT ![h] = [r EXCEPT !.pc = "send", !.address = a]]
             ELSE Finish(h, r, "error")
     /\ UNCHANGED <<now, offered, disabled, requests, intVars>>

\* guarded_open and its outcome; an http.client.HTTPException escapes.
Send(h) ==
  /\ At(h, "send")
  /\ \E a \in Connected(h) :
       LET r == [job[h] EXCEPT !.sent = TRUE, !.address = a]
       IN (\E result \in {"success", "timeout", "error"} : Finish(h, r, result)) \/ Escape(h, r)
  /\ UNCHANGED <<now, offered, disabled, requests, intVars>>

IntInit ==
  /\ secret = [t \in Tenants |-> 1]
  /\ retired = [t \in Tenants |-> [v \in Versions |-> Current]]
  /\ secrets = [t \in Tenants |-> NoEntry]
  /\ tokens = [t \in Tenants |-> NoTokenEntry]

IntNext ==
  \/ \E t \in Rotated : Rotate(t)
  \/ \E h \in Handlers, t \in Tenants, s \in Services : Invoke(h, t, s)
  \/ \E h \in Handlers :
       \/ Resolve(h) \/ Fetch(h) \/ StoreSecret(h) \/ CheckToken(h)
       \/ Refresh(h) \/ StoreToken(h) \/ Validate(h) \/ Send(h)

----------------------------------------------------------------------------
\* Properties.

\* Threads that overwrite each other's cache entries never give a tenant the
\* credential or the token of another.
OwnCredentials ==
  \A h \in Handlers :
    /\ job[h].creds.tenant \in {"none", job[h].tenant}
    /\ job[h].token.tenant \in {"none", job[h].tenant}

\* "A rotated value propagates within this window": however slow a fetch is and
\* whatever it overwrites, a credential that a request goes on with had not been
\* replaced for TTL when the request asked for it.
RotationPropagates ==
  \A h \in Handlers : job[h].creds.version # 0 =>
    job[h].resolved < retired[job[h].tenant][job[h].creds.version] + TTL

\* A token is alive when it is sent, if no more than Margin passed since the
\* cache was read.
TokenAlive ==
  \A h \in Handlers : (job[h].pc = "send" /\ now <= job[h].checked + Margin) => now < job[h].token.dies

\* Whatever a host resolves to at any time, a socket goes to a public address (or
\* a private one of a permitted host), and never to the metadata service; a token
\* comes from a public address, permitted host or not.
GuardHolds ==
  \A h \in Handlers :
    /\ job[h].sent =>
         job[h].address = "public" \/ (job[h].address = "private" /\ job[h].service \in Permitted)
    /\ job[h].pc = "minted" => job[h].address = "public"

\* Neither of the two unlocked caches makes a request use a credential past the
\* promised window or a token past its life.
CredentialsFresh == RotationPropagates /\ TokenAlive
============================================================================
