------------------------------- MODULE ExternalAPI -------------------------------
(* The external HTTP interface of a validator: withExternalAPI authorises a     *)
(* request, draws on the caller's rate bucket, runs the route's handler and     *)
(* writes an audit record after the response.  Requests run concurrently, time  *)
(* passes between their steps, an API key may expire, the audit write may fail. *)
EXTENDS Integers, FiniteSetsExt, Bags

CONSTANTS
  APIKeys,       \* the configured API keys
  Roles,         \* the roles of a key
  Disabled,      \* the disabled keys
  ExpiresAt,     \* the tick at which a key expires, 0 for never
  Tokens,        \* the tokens presented: an API key, or one that is not known
  Calls,         \* the requests in flight
  RoutesUsed,    \* the routes the requests name
  Token,         \* one token of a bucket, in the units tokens are counted in
  PerTick,       \* the units a bucket gains per tick
  Burst,         \* the tokens a full bucket holds
  MaxTick, MaxRequests, MaxAuditFaults   \* bounds

Absent == [tokens |-> -1, last |-> 0]   \* no bucket yet
Anonymous == "anonymous"
RateKeys == APIKeys \cup {Anonymous}

VARIABLES
  now,
  buckets,      \* per rate key: tokens and the time of the last refill, or Absent
  request,      \* the requests in flight
  audit,        \* the audit log: a bag of principals and statuses
  allowed,      \* history: how often the limiter let a key pass at each tick
  arrived,      \* the number of requests so far
  auditFaults

apiVars == << now, buckets, request, audit, allowed, arrived, auditFaults >>

--------------------------------------------------------------------------------
\* NewAuthenticator: every key has a role and only known ones, and one is enabled.
knownRoles == {"evidence:submit", "evidence:read", "evidence:verify", "anchor:read", "admin:read"}
normalizeRecord(k) == Roles[k] # {} /\ Roles[k] \subseteq knownRoles
NewAuthenticator == (\A k \in APIKeys : normalizeRecord(k)) /\ APIKeys \ Disabled # {}

\* Authenticate: a configured, enabled key that has not expired.
Authenticate(t, time) ==
  /\ t \in APIKeys \ Disabled
  /\ ExpiresAt[t] > 0 => time < ExpiresAt[t]

HasRole(t, role) == role \in Roles[t]

\* authorizeExternalAPI: the principal, the rate key and the denial, 0 for none.
authorizeExternalAPI(t, role, time) ==
  IF ~Authenticate(t, time)
  THEN [principal |-> Anonymous, rateKey |-> Anonymous, denial |-> 401]
  ELSE [principal |-> t, rateKey |-> t,
        denial |-> IF HasRole(t, role) THEN 0 ELSE 403]

\* The role withExternalAPI asks for, and the statuses a handler may write: a bad
\* request, a missing record, a storage error or a failed proposal.
Routes ==
  [evidenceSubmit |-> [role |-> "evidence:submit", statuses |-> {200, 400, 502}],
   evidenceGet    |-> [role |-> "evidence:read",   statuses |-> {200, 400, 404, 500}],
   receiptGet     |-> [role |-> "evidence:read",   statuses |-> {200, 400, 404, 500}],
   verify         |-> [role |-> "evidence:verify", statuses |-> {200, 400, 404, 500}],
   anchorGet      |-> [role |-> "anchor:read",     statuses |-> {200, 400, 500}],
   auditRecent    |-> [role |-> "admin:read",      statuses |-> {200, 400, 500}],
   opsReport      |-> [role |-> "admin:read",      statuses |-> {200, 400, 500}]]

Idle == [pc |-> "idle"]
set(r, v) == request' = [request EXCEPT ![r] = v]

--------------------------------------------------------------------------------
\* A request arrives and is authorised at its start time.
Arrive(r, route, t) ==
  LET a == authorizeExternalAPI(t, Routes[route].role, now) IN
  /\ request[r].pc = "idle"
  /\ arrived < MaxRequests
  /\ arrived' = arrived + 1
  /\ set(r, [pc |-> "limit", route |-> route, principal |-> a.principal,
             rateKey |-> a.rateKey, status |-> a.denial])
  /\ UNCHANGED << now, buckets, audit, allowed, auditFaults >>

capped(tokens) == IF tokens > Burst * Token THEN Burst * Token ELSE tokens

refilled_NoCap(b) == b.tokens + (now - b.last) * PerTick

refilled(b) == capped(b.tokens + (now - b.last) * PerTick)

\* Allow: a new bucket holds the burst, less this request's token.
Allow(k) ==
  LET tokens == IF buckets[k] = Absent THEN Burst * Token ELSE refilled(buckets[k])
      pass   == tokens >= Token
  IN [pass |-> pass,
      bucket |-> [last |-> now, tokens |-> IF pass THEN tokens - Token ELSE tokens]]

\* The limiter is asked for denied requests too; its refusal takes precedence.
Limit(r) ==
  LET k == request[r].rateKey IN
  /\ request[r].pc = "limit"
  /\ buckets' = [buckets EXCEPT ![k] = Allow(k).bucket]
  /\ IF Allow(k).pass
     THEN /\ allowed' = [allowed EXCEPT ![k][now] = @ + 1]
          /\ set(r, [request[r] EXCEPT
                !.pc = IF request[r].status = 0 THEN "handle" ELSE "deny"])
     ELSE /\ set(r, [request[r] EXCEPT !.pc = "deny", !.status = 429])
          /\ UNCHANGED allowed
  /\ UNCHANGED << now, audit, arrived, auditFaults >>

\* The response is written, by writeError or by the handler, before the audit.
respond(r, status) ==
  /\ set(r, [request[r] EXCEPT !.pc = "audit", !.status = status])
  /\ UNCHANGED << now, buckets, audit, allowed, arrived, auditFaults >>

Deny(r) ==
  /\ request[r].pc = "deny"
  /\ respond(r, request[r].status)

Handle(r) ==
  /\ request[r].pc = "handle"
  /\ \E status \in Routes[request[r].route].statuses : respond(r, status)

record(r) == [rateKey |-> request[r].rateKey, status |-> request[r].status]

saveAuditRecord_ServedOnly(r) ==
  /\ request[r].pc = "audit"
  /\ set(r, Idle)
  /\ audit' = IF request[r].status \in {401, 403, 429} THEN audit
              ELSE audit (+) SetToBag({record(r)})
  /\ UNCHANGED << now, buckets, allowed, arrived, auditFaults >>

\* saveAuditRecord: a failed write is logged and the request is over.
saveAuditRecord(r) ==
  /\ request[r].pc = "audit"
  /\ set(r, Idle)
  /\ \/ /\ audit' = audit (+) SetToBag({record(r)})
        /\ UNCHANGED auditFaults
     \/ /\ auditFaults < MaxAuditFaults
        /\ auditFaults' = auditFaults + 1
        /\ UNCHANGED audit
  /\ UNCHANGED << now, buckets, allowed, arrived >>

Tick ==
  /\ now < MaxTick
  /\ now' = now + 1
  /\ UNCHANGED << buckets, request, audit, allowed, arrived, auditFaults >>

--------------------------------------------------------------------------------
Init ==
  /\ NewAuthenticator
  /\ now = 0
  /\ buckets = [k \in RateKeys |-> Absent]
  /\ request = [r \in Calls |-> Idle]
  /\ audit = EmptyBag
  /\ allowed = [k \in RateKeys |-> [t \in 0 .. MaxTick |-> 0]]
  /\ arrived = 0
  /\ auditFaults = 0

Next ==
  \/ \E r \in Calls, route \in RoutesUsed, t \in Tokens : Arrive(r, route, t)
  \/ \E r \in Calls : Limit(r)
  \/ \E r \in Calls : Deny(r)
  \/ \E r \in Calls : Handle(r)
  \/ \E r \in Calls : saveAuditRecord(r)
  \/ Tick

Spec == Init /\ [][Next]_apiVars

--------------------------------------------------------------------------------
\* How often the limiter let k pass in the window from t1 to t2.
AllowedBetween(k, t1, t2) == MapThenSumSet(LAMBDA t : allowed[k][t], t1 .. t2)

\* In every window of time the limiter lets a key pass at most the burst and what
\* the window refills, however its requests interleave with time and with others.
RateBound ==
  \A k \in RateKeys : \A t1, t2 \in 0 .. MaxTick :
    t1 <= t2 => AllowedBetween(k, t1, t2) * Token <= Burst * Token + (t2 - t1) * PerTick

\* Every request the limiter let pass, served or denied, is in the audit log under
\* its key, still in flight, or one whose audit write failed, and the log shows
\* none twice: what the log shows of a key is what the limiter counted.
PassedIsAudited ==
  \A k \in RateKeys :
    LET passed   == AllowedBetween(k, 0, MaxTick)
        logged   == MapThenSumSet(LAMBDA e : CopiesIn(e, audit),
                      {e \in BagToSet(audit) : e.rateKey = k /\ e.status # 429})
        inFlight == Cardinality({r \in Calls :
                      /\ request[r].pc \in {"handle", "deny", "audit"}
                      /\ request[r].rateKey = k /\ request[r].status # 429})
    IN passed - auditFaults <= logged + inFlight /\ logged + inFlight <= passed
================================================================================
