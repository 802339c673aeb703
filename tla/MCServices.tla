------------------------------- MODULE MCServices --------------------------------
(* For TLC, four parts of a deployment that share no state: evidence            *)
(* submission, the external API, the health detector under the fault harness,   *)
(* and the anchors. A behaviour is one of a part chosen at the start, with the  *)
(* other parts at rest, so the run explores each of them in full.               *)
EXTENDS Evidence, FaultHarness, Anchors, TLC

CONSTANTS c1, c2   \* API calls

VARIABLES
  part,
  now, buckets, request, audit, allowed, arrived, auditFaults

\* Two submissions under one key, and one without a key.
EvidenceKey == "s1" :> "k" @@ "s2" :> "k" @@ "bad" :> "none"

APICalls == {c1, c2}
APIRoles == "reader" :> {"evidence:read"} @@ "off" :> {"evidence:read"}
APIExpiry == "reader" :> 2 @@ "off" :> 0

A == INSTANCE ExternalAPI WITH
  APIKeys <- {"reader", "off"}, Roles <- APIRoles, Disabled <- {"off"},
  ExpiresAt <- APIExpiry, Tokens <- {"reader", "off", "unknown"}, Calls <- APICalls,
  RoutesUsed <- {"evidenceGet", "opsReport"}, Token <- 3, PerTick <- 2, Burst <- 1,
  MaxTick <- 3, MaxRequests <- 3, MaxAuditFaults <- 1

FaultValidators == 1 .. 3

ASSUME ConstantsAssumption == DetectorAssumption

apiVars == << now, buckets, request, audit, allowed, arrived, auditFaults >>
servicesVars == << part, vars, apiVars, faultVars, anchorVars >>

InitServices ==
  /\ part \in {"evidence", "api", "faults", "anchors"}
  /\ Init /\ A!Init /\ FaultInit /\ AnchorInit

NextServices ==
  /\ part' = part
  /\ \/ part = "evidence" /\ Next /\ UNCHANGED << apiVars, faultVars, anchorVars >>
     \/ part = "api" /\ A!Next /\ UNCHANGED << vars, faultVars, anchorVars >>
     \/ part = "faults" /\ FaultNext /\ UNCHANGED << vars, apiVars, anchorVars >>
     \/ part = "anchors" /\ AnchorNext /\ UNCHANGED << vars, apiVars, faultVars >>

SpecServices == InitServices /\ [][NextServices]_servicesVars

\* The nodes and the requests of the evidence part are interchangeable.
Symmetry ==
  Permutations(Nodes) \cup Permutations(Requests)

--------------------------------------------------------------------------------
\* rateLimiter.Allow: in every window a key passes at most the burst and the refill.
RateBound == part = "api" => A!RateBound
\* withExternalAPI: what the limiter let pass is audited once, or its write failed.
PassedIsAudited == part = "api" => A!PassedIsAudited
================================================================================
