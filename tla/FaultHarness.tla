------------------------------ MODULE FaultHarness -------------------------------
(* The health detector (consensus/health) driven by the local fault harness     *)
(* (consensus/fault): validators commit, stop, restart and catch up, and on     *)
(* each logical tick the harness feeds the heartbeats of the running ones to    *)
(* the detector and lets it evaluate the silent ones.                           *)
EXTENDS Integers, FiniteSets, FiniteSetsExt

CONSTANTS
  Validators,                \* numbers, in the order of the validator IDs
  Threshold,                 \* size of a commit quorum
  SuspectAfterTicks, FailAfterTicks, LagHeightThreshold,
  MaxTick, MaxCommitted, MaxInjected   \* bounds

\* NewDetector raises both tick counts to at least 1.
DetectorAssumption ==
  /\ Validators \subseteq Nat
  /\ FailAfterTicks \in Nat \ {0}
  /\ LagHeightThreshold \in Nat

VARIABLES
  tick,
  height,      \* the committed height of a validator
  forked,      \* validators whose state digest is not the committed one
  running,
  state,       \* the detector's record of a validator
  statusEvidence,  \* the status in the last evidence record of a validator
  reference,   \* the reference heartbeat of this tick
  unobserved,  \* validators ObserveLive has still to visit at this tick
  evaluated,   \* the detector has evaluated this tick
  caughtUp,    \* validators remediation has caught up and not yet marked
  stoppedAt,   \* history: the tick at which a validator stopped
  injected

faultVars == << tick, height, forked, running, state, statusEvidence, reference, unobserved,
                evaluated, caughtUp, stoppedAt, injected >>

Inject == injected < MaxInjected /\ injected' = injected + 1
NoReference == [height |-> 0, forked |-> FALSE]
observing == reference # NoReference
observedAll == observing /\ unobserved = {}

heartbeat(v) == [height |-> height[v], forked |-> v \in forked]
isUnhealthy(s) == s \in {"degraded", "suspected_failed", "failed", "recovering"}
previous(v) == IF state[v].status = "" THEN "healthy" ELSE state[v].status

--------------------------------------------------------------------------------
\* ReferenceHeartbeat: the snapshot of a running validator of the greatest height,
\* the first of them in the order of the IDs.
ReferenceHeartbeat ==
  /\ ~observing
  /\ running # {}
  /\ LET best == Max({height[v] : v \in running})
     IN reference' = heartbeat(Min({v \in running : height[v] = best}))
  /\ unobserved' = running
  /\ UNCHANGED << tick, height, forked, running, state, statusEvidence, evaluated, caughtUp,
                  stoppedAt, injected >>

\* setStatus: the new status, and a record of it unless it is the status of before
\* and not the first one.
setStatus(v, next, heard) ==
  /\ state' = [state EXCEPT ![v] = [status |-> next, lastHeartbeat |-> heard, changed |-> TRUE]]
  /\ statusEvidence' = IF previous(v) = next /\ state[v].changed
                        THEN statusEvidence ELSE [statusEvidence EXCEPT ![v] = next]

\* Observe: the status that the heartbeat of v has beside the reference.
observedStatus(v) ==
  LET hb == heartbeat(v) IN
  IF hb.height = reference.height /\ hb.forked # reference.forked THEN "failed"
  ELSE IF reference.height > hb.height + LagHeightThreshold THEN "degraded"
  ELSE IF isUnhealthy(previous(v)) /\ hb = reference THEN "recovered"
  ELSE "healthy"

\* ObserveLive visits the running validators in order; each heartbeat is a new
\* snapshot, and a commit may have reached the validator since the reference.
Observe(v) ==
  /\ observing
  /\ v \in unobserved
  /\ v = Min(unobserved)
  /\ setStatus(v, observedStatus(v), tick)
  /\ unobserved' = unobserved \ {v}
  /\ UNCHANGED << tick, height, forked, running, reference, evaluated, caughtUp,
                  stoppedAt, injected >>

\* Evaluate: the status of a validator that was silent for too long.
silentStatus_OffByOne(v) ==
  LET missed == tick - state[v].lastHeartbeat IN
  IF state[v].lastHeartbeat = 0 \/ missed <= 0 THEN state[v].status
  ELSE IF missed > FailAfterTicks THEN "failed"
  ELSE IF missed >= SuspectAfterTicks THEN "suspected_failed"
  ELSE state[v].status

silentStatus(v) ==
  LET missed == tick - state[v].lastHeartbeat IN
  IF state[v].lastHeartbeat = 0 \/ missed <= 0 THEN state[v].status
  ELSE IF missed >= FailAfterTicks THEN "failed"
  ELSE IF missed >= SuspectAfterTicks THEN "suspected_failed"
  ELSE state[v].status

Evaluate ==
  /\ observedAll
  /\ ~evaluated
  /\ evaluated' = TRUE
  /\ state' = [v \in Validators |-> [state[v] EXCEPT !.status = silentStatus(v)]]
  /\ statusEvidence' = [v \in Validators |->
       IF silentStatus(v) # state[v].status THEN silentStatus(v) ELSE statusEvidence[v]]
  /\ UNCHANGED << tick, height, forked, running, reference, unobserved, caughtUp,
                  stoppedAt, injected >>

\* MarkRecovering and MarkRemediationCompleted set the status whatever it was.
mark(v, status) ==
  /\ state' = [state EXCEPT ![v].status = status, ![v].changed = TRUE]
  /\ statusEvidence' = [statusEvidence EXCEPT ![v] = status]

--------------------------------------------------------------------------------
\* MarkRecovering, then Restart from the validator's own data directory.
Remediate(v) ==
  /\ v \notin running
  /\ observedAll
  /\ mark(v, "recovering")
  /\ running' = running \cup {v}
  /\ UNCHANGED << tick, height, forked, reference, unobserved, evaluated, caughtUp,
                  stoppedAt, injected >>

\* CatchUpFromPeers, of a restarted validator, from the peers that answer.
CatchUp(v) ==
  /\ v \in running
  /\ observedAll
  /\ state[v].status \in {"recovering", "degraded"}
  /\ \E p \in running \ {v} :
       height' = [height EXCEPT ![v] = Max({@, height[p]})]
  /\ caughtUp' = caughtUp \cup {v}
  /\ UNCHANGED << tick, forked, running, state, statusEvidence, reference, unobserved,
                  evaluated, stoppedAt, injected >>

\* The harness completes the remediation once a later tick has observed it.
Complete(v) ==
  /\ v \in caughtUp \cap running
  /\ observedAll
  /\ state[v].lastHeartbeat = tick
  /\ caughtUp' = caughtUp \ {v}
  /\ mark(v, "recovered")
  /\ UNCHANGED << tick, height, forked, running, reference, unobserved, evaluated,
                  stoppedAt, injected >>

\* The harness proposes between two ticks: a quorum commits and the broadcast
\* reaches some of the others.
Propose ==
  /\ observedAll
  /\ LET top == Max({height[v] : v \in Validators}) IN
     /\ top < MaxCommitted
     /\ \E reached \in SUBSET {v \in running : height[v] = top} :
          /\ Cardinality(reached) >= Threshold
          /\ height' = [v \in Validators |-> IF v \in reached THEN top + 1 ELSE height[v]]
  /\ UNCHANGED << tick, forked, running, state, statusEvidence, reference, unobserved,
                  evaluated, caughtUp, stoppedAt, injected >>

\* A commit whose sender gave up waiting is applied late.
LateCommit(v) ==
  /\ v \in running
  /\ \E w \in Validators : height[w] > height[v]
  /\ height' = [height EXCEPT ![v] = @ + 1]
  /\ UNCHANGED << tick, forked, running, state, statusEvidence, reference, unobserved,
                  evaluated, caughtUp, stoppedAt, injected >>

StopValidator(v) ==
  /\ v \in running
  /\ observedAll
  /\ Inject
  /\ running' = running \ {v}
  /\ stoppedAt' = [stoppedAt EXCEPT ![v] = tick]
  /\ caughtUp' = caughtUp \ {v}
  /\ UNCHANGED << tick, height, forked, state, statusEvidence, reference, unobserved, evaluated >>

\* A validator whose heartbeats carry a digest that is not the committed one.
Diverge(v) ==
  /\ v \in running
  /\ forked = {}
  /\ observedAll
  /\ Inject
  /\ forked' = {v}
  /\ UNCHANGED << tick, height, running, state, statusEvidence, reference, unobserved,
                  evaluated, caughtUp, stoppedAt >>

Tick ==
  /\ observedAll
  /\ tick < MaxTick
  /\ tick' = tick + 1
  /\ reference' = NoReference
  /\ evaluated' = FALSE
  /\ UNCHANGED << height, forked, running, state, statusEvidence, unobserved, caughtUp,
                  stoppedAt, injected >>

--------------------------------------------------------------------------------
FaultInit ==
  /\ tick = 1
  /\ height = [v \in Validators |-> 1]
  /\ forked = {}
  /\ running = Validators
  /\ state = [v \in Validators |-> [status |-> "", lastHeartbeat |-> 0, changed |-> FALSE]]
  /\ statusEvidence = [v \in Validators |-> ""]
  /\ reference = NoReference
  /\ unobserved = {}
  /\ evaluated = FALSE
  /\ caughtUp = {}
  /\ stoppedAt = [v \in Validators |-> 0]
  /\ injected = 0

FaultNext ==
  \/ ReferenceHeartbeat
  \/ Evaluate
  \/ Propose
  \/ Tick
  \/ \E v \in Validators : \/ Observe(v)
                           \/ Remediate(v)
                           \/ CatchUp(v)
                           \/ Complete(v)
                           \/ LateCommit(v)
                           \/ StopValidator(v)
                           \/ Diverge(v)

FaultSpec == FaultInit /\ [][FaultNext]_faultVars

--------------------------------------------------------------------------------
\* What the detector says of the validators is true of them, whatever commits
\* arrive while a tick is observed. After Evaluate, one that stopped
\* FailAfterTicks ago is failed. One heard at this tick is failed only if some
\* digest is wrong, and is not called healthy further than the threshold behind
\* the reference.
StatusTruthful ==
  \A v \in Validators :
    /\ evaluated /\ v \notin running /\ tick - stoppedAt[v] >= FailAfterTicks
         => state[v].status = "failed"
    /\ observing /\ state[v].lastHeartbeat = tick /\ state[v].status = "failed"
         => forked # {}
    /\ observing /\ state[v].lastHeartbeat = tick /\ state[v].status = "healthy"
         => height[v] + LagHeightThreshold >= reference.height

\* The evidence records tell the detector's state: the last record of a validator
\* carries its current status, whichever of Observe, Evaluate and the two marks
\* set it last.
EvidenceIsCurrent ==
  \A v \in Validators : statusEvidence[v] = state[v].status

\* Detector: a status that Observe, Evaluate or a mark gave is true of the validator
\* it is given to, and is what the last evidence record of the validator says.
DetectorTruthful == StatusTruthful /\ EvidenceIsCurrent
================================================================================
