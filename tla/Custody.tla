--------------------------------- MODULE Custody ---------------------------------
(* Custody confirmation of bundle/custody: validators vote for an event, a      *)
(* quorum confirms it, and ApplyConfirmation records it in a durable store in   *)
(* two writes, the idempotency record and the snapshot.  Several calls run at   *)
(* once, a write may fail, and the process may stop between the two.            *)
EXTENDS Integers, Sequences, FiniteSets

CONSTANTS
  Voters, threshold,  \* the validators and the quorum
  Events,             \* custody events; an event stands for its digest
  BundleID,           \* the bundle of an event: two events may name one bundle
  Calls,              \* the callers of ApplyConfirmation
  MaxFaults           \* bound on failed writes and stops of the process

None == "none"

CustodyAssumption ==
  /\ IsFiniteSet(Voters)
  /\ threshold \in Nat \ {0}
  /\ MaxFaults \in Nat
  /\ DOMAIN BundleID = Events
  /\ None \notin Events

Bundles == {BundleID[e] : e \in Events}

VARIABLES
  votes,          \* the votes signed so far: pairs of a voter and an event
  idempotency,    \* the store's idempotency map; its key is the bundle
  snapshots,      \* the store's snapshots: the confirmed events
  idempotencyFile, snapshotFile,  \* the lines that are on disk
  saving,         \* the event whose snapshot a call has still to save
  up,             \* whether the process runs
  applied,        \* history: events for which a call returned (true, nil)
  acknowledged,   \* history: events for which a call returned without error
  faults

files == << idempotencyFile, snapshotFile >>
answers == << applied, acknowledged >>
custodyVars == << votes, idempotency, snapshots, files, saving, up, answers, faults >>

--------------------------------------------------------------------------------
SignEventVotes(v, e) ==
  /\ votes' = votes \cup {<< v, e >>}
  /\ UNCHANGED << idempotency, snapshots, files, saving, up, answers, faults >>

\* Confirm and Verify: a quorum of different voters signed this very event.
Confirm(e) == Cardinality({v \in Voters : << v, e >> \in votes}) >= threshold

Fault == faults < MaxFaults /\ faults' = faults + 1

--------------------------------------------------------------------------------
recordNew_NoLookup(p, e) ==
  /\ idempotency' = [idempotency EXCEPT ![BundleID[e]] = e]
  /\ idempotencyFile' = idempotencyFile \cup {e}
  /\ saving' = [saving EXCEPT ![p] = e]
  /\ UNCHANGED << answers, faults >>

recordNew_NoSnapshot(p, e) ==
  /\ idempotency[BundleID[e]] = None
  /\ idempotency' = [idempotency EXCEPT ![BundleID[e]] = e]
  /\ idempotencyFile' = idempotencyFile \cup {e}
  /\ UNCHANGED << saving, answers, faults >>

\* ApplyConfirmation up to RecordIdempotency, with its four results.
recordNew(p, e) ==
  /\ idempotency[BundleID[e]] = None
  /\ idempotency' = [idempotency EXCEPT ![BundleID[e]] = e]
  /\ idempotencyFile' = idempotencyFile \cup {e}
  /\ saving' = [saving EXCEPT ![p] = e]
  /\ UNCHANGED << answers, faults >>

recordReplay(e) ==
  /\ idempotency[BundleID[e]] = e
  /\ acknowledged' = acknowledged \cup {e}
  /\ UNCHANGED << idempotency, idempotencyFile, saving, applied, faults >>

\* "conflicting custody confirmation"
recordConflict(e) ==
  /\ idempotency[BundleID[e]] \notin {None, e}
  /\ UNCHANGED << idempotency, idempotencyFile, saving, answers, faults >>

\* The append fails; the line may be on disk all the same.
recordError(e) ==
  /\ idempotency[BundleID[e]] = None
  /\ Fault
  /\ idempotencyFile' \in {idempotencyFile, idempotencyFile \cup {e}}
  /\ UNCHANGED << idempotency, saving, answers >>

ApplyConfirmation(p, e) ==
  /\ up
  /\ saving[p] = None
  /\ Confirm(e)
  /\ recordNew(p, e) \/ recordReplay(e) \/ recordConflict(e) \/ recordError(e)
  /\ UNCHANGED << votes, snapshots, snapshotFile, up >>

\* The rest of ApplyConfirmation, in the call that made the record.
SaveConfirmed(p) ==
  /\ up
  /\ saving[p] # None
  /\ \/ /\ snapshots' = Append(snapshots, saving[p])
        /\ snapshotFile' = Append(snapshotFile, saving[p])
        /\ applied' = applied \cup {saving[p]}
        /\ acknowledged' = acknowledged \cup {saving[p]}
        /\ UNCHANGED faults
     \/ /\ Fault
        /\ snapshotFile' \in {snapshotFile, Append(snapshotFile, saving[p])}
        /\ UNCHANGED << snapshots, answers >>
  /\ saving' = [saving EXCEPT ![p] = None]
  /\ UNCHANGED << votes, idempotency, idempotencyFile, up >>

--------------------------------------------------------------------------------
Stop ==
  /\ up
  /\ Fault
  /\ up' = FALSE
  /\ saving' = [p \in Calls |-> None]
  /\ UNCHANGED << votes, idempotency, snapshots, files, answers >>

Lines(b) == {e \in idempotencyFile : BundleID[e] = b}

\* load refuses two different records for one ID.
OpenFileStore ==
  /\ ~ up
  /\ \A b \in Bundles : Cardinality(Lines(b)) <= 1
  /\ up' = TRUE
  /\ idempotency' = [b \in Bundles |->
       IF Lines(b) = {} THEN None ELSE CHOOSE e \in Lines(b) : TRUE]
  /\ snapshots' = snapshotFile
  /\ UNCHANGED << votes, files, saving, answers, faults >>

--------------------------------------------------------------------------------
CustodyInit ==
  /\ votes = {}
  /\ idempotency = [b \in Bundles |-> None]
  /\ snapshots = << >>
  /\ idempotencyFile = {}
  /\ snapshotFile = << >>
  /\ saving = [p \in Calls |-> None]
  /\ up = TRUE
  /\ applied = {}
  /\ acknowledged = {}
  /\ faults = 0

CustodyNext ==
  \/ \E v \in Voters, e \in Events : SignEventVotes(v, e)
  \/ \E p \in Calls : SaveConfirmed(p) \/ \E e \in Events : ApplyConfirmation(p, e)
  \/ Stop
  \/ OpenFileStore

CustodySpec == CustodyInit /\ [][CustodyNext]_custodyVars

\* A call that has made its record goes on to save the snapshot.
CustodyFairSpec == CustodySpec /\ \A p \in Calls : WF_custodyVars(SaveConfirmed(p))

--------------------------------------------------------------------------------
CustodyType ==
  /\ votes \subseteq Voters \X Events
  /\ idempotency \in [Bundles -> Events \cup {None}]
  /\ snapshots \in Seq(Events) /\ snapshotFile \in Seq(Events)
  /\ idempotencyFile \subseteq Events
  /\ saving \in [Calls -> Events \cup {None}]
  /\ up \in BOOLEAN
  /\ applied \subseteq acknowledged /\ acknowledged \subseteq Events
  /\ faults \in 0..MaxFaults

\* LoadConfirmed.
Loaded == {snapshots[i] : i \in DOMAIN snapshots}

\* A bundle is taken into custody once: the store never holds two custody records of
\* one bundle, for the same event or for different ones, over concurrent calls,
\* failed writes and restarts (RecordIdempotency before SaveSnapshot).
ConfirmedOnce ==
  \A file \in {snapshots, snapshotFile} : \A i, j \in DOMAIN file :
    BundleID[file[i]] = BundleID[file[j]] => i = j

\* A confirmation that a call reported as applied is loaded after every restart.
AppliedIsDurable == up => applied \subseteq Loaded

\* ApplyConfirmation: a bundle has one custody record, and a confirmation reported as
\* applied is there after every restart.
CustodyDurable == CustodyType /\ ConfirmedOnce /\ AppliedIsDurable

\* A confirmation that a call answered without an error, as new or as a replay while
\* another call is between its two writes, is in the end among those LoadConfirmed
\* returns, unless a write failed or the process stopped.
EventuallyLoaded ==
  \A e \in Events : e \in acknowledged ~> (e \in Loaded \/ faults > 0)

================================================================================
