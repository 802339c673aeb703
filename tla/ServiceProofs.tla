----------------------------- MODULE ServiceProofs -----------------------------
(* What three services around the chain promise, for every value of their          *)
(* constants: the custody ledger, the anchoring backends, and the fault detector   *)
(* with its remediation.  They share no state.  Each has its inductive invariant,  *)
(* a lemma for each of its actions, and the theorem.                               *)
EXTENDS Custody, Anchors, FaultHarness, WellFoundedInduction, TLAPS

--------------------------------------------------------------------------------
(* Custody: a bundle is taken into custody once and for good, through any number   *)
(* of failed writes and restarts.                                                  *)

\* The events of a file, and a file with at most one event of a bundle.
EventsIn(f) == {f[i] : i \in DOMAIN f}
OnePerBundle(f) ==
  \A i, j \in DOMAIN f : BundleID[f[i]] = BundleID[f[j]] => i = j
NoneOf(f, b) == \A i \in DOMAIN f : BundleID[f[i]] # b

\* The idempotency record of a bundle comes before its snapshot, in memory and on
\* disk, and the call that made it is the only one that saves a snapshot for it.
CustodyInv ==
  /\ CustodyType
  /\ OnePerBundle(snapshots) /\ OnePerBundle(snapshotFile)
  /\ EventsIn(snapshots) \subseteq EventsIn(snapshotFile)
  /\ EventsIn(snapshotFile) \subseteq idempotencyFile
  /\ applied \subseteq EventsIn(snapshotFile)
  /\ up => applied \subseteq EventsIn(snapshots)
  /\ up => \A e \in EventsIn(snapshotFile) : idempotency[BundleID[e]] # None
  /\ \A p \in Calls : saving[p] # None =>
       /\ up
       /\ saving[p] \in idempotencyFile
       /\ idempotency[BundleID[saving[p]]] # None
       /\ NoneOf(snapshotFile, BundleID[saving[p]])
  /\ \A p, q \in Calls :
       saving[p] # None /\ saving[q] # None /\ p # q => BundleID[saving[p]] # BundleID[saving[q]]

--------------------------------------------------------------------------------
LEMMA AppendEvent ==
  ASSUME NEW f \in Seq(Events), NEW e \in Events
  PROVE  /\ Append(f, e) \in Seq(Events)
         /\ EventsIn(Append(f, e)) = EventsIn(f) \cup {e}
         /\ OnePerBundle(f) /\ NoneOf(f, BundleID[e]) => OnePerBundle(Append(f, e))
         /\ \A b : NoneOf(f, b) /\ b # BundleID[e] => NoneOf(Append(f, e), b)
<1> DEFINE g == Append(f, e)
<1>1. /\ g \in Seq(Events) /\ DOMAIN f = 1 .. Len(f) /\ DOMAIN g = 1 .. Len(f) + 1
      /\ Len(f) \in Nat /\ g[Len(f) + 1] = e /\ \A i \in 1 .. Len(f) : g[i] = f[i]
  OBVIOUS
<1> HIDE DEF g
<1>2. \A i \in DOMAIN g : (i \in DOMAIN f /\ g[i] = f[i]) \/ (i = Len(f) + 1 /\ g[i] = e)
  BY <1>1
<1>3. \A i \in DOMAIN f : i \in DOMAIN g /\ g[i] = f[i]
  BY <1>1
<1>4. Len(f) + 1 \in DOMAIN g /\ g[Len(f) + 1] = e
  BY <1>1
<1>5. EventsIn(g) = EventsIn(f) \cup {e}
  BY <1>2, <1>3, <1>4, Zenon DEF EventsIn
<1>6. OnePerBundle(f) /\ NoneOf(f, BundleID[e]) => OnePerBundle(g)
  BY <1>2, Zenon DEF OnePerBundle, NoneOf
<1>7. \A b : NoneOf(f, b) /\ b # BundleID[e] => NoneOf(g, b)
  BY <1>2, Zenon DEF NoneOf
<1> QED BY <1>1, <1>5, <1>6, <1>7, Zenon DEF g

LEMMA NoEventNone ==
  ASSUME NEW f, NEW b
  PROVE  NoneOf(f, b) <=> \A e \in EventsIn(f) : BundleID[e] # b
  BY Zenon DEF NoneOf, EventsIn

\* A fewer-bundles file has none of a bundle that the larger one has none of.
LEMMA NoneInPart ==
  ASSUME NEW f, NEW g, NEW b, EventsIn(f) \subseteq EventsIn(g), NoneOf(g, b)
  PROVE  NoneOf(f, b)
  BY NoEventNone, Zenon

LEMMA EventBundle ==
  ASSUME NEW e \in Events
  PROVE  BundleID[e] \in Bundles
  BY DEF Bundles

--------------------------------------------------------------------------------
(* The steps.                                                               *)

LEMMA FaultType ==
  ASSUME CustodyAssumption, faults \in 0 .. MaxFaults, Fault \/ UNCHANGED faults
  PROVE  faults' \in 0 .. MaxFaults
  BY DEF CustodyAssumption, Fault

LEMMA SignKeeps ==
  ASSUME CustodyInv, NEW v \in Voters, NEW e \in Events, SignEventVotes(v, e)
  PROVE  CustodyInv'
<1>1. /\ votes' = votes \cup {<< v, e >>}
      /\ UNCHANGED << idempotency, snapshots, idempotencyFile, snapshotFile, saving, up,
                      applied, acknowledged, faults >>
  BY DEF SignEventVotes, files, answers
<1>2. CustodyType'
  BY <1>1 DEF CustodyType, CustodyInv
<1> QED BY <1>1, <1>2 DEF CustodyInv

\* A call makes the record of a bundle that has none, so neither a snapshot nor
\* another call that is about to save one.
LEMMA RecordNewKeeps ==
  ASSUME CustodyAssumption, CustodyInv, NEW p \in Calls, NEW e \in Events,
         up, saving[p] = None, recordNew(p, e),
         UNCHANGED << votes, snapshots, snapshotFile, up >>
  PROVE  CustodyInv'
<1>1. /\ idempotency[BundleID[e]] = None
      /\ idempotency' = [idempotency EXCEPT ![BundleID[e]] = e]
      /\ idempotencyFile' = idempotencyFile \cup {e}
      /\ saving' = [saving EXCEPT ![p] = e]
      /\ UNCHANGED << applied, acknowledged, faults >>
  BY DEF recordNew, answers
<1>2. /\ BundleID[e] \in Bundles /\ e # None
      /\ idempotency \in [Bundles -> Events \cup {None}]
      /\ saving \in [Calls -> Events \cup {None}]
  BY EventBundle DEF CustodyAssumption, CustodyInv, CustodyType
<1>3. CustodyType'
  <2>1. /\ idempotency' \in [Bundles -> Events \cup {None}]
        /\ saving' \in [Calls -> Events \cup {None}]
    BY <1>1, <1>2, Zenon
  <2> QED BY <1>1, <2>1, Zenon DEF CustodyType, CustodyInv
<1>4. \A b \in Bundles : idempotency[b] # None => idempotency'[b] # None
  BY <1>1, <1>2, Zenon
<1>5. idempotency'[BundleID[e]] # None
  BY <1>1, <1>2, Zenon
<1>6. \A q \in Calls : saving'[q] = IF q = p THEN e ELSE saving[q]
  BY <1>1, <1>2, Zenon
<1>7. \A x \in EventsIn(snapshotFile) : BundleID[x] # BundleID[e] /\ BundleID[x] \in Bundles
  <2>1. EventsIn(snapshotFile) \subseteq Events
    BY DEF CustodyInv, CustodyType, EventsIn
  <2> QED BY <1>1, <2>1, EventBundle, Zenon DEF CustodyInv
<1>8. NoneOf(snapshotFile, BundleID[e])
  BY <1>7, NoEventNone, Zenon
<1>9. \A q \in Calls : saving[q] # None =>
        BundleID[saving[q]] # BundleID[e] /\ BundleID[saving[q]] \in Bundles
  <2>1. \A q \in Calls : saving[q] # None => saving[q] \in Events
    BY <1>2, Zenon
  <2> QED BY <1>1, <2>1, EventBundle, Zenon DEF CustodyInv
<1>10. \A q \in Calls : saving'[q] # None =>
         /\ up' /\ saving'[q] \in idempotencyFile' /\ idempotency'[BundleID[saving'[q]]] # None
         /\ NoneOf(snapshotFile, BundleID[saving'[q]])
  <2> SUFFICES ASSUME NEW q \in Calls, saving'[q] # None
               PROVE  /\ up' /\ saving'[q] \in idempotencyFile'
                      /\ idempotency'[BundleID[saving'[q]]] # None
                      /\ NoneOf(snapshotFile, BundleID[saving'[q]])
    OBVIOUS
  <2>1. CASE q = p
    BY <1>1, <1>5, <1>6, <1>8, <2>1, SMTT(40)
  <2>2. CASE q # p
    BY <1>1, <1>4, <1>6, <1>9, <2>2, SMTT(40) DEF CustodyInv
  <2> QED BY <2>1, <2>2
<1>11. \A q, r \in Calls : saving'[q] # None /\ saving'[r] # None /\ q # r
         => BundleID[saving'[q]] # BundleID[saving'[r]]
  BY <1>6, <1>9 DEF CustodyInv
<1>12. \A x \in EventsIn(snapshotFile) : idempotency'[BundleID[x]] # None
  BY <1>4, <1>7, Zenon DEF CustodyInv
<1>13. EventsIn(snapshotFile) \subseteq idempotencyFile'
  BY <1>1, Zenon DEF CustodyInv
<1> QED BY <1>1, <1>3, <1>10, <1>11, <1>12, <1>13 DEF CustodyInv

LEMMA ApplyConfirmationKeeps ==
  ASSUME CustodyAssumption, CustodyInv, NEW p \in Calls, NEW e \in Events,
         ApplyConfirmation(p, e)
  PROVE  CustodyInv'
<1>0. up /\ saving[p] = None /\ UNCHANGED << votes, snapshots, snapshotFile, up >>
  BY DEF ApplyConfirmation
<1>1. CASE recordNew(p, e)
  BY <1>0, <1>1, RecordNewKeeps
<1>2. CASE recordReplay(e) \/ recordConflict(e) \/ recordError(e)
  <2>1. /\ UNCHANGED << idempotency, saving, applied >>
        /\ idempotencyFile' \in {idempotencyFile, idempotencyFile \cup {e}}
        /\ acknowledged' \in {acknowledged, acknowledged \cup {e}}
        /\ Fault \/ UNCHANGED faults
    BY <1>2, Zenon DEF recordReplay, recordConflict, recordError, answers
  <2>2. faults' \in 0 .. MaxFaults
    BY <2>1, FaultType DEF CustodyInv, CustodyType
  <2>3. idempotencyFile \subseteq idempotencyFile' /\ idempotencyFile' \subseteq Events
    BY <2>1, Zenon DEF CustodyInv, CustodyType
  <2>4. CustodyType'
    BY <1>0, <2>1, <2>2, <2>3, Zenon DEF CustodyInv, CustodyType
  <2> QED BY <1>0, <2>1, <2>3, <2>4 DEF CustodyInv
<1> QED BY <1>1, <1>2 DEF ApplyConfirmation

\* The snapshot of the record that the call made: no other snapshot names its bundle.
LEMMA SaveSnapshotKeeps ==
  ASSUME CustodyAssumption, CustodyInv, NEW p \in Calls, SaveConfirmed(p)
  PROVE  CustodyInv'
<1> DEFINE e == saving[p]
<1>1. /\ up /\ e # None /\ saving' = [saving EXCEPT ![p] = None]
      /\ UNCHANGED << votes, idempotency, idempotencyFile, up >>
      /\ Fault \/ UNCHANGED faults
      /\ snapshotFile' \in {snapshotFile, Append(snapshotFile, e)}
      /\ \/ UNCHANGED << snapshots, applied, acknowledged >>
         \/ /\ snapshotFile' = Append(snapshotFile, e) /\ snapshots' = Append(snapshots, e)
            /\ applied' = applied \cup {e} /\ acknowledged' = acknowledged \cup {e}
  BY Zenon DEF SaveConfirmed, answers
<1>2. /\ e \in Events /\ saving \in [Calls -> Events \cup {None}]
      /\ snapshots \in Seq(Events) /\ snapshotFile \in Seq(Events)
      /\ BundleID[e] \in Bundles
  BY <1>1, EventBundle DEF CustodyInv, CustodyType
<1>3. /\ e \in idempotencyFile /\ idempotency[BundleID[e]] # None
      /\ NoneOf(snapshotFile, BundleID[e])
  BY <1>1 DEF CustodyInv
<1> HIDE DEF e
<1>4. NoneOf(snapshots, BundleID[e])
  BY <1>3, NoneInPart DEF CustodyInv
<1>5. /\ snapshotFile' \in Seq(Events) /\ OnePerBundle(snapshotFile')
      /\ EventsIn(snapshotFile) \subseteq EventsIn(snapshotFile')
      /\ EventsIn(snapshotFile') \subseteq EventsIn(snapshotFile) \cup {e}
      /\ \A b : NoneOf(snapshotFile, b) /\ b # BundleID[e] => NoneOf(snapshotFile', b)
  <2>1. CASE snapshotFile' = snapshotFile
    BY <1>2, <2>1 DEF CustodyInv
  <2>2. CASE snapshotFile' = Append(snapshotFile, e)
    BY <1>2, <1>3, <2>2, AppendEvent, Zenon DEF CustodyInv
  <2> QED BY <1>1, <2>1, <2>2, SMTT(40)
<1>6. /\ snapshots' \in Seq(Events) /\ OnePerBundle(snapshots')
      /\ EventsIn(snapshots') \subseteq EventsIn(snapshotFile')
      /\ applied' \subseteq EventsIn(snapshots') /\ applied' \subseteq EventsIn(snapshotFile')
      /\ applied' \subseteq acknowledged' /\ acknowledged' \subseteq Events
  <2>1. CASE UNCHANGED << snapshots, applied, acknowledged >>
    BY <1>1, <1>2, <1>5, <2>1, SMTT(40) DEF CustodyInv, CustodyType
  <2>2. CASE /\ snapshotFile' = Append(snapshotFile, e) /\ snapshots' = Append(snapshots, e)
             /\ applied' = applied \cup {e} /\ acknowledged' = acknowledged \cup {e}
    <3>1. /\ EventsIn(snapshots') = EventsIn(snapshots) \cup {e}
          /\ EventsIn(snapshotFile') = EventsIn(snapshotFile) \cup {e}
          /\ snapshots' \in Seq(Events) /\ OnePerBundle(snapshots')
      BY <1>2, <1>4, <2>2, AppendEvent, Zenon DEF CustodyInv
    <3> QED BY <1>1, <1>2, <2>2, <3>1 DEF CustodyInv, CustodyType
  <2> QED BY <1>1, <2>1, <2>2, SMTT(40)
<1>7. faults' \in 0 .. MaxFaults
  BY <1>1, FaultType DEF CustodyInv, CustodyType
<1>8. \A q \in Calls : saving'[q] = IF q = p THEN None ELSE saving[q]
  BY <1>1, <1>2, SMTT(40)
<1>9. CustodyType'
  <2>1. saving' \in [Calls -> Events \cup {None}]
    BY <1>1, <1>2, SMTT(40)
  <2> QED BY <1>1, <1>5, <1>6, <1>7, <2>1, SMTT(40) DEF CustodyInv, CustodyType
<1>10. \A q \in Calls : saving'[q] # None =>
         /\ up /\ saving'[q] \in idempotencyFile /\ idempotency[BundleID[saving'[q]]] # None
         /\ NoneOf(snapshotFile', BundleID[saving'[q]])
  BY <1>1, <1>5, <1>8, SMTT(40) DEF CustodyInv, e
<1>11. \A q, r \in Calls : saving'[q] # None /\ saving'[r] # None /\ q # r
         => BundleID[saving'[q]] # BundleID[saving'[r]]
  BY <1>8, SMTT(40) DEF CustodyInv
<1>12. /\ EventsIn(snapshotFile') \subseteq idempotencyFile
       /\ \A x \in EventsIn(snapshotFile') : idempotency[BundleID[x]] # None
  BY <1>1, <1>3, <1>5, SMTT(40) DEF CustodyInv
<1> QED BY <1>1, <1>5, <1>6, <1>9, <1>10, <1>11, <1>12, SMTT(40) DEF CustodyInv

LEMMA CrashKeeps ==
  ASSUME CustodyAssumption, CustodyInv, Stop
  PROVE  CustodyInv'
<1>1. /\ up' = FALSE /\ saving' = [p \in Calls |-> None] /\ Fault
      /\ UNCHANGED << votes, idempotency, snapshots, idempotencyFile, snapshotFile,
                      applied, acknowledged >>
  BY DEF Stop, files, answers
<1>2. faults' \in 0 .. MaxFaults
  BY <1>1, FaultType DEF CustodyInv, CustodyType
<1>3. CustodyType'
  BY <1>1, <1>2, Zenon DEF CustodyInv, CustodyType
<1> QED BY <1>1, <1>3 DEF CustodyInv

\* load takes the records and the snapshots from the files; every snapshot has a record.
LEMMA OpenKeeps ==
  ASSUME CustodyAssumption, CustodyInv, OpenFileStore
  PROVE  CustodyInv'
<1>1. /\ ~ up /\ up' = TRUE /\ snapshots' = snapshotFile
      /\ idempotency' = [b \in Bundles |->
           IF Lines(b) = {} THEN None ELSE CHOOSE e \in Lines(b) : TRUE]
      /\ UNCHANGED << votes, idempotencyFile, snapshotFile, saving, applied, acknowledged, faults >>
  BY DEF OpenFileStore, files, answers
<1>2. idempotencyFile \subseteq Events /\ snapshotFile \in Seq(Events)
      /\ EventsIn(snapshotFile) \subseteq idempotencyFile
  BY DEF CustodyInv, CustodyType
<1>3. \A b \in Bundles : Lines(b) # {} => idempotency'[b] \in Lines(b)
  BY <1>1
<1>4. \A b \in Bundles : Lines(b) = {} => idempotency'[b] = None
  BY <1>1
<1>5. \A b \in Bundles : Lines(b) \subseteq Events
  BY <1>2 DEF Lines
<1>6. idempotency' \in [Bundles -> Events \cup {None}]
  <2>1. \A b \in Bundles : idempotency'[b] \in Events \cup {None}
    BY <1>3, <1>4, <1>5, Zenon
  <2> QED BY <1>1, <2>1
<1>7. CustodyType'
  BY <1>1, <1>6, SMTT(40) DEF CustodyInv, CustodyType
<1>8. \A x \in EventsIn(snapshotFile) : idempotency'[BundleID[x]] # None
  <2> SUFFICES ASSUME NEW x \in EventsIn(snapshotFile) PROVE idempotency'[BundleID[x]] # None
    OBVIOUS
  <2>1. x \in Events /\ BundleID[x] \in Bundles /\ x \in Lines(BundleID[x])
    BY <1>2, EventBundle DEF Lines
  <2>2. idempotency'[BundleID[x]] \in Events
    BY <1>3, <1>5, <2>1, Zenon
  <2> QED BY <2>2, SMTT(40) DEF CustodyAssumption
<1>9. \A p \in Calls : saving'[p] = None
  BY <1>1 DEF CustodyInv
<1> QED BY <1>1, <1>7, <1>8, <1>9 DEF CustodyInv

LEMMA CustodyInductive ==
  CustodyAssumption /\ CustodyInv /\ [CustodyNext]_custodyVars => CustodyInv'
<1> SUFFICES ASSUME CustodyAssumption, CustodyInv, [CustodyNext]_custodyVars PROVE CustodyInv'
  OBVIOUS
<1>1. ASSUME NEW v \in Voters, NEW e \in Events, SignEventVotes(v, e) PROVE CustodyInv'
  BY <1>1, SignKeeps
<1>2. ASSUME NEW p \in Calls, SaveConfirmed(p) PROVE CustodyInv'
  BY <1>2, SaveSnapshotKeeps
<1>3. ASSUME NEW p \in Calls, NEW e \in Events, ApplyConfirmation(p, e) PROVE CustodyInv'
  BY <1>3, ApplyConfirmationKeeps
<1>4. CASE Stop
  BY <1>4, CrashKeeps
<1>5. CASE OpenFileStore
  BY <1>5, OpenKeeps, SMTT(40)
<1>6. CASE UNCHANGED custodyVars
  <2>1. UNCHANGED << votes, idempotency, snapshots, idempotencyFile, snapshotFile, saving, up,
                     applied, acknowledged, faults >>
    BY <1>6, SMTT(40) DEF custodyVars, files, answers
  <2> QED BY <2>1 DEF CustodyInv, CustodyType
<1> QED BY <1>1, <1>2, <1>3, <1>4, <1>5, <1>6, SMTT(40) DEF CustodyNext

LEMMA InitCustody == CustodyAssumption /\ CustodyInit => CustodyInv
<1> SUFFICES ASSUME CustodyAssumption, CustodyInit PROVE CustodyInv
  OBVIOUS
<1>1. /\ votes = {} /\ idempotency = [b \in Bundles |-> None] /\ snapshots = << >>
      /\ idempotencyFile = {} /\ snapshotFile = << >> /\ saving = [p \in Calls |-> None]
      /\ up = TRUE /\ applied = {} /\ acknowledged = {} /\ faults = 0
  BY DEF CustodyInit
<1>2. << >> \in Seq(Events) /\ DOMAIN << >> = {}
  OBVIOUS
<1>3. CustodyType
  BY <1>1, <1>2 DEF CustodyType, CustodyAssumption
<1>4. EventsIn(<< >>) = {} /\ OnePerBundle(<< >>)
  BY <1>2, Zenon DEF EventsIn, OnePerBundle
<1> QED BY <1>1, <1>3, <1>4 DEF CustodyInv

\* A bundle is taken into custody once, for one event, and a confirmation reported
\* as applied is loaded after every restart (ApplyConfirmation: RecordIdempotency
\* before SaveSnapshot).
THEOREM CustodyIsDurable ==
  ASSUME CustodyAssumption
  PROVE  CustodySpec => []CustodyDurable
<1>1. CustodyInv => CustodyDurable
  <2> SUFFICES ASSUME CustodyInv PROVE CustodyDurable
    OBVIOUS
  <2>1. ConfirmedOnce
    BY SMTT(40) DEF CustodyInv, ConfirmedOnce, OnePerBundle
  <2>2. AppliedIsDurable
    BY DEF CustodyInv, AppliedIsDurable, Loaded, EventsIn
  <2> QED BY <2>1, <2>2 DEF CustodyInv, CustodyDurable
<1>2. CustodyInit => CustodyInv
  BY InitCustody
<1>3. CustodyInv /\ [CustodyNext]_custodyVars => CustodyInv'
  BY CustodyInductive
<1> QED BY <1>1, <1>2, <1>3, PTL DEF CustodySpec

--------------------------------------------------------------------------------
(* Anchors: the mock backend stands for the contracts.                             *)

NoKey == ""

\* While both backends check the same fields they hold the same records, and no
\* registry that others look identities or proposals up in has the empty key.
AnchorInv ==
  /\ roles = authorized
  /\ unlike \in BOOLEAN
  /\ ~unlike => /\ mock = contract
                /\ mock = [r \in Registries |-> mock[r]]
                /\ \A r \in Registries : NoKey \notin DOMAIN mock[r]

LEMMA PutDomain == \A f, k, v : DOMAIN Put(f, k, v) = DOMAIN f \cup {k}
  BY DEF Put

\* A call keeps the invariant if both backends decide alike on a record that they
\* check alike, and write the same.
LEMMA CallKeeps ==
  ASSUME AnchorInv, NEW reg \in Registries, NEW key, NEW value, NEW other,
         NEW accepts \in BOOLEAN, NEW permitted \in BOOLEAN, NEW alike \in BOOLEAN,
         callBoth(reg, key, value, accepts, other, permitted, alike),
         ~unlike /\ alike => (accepts <=> permitted),
         ~unlike /\ alike /\ accepts => value = other /\ key # NoKey
  PROVE  AnchorInv'
<1>1. /\ ~unlike /\ unlike' = (unlike \/ ~alike)
      /\ mock' = write(accepts, mock, reg, key, value)
      /\ contract' = write(permitted, contract, reg, key, other)
      /\ roles' = roles /\ authorized' = authorized
  BY DEF callBoth
<1>2. roles' = authorized' /\ unlike' \in BOOLEAN
  BY <1>1 DEF AnchorInv
<1>3. ASSUME alike
      PROVE  /\ mock' = contract'
             /\ mock' = [r \in Registries |-> mock'[r]]
             /\ \A r \in Registries : NoKey \notin DOMAIN mock'[r]
  <2>1. CASE ~accepts
    <3>1. ~permitted
      BY <1>1, <1>3, <2>1
    <3>2. mock' = mock /\ contract' = contract
      BY <1>1, <2>1, <3>1 DEF write
    <3> QED
      BY <1>1, <3>2, Zenon DEF AnchorInv
  <2>2. CASE accepts
    <3>1. value = other /\ key # NoKey /\ permitted
      BY <1>1, <1>3, <2>2
    <3>2. mock' = [mock EXCEPT ![reg] = Put(mock[reg], key, value)] /\ mock' = contract'
      BY <1>1, <2>2, <3>1, SMTT(40) DEF AnchorInv, write
    <3>3. mock = [r \in Registries |-> mock[r]]
      BY <1>1 DEF AnchorInv
    <3>4. mock' = [r \in Registries |-> mock'[r]]
      BY <3>2, <3>3
    <3>5. \A r \in Registries : NoKey \notin DOMAIN mock'[r]
      <4> SUFFICES ASSUME NEW r \in Registries
                   PROVE  NoKey \notin DOMAIN mock'[r]
        OBVIOUS
      <4>1. NoKey \notin DOMAIN mock[r]
        BY <1>1 DEF AnchorInv
      <4>2. mock'[r] = IF r = reg THEN Put(mock[reg], key, value) ELSE mock[r]
        BY <3>2, <3>3
      <4> QED
        <5>1. CASE r # reg
          BY <4>1, <4>2, <5>1, Zenon
        <5>2. CASE r = reg
          <6>1. DOMAIN mock'[r] = DOMAIN mock[r] \cup {key}
            <7>1. mock'[r] = Put(mock[r], key, value)
              BY <4>2, <5>2, Zenon
            <7> QED
              BY <7>1, PutDomain, Zenon
          <6> QED
            BY <3>1, <4>1, <6>1
        <5> QED
          BY <5>1, <5>2
    <3> QED
      BY <3>2, <3>4, <3>5
  <2> QED
    BY <2>1, <2>2
<1> QED
  BY <1>1, <1>2, <1>3, Zenon DEF AnchorInv

LEMMA IdentityKeeps ==
  ASSUME AnchorInv, NEW actor, NEW r \in IdentityInputs,
         RegisterIdentity(actor, r) \/ UpdateIdentity(actor, r)
  PROVE  AnchorInv'
<1> DEFINE valid == ValidateIdentityRecord(r) /\ authorizedLocked("identity", actor)
           old == r.key \in DOMAIN mock["identity"]
<1>1. (r.metadata # "") \in BOOLEAN /\ "identity" \in Registries
  BY DEF Registries
<1>2. ~unlike => (hasIdentity(r.key) <=> old)
  BY DEF AnchorInv, hasIdentity
<1>3. r.metadata # "" => /\ valid <=> actor \in authorized["identity"] /\ validateIdentityInput(r)
                         /\ valid => r.key # NoKey
  BY Zenon DEF AnchorInv, NoKey, ValidateIdentityRecord, validateIdentityInput, authorizedLocked
<1>4. CASE RegisterIdentity(actor, r)
  <2>1. callBoth("identity", r.key, r.metadata, valid /\ ~old, r.metadata,
             registerIdentity(actor, r), r.metadata # "")
    BY <1>4, ZenonT(40) DEF RegisterIdentity
  <2>2. ~unlike /\ r.metadata # "" =>
          /\ valid /\ ~old <=> registerIdentity(actor, r)
          /\ valid /\ ~old => r.key # NoKey
    BY <1>2, <1>3, ZenonT(40) DEF registerIdentity
  <2>3. (valid /\ ~old) \in BOOLEAN /\ registerIdentity(actor, r) \in BOOLEAN
    BY DEF registerIdentity
  <2> HIDE DEF valid, old
  <2> QED
    BY <1>1, <2>1, <2>2, <2>3, CallKeeps, ZenonT(40)
<1>5. CASE UpdateIdentity(actor, r)
  <2>1. callBoth("identity", r.key, r.metadata, valid /\ old, r.metadata,
             updateIdentity(actor, r), r.metadata # "")
    BY <1>5, ZenonT(40) DEF UpdateIdentity
  <2>2. ~unlike /\ r.metadata # "" =>
          /\ valid /\ old <=> updateIdentity(actor, r)
          /\ valid /\ old => r.key # NoKey
    BY <1>2, <1>3, ZenonT(40) DEF updateIdentity
  <2>3. (valid /\ old) \in BOOLEAN /\ updateIdentity(actor, r) \in BOOLEAN
    BY DEF updateIdentity
  <2> HIDE DEF valid, old
  <2> QED
    BY <1>1, <2>1, <2>2, <2>3, CallKeeps, ZenonT(40)
<1> QED
  BY <1>4, <1>5

\* Both backends look the two identities of a credential up; neither has an empty one.
LEMMA CredentialKeeps ==
  ASSUME AnchorInv, NEW actor, NEW r \in CredentialInputs, AnchorCredential(actor, r)
  PROVE  AnchorInv'
<1> DEFINE accepts == /\ ValidateCredentialRecord(r)
                      /\ authorizedLocked("credential", actor)
                      /\ {r.subject, r.issuer} \subseteq DOMAIN mock["identity"]
                      /\ r.key \notin DOMAIN mock["credential"]
<1>1. callBoth("credential", r.key, r, accepts, r, anchorCredential(actor, r), TRUE)
  BY Zenon DEF AnchorCredential
<1>2. accepts \in BOOLEAN /\ anchorCredential(actor, r) \in BOOLEAN
  BY Zenon DEF anchorCredential
<1>3. "credential" \in Registries /\ "identity" \in Registries
  BY DEF Registries
<1>4. r.until > 0 <=> r.until # 0
  <2>1. r.until \in {0, 1}
    BY Zenon DEF CredentialInputs
  <2> QED
    BY <2>1
<1>5. ASSUME ~unlike
      PROVE  /\ accepts <=> anchorCredential(actor, r)
             /\ accepts => r.key # NoKey
  <2>1. mock = contract /\ roles = authorized /\ NoKey \notin DOMAIN mock["identity"]
    BY <1>3, <1>5, Zenon DEF AnchorInv
  <2>2. /\ accepts => r.key # NoKey
        /\ accepts => anchorCredential(actor, r)
    BY <1>4, <2>1, Zenon DEF ValidateCredentialRecord, NoKey, anchorCredential, hasIdentity,
       authorizedLocked
  <2>3. anchorCredential(actor, r) => accepts
    BY <1>4, <2>1, Zenon DEF ValidateCredentialRecord, NoKey, anchorCredential, hasIdentity,
       authorizedLocked
  <2> QED
    BY <2>2, <2>3, Zenon
<1> HIDE DEF accepts
<1> QED
  BY <1>1, <1>2, <1>3, <1>5, CallKeeps, Zenon

\* A proposal with a creator and without a state of its own starts out as anchored.
LEMMA ProposalKeeps ==
  ASSUME AnchorInv, NEW actor, NEW r \in ProposalInputs, AnchorGovernanceProposal(actor, r)
  PROVE  AnchorInv'
<1> DEFINE accepts == /\ ValidateGovernanceProposalRecord(r)
                      /\ authorizedLocked("governance", actor)
                      /\ r.key \notin DOMAIN mock["governance"]
           alike == r.creator /\ r.state = ""
           first == IF r.state = "" THEN "anchored" ELSE r.state
<1>1. callBoth("governance", r.key, first, accepts, "anchored", anchorProposal(actor, r), alike)
  BY Zenon DEF AnchorGovernanceProposal
<1>2. /\ accepts \in BOOLEAN /\ anchorProposal(actor, r) \in BOOLEAN
      /\ alike \in BOOLEAN
  BY Zenon DEF anchorProposal
<1>3. "governance" \in Registries
  BY DEF Registries
<1>4. ASSUME ~unlike, alike
      PROVE  /\ accepts <=> anchorProposal(actor, r)
             /\ accepts => r.key # NoKey
             /\ first = "anchored"
  <2>1. mock = contract /\ roles = authorized
    BY <1>4, Zenon DEF AnchorInv
  <2> QED
    BY <1>4, <2>1, Zenon DEF ValidateGovernanceProposalRecord, NoKey, anchorProposal,
       authorizedLocked
<1> HIDE DEF accepts, alike, first
<1> QED
  BY <1>1, <1>2, <1>3, <1>4, CallKeeps, Zenon

LEMMA ProposalStateKeeps ==
  ASSUME AnchorInv, NEW actor, NEW key, NEW proposalState,
         UpdateGovernanceProposalState(actor, key, proposalState)
  PROVE  AnchorInv'
<1> DEFINE accepts == /\ key # "" /\ proposalState # ""
                      /\ authorizedLocked("governance", actor)
                      /\ key \in DOMAIN mock["governance"]
<1>1. callBoth("governance", key, proposalState, accepts, proposalState,
           updateProposalState(actor, key, proposalState), TRUE)
  BY Zenon DEF UpdateGovernanceProposalState
<1>2. accepts \in BOOLEAN /\ updateProposalState(actor, key, proposalState) \in BOOLEAN
  BY Zenon DEF updateProposalState
<1>3. "governance" \in Registries
  BY DEF Registries
<1>4. ASSUME ~unlike
      PROVE  /\ accepts <=> updateProposalState(actor, key, proposalState)
             /\ accepts => key # NoKey
  <2>1. /\ mock = contract /\ roles = authorized
        /\ NoKey \notin DOMAIN mock["governance"]
    BY <1>3, <1>4, Zenon DEF AnchorInv
  <2> QED
    BY <2>1, Zenon DEF NoKey, updateProposalState, authorizedLocked
<1> HIDE DEF accepts
<1> QED
  BY <1>1, <1>2, <1>3, <1>4, CallKeeps, Zenon

LEMMA CertificateKeeps ==
  ASSUME AnchorInv, NEW actor, NEW r \in QCInputs, AnchorQuorumCertificate(actor, r)
  PROVE  AnchorInv'
<1> DEFINE accepts == /\ ValidateQuorumCertificateRecord(r)
                      /\ authorizedLocked("qc", actor)
                      /\ r.key \notin DOMAIN mock["qc"]
<1>1. callBoth("qc", r.key, r, accepts, r, anchorQuorumCertificate(actor, r), TRUE)
  BY Zenon DEF AnchorQuorumCertificate
<1>2. accepts \in BOOLEAN /\ anchorQuorumCertificate(actor, r) \in BOOLEAN
  BY Zenon DEF anchorQuorumCertificate
<1>3. "qc" \in Registries
  BY DEF Registries
<1>4. /\ r.threshold > 0 <=> r.threshold # 0
      /\ r.signers >= r.threshold <=> ~(r.signers < r.threshold)
  <2>1. r.threshold \in 0..1 /\ r.signers \in 0..1
    BY Zenon DEF QCInputs
  <2> QED
    BY <2>1
<1>5. ASSUME ~unlike
      PROVE  /\ accepts <=> anchorQuorumCertificate(actor, r)
             /\ accepts => r.key # NoKey
  <2>1. mock = contract /\ roles = authorized
    BY <1>5, Zenon DEF AnchorInv
  <2> QED
    BY <1>4, <2>1, Zenon DEF ValidateQuorumCertificateRecord, NoKey,
       anchorQuorumCertificate, authorizedLocked
<1> HIDE DEF accepts
<1> QED
  BY <1>1, <1>2, <1>3, <1>5, CallKeeps, Zenon

\* Authorizations change in both backends together.
LEMMA AuthorizationKeeps ==
  ASSUME AnchorInv, NEW actor, NEW reg, NEW account, NEW allowed,
         \/ TransferOwnership(actor, reg, account)
         \/ SetAuthorized(actor, reg, account, allowed)
  PROVE  AnchorInv'
<1>1. roles' = authorized' /\ UNCHANGED << mock, contract, unlike >>
  BY Zenon DEF AnchorInv, TransferOwnership, SetAuthorized
<1> QED
  BY <1>1, Zenon DEF AnchorInv

\* MockBackend holds the records the contracts hold after the same calls, in any order
\* and by any accounts, until a record comes that only the mock checks in full.
THEOREM MockStandsForContracts == AnchorSpec => []MockMatchesContracts
<1>1. AnchorInit => AnchorInv
  BY Zenon DEF AnchorInit, AnchorInv, Empty, EmptyRecords
<1>2. AnchorInv /\ [AnchorNext]_anchorVars => AnchorInv'
  <2> SUFFICES ASSUME AnchorInv, [AnchorNext]_anchorVars
               PROVE  AnchorInv'
    OBVIOUS
  <2>1. CASE UNCHANGED anchorVars
    BY <2>1, Zenon DEF anchorVars, AnchorInv
  <2>2. CASE AnchorNext
    BY <2>2, IdentityKeeps, CredentialKeeps, ProposalKeeps, ProposalStateKeeps,
       CertificateKeeps, AuthorizationKeeps, Zenon DEF AnchorNext
  <2> QED
    BY <2>1, <2>2
<1>3. AnchorInv => MockMatchesContracts
  BY DEF AnchorInv, MockMatchesContracts
<1> QED
  BY <1>1, <1>2, <1>3, PTL DEF AnchorSpec

--------------------------------------------------------------------------------
(* The fault detector: its statuses are true of the validators.                   *)

Statuses ==
  {"", "healthy", "degraded", "suspected_failed", "failed", "recovering", "recovered"}
Entry == [status : Statuses, lastHeartbeat : Nat, changed : BOOLEAN]

Types ==
  /\ tick \in Nat \ {0}
  /\ height \in [Validators -> Nat]
  /\ running \subseteq Validators
  /\ state \in [Validators -> Entry]
  /\ statusEvidence \in [Validators -> Statuses]
  /\ stoppedAt \in [Validators -> Nat]
  /\ reference.height \in Nat /\ reference.forked \in BOOLEAN

\* Some height is the greatest.
HeightsBounded == \E top \in Nat : \A v \in Validators : height[v] <= top

\* A heartbeat of this tick comes after its reference, and a validator that is
\* stopped was heard before it stopped.
HeardInv ==
  /\ reference.forked => forked # {}
  /\ unobserved \subseteq running
  /\ \A v \in Validators :
       LET heard == state[v].lastHeartbeat IN
       /\ heard <= tick
       /\ ~observing => heard < tick
       /\ observing /\ v \notin unobserved => heard > 0
       /\ v \notin running => heard > 0 /\ heard <= stoppedAt[v] /\ stoppedAt[v] <= tick

\* A status that was set is in the last record.
RecordsInv ==
  \A v \in Validators :
    /\ statusEvidence[v] = state[v].status
    /\ state[v].changed => state[v].status # ""

DetectorInv == Types /\ HeightsBounded /\ HeardInv /\ StatusTruthful /\ RecordsInv

--------------------------------------------------------------------------------
(* Least and greatest numbers.                                              *)

\* The least-number principle, from the well-foundedness of < on the naturals.
LEMMA LeastNatural ==
  ASSUME NEW T, T \subseteq Nat, T # {}
  PROVE  \E x \in T : \A y \in T : x <= y
<1> DEFINE R == OpToRel(<, Nat)
<1>1. PICK x \in T : \A y \in T : ~ (<<y, x>> \in R)
  <2>1. IsWellFoundedOn(R, Nat)
    BY NatLessThanWellFounded, Zenon
  <2> HIDE DEF R
  <2> QED
    BY <2>1, WFMin, Zenon
<1>2. \A y \in T : ~(y < x)
  BY <1>1, Zenon DEF OpToRel
<1> QED
  BY <1>2

LEMMA MinNatural ==
  ASSUME NEW T, T \subseteq Nat, T # {}
  PROVE  Min(T) \in T
  BY LeastNatural, Zenon DEF Min

LEMMA MaxNatural ==
  ASSUME NEW T, T \subseteq Nat, T # {}, NEW b \in Nat, \A x \in T : x <= b
  PROVE  Max(T) \in T /\ \A y \in T : Max(T) >= y
<1> DEFINE U == {u \in Nat : \A x \in T : x <= u}
<1>1. U \subseteq Nat /\ b \in U
  OBVIOUS
<1>2. PICK u \in U : \A w \in U : u <= w
  <2> HIDE DEF U
  <2> QED
    BY <1>1, LeastNatural, Zenon
<1>3. u \in T
  <2> SUFFICES ASSUME u \notin T
               PROVE  FALSE
    OBVIOUS
  <2>1. u \in Nat /\ \A x \in T : x < u
    BY <1>2
  <2>2. PICK t : t \in T
    OBVIOUS
  <2>3. t \in Nat /\ t < u
    BY <2>1, <2>2
  <2>4. u - 1 \in Nat
    BY <2>1, <2>3
  <2>5. \A x \in T : x <= u - 1
    BY <2>1
  <2> QED
    BY <1>2, <2>1, <2>4, <2>5
<1>4. \A y \in T : u >= y
  BY <1>2
<1> QED
  BY <1>3, <1>4, Zenon DEF Max

LEMMA MaxOfTwo ==
  ASSUME NEW a \in Nat, NEW b \in Nat
  PROVE  Max({a, b}) \in {a, b} /\ Max({a, b}) >= a
<1>1. /\ {a, b} \subseteq Nat /\ {a, b} # {} /\ a + b \in Nat
      /\ \A x \in {a, b} : x <= a + b
  OBVIOUS
<1>2. Max({a, b}) \in {a, b} /\ \A y \in {a, b} : Max({a, b}) >= y
  BY <1>1, MaxNatural
<1> QED
  BY <1>2

--------------------------------------------------------------------------------
(* The harness: references, commits, stops and starts.                      *)

\* Steps that leave the detector alone keep its records.
LEMMA SameRecords ==
  ASSUME RecordsInv, UNCHANGED << state, statusEvidence >>
  PROVE  RecordsInv'
  BY Zenon DEF RecordsInv

LEMMA HeardType ==
  ASSUME Types, NEW v \in Validators
  PROVE  state[v].lastHeartbeat \in Nat
  BY DEF Types, Entry

\* The reference is the heartbeat of a running validator.
LEMMA ReferenceKeeps ==
  ASSUME DetectorAssumption, DetectorInv, ReferenceHeartbeat
  PROVE  DetectorInv'
<1> DEFINE best == Max({height[v] : v \in running})
           firsts == {v \in running : height[v] = best}
           w == Min(firsts)
<1>1. /\ ~observing /\ running # {}
      /\ reference' = heartbeat(w)
      /\ unobserved' = running
      /\ UNCHANGED << tick, height, forked, running, state, statusEvidence, stoppedAt >>
      /\ evaluated' = evaluated
  BY DEF ReferenceHeartbeat
<1>2. height \in [Validators -> Nat] /\ running \subseteq Validators /\ Validators \subseteq Nat
  BY DEF DetectorInv, Types, DetectorAssumption
<1>3. w \in running
  <2>1. PICK top \in Nat : \A v \in Validators : height[v] <= top
    BY DEF DetectorInv, HeightsBounded
  <2>2. best \in {height[v] : v \in running}
    <3>1. /\ {height[v] : v \in running} \subseteq Nat
          /\ {height[v] : v \in running} # {}
          /\ \A x \in {height[v] : v \in running} : x <= top
      BY <1>1, <1>2, <2>1, Zenon
    <3> QED
      BY <3>1, MaxNatural, Zenon
  <2>3. firsts \subseteq Nat /\ firsts # {}
    BY <1>2, <2>2, Zenon
  <2>4. w \in firsts
    BY <2>3, MinNatural, Zenon
  <2> QED
    BY <2>4
<1> HIDE DEF w
<1>4. /\ reference'.height \in Nat /\ reference'.forked \in BOOLEAN
      /\ reference'.forked => forked # {}
  <2>1. heartbeat(w).height = height[w] /\ heartbeat(w).forked = (w \in forked)
    BY DEF heartbeat
  <2>2. height[w] \in Nat
    BY <1>2, <1>3, Zenon
  <2>3. (w \in forked) \in BOOLEAN /\ (w \in forked => forked # {})
    OBVIOUS
  <2> QED
    BY <1>1, <2>1, <2>2, <2>3, Zenon
<1>5. Types'
  BY <1>1, <1>4, Zenon DEF DetectorInv, Types
<1>6. HeightsBounded' /\ RecordsInv'
  BY <1>1, SameRecords, Zenon DEF DetectorInv, HeightsBounded
<1>7. \A v \in Validators : state[v].lastHeartbeat < tick /\ state[v].lastHeartbeat \in Nat
  BY <1>1, HeardType, Zenon DEF DetectorInv, HeardInv
<1>8. HeardInv'
  <2>1. \A v \in Validators :
          /\ state[v].lastHeartbeat <= tick
          /\ v \notin running => /\ state[v].lastHeartbeat > 0
                                 /\ state[v].lastHeartbeat <= stoppedAt[v]
                                 /\ stoppedAt[v] <= tick
    BY Zenon DEF DetectorInv, HeardInv
  <2> QED
    BY <1>1, <1>4, <1>7, <2>1, Zenon DEF HeardInv
<1>9. StatusTruthful'
  <2>1. \A v \in Validators : state'[v].lastHeartbeat # tick'
    BY <1>1, <1>7 DEF DetectorInv, Types
  <2> QED
    BY <1>1, <2>1, Zenon DEF DetectorInv, StatusTruthful
<1> QED
  BY <1>5, <1>6, <1>8, <1>9, SMTT(40) DEF DetectorInv

\* Heights only grow: what was near enough to the reference stays near enough.
LEMMA HeightsKeep ==
  ASSUME DetectorAssumption, DetectorInv,
         height' \in [Validators -> Nat], \A v \in Validators : height'[v] >= height[v],
         HeightsBounded',
         UNCHANGED << tick, forked, running, state, statusEvidence, reference, unobserved,
                      evaluated, stoppedAt >>
  PROVE  DetectorInv'
<1>1. Types'
  BY Zenon DEF DetectorInv, Types
<1>2. HeardInv'
  BY Zenon DEF DetectorInv, HeardInv, observing
<1>3. RecordsInv'
  BY SameRecords, Zenon DEF DetectorInv
<1>4. StatusTruthful'
  <2> SUFFICES ASSUME NEW v \in Validators
               PROVE  /\ evaluated /\ v \notin running /\ tick - stoppedAt[v] >= FailAfterTicks
                           => state[v].status = "failed"
                      /\ observing /\ state[v].lastHeartbeat = tick /\ state[v].status = "failed"
                           => forked # {}
                      /\ observing /\ state[v].lastHeartbeat = tick /\ state[v].status = "healthy"
                           => height'[v] + LagHeightThreshold >= reference.height
    BY Zenon DEF StatusTruthful, observing
  <2>1. /\ evaluated /\ v \notin running /\ tick - stoppedAt[v] >= FailAfterTicks
             => state[v].status = "failed"
        /\ observing /\ state[v].lastHeartbeat = tick /\ state[v].status = "failed"
             => forked # {}
        /\ observing /\ state[v].lastHeartbeat = tick /\ state[v].status = "healthy"
             => height[v] + LagHeightThreshold >= reference.height
    BY Zenon DEF DetectorInv, StatusTruthful
  <2>2. /\ height[v] \in Nat /\ height'[v] \in Nat /\ height'[v] >= height[v]
        /\ reference.height \in Nat /\ LagHeightThreshold \in Nat
    BY DEF DetectorInv, Types, DetectorAssumption
  <2>3. height[v] + LagHeightThreshold >= reference.height =>
          height'[v] + LagHeightThreshold >= reference.height
    BY <2>2
  <2> QED
    BY <2>1, <2>3, Zenon
<1> QED
  BY <1>1, <1>2, <1>3, <1>4 DEF DetectorInv

LEMMA CatchUpKeeps ==
  ASSUME DetectorAssumption, DetectorInv, NEW v \in Validators, CatchUp(v)
  PROVE  DetectorInv'
<1>1. PICK p \in running : height' = [height EXCEPT ![v] = Max({height[v], height[p]})]
  BY Zenon DEF CatchUp
<1>2. height \in [Validators -> Nat] /\ p \in Validators
  BY DEF DetectorInv, Types
<1>3. /\ Max({height[v], height[p]}) \in {height[v], height[p]}
      /\ Max({height[v], height[p]}) >= height[v]
  BY <1>2, MaxOfTwo
<1> DEFINE h == Max({height[v], height[p]})
<1> HIDE DEF h
<1>4. h \in {height[v], height[p]} /\ h >= height[v] /\ height' = [height EXCEPT ![v] = h]
  BY <1>1, <1>3 DEF h
<1>5. height' \in [Validators -> Nat] /\ \A u \in Validators : height'[u] >= height[u]
  BY <1>2, <1>4
<1>6. HeightsBounded'
  <2>1. PICK top \in Nat : \A u \in Validators : height[u] <= top
    BY DEF DetectorInv, HeightsBounded
  <2>2. \A u \in Validators : height'[u] <= top
    BY <1>2, <1>4, <2>1
  <2> QED
    BY <2>2 DEF HeightsBounded
<1> QED
  BY <1>5, <1>6, HeightsKeep, Zenon DEF CatchUp

LEMMA ProposeKeeps ==
  ASSUME DetectorAssumption, DetectorInv, Propose
  PROVE  DetectorInv'
<1> DEFINE top == Max({height[v] : v \in Validators})
<1>1. PICK reached \in SUBSET {v \in running : height[v] = top} :
        height' = [v \in Validators |-> IF v \in reached THEN top + 1 ELSE height[v]]
  BY Zenon DEF Propose
<1>2. height \in [Validators -> Nat] /\ running \subseteq Validators
  BY DEF DetectorInv, Types
<1> HIDE DEF top
<1>3. height' \in [Validators -> Nat] /\ \A v \in Validators : height'[v] >= height[v]
  BY <1>1, <1>2
<1>4. HeightsBounded'
  <2>1. PICK b \in Nat : \A v \in Validators : height[v] <= b
    BY DEF DetectorInv, HeightsBounded
  <2>2. \A v \in Validators : height'[v] <= b + 1
    BY <1>1, <1>2, <2>1
  <2> QED
    BY <2>2 DEF HeightsBounded
<1> QED
  BY <1>3, <1>4, HeightsKeep, Zenon DEF Propose

LEMMA LateCommitKeeps ==
  ASSUME DetectorAssumption, DetectorInv, NEW v \in Validators, LateCommit(v)
  PROVE  DetectorInv'
<1>1. /\ height' = [height EXCEPT ![v] = height[v] + 1]
      /\ \E w \in Validators : height[w] > height[v]
  BY DEF LateCommit
<1>2. height \in [Validators -> Nat]
  BY DEF DetectorInv, Types
<1>3. height' \in [Validators -> Nat] /\ \A u \in Validators : height'[u] >= height[u]
  BY <1>1, <1>2
<1>4. HeightsBounded'
  <2>1. PICK b \in Nat : \A u \in Validators : height[u] <= b
    BY DEF DetectorInv, HeightsBounded
  <2>2. \A u \in Validators : height'[u] <= b
    BY <1>1, <1>2, <2>1, SMTT(40)
  <2> QED
    BY <2>2 DEF HeightsBounded
<1> QED
  BY <1>3, <1>4, HeightsKeep, Zenon DEF LateCommit

--------------------------------------------------------------------------------
(* The detector: Observe, Evaluate and the marks.                           *)

LEMMA ObservedTruthful ==
  ASSUME DetectorAssumption, DetectorInv, NEW v \in Validators
  PROVE  /\ observedStatus(v) = "failed" => forked # {}
         /\ observedStatus(v) = "healthy" =>
              height[v] + LagHeightThreshold >= reference.height
<1>1. /\ height[v] \in Nat /\ reference.height \in Nat /\ LagHeightThreshold \in Nat
      /\ reference.forked \in BOOLEAN /\ (reference.forked => forked # {})
  BY DEF DetectorInv, Types, HeardInv, DetectorAssumption
<1>2. heartbeat(v).height = height[v] /\ heartbeat(v).forked = (v \in forked)
  BY DEF heartbeat
<1>3. observedStatus(v) = "failed" => heartbeat(v).forked # reference.forked
  BY DEF observedStatus
<1>4. observedStatus(v) = "healthy" => ~(reference.height > heartbeat(v).height + LagHeightThreshold)
  BY DEF observedStatus
<1>5. observedStatus(v) = "healthy" => height[v] + LagHeightThreshold >= reference.height
  BY <1>1, <1>2, <1>4, SMTT(40)
<1>6. ASSUME forked = {}
      PROVE  heartbeat(v).forked = reference.forked
  BY <1>1, <1>2, <1>6
<1> QED
  BY <1>3, <1>5, <1>6, SMTT(40)

LEMMA ObserveKeeps ==
  ASSUME DetectorAssumption, DetectorInv, NEW v \in Validators, Observe(v)
  PROVE  DetectorInv'
<1> DEFINE st == observedStatus(v)
           entry == [status |-> st, lastHeartbeat |-> tick, changed |-> TRUE]
<1>1. /\ observing /\ v \in unobserved
      /\ state' = [state EXCEPT ![v] = entry]
      /\ statusEvidence' = IF previous(v) = st /\ state[v].changed
                     THEN statusEvidence ELSE [statusEvidence EXCEPT ![v] = st]
      /\ unobserved' = unobserved \ {v}
      /\ UNCHANGED << tick, height, forked, running, reference, evaluated, stoppedAt >>
  BY Zenon DEF Observe, setStatus
<1>2. entry.status = st /\ entry.lastHeartbeat = tick /\ entry.changed = TRUE
  OBVIOUS
<1>3. /\ st = "failed" => forked # {}
      /\ st = "healthy" => height[v] + LagHeightThreshold >= reference.height
  BY ObservedTruthful, Zenon
<1> HIDE DEF entry
<1>4. /\ state'[v] = entry
      /\ \A u \in Validators : u # v => state'[u] = state[u]
  BY <1>1, Zenon DEF DetectorInv, Types
<1>5. Types'
  <2>1. st \in Statuses
    BY Zenon DEF observedStatus, Statuses
  <2>2. tick \in Nat
    BY DEF DetectorInv, Types
  <2> HIDE DEF st
  <2>3. entry \in Entry
    BY <2>1, <2>2 DEF entry, Entry
  <2>4. state' \in [Validators -> Entry] /\ statusEvidence' \in [Validators -> Statuses]
    BY <1>1, <2>1, <2>3, Zenon DEF DetectorInv, Types
  <2> QED
    BY <1>1, <2>4, Zenon DEF DetectorInv, Types
<1>6. HeightsBounded'
  BY <1>1, Zenon DEF DetectorInv, HeightsBounded
<1>7. HeardInv'
  <2>1. observing' = observing
    BY <1>1 DEF observing
  <2>2. tick > 0 /\ tick <= tick
    BY DEF DetectorInv, Types
  <2>3. (reference.forked => forked # {}) /\ unobserved \subseteq running
    BY DEF DetectorInv, HeardInv
  <2>4. unobserved' \subseteq running /\ v \in running
    BY <1>1, <2>3
  <2> SUFFICES ASSUME NEW u \in Validators
               PROVE  /\ state'[u].lastHeartbeat <= tick
                      /\ u \notin unobserved' => state'[u].lastHeartbeat > 0
                      /\ u \notin running => /\ state'[u].lastHeartbeat > 0
                                             /\ state'[u].lastHeartbeat <= stoppedAt[u]
                                             /\ stoppedAt[u] <= tick
    BY <1>1, <2>1, <2>3, <2>4, Zenon DEF HeardInv
  <2>5. CASE u = v
    BY <1>2, <1>4, <2>2, <2>4, <2>5, Zenon
  <2>6. CASE u # v
    <3>1. /\ state[u].lastHeartbeat <= tick
          /\ u \notin unobserved => state[u].lastHeartbeat > 0
          /\ u \notin running => /\ state[u].lastHeartbeat > 0
                                 /\ state[u].lastHeartbeat <= stoppedAt[u]
                                 /\ stoppedAt[u] <= tick
      BY <1>1, Zenon DEF DetectorInv, HeardInv
    <3> QED
      BY <1>1, <1>4, <2>6, <3>1, Zenon
  <2> QED
    BY <2>5, <2>6
<1>8. StatusTruthful'
  <2>1. observing' = observing /\ v \in running
    BY <1>1 DEF observing, DetectorInv, HeardInv
  <2> SUFFICES ASSUME NEW u \in Validators
               PROVE  /\ evaluated /\ u \notin running /\ tick - stoppedAt[u] >= FailAfterTicks
                           => state'[u].status = "failed"
                      /\ observing /\ state'[u].lastHeartbeat = tick /\ state'[u].status = "failed"
                           => forked # {}
                      /\ observing /\ state'[u].lastHeartbeat = tick /\ state'[u].status = "healthy"
                           => height[u] + LagHeightThreshold >= reference.height
    BY <1>1, <2>1, Zenon DEF StatusTruthful
  <2>2. CASE u = v
    BY <1>2, <1>3, <1>4, <2>1, <2>2, Zenon
  <2>3. CASE u # v
    BY <1>4, <2>3, Zenon DEF DetectorInv, StatusTruthful
  <2> QED
    BY <2>2, <2>3, SMTT(40)
<1>9. RecordsInv'
  <2>1. st # ""
    BY Zenon DEF observedStatus
  <2>2. statusEvidence'[v] = st
    <3>1. CASE previous(v) = st /\ state[v].changed
      <4>1. state[v].status # "" /\ statusEvidence[v] = state[v].status
        BY <3>1, Zenon DEF DetectorInv, RecordsInv
      <4>2. previous(v) = state[v].status
        BY <4>1, Zenon DEF previous
      <4> QED
        BY <1>1, <3>1, <4>1, <4>2, Zenon
    <3>2. CASE ~(previous(v) = st /\ state[v].changed)
      <4>1. statusEvidence' = [statusEvidence EXCEPT ![v] = st]
        BY <1>1, <3>2, Zenon
      <4> QED
        BY <4>1, Zenon DEF DetectorInv, Types
    <3> QED
      BY <3>1, <3>2
  <2>3. \A u \in Validators : u # v => statusEvidence'[u] = statusEvidence[u]
    BY <1>1, Zenon DEF DetectorInv, Types
  <2> HIDE DEF st
  <2> QED
    BY <1>2, <1>4, <2>1, <2>2, <2>3, Zenon DEF DetectorInv, RecordsInv
<1> QED
  BY <1>5, <1>6, <1>7, <1>8, <1>9 DEF DetectorInv

\* Evaluate: a validator that is not running was heard before it stopped, so that it
\* is failed once FailAfterTicks have passed; one heard at this tick is left alone.
LEMMA SilentTruthful ==
  ASSUME DetectorAssumption, DetectorInv, NEW v \in Validators
  PROVE  /\ v \notin running /\ tick - stoppedAt[v] >= FailAfterTicks =>
              silentStatus(v) = "failed"
         /\ state[v].lastHeartbeat = tick => silentStatus(v) = state[v].status
<1>1. /\ tick \in Nat /\ state[v].lastHeartbeat \in Nat /\ stoppedAt[v] \in Nat
      /\ FailAfterTicks \in Nat \ {0}
  BY HeardType, SMTT(40) DEF DetectorInv, Types, DetectorAssumption
<1>2. v \notin running => /\ state[v].lastHeartbeat > 0
                          /\ state[v].lastHeartbeat <= stoppedAt[v]
  BY DEF DetectorInv, HeardInv
<1>3. ASSUME v \notin running, tick - stoppedAt[v] >= FailAfterTicks
      PROVE  silentStatus(v) = "failed"
  <2>1. /\ state[v].lastHeartbeat # 0
        /\ tick - state[v].lastHeartbeat >= FailAfterTicks
        /\ ~(tick - state[v].lastHeartbeat <= 0)
    BY <1>1, <1>2, <1>3
  <2> QED
    BY <2>1, Zenon DEF silentStatus
<1>4. ASSUME state[v].lastHeartbeat = tick
      PROVE  silentStatus(v) = state[v].status
  <2>1. tick - state[v].lastHeartbeat <= 0
    BY <1>1, <1>4
  <2> QED
    BY <2>1, Zenon DEF silentStatus
<1> QED
  BY <1>3, <1>4

\* What an assignment to the fields of an entry makes of it.
LEMMA EntryFields ==
  ASSUME NEW s \in Entry, NEW st \in Statuses
  PROVE  /\ [s EXCEPT !.status = st] \in Entry
         /\ [s EXCEPT !.status = st].status = st
         /\ [s EXCEPT !.status = st].lastHeartbeat = s.lastHeartbeat
         /\ [s EXCEPT !.status = st].changed = s.changed
  BY DEF Entry

LEMMA EvaluateKeeps ==
  ASSUME DetectorAssumption, DetectorInv, Evaluate
  PROVE  DetectorInv'
<1>1. /\ state' = [v \in Validators |-> [state[v] EXCEPT !.status = silentStatus(v)]]
      /\ statusEvidence' = [v \in Validators |->
           IF silentStatus(v) # state[v].status THEN silentStatus(v) ELSE statusEvidence[v]]
      /\ UNCHANGED << tick, height, forked, running, reference, unobserved, stoppedAt >>
  BY Zenon DEF Evaluate
<1>2. \A v \in Validators : silentStatus(v) \in Statuses
  <2>1. \A v \in Validators : state[v].status \in Statuses
    BY DEF DetectorInv, Types, Entry
  <2> QED
    BY <2>1, Zenon DEF silentStatus, Statuses
<1>3. \A v \in Validators :
        /\ state'[v] \in Entry
        /\ state'[v].status = silentStatus(v)
        /\ state'[v].lastHeartbeat = state[v].lastHeartbeat
        /\ state'[v].changed = state[v].changed
  <2> SUFFICES ASSUME NEW v \in Validators
               PROVE  /\ state'[v] \in Entry
                      /\ state'[v].status = silentStatus(v)
                      /\ state'[v].lastHeartbeat = state[v].lastHeartbeat
                      /\ state'[v].changed = state[v].changed
    BY Zenon
  <2>1. state'[v] = [state[v] EXCEPT !.status = silentStatus(v)]
    BY <1>1, Zenon
  <2>2. state[v] \in Entry /\ silentStatus(v) \in Statuses
    BY <1>2, Zenon DEF DetectorInv, Types
  <2> QED
    BY <2>1, <2>2, EntryFields
<1>4. Types'
  <2>1. state' \in [Validators -> Entry]
    BY <1>1, <1>3, Zenon
  <2>2. statusEvidence' \in [Validators -> Statuses]
    BY <1>1, <1>2, Zenon DEF DetectorInv, Types
  <2> QED
    BY <1>1, <2>1, <2>2, Zenon DEF DetectorInv, Types
<1>5. HeightsBounded'
  BY <1>1, Zenon DEF DetectorInv, HeightsBounded
<1>6. HeardInv'
  BY <1>1, <1>3, Zenon DEF DetectorInv, HeardInv, observing
<1>7. StatusTruthful'
  <2> SUFFICES ASSUME NEW v \in Validators
               PROVE  /\ v \notin running /\ tick - stoppedAt[v] >= FailAfterTicks
                           => state'[v].status = "failed"
                      /\ observing /\ state'[v].lastHeartbeat = tick /\ state'[v].status = "failed"
                           => forked # {}
                      /\ observing /\ state'[v].lastHeartbeat = tick /\ state'[v].status = "healthy"
                           => height[v] + LagHeightThreshold >= reference.height
    BY <1>1, Zenon DEF StatusTruthful, observing
  <2> QED
    BY <1>3, SilentTruthful, Zenon DEF DetectorInv, StatusTruthful
<1>8. RecordsInv'
  <2> SUFFICES ASSUME NEW v \in Validators
               PROVE  /\ statusEvidence'[v] = state'[v].status
                      /\ state'[v].changed => state'[v].status # ""
    BY Zenon DEF RecordsInv
  <2>1. statusEvidence[v] = state[v].status /\ (state[v].changed => state[v].status # "")
    BY Zenon DEF DetectorInv, RecordsInv
  <2>2. statusEvidence'[v] = IF silentStatus(v) # state[v].status THEN silentStatus(v) ELSE statusEvidence[v]
    BY <1>1, Zenon
  <2>3. silentStatus(v) \in {state[v].status, "failed", "suspected_failed"}
    BY Zenon DEF silentStatus
  <2> QED
    BY <1>3, <2>1, <2>2, <2>3, Zenon
<1> QED
  BY <1>4, <1>5, <1>6, <1>7, <1>8, SMTT(40) DEF DetectorInv

\* What mark writes, and what it leaves alone.
LEMMA MarkSets ==
  ASSUME Types, NEW v \in Validators, NEW status \in Statuses, mark(v, status)
  PROVE  /\ state' \in [Validators -> Entry]
         /\ state'[v].status = status /\ state'[v].changed
         /\ state'[v].lastHeartbeat = state[v].lastHeartbeat
         /\ \A u \in Validators : u # v => state'[u] = state[u]
<1>1. PICK s \in Entry : s = state[v]
  BY Zenon DEF Types
<1>2. PICK t : t = [[s EXCEPT !.status = status] EXCEPT !.changed = TRUE]
  BY Zenon
<1>3. t \in Entry /\ t.status = status /\ t.lastHeartbeat = s.lastHeartbeat /\ t.changed
  BY <1>2, Zenon DEF Entry
<1>4. state' = [state EXCEPT ![v] = t] /\ state \in [Validators -> Entry]
  BY <1>1, <1>2, Zenon DEF mark, Types
<1> QED
  BY <1>1, <1>3, <1>4, Zenon

\* A mark other than failed and healthy says nothing that could be wrong.
LEMMA MarkKeeps ==
  ASSUME DetectorInv, NEW v \in Validators, NEW status \in Statuses, mark(v, status),
         status # "", status # "failed", status # "healthy",
         running' = running \/ running' = running \cup {v}, v \in running',
         UNCHANGED << tick, height, forked, reference, unobserved, evaluated, stoppedAt >>
  PROVE  DetectorInv'
<1>1. state' \in [Validators -> Entry] /\ statusEvidence' = [statusEvidence EXCEPT ![v] = status]
  BY MarkSets, Zenon DEF mark, DetectorInv
<1>3. /\ state'[v].status = status /\ state'[v].changed
      /\ state'[v].lastHeartbeat = state[v].lastHeartbeat
  BY MarkSets, Zenon DEF DetectorInv
<1>4. /\ \A u \in Validators : u # v => state'[u] = state[u]
      /\ statusEvidence'[v] = status
      /\ \A u \in Validators : u # v => statusEvidence'[u] = statusEvidence[u]
  BY <1>1, MarkSets, Zenon DEF DetectorInv, Types
<1>5. \A u \in Validators : state'[u].lastHeartbeat = state[u].lastHeartbeat
  BY <1>3, <1>4, Zenon
<1>6. running \subseteq running' /\ running' \subseteq Validators
  BY Zenon DEF DetectorInv, Types
<1>7. Types'
  <2>1. state' \in [Validators -> Entry] /\ statusEvidence' \in [Validators -> Statuses]
    BY <1>1, <1>3, Zenon DEF DetectorInv, Types
  <2> QED
    BY <1>6, <2>1, Zenon DEF DetectorInv, Types
<1>8. HeightsBounded'
  BY Zenon DEF DetectorInv, HeightsBounded
<1>9. HeardInv'
  BY <1>5, <1>6, Zenon DEF DetectorInv, HeardInv, observing
<1>10. StatusTruthful'
  <2> SUFFICES ASSUME NEW u \in Validators
               PROVE  /\ evaluated /\ u \notin running' /\ tick - stoppedAt[u] >= FailAfterTicks
                           => state'[u].status = "failed"
                      /\ observing /\ state'[u].lastHeartbeat = tick /\ state'[u].status = "failed"
                           => forked # {}
                      /\ observing /\ state'[u].lastHeartbeat = tick /\ state'[u].status = "healthy"
                           => height[u] + LagHeightThreshold >= reference.height
    BY Zenon DEF StatusTruthful, observing
  <2>1. CASE u = v
    BY <1>3, <1>4, <2>1, Zenon
  <2>2. CASE u # v
    BY <1>4, <1>6, <2>2, Zenon DEF DetectorInv, StatusTruthful
  <2> QED
    BY <2>1, <2>2, Zenon
<1>11. RecordsInv'
  BY <1>3, <1>4, Zenon DEF DetectorInv, RecordsInv
<1> QED
  BY <1>7, <1>8, <1>9, <1>10, <1>11, Zenon DEF DetectorInv

LEMMA RemediateKeeps ==
  ASSUME DetectorInv, NEW v \in Validators, Remediate(v)
  PROVE  DetectorInv'
<1>1. "recovering" \in Statuses
  BY Zenon DEF Statuses
<1>2. /\ mark(v, "recovering") /\ running' = running \cup {v}
      /\ UNCHANGED << tick, height, forked, reference, unobserved, evaluated, stoppedAt >>
  BY Zenon DEF Remediate
<1> QED
  BY <1>1, <1>2, MarkKeeps, Zenon

LEMMA CompleteKeeps ==
  ASSUME DetectorInv, NEW v \in Validators, Complete(v)
  PROVE  DetectorInv'
<1>1. "recovered" \in Statuses
  BY Zenon DEF Statuses
<1>2. /\ mark(v, "recovered") /\ running' = running /\ v \in running
      /\ UNCHANGED << tick, height, forked, reference, unobserved, evaluated, stoppedAt >>
  BY Zenon DEF Complete
<1> QED
  BY <1>1, <1>2, MarkKeeps, Zenon

--------------------------------------------------------------------------------
(* Stops, forks and ticks.                                                  *)

\* Stop: every running validator has been heard by then, and FailAfterTicks start anew.
LEMMA StopKeeps ==
  ASSUME DetectorAssumption, DetectorInv, NEW v \in Validators, StopValidator(v)
  PROVE  DetectorInv'
<1>1. /\ observing /\ unobserved = {}
      /\ running' = running \ {v}
      /\ stoppedAt' = [stoppedAt EXCEPT ![v] = tick]
      /\ UNCHANGED << tick, height, forked, state, statusEvidence, reference, unobserved, evaluated >>
  BY Zenon DEF StopValidator, observedAll
<1>2. /\ stoppedAt'[v] = tick
      /\ \A u \in Validators : u # v => stoppedAt'[u] = stoppedAt[u]
  BY <1>1, Zenon DEF DetectorInv, Types
<1>3. tick \in Nat /\ tick <= tick /\ ~(tick - tick >= FailAfterTicks)
  BY DEF DetectorInv, Types, DetectorAssumption
<1>4. Types'
  <2>1. stoppedAt' \in [Validators -> Nat]
    BY <1>1, <1>3, Zenon DEF DetectorInv, Types
  <2>2. running' \subseteq Validators
    BY <1>1, Zenon DEF DetectorInv, Types
  <2> QED
    BY <1>1, <2>1, <2>2, Zenon DEF DetectorInv, Types
<1>5. HeightsBounded' /\ RecordsInv'
  BY <1>1, SameRecords, Zenon DEF DetectorInv, HeightsBounded
<1>6. HeardInv'
  <2>1. \A u \in Validators : state[u].lastHeartbeat <= tick /\ state[u].lastHeartbeat > 0
    BY <1>1, Zenon DEF DetectorInv, HeardInv
  <2>2. (reference.forked => forked # {})
    BY Zenon DEF DetectorInv, HeardInv
  <2>3. \A u \in Validators : u \notin running =>
          state[u].lastHeartbeat <= stoppedAt[u] /\ stoppedAt[u] <= tick
    BY Zenon DEF DetectorInv, HeardInv
  <2>4. \A u \in Validators : u \notin running' =>
          state[u].lastHeartbeat <= stoppedAt'[u] /\ stoppedAt'[u] <= tick
    BY <1>1, <1>2, <1>3, <2>1, <2>3, ZenonT(40)
  <2> QED
    BY <1>1, <2>1, <2>2, <2>4, Zenon DEF HeardInv, observing
<1>7. StatusTruthful'
  <2> SUFFICES ASSUME NEW u \in Validators
               PROVE  /\ evaluated /\ u \notin running' /\ tick - stoppedAt'[u] >= FailAfterTicks
                           => state[u].status = "failed"
                      /\ observing /\ state[u].lastHeartbeat = tick /\ state[u].status = "failed"
                           => forked # {}
                      /\ observing /\ state[u].lastHeartbeat = tick /\ state[u].status = "healthy"
                           => height[u] + LagHeightThreshold >= reference.height
    BY <1>1, Zenon DEF StatusTruthful, observing
  <2>1. /\ evaluated /\ u \notin running /\ tick - stoppedAt[u] >= FailAfterTicks
             => state[u].status = "failed"
        /\ observing /\ state[u].lastHeartbeat = tick /\ state[u].status = "failed"
             => forked # {}
        /\ observing /\ state[u].lastHeartbeat = tick /\ state[u].status = "healthy"
             => height[u] + LagHeightThreshold >= reference.height
    BY Zenon DEF DetectorInv, StatusTruthful
  <2>2. CASE u = v
    BY <1>2, <1>3, <2>1, <2>2, Zenon
  <2>3. CASE u # v
    BY <1>1, <1>2, <2>1, <2>3, Zenon
  <2> QED
    BY <2>2, <2>3
<1> QED
  BY <1>4, <1>5, <1>6, <1>7 DEF DetectorInv

LEMMA DivergeKeeps ==
  ASSUME DetectorInv, NEW v \in Validators, Diverge(v)
  PROVE  DetectorInv'
<1>1. /\ forked' # {}
      /\ UNCHANGED << tick, height, running, state, statusEvidence, reference, unobserved,
                      evaluated, stoppedAt >>
  BY Zenon DEF Diverge
<1>2. Types'
  BY <1>1, Zenon DEF DetectorInv, Types
<1>3. HeightsBounded' /\ RecordsInv'
  BY <1>1, SameRecords, Zenon DEF DetectorInv, HeightsBounded
<1>4. HeardInv'
  BY <1>1, Zenon DEF DetectorInv, HeardInv, observing
<1>5. StatusTruthful'
  BY <1>1, Zenon DEF DetectorInv, StatusTruthful, observing
<1> QED
  BY <1>2, <1>3, <1>4, <1>5 DEF DetectorInv

\* Tick: nothing has been heard at the new tick, and it has not been evaluated.
LEMMA TickKeeps ==
  ASSUME DetectorInv, Tick
  PROVE  DetectorInv'
<1>1. /\ observing /\ unobserved = {}
      /\ tick' = tick + 1 /\ reference' = NoReference /\ ~evaluated'
      /\ UNCHANGED << height, forked, running, state, statusEvidence, unobserved, stoppedAt >>
  BY Zenon DEF Tick, observedAll
<1>2. tick \in Nat \ {0} /\ tick + 1 \in Nat \ {0}
  BY DEF DetectorInv, Types
<1>3. reference'.height \in Nat /\ reference'.forked = FALSE
  BY <1>1 DEF NoReference
<1>4. Types'
  BY <1>1, <1>2, <1>3, Zenon DEF DetectorInv, Types
<1>5. HeightsBounded' /\ RecordsInv'
  BY <1>1, SameRecords, Zenon DEF DetectorInv, HeightsBounded
<1>6. ~observing'
  BY <1>1, Zenon DEF observing, NoReference
<1>7. HeardInv'
  <2>1. \A v \in Validators : state[v].lastHeartbeat \in Nat /\ stoppedAt[v] \in Nat
    BY HeardType, Zenon DEF DetectorInv, Types
  <2>2. \A v \in Validators : state[v].lastHeartbeat <= tick
    BY Zenon DEF DetectorInv, HeardInv
  <2>3. \A v \in Validators : v \notin running =>
          /\ state[v].lastHeartbeat > 0
          /\ state[v].lastHeartbeat <= stoppedAt[v] /\ stoppedAt[v] <= tick
    BY Zenon DEF DetectorInv, HeardInv
  <2>4. \A n \in Nat : n <= tick => n <= tick + 1 /\ n < tick + 1
    BY <1>2
  <2>5. unobserved' \subseteq running'
    BY <1>1, Zenon
  <2> QED
    BY <1>1, <1>3, <1>6, <2>1, <2>2, <2>3, <2>4, <2>5, Zenon DEF HeardInv
<1>8. StatusTruthful'
  BY <1>1, <1>6, Zenon DEF StatusTruthful
<1> QED
  BY <1>4, <1>5, <1>7, <1>8 DEF DetectorInv

LEMMA InitDetector ==
  ASSUME FaultInit
  PROVE  DetectorInv
<1>1. Types
  <2>1. "" \in Statuses
    BY Zenon DEF Statuses
  <2>2. \A s \in Statuses : [status |-> s, lastHeartbeat |-> 0, changed |-> FALSE] \in Entry
    BY DEF Entry
  <2>3. NoReference.height \in Nat /\ NoReference.forked \in BOOLEAN
    BY DEF NoReference
  <2>4. 1 \in Nat \ {0} /\ 0 \in Nat
    OBVIOUS
  <2> QED
    BY <2>1, <2>2, <2>3, <2>4, Zenon DEF FaultInit, Types
<1>2. HeightsBounded
  <2>1. 1 \in Nat /\ 1 <= 1
    OBVIOUS
  <2>2. \A v \in Validators : height[v] = 1
    BY Zenon DEF FaultInit
  <2> QED
    BY <2>1, <2>2, Zenon DEF HeightsBounded
<1>3. ~observing
  BY Zenon DEF FaultInit, observing
<1>4. HeardInv
  <2>1. NoReference.forked = FALSE
    BY DEF NoReference
  <2>2. \A s : [status |-> s, lastHeartbeat |-> 0, changed |-> FALSE].lastHeartbeat = 0
    OBVIOUS
  <2>3. \A v \in Validators : state[v].lastHeartbeat = 0
    BY <2>2, Zenon DEF FaultInit
  <2>4. 0 <= 1 /\ 0 < 1
    OBVIOUS
  <2> QED
    BY <1>3, <2>1, <2>3, <2>4, Zenon DEF FaultInit, HeardInv
<1>5. StatusTruthful
  BY <1>3, Zenon DEF FaultInit, StatusTruthful
<1>6. RecordsInv
  <2>1. \A s : /\ [status |-> s, lastHeartbeat |-> 0, changed |-> FALSE].status = s
               /\ [status |-> s, lastHeartbeat |-> 0, changed |-> FALSE].changed = FALSE
    OBVIOUS
  <2> QED
    BY <2>1, Zenon DEF FaultInit, RecordsInv
<1> QED
  BY <1>1, <1>2, <1>4, <1>5, <1>6, SMTT(40) DEF DetectorInv

\* Observe, Evaluate and the marks of the detector give a validator a status that is
\* true of it, whatever commits, stops and ticks come in between, and the last evidence
\* record of the validator carries that status.
THEOREM DetectorIsTruthful ==
  ASSUME DetectorAssumption PROVE FaultSpec => []DetectorTruthful
<1>1. FaultInit => DetectorInv
  BY InitDetector
<1>2. DetectorInv /\ [FaultNext]_faultVars => DetectorInv'
  <2> SUFFICES ASSUME DetectorInv, [FaultNext]_faultVars
               PROVE  DetectorInv'
    OBVIOUS
  <2>1. CASE UNCHANGED faultVars
    <3>1. UNCHANGED << tick, height, forked, running, state, statusEvidence, reference,
                       unobserved, evaluated, stoppedAt >>
      BY <2>1, Zenon DEF faultVars
    <3> QED
      BY <3>1, Zenon DEF DetectorInv, Types, HeightsBounded, HeardInv, StatusTruthful,
         RecordsInv, observing
  <2>2. CASE FaultNext
    BY <2>2, ReferenceKeeps, EvaluateKeeps, ProposeKeeps, TickKeeps, ObserveKeeps,
       RemediateKeeps, CatchUpKeeps, CompleteKeeps, LateCommitKeeps, StopKeeps,
       DivergeKeeps, ZenonT(40) DEF FaultNext
  <2> QED
    BY <2>1, <2>2
<1>3. DetectorInv => DetectorTruthful
  BY Zenon DEF DetectorInv, DetectorTruthful, RecordsInv, EvidenceIsCurrent
<1> QED
  BY <1>1, <1>2, <1>3, PTL DEF FaultSpec

================================================================================
