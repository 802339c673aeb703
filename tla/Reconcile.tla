-------------------------------- MODULE Reconcile --------------------------------
(* Repair of bundle state after an interruption, bundle/reconcile: a node reads  *)
(* the state of a peer, compares it with its own and copies the bundles it       *)
(* misses.  The peer moves on meanwhile, and nodes fall back to their snapshots. *)
EXTENDS Integers, FiniteSetsExt

CONSTANTS
  Nodes,
  Records,     \* BundleRecords; IDs are numbers, for their sorted order
  MaxRestarts  \* bound on the restarts

Record == [BundleID : Nat, Digest : STRING, TransactionID : STRING,
           ChannelID : STRING, Sequence : Nat \ {0}]

ASSUME RecordsAssumption == Records \subseteq Record /\ MaxRestarts \in Nat

IDs == {r.BundleID : r \in Records}
Transactions == {r.TransactionID : r \in Records}
ChannelIDs == {r.ChannelID : r \in Records}
NoDigest == "none"

\* BundleState without ContextStateDigest, a digest of the rest that nothing reads.
BundleState ==
  [ Bundles : SUBSET Records,
    LatestSequenceByChannel : [ChannelIDs -> {0} \cup {r.Sequence : r \in Records}],
    CommittedTransactionIDs : [Transactions -> {r.Digest : r \in Records} \cup {NoDigest}],
    CustodyStatusByBundle : SUBSET IDs,     \* the bundles with status "confirmed"
    PendingBundleIDs : SUBSET IDs ]

VARIABLES
  state,     \* the BundleState of each node
  remote,    \* the state of a peer as the node read it
  snapshot,  \* the state its latest SaveSnapshot saved
  restarts

vars == << state, remote, snapshot, restarts >>

NewBundleState ==
  [ Bundles |-> {},
    LatestSequenceByChannel |-> [c \in ChannelIDs |-> 0],
    CommittedTransactionIDs |-> [t \in Transactions |-> NoDigest],
    CustodyStatusByBundle |-> {},
    PendingBundleIDs |-> {} ]

--------------------------------------------------------------------------------
Has(s, id) == \E r \in s.Bundles : r.BundleID = id
Holders(s) == {r.BundleID : r \in s.Bundles}

\* The plan of a repair: the remote records to copy, and those in conflict.
Compare_ByDigest(local, other) ==
  [missing |-> other.Bundles \ local.Bundles, conflicting |-> {}]

Compare_ByLatest(local, other) ==
  [ missing |-> {r \in other.Bundles :
                   r.Sequence > local.LatestSequenceByChannel[r.ChannelID]},
    conflicting |-> {} ]

Compare(local, other) ==
  [ missing |-> {r \in other.Bundles : ~ Has(local, r.BundleID)},
    conflicting |-> {r \in other.Bundles : \E l \in local.Bundles :
                       l.BundleID = r.BundleID /\ l.Digest # r.Digest} ]

Noop(plan) == plan.missing = {} /\ plan.conflicting = {}

\* The latest number of channel c once the records of new are copied.
Latest_LastCopied(local, new, c) ==
  LET ofC == {q \in new : q.ChannelID = c} IN
  IF ofC = {} THEN local.LatestSequenceByChannel[c]
  ELSE (CHOOSE r \in ofC : \A q \in ofC : q.BundleID <= r.BundleID).Sequence

Latest(local, new, c) ==
  Max({local.LatestSequenceByChannel[c]}
          \cup {r.Sequence : r \in {q \in new : q.ChannelID = c}})

\* The records are copied in the order of their IDs, so that the last one decides
\* the digest of its transaction.
CommittedDigest(local, new, t) ==
  LET ofT == {r \in new : r.TransactionID = t} IN
  IF ofT = {} THEN local.CommittedTransactionIDs[t]
  ELSE (CHOOSE r \in ofT : \A q \in ofT : q.BundleID <= r.BundleID).Digest

Apply(local, other, plan) ==
  LET new == plan.missing
      newIDs == {r.BundleID : r \in new}
  IN
  [ Bundles |-> {l \in local.Bundles : l.BundleID \notin newIDs} \cup new,
    LatestSequenceByChannel |-> [c \in ChannelIDs |-> Latest(local, new, c)],
    CommittedTransactionIDs |->
      [t \in Transactions |-> CommittedDigest(local, new, t)],
    CustodyStatusByBundle |->
      local.CustodyStatusByBundle \cup (newIDs \cap other.CustodyStatusByBundle),
    PendingBundleIDs |-> local.PendingBundleIDs \ newIDs ]

--------------------------------------------------------------------------------
\* The caller's part (bundle/evidence): a bundle is entered as committed and in
\* custody, or else as pending.  It takes the bundles of a channel in their order.
Commit(n, r) ==
  LET s == state[n] IN
  /\ ~ Has(s, r.BundleID)
  /\ r.BundleID \notin s.PendingBundleIDs
  /\ r.Sequence > s.LatestSequenceByChannel[r.ChannelID]
  /\ state' = [state EXCEPT ![n] =
       [ Bundles |-> s.Bundles \cup {r},
         LatestSequenceByChannel |->
           [s.LatestSequenceByChannel EXCEPT ![r.ChannelID] = r.Sequence],
         CommittedTransactionIDs |->
           [s.CommittedTransactionIDs EXCEPT ![r.TransactionID] = r.Digest],
         CustodyStatusByBundle |-> s.CustodyStatusByBundle \cup {r.BundleID},
         PendingBundleIDs |-> s.PendingBundleIDs ]]
  /\ UNCHANGED << remote, snapshot, restarts >>

AddPending(n, id) ==
  /\ ~ Has(state[n], id)
  /\ state' = [state EXCEPT ![n].PendingBundleIDs = @ \cup {id}]
  /\ UNCHANGED << remote, snapshot, restarts >>

ReadPeer(n, m) ==
  /\ n # m
  /\ remote' = [remote EXCEPT ![n] = state[m]]
  /\ UNCHANGED << state, snapshot, restarts >>

\* Compare and Apply.  With a conflict Apply returns an error and the old state.
Reconcile(n) ==
  LET plan == Compare(state[n], remote[n]) IN
  /\ plan.conflicting = {}
  /\ state' = [state EXCEPT ![n] = Apply(state[n], remote[n], plan)]
  /\ UNCHANGED << remote, snapshot, restarts >>

\* A snapshot that no restart is left to load is not saved.
SaveSnapshot(n) ==
  /\ restarts < MaxRestarts
  /\ snapshot' = [snapshot EXCEPT ![n] = state[n]]
  /\ UNCHANGED << state, remote, restarts >>

\* LoadLatestSnapshot in a new process.
LoadLatestSnapshot(n) ==
  /\ restarts < MaxRestarts
  /\ restarts' = restarts + 1
  /\ state' = [state EXCEPT ![n] = snapshot[n]]
  /\ remote' = [remote EXCEPT ![n] = NewBundleState]
  /\ UNCHANGED snapshot

--------------------------------------------------------------------------------
Init ==
  /\ state = [n \in Nodes |-> NewBundleState]
  /\ remote = [n \in Nodes |-> NewBundleState]
  /\ snapshot = [n \in Nodes |-> NewBundleState]
  /\ restarts = 0

Next ==
  \E n \in Nodes :
    \/ \E r \in Records : Commit(n, r)
    \/ \E id \in IDs : AddPending(n, id)
    \/ \E m \in Nodes : ReadPeer(n, m)
    \/ Reconcile(n)
    \/ SaveSnapshot(n)
    \/ LoadLatestSnapshot(n)

Spec == Init /\ [][Next]_vars

\* After an interruption the nodes keep reconciling: each reads its peers again and
\* again, and time and again reconciles before what it read is out of date.
ReconcileWith(n, m) == remote[n] = state[m] /\ Reconcile(n)
FairSpec ==
  /\ Spec
  /\ \A n \in Nodes : \A m \in Nodes \ {n} :
       WF_vars(ReadPeer(n, m)) /\ SF_vars(ReconcileWith(n, m))

--------------------------------------------------------------------------------
TypeOK ==
  /\ state \in [Nodes -> BundleState]
  /\ remote \in [Nodes -> BundleState]
  /\ snapshot \in [Nodes -> BundleState]
  /\ restarts \in 0..MaxRestarts

\* A state is consistent in itself, also when repairs with stale copies, commits and
\* restarts are mixed: one record for a bundle ID, the latest number of a channel is
\* that of a held bundle and no held one is later, a transaction is committed with
\* the digest of a held bundle, a held bundle is not pending, and the held bundles are
\* those with a custody status (Apply).
Consistent ==
  \A n \in Nodes :
    LET s == state[n] IN
    /\ \A q, r \in s.Bundles : q.BundleID = r.BundleID => q = r
    /\ \A c \in ChannelIDs :
         s.LatestSequenceByChannel[c] =
           Max({0} \cup {r.Sequence : r \in {q \in s.Bundles : q.ChannelID = c}})
    /\ \A t \in Transactions :
         {r \in s.Bundles : r.TransactionID = t} # {} =>
           \E r \in s.Bundles : r.TransactionID = t
                                /\ s.CommittedTransactionIDs[t] = r.Digest
    /\ s.PendingBundleIDs \cap Holders(s) = {}
    /\ s.CustodyStatusByBundle = Holders(s)

\* A conflict is never settled by overwriting: no step but a restart changes or drops
\* a record that a node holds (Apply returns the conflict as an error).
NeverOverwrites ==
  [][restarts' = restarts => \A n \in Nodes : state[n].Bundles \subseteq state'[n].Bundles]_vars

\* When neither of two nodes has anything to do, they agree on the bundle records,
\* the latest numbers, the committed transactions and the custody status, although
\* Compare looks at the records only and Apply copies with missing bundles only.
NoopMeansSame ==
  \A m, n \in Nodes :
    Noop(Compare(state[n], state[m])) /\ Noop(Compare(state[m], state[n])) =>
      /\ state[n].Bundles = state[m].Bundles
      /\ state[n].LatestSequenceByChannel = state[m].LatestSequenceByChannel
      /\ state[n].CommittedTransactionIDs = state[m].CommittedTransactionIDs
      /\ state[n].CustodyStatusByBundle = state[m].CustodyStatusByBundle

\* If the nodes keep reconciling, a bundle that one of them holds reaches the others,
\* with its number, unless the two hold conflicting records or a node restarts.
Converges ==
  \A n \in Nodes, r \in Records : \A m \in Nodes \ {n} :
    r \in state[m].Bundles ~>
      \/ r \in state[n].Bundles
         /\ state[n].LatestSequenceByChannel[r.ChannelID] >= r.Sequence
      \/ Compare(state[n], state[m]).conflicting # {}
      \/ restarts > 0

================================================================================
