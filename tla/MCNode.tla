--------------------------------- MODULE MCNode ----------------------------------
(* For TLC, six parts of a validator that share no state: its file store, its    *)
(* SQLite store and the backup, its manifests and keys, the calls of Propose,    *)
(* starting and stopping, and its view of the peers. A behaviour is one of a     *)
(* part chosen at the start, with the other parts at rest.                       *)
EXTENDS FileStore, Membership, TLC

CONSTANTS
  m1, m2, m3, m4, blk1, blk2,   \* nodes and blocks of the manifests
  c1, h1, h2,         \* calls of Propose
  s1, s2, x1,         \* calls of Start and Stop
  p1, p2              \* peers

VARIABLES
  part,
  txs, main, node, backup, job, report, commandFaults,
  height, proposeMu, propose,
  running, server, opsServer, listening, opsListening, healthCancel, probing, start,
  stopping, cancelled,
  answering, peerHeight, peerHealth, probe, visited, call, signerOK, peerFaults

B == INSTANCE Backup WITH faults <- commandFaults, MaxHeight <- 2, MaxFaults <- 2

\* Three validators and a quorum of all of them; the second manifest replaces one
\* validator and rotates the key of another, the third has too few.
ManifestNodes == {m1, m2, m3, m4}
ManifestVersions == 1 .. 3
ManifestActive == << {m1, m2, m3}, {m1, m2, m4}, {m1, m2} >>
ManifestKeyID ==
  << [n \in ManifestNodes |-> "k1"], [n \in ManifestNodes |-> IF n = m2 THEN "k2" ELSE "k1"],
     [n \in ManifestNodes |-> IF n = m2 THEN "k2" ELSE "k1"] >>
ManifestBlocks == {blk1, blk2}

ASSUME ConstantsAssumption == MembershipAssumption

ProposerOrder == << "a", "b" >>
ProposeClients == {c1}
ProposeHandlers == {h1, h2}

P == INSTANCE ProposeRpc WITH
  Nodes <- ProposerOrder, Clients <- ProposeClients, Handlers <- ProposeHandlers,
  MaxRounds <- 2, MaxHeight <- 2

StartCalls == {s1, s2}
StopCalls == {x1}

L == INSTANCE Lifecycle WITH Starts <- StartCalls, Stops <- StopCalls, stop <- stopping

OtherPeers == {p1, p2}

H == INSTANCE PeerHealth WITH
  up <- answering, faults <- peerFaults, Peers <- OtherPeers, Threshold <- 3,
  MaxHeight <- 1, MaxFaults <- 2

fileVars == << log, disk, stateFile, stateDisk, known, applied, acked, pc, status, faults >>
backupVars == << txs, main, node, backup, job, report, commandFaults >>
rpcVars == << height, proposeMu, propose >>
lifecycleVars == << running, server, opsServer, listening, opsListening, healthCancel,
                    probing, start, stopping, cancelled >>
peerVars == << answering, peerHeight, peerHealth, probe, visited, call, signerOK,
               peerFaults >>
nodeVars == << part, fileVars, backupVars, membershipVars, rpcVars, lifecycleVars, peerVars >>

\* A part that is at rest is in one state, although calls of Propose may find the
\* nodes at different heights.
InitNode ==
  /\ part \in {"files", "backup", "manifests", "rpc", "lifecycle", "peers"}
  /\ Init /\ B!Init /\ MembershipInit /\ P!Init /\ L!Init /\ H!Init
  /\ part # "rpc" => height = [n \in {"a", "b"} |-> 0]

Others(moving) ==
  /\ part = moving
  /\ part' = part
  /\ moving # "files" => UNCHANGED fileVars
  /\ moving # "backup" => UNCHANGED backupVars
  /\ moving # "manifests" => UNCHANGED membershipVars
  /\ moving # "rpc" => UNCHANGED rpcVars
  /\ moving # "lifecycle" => UNCHANGED lifecycleVars
  /\ moving # "peers" => UNCHANGED peerVars

NextNode ==
  \/ Others("files") /\ Next
  \/ Others("backup") /\ B!Next
  \/ Others("manifests") /\ MembershipNext
  \/ Others("rpc") /\ P!Next
  \/ Others("lifecycle") /\ L!Next
  \/ Others("peers") /\ H!Next

\* The fairness of the parts, as in their own modules.
Fairness ==
  /\ \A k \in ProposeClients \cup ProposeHandlers :
       SF_rpcVars(part = "rpc" /\ P!Lock(k)) /\ WF_rpcVars(part = "rpc" /\ P!Run(k))
  /\ WF_lifecycleVars(part = "lifecycle" /\ L!Work)
  /\ WF_peerVars(part = "peers" /\ H!HealthLoop)
  /\ WF_peerVars(part = "peers" /\ H!CallResult)

FairSpecNode == InitNode /\ [][NextNode]_nodeVars /\ Fairness

--------------------------------------------------------------------------------
\* BackupSQLite: a backup that passes is a database that a validator loads.
PassRestores == part = "backup" => B!PassRestores
\* Propose: every call returns, also when two nodes forward to each other.
ProposeReturns == part = "rpc" => P!ProposeReturns
\* Start, Stop: a node whose contexts are all done gives up both addresses.
StopsServing == part = "lifecycle" => L!StopsServing
\* ReadinessReport: readiness follows the peers that stay up.
ReadinessFollows == part = "peers" => H!ReadinessFollows
================================================================================
