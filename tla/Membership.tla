------------------------------- MODULE Membership --------------------------------
(* Rolling from one consortium manifest to the next: nodes are stopped and      *)
(* started again one by one with a new current manifest, a manifest history and *)
(* sometimes a new signing key, while both the old and the new set commit. The  *)
(* rounds of consensus are those of module Validator; here a height has the     *)
(* precommits of the nodes and the locks that guard them.                       *)
EXTENDS Integers, FiniteSets, Sequences

CONSTANTS
  Nodes,
  Versions,          \* 1..n: the manifests, by membership version
  Active,            \* the active validators of a manifest
  KeyID,             \* the key of a validator in a manifest
  Threshold,         \* the quorum threshold, the same in every manifest
  Blocks,
  MaxCommits, MaxRestarts   \* bounds

\* A manifest has a quorum threshold of at least one and active validators among
\* the nodes, and the first manifest is version 1.
MembershipAssumption ==
  /\ IsFiniteSet(Nodes)
  /\ Versions \subseteq Nat \ {0}
  /\ 1 \in Versions
  /\ Active \in [Versions -> SUBSET Nodes]
  /\ Threshold \in Nat \ {0}

VARIABLES
  up,
  current,           \* membershipVersion of a node's current manifest
  history,           \* the manifests of a node's history
  kms,               \* the key that the signing provider of a node holds
  chain,             \* the durable commits of a node
  stateKey,          \* IdentityKeyID of the durable state
  lock,              \* n.lock: in memory, a start restores only that of a commit
  precommits,        \* the signed precommits
  forgot,            \* history: nodes that stopped between precommit and commit
  restarts

membershipVars == << up, current, history, kms, chain, stateKey, lock, precommits,
                     forgot, restarts >>

NoLock == [height |-> 0, block |-> "none"]
nextHeight(n) == Len(chain[n]) + 1

--------------------------------------------------------------------------------
\* Manifest.Validate and NewHistory: a quorum of a manifest's active validators exists;
\* a manifest that is not well formed is none of the versions.
Validate(v) == v > 0 /\ Threshold > 0 /\ Cardinality(Active[v]) >= Threshold
NewHistory(hist) == \A v \in hist : Validate(v)

\* WithManifest: the current manifest is added to the history.  A history that has
\* it already is the same set.
WithManifest(hist, v) == hist \cup {v}
knownManifests(n) == WithManifest(history[n], current[n])

\* membershipSet: the node has the manifest of the version.
membershipSet(versions, v) == v \in versions

\* VerifyQuorumCertificate, under the keys of the version's manifest.
\* A certificate is the version it carries and the keys that signed it.
VerifyQuorumCertificate(cert) ==
  /\ \A s \in cert.signers : /\ s.node \in Active[cert.version]
                             /\ s.key = KeyID[cert.version][s.node]
  /\ Cardinality({s.node : s \in cert.signers}) >= Threshold

\* verifyCommit, where a set of manifests is known.
verifyCommit(versions, c) ==
  /\ membershipSet(versions, c.version)
  /\ VerifyQuorumCertificate(c)

\* keyIDKnownForSelf: a key of the node in the current manifest or in the history.
keyIDKnownForSelf_Current(n, cur, hist, k) == k = KeyID[cur][n]

keyIDKnownForSelf(n, cur, hist, k) ==
  \E v \in WithManifest(hist, cur) : n \in Active[v] /\ k = KeyID[v][n]

\* loadPersistedState, under a current manifest and a history.
loadPersistedState(n, cur, hist) ==
  /\ \A i \in DOMAIN chain[n] :
       /\ keyIDKnownForSelf(n, cur, hist, chain[n][i].recordKey)
       /\ verifyCommit(WithManifest(hist, cur), chain[n][i])
  /\ stateKey[n] # "none" => keyIDKnownForSelf(n, cur, hist, stateKey[n])

--------------------------------------------------------------------------------
\* A precommit of a running node, for a proposal that carries its own version. It
\* is signed by the provider, which was checked when the node started.
Precommit(n, b) ==
  /\ n \in up
  /\ nextHeight(n) <= MaxCommits
  /\ lock[n].height = nextHeight(n) => lock[n].block = b
  /\ lock' = [lock EXCEPT ![n] = [height |-> nextHeight(n), block |-> b]]
  /\ precommits' = precommits \cup {[node |-> n, key |-> kms[n], height |-> nextHeight(n),
                                     block |-> b, version |-> current[n]]}
  /\ UNCHANGED << up, current, history, kms, chain, stateKey, forgot, restarts >>

\* saveCommit: the record of a commit carries the key of the node at the time.
apply(n, c) ==
  /\ chain' = [chain EXCEPT ![n] = Append(@, [c EXCEPT !.recordKey = KeyID[current[n]][n]])]
  /\ stateKey' = [stateKey EXCEPT ![n] = KeyID[current[n]][n]]
  /\ UNCHANGED << up, current, history, kms, lock, precommits, forgot, restarts >>

\* validateCurrentMembership and VerifyVote: a vote of the node's own version, by an
\* active validator and under its key in the current manifest.
validateCurrentMembership(n, p) ==
  /\ p.version = current[n]
  /\ p.node \in Active[current[n]]
  /\ p.key = KeyID[current[n]][p.node]

\* The proposer collects the votes that verify; attachMembershipToQC gives the
\* certificate its version.
Decide(n, b) ==
  LET votes == {p \in precommits : /\ p.height = nextHeight(n)
                                   /\ p.block = b
                                   /\ validateCurrentMembership(n, p)}
      commit == [block |-> b, version |-> current[n], recordKey |-> "none",
                 signers |-> {[node |-> p.node, key |-> p.key] : p \in votes}]
  IN /\ n \in up
     /\ VerifyQuorumCertificate(commit)
     /\ apply(n, commit)

\* authorizePeer: the caller is active in the current manifest of the callee.
authorizePeer(callee, caller) == caller \in Active[current[callee]]

\* A commit reaches n by the broadcast of p, or n fetches it from p to catch up.
ApplyCommit(n, p) ==
  /\ {n, p} \subseteq up
  /\ authorizePeer(n, p) \/ authorizePeer(p, n)
  /\ Len(chain[p]) >= nextHeight(n)
  /\ verifyCommit(knownManifests(n), chain[p][nextHeight(n)])
  /\ apply(n, chain[p][nextHeight(n)])

\* What is not in the store is lost: the votes and the lock of a precommit.
StopNode(n) ==
  /\ n \in up
  /\ restarts < MaxRestarts
  /\ up' = up \ {n}
  /\ lock' = [lock EXCEPT ![n] = NoLock]
  /\ forgot' = IF lock[n].height = nextHeight(n) THEN forgot \cup {n} ELSE forgot
  /\ restarts' = restarts + 1
  /\ UNCHANGED << current, history, kms, chain, stateKey, precommits >>

\* validateKey: the key behind the provider is the one of the manifest.
validateKey(n, v, k) == k = KeyID[v][n]

\* NewNode: the operator hands over a manifest that is not older, a history and
\* the key of the signing provider; the node starts if all of them agree.
mayStart(n, v, hist, k) ==
  /\ NewHistory(WithManifest(hist, v))
  /\ n \in Active[v]
  /\ validateKey(n, v, k)
  /\ loadPersistedState(n, v, hist)

NewNode_SkipsUnknown(n, v, hist, k) ==
  /\ n \notin up
  /\ v >= current[n]
  /\ n \in Active[v] /\ validateKey(n, v, k)
  /\ up' = up \cup {n}
  /\ current' = [current EXCEPT ![n] = v]
  /\ history' = [history EXCEPT ![n] = hist]
  /\ kms' = [kms EXCEPT ![n] = k]
  /\ chain' = [chain EXCEPT ![n] =
       SelectSeq(@, LAMBDA c : verifyCommit(WithManifest(hist, v), c))]
  /\ UNCHANGED << stateKey, lock, precommits, forgot, restarts >>

NewNode(n, v, hist, k) ==
  /\ n \notin up
  /\ v >= current[n]
  /\ mayStart(n, v, hist, k)
  /\ up' = up \cup {n}
  /\ current' = [current EXCEPT ![n] = v]
  /\ history' = [history EXCEPT ![n] = hist]
  /\ kms' = [kms EXCEPT ![n] = k]
  /\ UNCHANGED << chain, stateKey, lock, precommits, forgot, restarts >>

\* The key behind a provider changes under a running node.
RotateKMS(n, k) ==
  /\ n \in up
  /\ k # kms[n]
  /\ restarts < MaxRestarts
  /\ kms' = [kms EXCEPT ![n] = k]
  /\ restarts' = restarts + 1
  /\ UNCHANGED << up, current, history, chain, stateKey, lock, precommits, forgot >>

--------------------------------------------------------------------------------
\* Receipts. A hash is the tuple of what it covers; the submission of a block is
\* the block's payload.
EventHash(submission) == << "event", submission >>
BlockHash(c) == << "block", c.height, c.block, c.version >>
QuorumCertificateHash(c) == << "qc", c.height, c.block, c.signers >>
ReceiptID(event, block, qc) == << "receipt", event, block, qc >>
uniqueValidatorIDs(c) == {s.node : s \in c.signers}

NewReceipt(h, c) ==
  LET commit == [height |-> h, block |-> c.block, version |-> c.version, signers |-> c.signers]
      event == EventHash(c.block)
      qc == QuorumCertificateHash(commit)
  IN [id |-> ReceiptID(event, BlockHash(commit), qc), evidence |-> event,
      submission |-> c.block, event |-> event, height |-> h, block |-> BlockHash(commit),
      qc |-> qc, version |-> c.version, signerCount |-> Cardinality(uniqueValidatorIDs(c)),
      validators |-> uniqueValidatorIDs(c), commit |-> commit]

VerifyReceipt_NoMembership(r) ==
  /\ r.event = EventHash(r.submission) /\ r.evidence = r.event
  /\ r.commit.block = r.submission
  /\ r.block = BlockHash(r.commit)
  /\ r.qc = QuorumCertificateHash(r.commit)
  /\ r.id = ReceiptID(r.event, r.block, r.qc)
  /\ r.height = r.commit.height
  /\ VerifyQuorumCertificate(r.commit)
  /\ r.signerCount = Cardinality(uniqueValidatorIDs(r.commit))
  /\ r.validators = uniqueValidatorIDs(r.commit)

VerifyReceipt(r) ==
  /\ r.event = EventHash(r.submission) /\ r.evidence = r.event
  /\ r.commit.block = r.submission
  /\ r.block = BlockHash(r.commit)
  /\ r.qc = QuorumCertificateHash(r.commit)
  /\ r.id = ReceiptID(r.event, r.block, r.qc)
  /\ r.height = r.commit.height
  /\ r.version = r.commit.version
  /\ VerifyQuorumCertificate(r.commit)
  /\ r.signerCount = Cardinality(uniqueValidatorIDs(r.commit))
  /\ r.validators = uniqueValidatorIDs(r.commit)

\* membershipSetForReceipt: a receipt without a version has that of its commit.
membershipSetForReceipt(versions, r) ==
  membershipSet(versions, IF r.version = 0 THEN r.commit.version ELSE r.version)

verifyEvidenceReceipt(versions, r) ==
  /\ membershipSetForReceipt(versions, r)
  /\ VerifyReceipt(r)

\* A receipt with one field changed.
altered(r) ==
  LET other == << "other" >> IN
  {[r EXCEPT !.event = other], [r EXCEPT !.evidence = other], [r EXCEPT !.block = other],
   [r EXCEPT !.qc = other], [r EXCEPT !.id = other], [r EXCEPT !.height = @ + 1],
   [r EXCEPT !.version = 0], [r EXCEPT !.version = 3 - @], [r EXCEPT !.signerCount = @ - 1],
   [r EXCEPT !.validators = {}], [r EXCEPT !.commit.height = @ + 1],
   [r EXCEPT !.commit.version = 3 - @], [r EXCEPT !.commit.signers = {}]}

--------------------------------------------------------------------------------
MembershipInit ==
  /\ up = Active[1]
  /\ current = [n \in Nodes |-> 1]
  /\ history = [n \in Nodes |-> {}]
  /\ kms = [n \in Nodes |-> KeyID[1][n]]
  /\ chain = [n \in Nodes |-> << >>]
  /\ stateKey = [n \in Nodes |-> "none"]
  /\ lock = [n \in Nodes |-> NoLock]
  /\ precommits = {}
  /\ forgot = {}
  /\ restarts = 0

KeysOf(n) == {KeyID[v][n] : v \in Versions}
MembershipNext ==
  \E n \in Nodes :
    \/ \E b \in Blocks : Precommit(n, b) \/ Decide(n, b)
    \/ \E p \in Nodes \ {n} : ApplyCommit(n, p)
    \/ StopNode(n)
    \/ \E v \in Versions, k \in KeysOf(n) : \E hist \in SUBSET (1..(v - 1)) : NewNode(n, v, hist, k)
    \/ \E k \in KeysOf(n) : RotateKMS(n, k)

MembershipSpec == MembershipInit /\ [][MembershipNext]_membershipVars

--------------------------------------------------------------------------------
\* While nodes move from one manifest to the next, the quorums of the two sets do
\* not commit different blocks at a height, as long as fewer nodes are stopped
\* between a precommit and the commit of its height than any two quorums share:
\* a node that has the commit refuses to start without its manifest.
AgreementAcrossManifests ==
  Cardinality(forgot) < 2 * Threshold - Cardinality(UNION {Active[v] : v \in Versions}) =>
    \A n, m \in Nodes : \A i \in DOMAIN chain[n] \cap DOMAIN chain[m] :
      chain[n][i].block = chain[m][i].block

\* loadPersistedState: a node that keeps every older manifest in its history starts again: whatever
\* it has stored, its commits verify and the keys of its records are known, under
\* each manifest it is active in from now on.
HistoryReloads ==
  \A n \in Nodes, v \in Versions :
    v >= current[n] /\ n \in Active[v] => loadPersistedState(n, v, 1..(v - 1))

\* A receipt of any commit verifies at exactly the nodes that know the manifest of
\* the commit, before and after they move to another one, and no receipt that
\* differs from it in one field verifies anywhere.
ReceiptsVerify ==
  \A r \in UNION {{NewReceipt(i, chain[m][i]) : i \in DOMAIN chain[m]} : m \in Nodes} :
    \A versions \in {knownManifests(n) : n \in up} :
      /\ verifyEvidenceReceipt(versions, r) <=> r.version \in versions
      /\ \A t \in altered(r) : ~verifyEvidenceReceipt(versions, t)
================================================================================
