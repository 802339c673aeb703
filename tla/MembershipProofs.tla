--------------------------- MODULE MembershipProofs ----------------------------
(***************************************************************************)
(* Proofs about Membership, for any number of manifests, any active sets and  *)
(* keys, any threshold and any order of stops, starts, votes and commits: the *)
(* quorums of different manifests commit the same blocks as long as they      *)
(* share more nodes than have forgotten a lock, a node that keeps its older   *)
(* manifests starts again, and a receipt verifies where its manifest is known. *)
(***************************************************************************)
EXTENDS Membership, FiniteSetTheorems, TLAPS

--------------------------------------------------------------------------------
(* The inductive invariant.                                                 *)

Keys == {KeyID[v][n] : v \in Versions, n \in Nodes} \cup {"none"}
Signature == [node : Nodes, key : Keys]
Commit == [block : Blocks, version : Versions, recordKey : Keys, signers : SUBSET Signature]
Vote == [node : Nodes, key : Keys, height : Nat, block : Blocks, version : Versions]

Types ==
  /\ up \subseteq Nodes
  /\ current \in [Nodes -> Versions]
  /\ history \in [Nodes -> SUBSET Nat]
  /\ kms \in [Nodes -> Keys]
  /\ chain \in [Nodes -> Seq(Commit)]
  /\ stateKey \in [Nodes -> Keys]
  /\ lock \in [Nodes -> [height : Nat, block : Blocks \cup {"none"}]]
  /\ precommits \subseteq Vote
  /\ forgot \subseteq Nodes

\* The key was one of the node in a manifest up to version v.
OwnKey(n, v, k) == \E w \in Versions : w <= v /\ n \in Active[w] /\ k = KeyID[w][n]

\* A commit that a node stored under manifest v at the latest.
Stored(n, v, c) ==
  /\ c.version <= v
  /\ VerifyQuorumCertificate(c)
  /\ OwnKey(n, v, c.recordKey)

\* What a node has stored comes from its current manifest or an older one: it is
\* active in the manifest it runs with, and starts never move it to an older one.
StoredInv ==
  \A n \in Nodes :
    /\ n \in up => n \in Active[current[n]]
    /\ history[n] \subseteq 1 .. (current[n] - 1)
    /\ \A i \in DOMAIN chain[n] : Stored(n, current[n], chain[n][i])
    /\ stateKey[n] # "none" => OwnKey(n, current[n], stateKey[n])

\* Every signer of the certificate of a commit has precommitted its block.
Backed(c, i, votes) ==
  \A s \in c.signers :
    \E p \in votes : p.node = s.node /\ p.height = i /\ p.block = c.block

CommitsBacked == \A n \in Nodes : \A i \in DOMAIN chain[n] : Backed(chain[n][i], i, precommits)

\* A node has precommitted up to its next height, and is locked on what it
\* precommitted there unless it was stopped in between.
LocksCover ==
  \A p \in precommits :
    /\ p.height <= nextHeight(p.node)
    /\ p.node \notin forgot /\ p.height = nextHeight(p.node) =>
         lock[p.node] = [height |-> p.height, block |-> p.block]

\* A node that has forgotten no lock has precommitted one block at a height.
OneBlock ==
  \A p, q \in precommits :
    p.node = q.node /\ p.node \notin forgot /\ p.height = q.height => p.block = q.block

MembershipInv == Types /\ StoredInv /\ CommitsBacked /\ LocksCover /\ OneBlock

--------------------------------------------------------------------------------
(* A commit is stored.                                                      *)

\* The record of a commit is the commit with the key of the node at the time.
LEMMA RecordOf ==
  ASSUME NEW c \in Commit, NEW k \in Keys
  PROVE  /\ [c EXCEPT !.recordKey = k] \in Commit
         /\ [c EXCEPT !.recordKey = k].recordKey = k
         /\ [c EXCEPT !.recordKey = k].version = c.version
         /\ [c EXCEPT !.recordKey = k].block = c.block
         /\ [c EXCEPT !.recordKey = k].signers = c.signers
  BY DEF Commit

LEMMA VersionsAreNumbers ==
  ASSUME MembershipAssumption
  PROVE  \A v \in Versions : v \in Nat /\ v # 0
  BY Zenon DEF MembershipAssumption

LEMMA OwnKeyLater ==
  ASSUME MembershipAssumption, NEW n, NEW v \in Versions, NEW w \in Versions, v <= w,
         NEW k, OwnKey(n, v, k)
  PROVE  OwnKey(n, w, k)
  BY DEF OwnKey, MembershipAssumption

LEMMA StoredLater ==
  ASSUME MembershipAssumption, NEW n, NEW v \in Versions, NEW w \in Versions, v <= w,
         NEW c \in Commit, Stored(n, v, c)
  PROVE  Stored(n, w, c)
<1>1. c.version \in Versions
  BY DEF Commit
<1>2. c.version \in Nat /\ v \in Nat /\ w \in Nat
  BY <1>1, VersionsAreNumbers, Zenon
<1>3. c.version <= v
  BY DEF Stored
<1>4. c.version <= w
  BY <1>2, <1>3
<1> QED
  BY <1>4, OwnKeyLater, Zenon DEF Stored

\* The chain of a node, and its length, after one more record.
LEMMA OneMore ==
  ASSUME NEW s \in Seq(Commit), NEW r \in Commit
  PROVE  /\ Append(s, r) \in Seq(Commit)
         /\ Len(Append(s, r)) = Len(s) + 1
         /\ Len(s) \in Nat
         /\ DOMAIN s = 1 .. Len(s)
         /\ DOMAIN Append(s, r) = 1 .. (Len(s) + 1)
         /\ \A i \in DOMAIN Append(s, r) :
              \/ i \in DOMAIN s /\ Append(s, r)[i] = s[i]
              \/ i = Len(s) + 1 /\ Append(s, r)[i] = r
  OBVIOUS

\* apply keeps the invariant if the commit verifies under a manifest that is not
\* newer than the node's and its signers have precommitted it.
LEMMA ApplyKeeps ==
  ASSUME MembershipAssumption, MembershipInv, NEW n \in Nodes, n \in up,
         NEW c \in Commit, c.version <= current[n], VerifyQuorumCertificate(c),
         Backed(c, nextHeight(n), precommits), apply(n, c)
  PROVE  MembershipInv'
<1> DEFINE k == KeyID[current[n]][n]
           r == [c EXCEPT !.recordKey = k]
<1>1. current[n] \in Versions /\ chain[n] \in Seq(Commit)
  BY DEF MembershipInv, Types
<1>2. k \in Keys
  BY <1>1 DEF Keys
<1>3. /\ r \in Commit /\ r.recordKey = k /\ r.version = c.version
      /\ r.block = c.block /\ r.signers = c.signers
  BY <1>2, RecordOf, Zenon
<1>4. /\ chain' = [chain EXCEPT ![n] = Append(chain[n], r)]
      /\ stateKey' = [stateKey EXCEPT ![n] = k]
      /\ UNCHANGED << up, current, history, kms, lock, precommits, forgot >>
  BY Zenon DEF apply
<1> HIDE DEF r
<1>5. OwnKey(n, current[n], k)
  <2>1. n \in Active[current[n]]
    BY Zenon DEF MembershipInv, StoredInv
  <2>2. current[n] <= current[n]
    BY <1>1, VersionsAreNumbers
  <2> QED
    BY <1>1, <2>1, <2>2, Zenon DEF OwnKey
<1>6. Stored(n, current[n], r)
  <2>1. VerifyQuorumCertificate(r)
    BY <1>3, Zenon DEF VerifyQuorumCertificate
  <2> QED
    BY <1>3, <1>5, <2>1, Zenon DEF Stored
<1> HIDE DEF k
<1>7. /\ chain'[n] = Append(chain[n], r)
      /\ \A m \in Nodes : m # n => chain'[m] = chain[m]
  BY <1>4, Zenon DEF MembershipInv, Types
<1>8. /\ stateKey'[n] = k
      /\ \A m \in Nodes : m # n => stateKey'[m] = stateKey[m]
  BY <1>4, Zenon DEF MembershipInv, Types
<1>9. /\ \A i \in DOMAIN chain'[n] :
           \/ i \in DOMAIN chain[n] /\ chain'[n][i] = chain[n][i]
           \/ i = nextHeight(n) /\ chain'[n][i] = r
      /\ Len(chain'[n]) = Len(chain[n]) + 1 /\ Len(chain[n]) \in Nat
      /\ Append(chain[n], r) \in Seq(Commit)
  <2>1. /\ \A i \in DOMAIN Append(chain[n], r) :
             \/ i \in DOMAIN chain[n] /\ Append(chain[n], r)[i] = chain[n][i]
             \/ i = Len(chain[n]) + 1 /\ Append(chain[n], r)[i] = r
        /\ Len(Append(chain[n], r)) = Len(chain[n]) + 1 /\ Len(chain[n]) \in Nat
        /\ Append(chain[n], r) \in Seq(Commit)
    BY <1>1, <1>3, OneMore, Zenon
  <2> QED
    BY <1>7, <2>1, Zenon DEF nextHeight
<1>10. Types'
  <2>1. chain' \in [Nodes -> Seq(Commit)] /\ stateKey' \in [Nodes -> Keys]
    BY <1>2, <1>4, <1>9, Zenon DEF MembershipInv, Types
  <2> QED
    BY <1>4, <2>1, Zenon DEF MembershipInv, Types
<1>11. StoredInv'
  <2> SUFFICES ASSUME NEW m \in Nodes
               PROVE  /\ m \in up' => m \in Active[current'[m]]
                      /\ history'[m] \subseteq 1 .. (current'[m] - 1)
                      /\ \A i \in DOMAIN chain'[m] : Stored(m, current'[m], chain'[m][i])
                      /\ stateKey'[m] # "none" => OwnKey(m, current'[m], stateKey'[m])
    BY Zenon DEF StoredInv, Stored, OwnKey, VerifyQuorumCertificate
  <2>1. /\ m \in up' => m \in Active[current'[m]]
        /\ history'[m] \subseteq 1 .. (current'[m] - 1)
    BY <1>4 DEF MembershipInv, StoredInv
  <2>2. \A i \in DOMAIN chain'[m] : Stored(m, current'[m], chain'[m][i])
    BY <1>4, <1>6, <1>7, <1>9, Zenon DEF MembershipInv, StoredInv
  <2>3. stateKey'[m] # "none" => OwnKey(m, current'[m], stateKey'[m])
    BY <1>4, <1>5, <1>8, Zenon DEF MembershipInv, StoredInv
  <2> QED
    BY <2>1, <2>2, <2>3
<1>12. CommitsBacked'
  <2>1. Backed(r, nextHeight(n), precommits)
    BY <1>3, Zenon DEF Backed
  <2> SUFFICES ASSUME NEW m \in Nodes, NEW i \in DOMAIN chain'[m]
               PROVE  Backed(chain'[m][i], i, precommits)
    BY <1>4, Zenon DEF CommitsBacked
  <2> QED
    BY <1>7, <1>9, <2>1, Zenon DEF MembershipInv, CommitsBacked
<1>13. LocksCover'
  <2> SUFFICES ASSUME NEW p \in precommits
               PROVE  /\ p.height <= Len(chain'[p.node]) + 1
                      /\ p.node \notin forgot /\ p.height = Len(chain'[p.node]) + 1 =>
                           lock[p.node] = [height |-> p.height, block |-> p.block]
    BY <1>4, Zenon DEF LocksCover, nextHeight
  <2>1. /\ p.node \in Nodes /\ p.height \in Nat
        /\ p.height <= nextHeight(p.node)
        /\ p.node \notin forgot /\ p.height = nextHeight(p.node) =>
             lock[p.node] = [height |-> p.height, block |-> p.block]
    BY DEF MembershipInv, Types, Vote, LocksCover
  <2>2. CASE p.node = n
    BY <2>1, <2>2, <1>9 DEF nextHeight
  <2>3. CASE p.node # n
    BY <2>1, <2>3, <1>7, Zenon DEF nextHeight
  <2> QED
    BY <2>2, <2>3
<1>14. OneBlock'
  BY <1>4, Zenon DEF MembershipInv, OneBlock
<1> QED
  BY <1>10, <1>11, <1>12, <1>13, <1>14 DEF MembershipInv

\* Decide: the votes behind the certificate are precommits of the node's own version.
LEMMA DecideKeeps ==
  ASSUME MembershipAssumption, MembershipInv, NEW n \in Nodes, NEW b \in Blocks, Decide(n, b)
  PROVE  MembershipInv'
<1> DEFINE votes == {p \in precommits : /\ p.height = nextHeight(n)
                                        /\ p.block = b
                                        /\ validateCurrentMembership(n, p)}
           c == [block |-> b, version |-> current[n], recordKey |-> "none",
                 signers |-> {[node |-> p.node, key |-> p.key] : p \in votes}]
<1>1. n \in up /\ VerifyQuorumCertificate(c) /\ apply(n, c)
  BY DEF Decide
<1>2. current[n] \in Versions
  BY DEF MembershipInv, Types
<1>3. c.signers \subseteq Signature
  BY DEF MembershipInv, Types, Vote, Signature
<1>4. "none" \in Keys
  BY DEF Keys
<1>5. c \in Commit
  BY <1>2, <1>3, <1>4 DEF Commit
<1>6. c.version <= current[n]
  BY <1>2, VersionsAreNumbers
<1>7. Backed(c, nextHeight(n), precommits)
  <2> SUFFICES ASSUME NEW s \in c.signers
               PROVE  \E p \in precommits :
                        p.node = s.node /\ p.height = nextHeight(n) /\ p.block = c.block
    BY DEF Backed
  <2>1. PICK p \in votes : s = [node |-> p.node, key |-> p.key]
    OBVIOUS
  <2> QED
    BY <2>1
<1> HIDE DEF c
<1> QED
  BY <1>1, <1>5, <1>6, <1>7, ApplyKeeps

\* ApplyCommit: the commit was stored by the node it comes from.
LEMMA ApplyCommitKeeps ==
  ASSUME MembershipAssumption, MembershipInv, NEW n \in Nodes, NEW p \in Nodes, ApplyCommit(n, p)
  PROVE  MembershipInv'
<1> DEFINE c == chain[p][nextHeight(n)]
<1>1. /\ n \in up /\ apply(n, c) /\ VerifyQuorumCertificate(c)
      /\ Len(chain[p]) >= nextHeight(n)
      /\ c.version \in knownManifests(n)
  BY DEF ApplyCommit, verifyCommit, membershipSet
<1>2. chain[n] \in Seq(Commit) /\ chain[p] \in Seq(Commit)
  BY DEF MembershipInv, Types
<1>3. nextHeight(n) \in DOMAIN chain[p] /\ c \in Commit
  BY <1>1, <1>2 DEF nextHeight
<1>4. Backed(c, nextHeight(n), precommits)
  BY <1>3, Zenon DEF MembershipInv, CommitsBacked
<1>5. c.version <= current[n]
  <2>1. current[n] \in Nat
    BY VersionsAreNumbers DEF MembershipInv, Types
  <2>2. history[n] \subseteq 1 .. (current[n] - 1)
    BY Zenon DEF MembershipInv, StoredInv
  <2> HIDE DEF c
  <2> QED
    BY <1>1, <2>1, <2>2 DEF knownManifests, WithManifest
<1> HIDE DEF c
<1> QED
  BY <1>1, <1>3, <1>4, <1>5, ApplyKeeps

--------------------------------------------------------------------------------
(* Votes, stops and starts.                                                 *)

LEMMA PrecommitKeeps ==
  ASSUME MembershipAssumption, MembershipInv, NEW n \in Nodes, NEW b \in Blocks,
         Precommit(n, b)
  PROVE  MembershipInv'
<1> DEFINE h == nextHeight(n)
           v == [node |-> n, key |-> kms[n], height |-> h, block |-> b,
                 version |-> current[n]]
<1>1. /\ lock[n].height = h => lock[n].block = b
      /\ lock' = [lock EXCEPT ![n] = [height |-> h, block |-> b]]
      /\ precommits' = precommits \cup {v}
      /\ UNCHANGED << up, current, history, kms, chain, stateKey, forgot >>
  BY DEF Precommit
<1>2. chain[n] \in Seq(Commit) /\ current[n] \in Versions /\ kms[n] \in Keys
  BY DEF MembershipInv, Types
<1>3. h \in Nat
  BY <1>2 DEF nextHeight
<1>4. v \in Vote /\ v.node = n /\ v.height = h /\ v.block = b
  BY <1>2, <1>3 DEF Vote
<1>5. \A m : nextHeight(m)' = nextHeight(m)
  BY <1>1 DEF nextHeight
<1> HIDE DEF h, v
<1>6. /\ lock'[n] = [height |-> h, block |-> b]
      /\ \A m \in Nodes : m # n => lock'[m] = lock[m]
  BY <1>1, Zenon DEF MembershipInv, Types
<1>7. Types'
  <2>1. [height |-> h, block |-> b] \in [height : Nat, block : Blocks \cup {"none"}]
    BY <1>3
  <2>2. lock' \in [Nodes -> [height : Nat, block : Blocks \cup {"none"}]]
    BY <1>1, <2>1, Zenon DEF MembershipInv, Types
  <2>3. precommits' \subseteq Vote
    BY <1>1, <1>4, Zenon DEF MembershipInv, Types
  <2> QED
    BY <1>1, <2>2, <2>3, Zenon DEF MembershipInv, Types
<1>8. StoredInv'
  BY <1>1, Zenon DEF MembershipInv, StoredInv
<1>9. CommitsBacked'
  <2>1. \A c, i : Backed(c, i, precommits) => Backed(c, i, precommits')
    BY <1>1 DEF Backed
  <2> QED
    BY <1>1, <2>1, Zenon DEF MembershipInv, CommitsBacked
<1>10. \A p \in precommits : p.node = n /\ n \notin forgot /\ p.height = h => p.block = b
  <2> SUFFICES ASSUME NEW p \in precommits, p.node = n, n \notin forgot, p.height = h
               PROVE  p.block = b
    OBVIOUS
  <2>1. lock[n] = [height |-> p.height, block |-> p.block]
    BY Zenon DEF MembershipInv, LocksCover, h
  <2> QED
    BY <1>1, <2>1
<1>11. LocksCover'
  <2> SUFFICES ASSUME NEW p \in precommits'
               PROVE  /\ p.height <= nextHeight(p.node)
                      /\ p.node \notin forgot /\ p.height = nextHeight(p.node) =>
                           lock'[p.node] = [height |-> p.height, block |-> p.block]
    BY <1>1, <1>5, Zenon DEF LocksCover
  <2>1. CASE p \in precommits
    <3>1. /\ p.node \in Nodes
          /\ p.height <= nextHeight(p.node)
          /\ p.node \notin forgot /\ p.height = nextHeight(p.node) =>
               lock[p.node] = [height |-> p.height, block |-> p.block]
      BY <2>1, Zenon DEF MembershipInv, LocksCover, Types, Vote
    <3>2. CASE p.node # n
      BY <3>1, <3>2, <1>6, Zenon
    <3>3. CASE p.node = n
      BY <2>1, <3>1, <3>3, <1>6, <1>10, Zenon DEF h
    <3> QED
      BY <3>2, <3>3
  <2>2. CASE p = v
    <3>1. h <= h
      BY <1>3
    <3> QED
      BY <2>2, <3>1, <1>4, <1>6, Zenon DEF h
  <2> QED
    BY <1>1, <2>1, <2>2
<1>12. OneBlock'
  <2> SUFFICES ASSUME NEW p \in precommits', NEW q \in precommits',
                      p.node = q.node, p.node \notin forgot, p.height = q.height
               PROVE  p.block = q.block
    BY <1>1, Zenon DEF OneBlock
  <2>1. CASE p \in precommits /\ q \in precommits
    BY <2>1, Zenon DEF MembershipInv, OneBlock
  <2>2. CASE p = v \/ q = v
    BY <1>1, <1>4, <1>10, <2>2
  <2> QED
    BY <1>1, <2>1, <2>2
<1> QED
  BY <1>7, <1>8, <1>9, <1>11, <1>12 DEF MembershipInv

\* Stop: a node that is stopped on a lock of its next height is one that forgot it.
LEMMA StopKeeps ==
  ASSUME MembershipInv, NEW n \in Nodes, StopNode(n)
  PROVE  MembershipInv'
<1>1. /\ up' \subseteq up
      /\ lock' = [lock EXCEPT ![n] = NoLock]
      /\ forgot' = IF lock[n].height = nextHeight(n) THEN forgot \cup {n} ELSE forgot
      /\ UNCHANGED << current, history, kms, chain, stateKey, precommits >>
  BY DEF StopNode
<1>2. /\ \A m \in Nodes : m # n => lock'[m] = lock[m]
      /\ forgot \subseteq forgot' /\ forgot' \subseteq forgot \cup {n}
      /\ lock[n].height = nextHeight(n) => n \in forgot'
  BY <1>1 DEF MembershipInv, Types
<1>3. Types'
  <2>1. NoLock \in [height : Nat, block : Blocks \cup {"none"}]
    BY DEF NoLock
  <2>2. lock' \in [Nodes -> [height : Nat, block : Blocks \cup {"none"}]]
    BY <1>1, <2>1, Zenon DEF MembershipInv, Types
  <2>3. up' \subseteq Nodes /\ forgot' \subseteq Nodes
    BY <1>1, <1>2 DEF MembershipInv, Types
  <2> QED
    BY <1>1, <2>2, <2>3, Zenon DEF MembershipInv, Types
<1>4. StoredInv'
  BY <1>1, Zenon DEF MembershipInv, StoredInv
<1>5. CommitsBacked'
  BY <1>1, Zenon DEF MembershipInv, CommitsBacked
<1>6. LocksCover'
  <2> SUFFICES ASSUME NEW p \in precommits
               PROVE  /\ p.height <= nextHeight(p.node)
                      /\ p.node \notin forgot' /\ p.height = nextHeight(p.node) =>
                           lock'[p.node] = [height |-> p.height, block |-> p.block]
    BY <1>1, Zenon DEF LocksCover, nextHeight
  <2>1. /\ p.node \in Nodes
        /\ p.height <= nextHeight(p.node)
        /\ p.node \notin forgot /\ p.height = nextHeight(p.node) =>
             lock[p.node] = [height |-> p.height, block |-> p.block]
    BY Zenon DEF MembershipInv, LocksCover, Types, Vote
  <2>2. CASE p.node # n
    BY <1>2, <2>1, <2>2
  <2>3. CASE p.node = n
    BY <1>2, <2>1, <2>3
  <2> QED
    BY <2>2, <2>3
<1>7. OneBlock'
  BY <1>1, <1>2, Zenon DEF MembershipInv, OneBlock
<1> QED
  BY <1>3, <1>4, <1>5, <1>6, <1>7 DEF MembershipInv

\* NewNode: the node is active in the manifest it starts with, and that manifest
\* is not older than the one its commits were stored under.
LEMMA NewNodeKeeps ==
  ASSUME MembershipAssumption, MembershipInv, NEW n \in Nodes, NEW v \in Versions,
         NEW hist \in SUBSET (1 .. (v - 1)), NEW k \in KeysOf(n), NewNode(n, v, hist, k)
  PROVE  MembershipInv'
<1>1. /\ n \in Active[v] /\ v >= current[n]
      /\ up' = up \cup {n}
      /\ current' = [current EXCEPT ![n] = v]
      /\ history' = [history EXCEPT ![n] = hist]
      /\ kms' = [kms EXCEPT ![n] = k]
      /\ UNCHANGED << chain, stateKey, lock, precommits, forgot >>
  BY DEF NewNode, mayStart
<1>2. /\ current'[n] = v /\ \A m \in Nodes : m # n => current'[m] = current[m]
      /\ history'[n] = hist /\ \A m \in Nodes : m # n => history'[m] = history[m]
  BY <1>1, Zenon DEF MembershipInv, Types
<1>3. Types'
  <2>1. k \in Keys
    BY DEF KeysOf, Keys
  <2>2. hist \subseteq Nat
    BY VersionsAreNumbers
  <2>3. up' \subseteq Nodes
    BY <1>1, Zenon DEF MembershipInv, Types
  <2>4. /\ current' \in [Nodes -> Versions] /\ history' \in [Nodes -> SUBSET Nat]
        /\ kms' \in [Nodes -> Keys]
    BY <1>1, <2>1, <2>2, Zenon DEF MembershipInv, Types
  <2> QED
    BY <1>1, <2>3, <2>4, Zenon DEF MembershipInv, Types
<1>4. StoredInv'
  <2> SUFFICES ASSUME NEW m \in Nodes
               PROVE  /\ m \in up' => m \in Active[current'[m]]
                      /\ history'[m] \subseteq 1 .. (current'[m] - 1)
                      /\ \A i \in DOMAIN chain[m] : Stored(m, current'[m], chain[m][i])
                      /\ stateKey[m] # "none" => OwnKey(m, current'[m], stateKey[m])
    BY <1>1, Zenon DEF StoredInv
  <2>1. /\ m \in up => m \in Active[current[m]]
        /\ history[m] \subseteq 1 .. (current[m] - 1)
        /\ \A i \in DOMAIN chain[m] : Stored(m, current[m], chain[m][i])
        /\ stateKey[m] # "none" => OwnKey(m, current[m], stateKey[m])
    BY Zenon DEF MembershipInv, StoredInv
  <2>2. CASE m # n
    BY <1>1, <1>2, <2>1, <2>2, Zenon
  <2>3. CASE m = n
    <3>1. current[n] \in Versions /\ current[n] <= v
      BY <1>1, VersionsAreNumbers DEF MembershipInv, Types
    <3>2. \A i \in DOMAIN chain[n] : chain[n][i] \in Commit
      BY DEF MembershipInv, Types
    <3>3. \A i \in DOMAIN chain[n] : Stored(n, v, chain[n][i])
      BY <2>1, <2>3, <3>1, <3>2, StoredLater, Zenon
    <3>4. stateKey[n] # "none" => OwnKey(n, v, stateKey[n])
      BY <2>1, <2>3, <3>1, OwnKeyLater, Zenon
    <3> QED
      BY <1>1, <1>2, <2>3, <3>3, <3>4, Zenon
  <2> QED
    BY <2>2, <2>3
<1>5. CommitsBacked'
  BY <1>1, Zenon DEF MembershipInv, CommitsBacked
<1>6. LocksCover' /\ OneBlock'
  BY <1>1, Zenon DEF MembershipInv, LocksCover, OneBlock, nextHeight
<1> QED
  BY <1>3, <1>4, <1>5, <1>6 DEF MembershipInv

LEMMA RotateKeeps ==
  ASSUME MembershipInv, NEW n \in Nodes, NEW k \in KeysOf(n), RotateKMS(n, k)
  PROVE  MembershipInv'
<1>1. /\ kms' = [kms EXCEPT ![n] = k]
      /\ UNCHANGED << up, current, history, chain, stateKey, lock, precommits, forgot >>
  BY DEF RotateKMS
<1>2. k \in Keys
  BY DEF KeysOf, Keys
<1>3. kms' \in [Nodes -> Keys]
  BY <1>1, <1>2, Zenon DEF MembershipInv, Types
<1>4. Types'
  BY <1>1, <1>3, Zenon DEF MembershipInv, Types
<1>5. StoredInv' /\ CommitsBacked'
  BY <1>1, Zenon DEF MembershipInv, StoredInv, CommitsBacked
<1>6. LocksCover' /\ OneBlock'
  BY <1>1, Zenon DEF MembershipInv, LocksCover, OneBlock, nextHeight
<1> QED
  BY <1>4, <1>5, <1>6 DEF MembershipInv

LEMMA StutterKeeps ==
  ASSUME MembershipInv, UNCHANGED membershipVars
  PROVE  MembershipInv'
<1>1. UNCHANGED << up, current, history, kms, chain, stateKey, lock, precommits, forgot >>
  BY DEF membershipVars
<1>2. Types'
  BY <1>1, Zenon DEF MembershipInv, Types
<1>3. StoredInv' /\ CommitsBacked'
  BY <1>1, Zenon DEF MembershipInv, StoredInv, CommitsBacked
<1>4. LocksCover' /\ OneBlock'
  BY <1>1, Zenon DEF MembershipInv, LocksCover, OneBlock, nextHeight
<1> QED
  BY <1>2, <1>3, <1>4 DEF MembershipInv

LEMMA InitMembership ==
  ASSUME MembershipAssumption, MembershipInit
  PROVE  MembershipInv
<1>1. 1 \in Versions /\ Active[1] \subseteq Nodes
  BY DEF MembershipAssumption
<1>2. Types
  <2>1. \A n \in Nodes : KeyID[1][n] \in Keys
    BY <1>1 DEF Keys
  <2>2. "none" \in Keys /\ NoLock \in [height : Nat, block : Blocks \cup {"none"}]
    BY DEF Keys, NoLock
  <2>3. << >> \in Seq(Commit)
    OBVIOUS
  <2> QED
    BY <1>1, <2>1, <2>2, <2>3, Zenon DEF MembershipInit, Types
<1>3. StoredInv
  <2>1. \A n \in Nodes : n \in up => n \in Active[current[n]]
    BY DEF MembershipInit
  <2>2. \A n \in Nodes : history[n] = {} /\ DOMAIN chain[n] = {} /\ stateKey[n] = "none"
    BY DEF MembershipInit
  <2> QED
    BY <2>1, <2>2, Zenon DEF StoredInv
<1>4. CommitsBacked
  BY DEF MembershipInit, CommitsBacked
<1>5. LocksCover /\ OneBlock
  BY DEF MembershipInit, LocksCover, OneBlock
<1> QED
  BY <1>2, <1>3, <1>4, <1>5 DEF MembershipInv

\* Every step of Membership keeps the invariant.
THEOREM MembershipInvariant == ASSUME MembershipAssumption PROVE MembershipSpec => []MembershipInv
<1>1. MembershipInit => MembershipInv
  BY InitMembership
<1>2. MembershipInv /\ [MembershipNext]_membershipVars => MembershipInv'
  <2> SUFFICES ASSUME MembershipInv, [MembershipNext]_membershipVars
               PROVE  MembershipInv'
    OBVIOUS
  <2>1. CASE UNCHANGED membershipVars
    BY <2>1, StutterKeeps
  <2>2. CASE MembershipNext
    <3>1. PICK n \in Nodes :
            \/ \E b \in Blocks : Precommit(n, b) \/ Decide(n, b)
            \/ \E p \in Nodes \ {n} : ApplyCommit(n, p)
            \/ StopNode(n)
            \/ \E v \in Versions, k \in KeysOf(n) : \E hist \in SUBSET (1..(v - 1)) :
                 NewNode(n, v, hist, k)
            \/ \E k \in KeysOf(n) : RotateKMS(n, k)
      BY <2>2, Zenon DEF MembershipNext
    <3>2. CASE \E b \in Blocks : Precommit(n, b) \/ Decide(n, b)
      BY <3>2, PrecommitKeeps, DecideKeeps, Zenon
    <3>3. CASE \E p \in Nodes \ {n} : ApplyCommit(n, p)
      BY <3>3, ApplyCommitKeeps, Zenon
    <3>4. CASE StopNode(n)
      BY <3>4, StopKeeps, Zenon
    <3>5. CASE \E v \in Versions, k \in KeysOf(n) : \E hist \in SUBSET (1..(v - 1)) :
                 NewNode(n, v, hist, k)
      BY <3>5, NewNodeKeeps, Zenon
    <3>6. CASE \E k \in KeysOf(n) : RotateKMS(n, k)
      BY <3>6, RotateKeeps, Zenon
    <3> QED
      BY <3>1, <3>2, <3>3, <3>4, <3>5, <3>6, Zenon
  <2> QED
    BY <2>1, <2>2
<1> QED
  BY <1>1, <1>2, PTL DEF MembershipSpec

--------------------------------------------------------------------------------
(* Agreement across manifests.                                              *)

Everyone == UNION {Active[v] : v \in Versions}

\* The quorums of any two manifests share a node outside a set that is smaller
\* than what any two quorums share.
LEMMA QuorumsMeet ==
  ASSUME MembershipAssumption,
         NEW P, P \subseteq Everyone, Cardinality(P) >= Threshold,
         NEW Q, Q \subseteq Everyone, Cardinality(Q) >= Threshold,
         NEW R, R \subseteq Nodes,
         Cardinality(R) < 2 * Threshold - Cardinality(Everyone)
  PROVE  \E s \in P \cap Q : s \notin R
<1>1. Everyone \subseteq Nodes /\ IsFiniteSet(Nodes) /\ Threshold \in Nat
  BY DEF Everyone, MembershipAssumption
<1>2. IsFiniteSet(Everyone) /\ IsFiniteSet(R)
  BY <1>1, FS_Subset, Zenon
<1>3. /\ IsFiniteSet(P) /\ IsFiniteSet(Q)
      /\ IsFiniteSet(P \cap Q) /\ IsFiniteSet(P \cup Q)
      /\ Cardinality(P \cup Q) <= Cardinality(Everyone)
  BY <1>2, FS_Subset
<1>4. /\ Cardinality(P) \in Nat /\ Cardinality(Q) \in Nat /\ Cardinality(R) \in Nat
      /\ Cardinality(P \cap Q) \in Nat /\ Cardinality(P \cup Q) \in Nat
      /\ Cardinality(Everyone) \in Nat
  BY <1>2, <1>3, FS_CardinalityType
<1>5. Cardinality(P \cup Q) = Cardinality(P) + Cardinality(Q) - Cardinality(P \cap Q)
  BY <1>3, FS_Union
<1>6. Cardinality(P \cap Q) > Cardinality(R)
  BY <1>1, <1>3, <1>4, <1>5
<1>7. ~ (P \cap Q \subseteq R)
  BY <1>2, <1>4, <1>6, FS_Subset
<1> QED
  BY <1>7

\* The signers of a commit are a quorum of one manifest.
LEMMA SignersOfCommit ==
  ASSUME NEW c \in Commit, VerifyQuorumCertificate(c)
  PROVE  /\ uniqueValidatorIDs(c) \subseteq Everyone
         /\ Cardinality(uniqueValidatorIDs(c)) >= Threshold
  BY DEF VerifyQuorumCertificate, uniqueValidatorIDs, Everyone, Commit

\* Nodes that roll from one manifest to the next never commit different blocks at a
\* height, while fewer nodes have been stopped on a lock than the quorums of any two
\* manifests share (HandlePrecommit, NewNode, loadPersistedState).
THEOREM ManifestsAgree ==
  ASSUME MembershipAssumption PROVE MembershipSpec => []AgreementAcrossManifests
<1>1. MembershipInv => AgreementAcrossManifests
  <2> SUFFICES ASSUME MembershipInv,
                      Cardinality(forgot) < 2 * Threshold - Cardinality(Everyone),
                      NEW n \in Nodes, NEW m \in Nodes,
                      NEW i \in DOMAIN chain[n], i \in DOMAIN chain[m]
               PROVE  chain[n][i].block = chain[m][i].block
    BY DEF AgreementAcrossManifests, Everyone
  <2> DEFINE c == chain[n][i]
             d == chain[m][i]
  <2>1. c \in Commit /\ d \in Commit /\ forgot \subseteq Nodes
    BY DEF MembershipInv, Types
  <2>2. /\ VerifyQuorumCertificate(c) /\ Backed(c, i, precommits)
        /\ VerifyQuorumCertificate(d) /\ Backed(d, i, precommits)
    BY Zenon DEF MembershipInv, StoredInv, Stored, CommitsBacked
  <2> HIDE DEF c, d
  <2>3. PICK s \in uniqueValidatorIDs(c) \cap uniqueValidatorIDs(d) : s \notin forgot
    BY <2>1, <2>2, SignersOfCommit, QuorumsMeet
  <2>4. PICK p \in precommits : p.node = s /\ p.height = i /\ p.block = c.block
    BY <2>2, <2>3 DEF Backed, uniqueValidatorIDs
  <2>5. PICK q \in precommits : q.node = s /\ q.height = i /\ q.block = d.block
    BY <2>2, <2>3 DEF Backed, uniqueValidatorIDs
  <2>6. p.block = q.block
    BY <2>3, <2>4, <2>5, Zenon DEF MembershipInv, OneBlock
  <2> QED
    BY <2>4, <2>5, <2>6 DEF c, d
<1> QED
  BY <1>1, MembershipInvariant, PTL

--------------------------------------------------------------------------------
(* Restarts and receipts.                                                   *)

LEMMA KnownForSelf ==
  ASSUME MembershipAssumption, NEW n, NEW u \in Versions, NEW v \in Versions, u <= v,
         NEW k, OwnKey(n, u, k)
  PROVE  keyIDKnownForSelf(n, v, 1 .. (v - 1), k)
<1>1. PICK w \in Versions : w <= u /\ n \in Active[w] /\ k = KeyID[w][n]
  BY DEF OwnKey
<1>2. w \in (1 .. (v - 1)) \cup {v}
  BY <1>1, VersionsAreNumbers
<1> QED
  BY <1>1, <1>2, Zenon DEF keyIDKnownForSelf, WithManifest

\* A node that keeps every older manifest in its history starts again on what it has
\* stored, under every manifest it is active in from now on (loadPersistedState,
\* keyIDKnownForSelf, verifyCommit).
THEOREM NodesReload ==
  ASSUME MembershipAssumption PROVE MembershipSpec => []HistoryReloads
<1>1. MembershipInv => HistoryReloads
  <2> SUFFICES ASSUME MembershipInv, NEW n \in Nodes, NEW v \in Versions,
                      v >= current[n], n \in Active[v]
               PROVE  loadPersistedState(n, v, 1 .. (v - 1))
    BY DEF HistoryReloads
  <2>1. /\ current[n] \in Versions /\ current[n] <= v
        /\ \A i \in DOMAIN chain[n] : chain[n][i] \in Commit
    BY VersionsAreNumbers DEF MembershipInv, Types
  <2>2. stateKey[n] # "none" => keyIDKnownForSelf(n, v, 1 .. (v - 1), stateKey[n])
    BY <2>1, KnownForSelf, Zenon DEF MembershipInv, StoredInv
  <2>3. ASSUME NEW i \in DOMAIN chain[n]
        PROVE  /\ keyIDKnownForSelf(n, v, 1 .. (v - 1), chain[n][i].recordKey)
               /\ verifyCommit(WithManifest(1 .. (v - 1), v), chain[n][i])
    <3> DEFINE c == chain[n][i]
    <3>1. c \in Commit /\ Stored(n, current[n], c)
      BY <2>1, Zenon DEF MembershipInv, StoredInv
    <3> HIDE DEF c
    <3>2. keyIDKnownForSelf(n, v, 1 .. (v - 1), c.recordKey)
      BY <2>1, <3>1, KnownForSelf, Zenon DEF Stored
    <3>3. c.version \in Versions /\ c.version <= current[n] /\ VerifyQuorumCertificate(c)
      BY <3>1 DEF Commit, Stored
    <3>4. c.version \in (1 .. (v - 1)) \cup {v}
      BY <2>1, <3>3, VersionsAreNumbers
    <3>5. verifyCommit(WithManifest(1 .. (v - 1), v), c)
      BY <3>3, <3>4, Zenon DEF verifyCommit, membershipSet, WithManifest
    <3> QED
      BY <3>2, <3>5 DEF c
  <2> QED
    BY <2>2, <2>3, Zenon DEF loadPersistedState
<1> QED
  BY <1>1, MembershipInvariant, PTL

\* The fields of a receipt and of the commit in it.
IsReceipt(r) ==
  /\ r = [id |-> r.id, evidence |-> r.evidence, submission |-> r.submission,
          event |-> r.event, height |-> r.height, block |-> r.block, qc |-> r.qc,
          version |-> r.version, signerCount |-> r.signerCount,
          validators |-> r.validators, commit |-> r.commit]
  /\ r.commit = [height |-> r.commit.height, block |-> r.commit.block,
                 version |-> r.commit.version, signers |-> r.commit.signers]
  /\ r.commit.height \in Nat
  /\ r.version \in Nat \ {0}
  /\ r.signerCount \in Nat
  /\ r.validators # {}

LEMMA NewReceiptVerifies ==
  ASSUME MembershipAssumption, NEW i \in Nat, NEW c \in Commit, VerifyQuorumCertificate(c),
         NEW r, r = NewReceipt(i, c)
  PROVE  IsReceipt(r) /\ VerifyReceipt(r) /\ r.version = c.version
<1> DEFINE d == [height |-> i, block |-> c.block, version |-> c.version,
                 signers |-> c.signers]
           event == EventHash(c.block)
           qc == QuorumCertificateHash(d)
           S == uniqueValidatorIDs(c)
<1>1. r = [id |-> ReceiptID(event, BlockHash(d), qc), evidence |-> event,
           submission |-> c.block, event |-> event, height |-> i, block |-> BlockHash(d),
           qc |-> qc, version |-> c.version, signerCount |-> Cardinality(S),
           validators |-> S, commit |-> d]
  BY Zenon DEF NewReceipt
<1>2. /\ d.height = i /\ d.block = c.block /\ d.version = c.version /\ d.signers = c.signers
      /\ d = [height |-> d.height, block |-> d.block, version |-> d.version,
              signers |-> d.signers]
  OBVIOUS
<1>3. uniqueValidatorIDs(d) = S /\ VerifyQuorumCertificate(d)
  BY <1>2, Zenon DEF VerifyQuorumCertificate, uniqueValidatorIDs
<1>4. c.version \in Nat \ {0}
  BY VersionsAreNumbers DEF Commit
<1>5. Cardinality(S) \in Nat /\ S # {}
  <2>1. IsFiniteSet(Nodes) /\ Threshold \in Nat \ {0}
    BY DEF MembershipAssumption
  <2>2. S \subseteq Nodes /\ Cardinality(S) >= Threshold
    BY DEF Commit, Signature, VerifyQuorumCertificate, uniqueValidatorIDs
  <2> HIDE DEF S
  <2>3. IsFiniteSet(S) /\ Cardinality(S) \in Nat
    BY <2>1, <2>2, FS_Subset, FS_CardinalityType
  <2> QED
    BY <2>1, <2>2, <2>3, FS_EmptySet
<1> HIDE DEF d, event, qc, S
<1>6. /\ r.id = ReceiptID(event, BlockHash(d), qc) /\ r.evidence = event
      /\ r.submission = c.block /\ r.event = event /\ r.height = i /\ r.block = BlockHash(d)
      /\ r.qc = qc /\ r.version = c.version /\ r.signerCount = Cardinality(S)
      /\ r.validators = S /\ r.commit = d
  BY <1>1
<1>7. IsReceipt(r)
  BY <1>1, <1>2, <1>4, <1>5, <1>6, Zenon DEF IsReceipt
<1>8. VerifyReceipt(r)
  BY <1>2, <1>3, <1>6, Zenon DEF VerifyReceipt, event, qc
<1> QED
  BY <1>6, <1>7, <1>8

LEMMA AlteredFails ==
  ASSUME MembershipAssumption, NEW r, IsReceipt(r), VerifyReceipt(r), NEW t \in altered(r)
  PROVE  ~ VerifyReceipt(t)
<1> DEFINE other == << "other" >>
<1>1. /\ r.event = EventHash(r.submission) /\ r.evidence = r.event
      /\ r.commit.block = r.submission
      /\ r.block = BlockHash(r.commit)
      /\ r.qc = QuorumCertificateHash(r.commit)
      /\ r.id = ReceiptID(r.event, r.block, r.qc)
      /\ r.height = r.commit.height
      /\ r.version = r.commit.version
      /\ r.signerCount = Cardinality(uniqueValidatorIDs(r.commit))
      /\ r.validators = uniqueValidatorIDs(r.commit)
  BY Zenon DEF VerifyReceipt
<1>2. CASE t = [r EXCEPT !.event = other]
  <2>1. t.event = other
    BY <1>2 DEF IsReceipt
  <2> QED
    BY <2>1 DEF VerifyReceipt, EventHash
<1>3. CASE t = [r EXCEPT !.evidence = other]
  <2>1. t.evidence = other /\ t.event = r.event
    BY <1>3 DEF IsReceipt
  <2> QED
    BY <1>1, <2>1 DEF VerifyReceipt, EventHash
<1>4. CASE t = [r EXCEPT !.block = other]
  <2>1. t.block = other
    BY <1>4 DEF IsReceipt
  <2> QED
    BY <2>1 DEF VerifyReceipt, BlockHash
<1>5. CASE t = [r EXCEPT !.qc = other]
  <2>1. t.qc = other
    BY <1>5 DEF IsReceipt
  <2> QED
    BY <2>1 DEF VerifyReceipt, QuorumCertificateHash
<1>6. CASE t = [r EXCEPT !.id = other]
  <2>1. t.id = other
    BY <1>6 DEF IsReceipt
  <2> QED
    BY <2>1 DEF VerifyReceipt, ReceiptID
<1>7. CASE t = [r EXCEPT !.height = @ + 1]
  <2>1. t.height = r.height + 1 /\ t.commit = r.commit
    BY <1>7, SMTT(40) DEF IsReceipt
  <2> QED
    BY <1>1, <2>1 DEF VerifyReceipt, IsReceipt
<1>8. CASE t = [r EXCEPT !.version = 0]
  <2>1. t.version = 0 /\ t.commit = r.commit
    BY <1>8, SMTT(40) DEF IsReceipt
  <2> QED
    BY <1>1, <2>1 DEF VerifyReceipt, IsReceipt
<1>9. CASE t = [r EXCEPT !.version = 3 - @]
  <2>1. t.version = 3 - r.version /\ t.commit = r.commit
    BY <1>9, SMTT(40) DEF IsReceipt
  <2> QED
    BY <1>1, <2>1 DEF VerifyReceipt, IsReceipt
<1>10. CASE t = [r EXCEPT !.signerCount = @ - 1]
  <2>1. t.signerCount = r.signerCount - 1 /\ t.commit = r.commit
    BY <1>10, SMTT(40) DEF IsReceipt
  <2> QED
    BY <1>1, <2>1 DEF VerifyReceipt, IsReceipt
<1>11. CASE t = [r EXCEPT !.validators = {}]
  <2>1. t.validators = {} /\ t.commit = r.commit
    BY <1>11, SMTT(40) DEF IsReceipt
  <2> QED
    BY <1>1, <2>1 DEF VerifyReceipt, IsReceipt
<1>12. CASE t = [r EXCEPT !.commit.height = @ + 1]
  <2>1. t.commit.height = r.commit.height + 1 /\ t.height = r.height
    BY <1>12, SMTT(40) DEF IsReceipt
  <2> QED
    BY <1>1, <2>1 DEF VerifyReceipt, IsReceipt
<1>13. CASE t = [r EXCEPT !.commit.version = 3 - @]
  <2>1. t.commit.version = 3 - r.commit.version /\ t.version = r.version
    BY <1>13, SMTT(40) DEF IsReceipt
  <2> QED
    BY <1>1, <2>1 DEF VerifyReceipt, IsReceipt
<1>14. CASE t = [r EXCEPT !.commit.signers = {}]
  <2>1. t.commit.signers = {} /\ t.validators = r.validators
    BY <1>14 DEF IsReceipt
  <2>2. uniqueValidatorIDs(t.commit) = {}
    BY <2>1 DEF uniqueValidatorIDs
  <2> QED
    BY <2>1, <2>2 DEF VerifyReceipt, IsReceipt
<1> QED
  BY <1>2, <1>3, <1>4, <1>5, <1>6, <1>7, <1>8, <1>9, <1>10, <1>11, <1>12, <1>13, <1>14, SMTT(40)
  DEF altered

\* A receipt of a stored commit verifies at exactly the running nodes that know its
\* manifest, before and after they roll to another, and a receipt that differs from
\* it in one field verifies at none (NewReceipt, VerifyReceipt, verifyEvidenceReceipt).
THEOREM ReceiptsAreBound ==
  ASSUME MembershipAssumption PROVE MembershipSpec => []ReceiptsVerify
<1>1. MembershipInv => ReceiptsVerify
  <2> SUFFICES ASSUME MembershipInv,
                      NEW r \in UNION {{NewReceipt(i, chain[m][i]) : i \in DOMAIN chain[m]} :
                                          m \in Nodes},
                      NEW versions \in {knownManifests(n) : n \in up}
               PROVE  /\ verifyEvidenceReceipt(versions, r) <=> r.version \in versions
                      /\ \A t \in altered(r) : ~verifyEvidenceReceipt(versions, t)
    BY Zenon DEF ReceiptsVerify
  <2>1. PICK m \in Nodes : \E i \in DOMAIN chain[m] : r = NewReceipt(i, chain[m][i])
    OBVIOUS
  <2>2. PICK i \in DOMAIN chain[m] : r = NewReceipt(i, chain[m][i])
    BY <2>1
  <2>3. chain[m][i] \in Commit /\ i \in Nat
    BY DEF MembershipInv, Types
  <2>4. VerifyQuorumCertificate(chain[m][i])
    BY Zenon DEF MembershipInv, StoredInv, Stored
  <2>5. IsReceipt(r) /\ VerifyReceipt(r)
    BY <2>3, <2>4, <2>2, NewReceiptVerifies, Zenon
  <2>6. r.version # 0
    BY <2>5 DEF IsReceipt
  <2>7. verifyEvidenceReceipt(versions, r) <=> r.version \in versions
    BY <2>5, <2>6, Zenon DEF verifyEvidenceReceipt, membershipSetForReceipt, membershipSet
  <2>8. \A t \in altered(r) : ~verifyEvidenceReceipt(versions, t)
    BY <2>5, AlteredFails, Zenon DEF verifyEvidenceReceipt
  <2> QED
    BY <2>7, <2>8
<1> QED
  BY <1>1, MembershipInvariant, PTL

================================================================================
