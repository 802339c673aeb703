---------------------------- MODULE ValidatorProofs ----------------------------
(***************************************************************************)
(* Proofs about Validator: a threshold with 2 * Threshold > N + MaxRestarts  *)
(* makes certificates unique and the committed chains agree and implement the *)
(* abstract ledger, for every validator set, every number of rounds and blocks *)
(* and every interleaving.                                                   *)
(***************************************************************************)
EXTENDS ValidatorChain

--------------------------------------------------------------------------------
(* Quorums and firm certificates.                                           *)

\* Any two quorums share a validator outside a set of at most MaxRestarts ones.
LEMMA QuorumIntersection ==
  ASSUME SafeThreshold,
         NEW P, P \subseteq Validators, Cardinality(P) >= Threshold,
         NEW Q, Q \subseteq Validators, Cardinality(Q) >= Threshold,
         NEW R, R \subseteq Validators, Cardinality(R) <= MaxRestarts
  PROVE  \E n \in P \cap Q : n \notin R
<1>1. /\ IsFiniteSet(P) /\ IsFiniteSet(Q) /\ IsFiniteSet(R)
      /\ IsFiniteSet(P \cap Q) /\ IsFiniteSet(P \cup Q)
      /\ Cardinality(P \cup Q) <= N
  BY ValidatorsAssumption, FS_Subset DEF N
<1>2. /\ Cardinality(P) \in Nat /\ Cardinality(Q) \in Nat /\ Cardinality(R) \in Nat
      /\ Cardinality(P \cap Q) \in Nat /\ Cardinality(P \cup Q) \in Nat
  BY <1>1, FS_CardinalityType
<1>3. Cardinality(P \cup Q) = Cardinality(P) + Cardinality(Q) - Cardinality(P \cap Q)
  BY <1>1, FS_Union
<1>4. Cardinality(P \cap Q) > MaxRestarts
  BY <1>1, <1>2, <1>3, ValidatorsAssumption, BoundsAssumption DEF SafeThreshold
<1>5. ~ (P \cap Q \subseteq R)
  BY <1>1, <1>2, <1>4, FS_Subset, BoundsAssumption
<1> QED
  BY <1>5

LEMMA FirmUnique ==
  ASSUME SafeThreshold, TypeOK, Cardinality(restarted) <= MaxRestarts,
         NEW x \in Hash, NEW y \in Hash, FirmlyCertified(x), FirmlyCertified(y),
         block[x].height = block[y].height
  PROVE  x = y
<1>1. SoleVoters(x) \subseteq Validators /\ SoleVoters(y) \subseteq Validators
  BY DEF SoleVoters, Voters
<1>2. restarted \subseteq Validators
  BY DEF TypeOK
<1>3. PICK n \in SoleVoters(x) \cap SoleVoters(y) : n \notin restarted
  BY <1>1, <1>2, QuorumIntersection DEF FirmlyCertified
<1> QED
  BY <1>3 DEF SoleVoters

LEMMA VotersFinite ==
  ASSUME NEW x
  PROVE  /\ Voters("precommit", x) \subseteq Validators
         /\ SoleVoters(x) \subseteq Voters("precommit", x)
         /\ IsFiniteSet(Voters("precommit", x)) /\ IsFiniteSet(SoleVoters(x))
         /\ Cardinality(SoleVoters(x)) <= Cardinality(Voters("precommit", x))
         /\ Cardinality(SoleVoters(x)) \in Nat
         /\ Cardinality(Voters("precommit", x)) \in Nat
<1>1. Voters("precommit", x) \subseteq Validators
      /\ SoleVoters(x) \subseteq Voters("precommit", x)
  BY DEF Voters, SoleVoters
<1>2. IsFiniteSet(Voters("precommit", x))
  BY <1>1, FS_Subset, ValidatorsAssumption
<1>3. IsFiniteSet(SoleVoters(x))
      /\ Cardinality(SoleVoters(x)) <= Cardinality(Voters("precommit", x))
  BY <1>1, <1>2, FS_Subset
<1> QED
  BY <1>1, <1>2, <1>3, FS_CardinalityType

LEMMA FirmIsCertified ==
  ASSUME NEW x, FirmlyCertified(x)
  PROVE  Certified(x)
  BY VotersFinite, BoundsAssumption
     DEF FirmlyCertified, Certified, VerifyQuorumCertificate

\* A set of voters that only grows keeps its quorum.
LEMMA FirmGrows ==
  ASSUME NEW x, FirmlyCertified(x), block'[x] # NoBlock,
         SoleVoters(x) \subseteq SoleVoters(x)'
  PROVE  FirmlyCertified(x)' /\ Certified(x)'
<1> DEFINE S == SoleVoters(x)'
           V == Voters("precommit", x)'
<1>1. S \subseteq V /\ V \subseteq Validators
  BY DEF SoleVoters, Voters
<1> HIDE DEF S, V
<1>2. IsFiniteSet(S) /\ IsFiniteSet(V) /\ Cardinality(S) <= Cardinality(V)
  BY <1>1, FS_Subset, ValidatorsAssumption
<1>3. Cardinality(SoleVoters(x)) <= Cardinality(S)
  BY <1>2, FS_Subset DEF S
<1>4. /\ Cardinality(S) \in Nat /\ Cardinality(V) \in Nat
      /\ Cardinality(SoleVoters(x)) \in Nat
  BY <1>2, VotersFinite, FS_CardinalityType
<1>5. Cardinality(S) >= Threshold /\ Cardinality(V) >= Threshold
  BY <1>2, <1>3, <1>4, BoundsAssumption DEF FirmlyCertified
<1> QED
  BY <1>5 DEF FirmlyCertified, Certified, VerifyQuorumCertificate, S, V

--------------------------------------------------------------------------------
(* Preservation of SafetyInv, by kind of step.                              *)

LEMMA SavedStays ==
  ASSUME NEW n \in Validators, SavedAhead(n), commits'[n] = commits[n],
         saved'[n] = saved[n],
         \A x \in Hash : Certified(x) => Certified(x)',
         \A x \in Hash, h \in Nat : BuiltAt(x, h) => BuiltAt(x, h)',
         NextHeight(n) \in Nat
  PROVE  SavedAhead(n)'
<1>1. NextHeight(n)' = NextHeight(n)
  BY DEF NextHeight
<1>2. CASE saved[n] = commits[n]
  BY <1>2 DEF SavedAhead
<1>3. ASSUME NEW x \in Hash, BuiltAt(x, NextHeight(n)), Certified(x),
             saved[n] = Append(commits[n], x)
      PROVE  SavedAhead(n)'
  <2>1. Certified(x)' /\ BuiltAt(x, NextHeight(n))'
    BY <1>1, <1>3 DEF BuiltAt
  <2> QED
    BY <1>3, <2>1 DEF SavedAhead
<1> QED
  BY <1>2, <1>3 DEF SavedAhead

\* Steps that sign no precommit, move no lock and apply no commit.
LEMMA FrameStep ==
  ASSUME TypeOK, TypeOK', SafetyInv,
         \A x \in Hash : block[x] # NoBlock => block'[x] = block[x],
         \A n \in Validators, x \in Hash :
           [voter |-> n, stage |-> "precommit", hash |-> x] \in signed' <=>
             [voter |-> n, stage |-> "precommit", hash |-> x] \in signed,
         \A n \in Validators : \A v \in votes'[n] :
           [voter |-> n, stage |-> v.stage, hash |-> v.hash] \in signed',
         lock' = lock, commits' = commits, saved' = saved, restarted' = restarted
  PROVE  SafetyInv'
<1>1. \A x \in Hash : Voters("precommit", x)' = Voters("precommit", x)
  BY DEF Voters
<1>2. \A x \in Hash : \A n \in Voters("precommit", x) : block[x] # NoBlock
  BY DEF Voters, TypeOK
<1>3. ASSUME NEW x \in Hash, block[x] # NoBlock
      PROVE  SoleVoters(x)' = SoleVoters(x)
  <2>1. \A y \in Hash : \A n \in Voters("precommit", y) : block'[y] = block[y]
    BY <1>2
  <2>2. block'[x] = block[x]
    BY <1>3
  <2> QED
    BY <1>1, <2>1, <2>2 DEF SoleVoters
<1>4. \A x \in Hash : FirmlyCertified(x) => FirmlyCertified(x)'
  BY <1>3 DEF FirmlyCertified
<1>5. ASSUME NEW x \in Hash, Certified(x)'
      PROVE  Certified(x)
  <2>1. Cardinality(Voters("precommit", x)) >= Threshold
    BY <1>1, <1>5 DEF Certified, VerifyQuorumCertificate
  <2>2. Voters("precommit", x) # {}
    BY <2>1, FS_EmptySet, BoundsAssumption
  <2> QED
    BY <1>2, <2>1, <2>2 DEF Certified, VerifyQuorumCertificate
<1>6. \A x \in Hash : Certified(x) => Certified(x)'
  BY <1>1 DEF Certified, VerifyQuorumCertificate
<1>7. CertificatesFirm'
  BY <1>4, <1>5 DEF SafetyInv, CertificatesFirm
<1>8. \A x, h : BuiltAt(x, h) => BuiltAt(x, h)'
  BY DEF BuiltAt
<1>9. VotesSigned'
  BY DEF VotesSigned
<1>10. LocksBuilt'
  BY <1>8 DEF SafetyInv, LocksBuilt
<1>11. AppliedCertified'
  <2>1. \A n \in Validators : \A i \in 1 .. Len(commits[n]) :
          (BuiltAt(commits[n][i], i) /\ Certified(commits[n][i]))'
    BY <1>6, <1>8 DEF SafetyInv, AppliedCertified, BuiltAt
  <2> QED
    BY <2>1 DEF AppliedCertified
<1>12. LocksCoverPrecommits'
  <2> SUFFICES ASSUME NEW n \in Validators, n \notin restarted, NEW x \in Hash,
                      n \in Voters("precommit", x)
               PROVE  /\ block[x].height <= NextHeight(n)
                      /\ block[x].height = NextHeight(n) =>
                           /\ lock[n].height = block[x].height
                           /\ lock[n].hash = x \/ FirmlyCertified(lock[n].hash)'
    BY <1>1, <1>2 DEF LocksCoverPrecommits, NextHeight
  <2>1. /\ block[x].height <= NextHeight(n)
        /\ block[x].height = NextHeight(n) =>
             /\ lock[n].height = block[x].height
             /\ lock[n].hash = x \/ FirmlyCertified(lock[n].hash)
    BY Zenon DEF SafetyInv, LocksCoverPrecommits
  <2>2. block[x].height # 0
    BY <1>2, Zenon DEF TypeOK, Block
  <2>3. block[x].height = NextHeight(n) => lock[n].hash \in Hash
    BY <2>1, <2>2, Zenon DEF SafetyInv, LocksBuilt, BuiltAt
  <2> QED
    BY <1>4, <2>1, <2>3
<1>13. DoubleVotesCovered'
  <2> SUFFICES ASSUME NEW n \in Validators, n \notin restarted,
                      NEW x \in Hash, NEW y \in Hash,
                      n \in Voters("precommit", x), n \in Voters("precommit", y),
                      x # y, block[x].height = block[y].height
               PROVE  FirmlyCertified(x)' \/ FirmlyCertified(y)'
    BY <1>1, <1>2 DEF DoubleVotesCovered
  <2> QED
    BY <1>4 DEF SafetyInv, DoubleVotesCovered
<1>14. RestartsBounded'
  BY Zenon DEF SafetyInv, RestartsBounded
<1>15. AllSavedAhead'
  BY <1>6, <1>8, SavedStays, LastHashType DEF SafetyInv, AllSavedAhead
<1> QED
  BY <1>7, <1>9, <1>10, <1>11, <1>12, <1>13, <1>14, <1>15, Zenon DEF SafetyInv

\* A validator signs a precommit for a block at its next height.  If it keeps its
\* memory and has precommitted another block there, checkLock lets it through only
\* because its lock has moved to x, and then x is firmly certified already.
LEMMA PrecommitStep ==
  ASSUME SafeThreshold, TypeOK, TypeOK', SafetyInv,
         NEW n \in Validators, NEW x \in Hash, block[x] # NoBlock,
         block[x].height = NextHeight(n),
         castVote(n, x, block[x], "precommit"),
         block' = block, commits' = commits, saved' = saved, restarted' = restarted
  PROVE  SafetyInv'
<1> DEFINE h == block[x].height
<1>1. /\ Voters("precommit", x)' = Voters("precommit", x) \cup {n}
      /\ \A y \in Hash : y # x => Voters("precommit", y)' = Voters("precommit", y)
  BY DEF castVote, Voters
<1>2. h \in Nat \ {0}
  BY BuiltType
<1>3. lock[n].height = h => lock[n].hash = x
  BY DEF castVote, checkLock
<1> HIDE DEF h
<1>4. Cardinality(restarted) <= MaxRestarts
  BY DEF SafetyInv, RestartsBounded
<1>5. ASSUME n \notin restarted, NEW z \in Hash, z # x,
             n \in Voters("precommit", z), block[z].height = h
      PROVE  lock[n].height = h /\ lock[n].hash = x /\ FirmlyCertified(x)
  BY <1>3, <1>5 DEF SafetyInv, LocksCoverPrecommits, h
<1>6. ASSUME NEW y \in Hash, FirmlyCertified(y)
      PROVE  FirmlyCertified(y)' /\ Certified(y)'
  <2>1. ASSUME NEW m \in SoleVoters(y), m \notin restarted, NEW z \in Hash,
               m \in Voters("precommit", z)', block[z].height = block[y].height
        PROVE  z = y
    <3>1. CASE m \in Voters("precommit", z)
      BY <2>1, <3>1 DEF SoleVoters
    <3>2. CASE m = n /\ z = x /\ z # y
      <4>1. n \in Voters("precommit", y) /\ n \notin restarted /\ block[y].height = h
        BY <2>1, <3>2 DEF SoleVoters, h
      <4>2. FirmlyCertified(x) /\ block[x].height = block[y].height
        BY <1>5, <3>2, <4>1 DEF h
      <4> QED
        BY <1>4, <1>6, <3>2, <4>2, FirmUnique
    <3> QED
      BY <1>1, <2>1, <3>1, <3>2
  <2>2. SoleVoters(y) \subseteq Voters("precommit", y)'
    BY <1>1 DEF SoleVoters
  <2>3. SoleVoters(y) \subseteq SoleVoters(y)'
    BY <2>1, <2>2 DEF SoleVoters
  <2> QED
    BY <1>6, <2>3, FirmGrows DEF FirmlyCertified
<1>7. ASSUME NEW y \in Hash, Certified(y)'
      PROVE  FirmlyCertified(y)'
  <2>1. CASE Certified(y)
    BY <1>6, <2>1 DEF SafetyInv, CertificatesFirm
  <2>2. CASE ~ Certified(y)
    <3>1. y = x
      BY <1>1, <1>7, <2>2 DEF Certified, VerifyQuorumCertificate
    <3>2. ~ FirmlyCertified(x)
      BY <2>2, <3>1, FirmIsCertified
    <3>3. ASSUME NEW m \in Voters("precommit", x)', m \notin restarted,
                 NEW z \in Hash, m \in Voters("precommit", z)',
                 block[z].height = block[x].height, z # x
          PROVE  FALSE
      <4>1. m \in Voters("precommit", z)
        BY <1>1, <3>3
      <4>2. CASE m = n
        BY <1>5, <3>2, <3>3, <4>1, <4>2 DEF h
      <4>3. CASE m \in Voters("precommit", x)
        <5>1. m \in Validators
          BY <4>3 DEF Voters
        <5>2. FirmlyCertified(z)
          BY <3>2, <3>3, <4>1, <4>3, <5>1 DEF SafetyInv, DoubleVotesCovered
        <5>3. FirmlyCertified(z)'
          BY <1>6, <5>2
        <5>4. /\ Cardinality(SoleVoters(z)') >= Threshold
              /\ SoleVoters(z)' \subseteq Validators
              /\ Cardinality(Voters("precommit", x)') >= Threshold
              /\ Voters("precommit", x)' \subseteq Validators
          BY <1>7, <3>1, <5>3
             DEF FirmlyCertified, Certified, VerifyQuorumCertificate, SoleVoters, Voters
        <5>5. PICK k \in SoleVoters(z)' \cap Voters("precommit", x)' : k \notin restarted
          <6> DEFINE P == SoleVoters(z)'
                     Q == Voters("precommit", x)'
          <6>1. restarted \subseteq Validators
            BY DEF TypeOK
          <6> HIDE DEF P, Q
          <6>2. \E k \in P \cap Q : k \notin restarted
            BY <1>4, <5>4, <6>1, QuorumIntersection DEF P, Q
          <6> QED
            BY <6>2 DEF P, Q
        <5> QED
          BY <3>3, <5>5 DEF SoleVoters
      <4> QED
        BY <1>1, <3>3, <4>2, <4>3
    <3>4. SoleVoters(x)' = Voters("precommit", x)'
      BY <3>3 DEF SoleVoters
    <3> QED
      BY <1>7, <3>1, <3>4 DEF FirmlyCertified, Certified, VerifyQuorumCertificate
  <2> QED
    BY <2>1, <2>2
<1>8. VotesSigned'
  <2> SUFFICES ASSUME NEW m \in Validators, NEW v \in votes'[m]
               PROVE  [voter |-> m, stage |-> v.stage, hash |-> v.hash] \in signed'
    BY DEF VotesSigned
  <2>1. v \in votes[m] \/ (m = n /\ v = [stage |-> "precommit", hash |-> x])
    BY Zenon DEF castVote, TypeOK
  <2> QED
    BY <2>1 DEF castVote, SafetyInv, VotesSigned
<1>9. \A m \in Validators :
        \/ lock'[m] = lock[m]
        \/ m = n /\ lock'[m] = LockOn(x, block[x])
  BY Zenon DEF castVote, TypeOK
<1>10. LocksBuilt'
  <2>1. BuiltAt(x, h)
    BY DEF BuiltAt, h
  <2>2. \A y, k : BuiltAt(y, k)' <=> BuiltAt(y, k)
    BY DEF BuiltAt
  <2>3. \A m \in Validators : lock[m].height # 0 => BuiltAt(lock[m].hash, lock[m].height)
    BY DEF SafetyInv, LocksBuilt
  <2>4. LockOn(x, block[x]).height = h /\ LockOn(x, block[x]).hash = x
    BY DEF LockOn, h
  <2> QED
    BY <1>9, <2>1, <2>2, <2>3, <2>4 DEF LocksBuilt
<1>11. AppliedCertified'
  <2>1. \A y \in Hash : Certified(y) => Certified(y)'
    BY <1>6 DEF SafetyInv, CertificatesFirm
  <2>2. \A m \in Validators : \A i \in 1 .. Len(commits[m]) :
          (BuiltAt(commits[m][i], i) /\ Certified(commits[m][i]))'
    BY <2>1, Zenon DEF SafetyInv, AppliedCertified, BuiltAt
  <2> QED
    BY <2>2 DEF AppliedCertified
<1>12. LocksCoverPrecommits'
  <2> SUFFICES ASSUME NEW m \in Validators, m \notin restarted, NEW y \in Hash,
                      m \in Voters("precommit", y)'
               PROVE  /\ block[y].height <= NextHeight(m)
                      /\ block[y].height = NextHeight(m) =>
                           /\ lock'[m].height = block[y].height
                           /\ lock'[m].hash = y \/ FirmlyCertified(lock[m].hash)'
    BY Zenon DEF LocksCoverPrecommits, NextHeight
  <2>1. CASE m \in Voters("precommit", y) /\ lock'[m] = lock[m]
    <3>1. /\ block[y].height <= NextHeight(m)
          /\ block[y].height = NextHeight(m) =>
               /\ lock[m].height = block[y].height
               /\ lock[m].hash = y \/ FirmlyCertified(lock[m].hash)
      BY <2>1, SMTT(20) DEF SafetyInv, LocksCoverPrecommits
    <3>2. block[y].height # 0
      BY <2>1, VotedType, Zenon
    <3>3. block[y].height = NextHeight(m) => lock[m].hash \in Hash
      BY <3>1, <3>2, Zenon DEF SafetyInv, LocksBuilt, BuiltAt
    <3> QED
      BY <1>6, <2>1, <3>1, <3>3, Zenon
  <2>2. CASE m = n /\ lock'[n] = LockOn(x, block[x])
    <3>1. lock'[n].height = h /\ lock'[n].hash = x /\ h = NextHeight(n)
      BY <2>2 DEF LockOn, h
    <3>2. CASE y = x
      BY <1>2, <2>2, <3>1, <3>2 DEF h
    <3>3. CASE y # x
      <4>1. n \in Voters("precommit", y)
        BY <1>1, <2>2, <3>3, Zenon
      <4>2. block[y].height <= NextHeight(n)
        BY <2>2, <4>1, Zenon DEF SafetyInv, LocksCoverPrecommits
      <4>3. block[y].height = h => FirmlyCertified(x)'
        BY <1>5, <1>6, <2>2, <3>3, <4>1, Zenon
      <4> QED
        BY <2>2, <3>1, <4>2, <4>3, Zenon
    <3> QED
      BY <3>2, <3>3, Zenon
  <2>3. CASE m \notin Voters("precommit", y) /\ lock'[m] = lock[m]
    <3>1. m = n /\ y = x
      BY <1>1, <2>3, Zenon
    <3>2. [stage |-> "precommit", hash |-> x] \notin votes[n]
      BY <2>3, <3>1, SMTT(20), Zenon DEF SafetyInv, VotesSigned, Voters
    <3>3. lock'[n] = LockOn(x, block[x])
      BY <3>2 DEF castVote, TypeOK
    <3> QED
      BY <2>2, <3>1, <3>3, Zenon
  <2> QED
    BY <1>9, <2>1, <2>2, <2>3, Zenon
<1>13. DoubleVotesCovered'
  <2> SUFFICES ASSUME NEW m \in Validators, m \notin restarted,
                      NEW y \in Hash, NEW z \in Hash,
                      m \in Voters("precommit", y)', m \in Voters("precommit", z)',
                      y # z, block[y].height = block[z].height
               PROVE  FirmlyCertified(y)' \/ FirmlyCertified(z)'
    BY DEF DoubleVotesCovered
  <2>1. CASE m \in Voters("precommit", y) /\ m \in Voters("precommit", z)
    BY <1>6, <2>1, Zenon DEF SafetyInv, DoubleVotesCovered
  <2>2. CASE m = n /\ (y = x \/ z = x)
    BY <1>1, <1>5, <1>6, <2>2 DEF h
  <2> QED
    BY <1>1, <2>1, <2>2
<1>14. RestartsBounded'
  BY <1>4, Zenon DEF RestartsBounded
<1>15. AllSavedAhead'
  <2>1. \A y \in Hash : Certified(y) => Certified(y)'
    BY <1>6 DEF SafetyInv, CertificatesFirm
  <2>2. \A y \in Hash, k \in Nat : BuiltAt(y, k) => BuiltAt(y, k)'
    BY DEF BuiltAt
  <2> QED
    BY <2>1, <2>2, SavedStays, LastHashType, Zenon DEF SafetyInv, AllSavedAhead
<1>16. CertificatesFirm'
  BY <1>7 DEF CertificatesFirm
<1> QED
  BY <1>16, <1>8, <1>10, <1>11, <1>12, <1>13, <1>14, <1>15, Zenon DEF SafetyInv

--------------------------------------------------------------------------------
(* Commits and restarts.                                                    *)

LEMMA AppliedStays ==
  ASSUME block' = block, signed' = signed,
         \A m \in Validators : \A i \in 1 .. Len(commits'[m]) :
           BuiltAt(commits'[m][i], i) /\ Certified(commits'[m][i])
  PROVE  AppliedCertified'
<1>1. \A x, k : BuiltAt(x, k)' <=> BuiltAt(x, k)
  BY DEF BuiltAt
<1>2. \A x : Certified(x)' <=> Certified(x)
  BY DEF Certified, VerifyQuorumCertificate, Voters
<1> QED
  BY <1>1, <1>2 DEF AppliedCertified

\* A validator applies a certified block at its next height, or moves its lock to
\* it and fails to save it.
LEMMA CommitStep ==
  ASSUME TypeOK, TypeOK', SafetyInv,
         NEW n \in Validators, NEW x \in Hash, ApplyCommit(n, x), restarted' = restarted
  PROVE  SafetyInv'
<1>1. block' = block /\ signed' = signed /\ votes' = votes
  BY DEF ApplyCommit, network
<1>2. \A y : /\ Voters("precommit", y)' = Voters("precommit", y)
             /\ FirmlyCertified(y)' <=> FirmlyCertified(y)
             /\ Certified(y)' <=> Certified(y)
             /\ \A h : BuiltAt(y, h)' <=> BuiltAt(y, h)
  BY <1>1 DEF Voters, FirmlyCertified, SoleVoters, Certified, VerifyQuorumCertificate,
              BuiltAt
<1>3. /\ block[x] # NoBlock
      /\ block[x].height = NextHeight(n)
      /\ Certified(x)
  BY CanApplyBuilt DEF ApplyCommit, canApply, verifyCommit, Certified
<1>4. FirmlyCertified(x) /\ BuiltAt(x, NextHeight(n))
  BY <1>3, Zenon DEF SafetyInv, CertificatesFirm, BuiltAt
<1>5. /\ lock'[n].height = NextHeight(n)
      /\ lock'[n].hash = x
      /\ \A m \in Validators : m # n => lock'[m] = lock[m]
  BY <1>3, Zenon DEF ApplyCommit, LockOn, TypeOK
<1>6. \/ commits' = commits
      \/ commits' = [commits EXCEPT ![n] = Append(@, x)]
  BY DEF ApplyCommit, saveCommit, saveFails
<1>7. \A m \in Validators :
        /\ commits[m] \in Seq(Hash)
        /\ commits'[m] = commits[m] \/ (m = n /\ commits'[m] = Append(commits[m], x))
  BY <1>6, LedgerType, Zenon
<1>8. VotesSigned' /\ RestartsBounded'
  BY <1>1 DEF SafetyInv, VotesSigned, RestartsBounded
<1>14. AllSavedAhead'
  <2>1. \A m \in Validators : m # n => SavedAhead(m)'
    <3>1. \A m \in Validators : m # n => saved'[m] = saved[m] /\ commits'[m] = commits[m]
      BY LedgerType DEF ApplyCommit, saveCommit, saveFails
    <3> QED
      BY <1>2, <3>1, SavedStays, LastHashType, Zenon DEF SafetyInv, AllSavedAhead
  <2>2. CASE commits' = commits /\ saved'[n] = saved[n]
    BY <1>2, <2>1, <2>2, SavedStays, LastHashType, Zenon DEF SafetyInv, AllSavedAhead
  <2>3. CASE commits' = commits /\ saved'[n] = Append(commits[n], x)
    <3>1. NextHeight(n)' = NextHeight(n)
      BY <2>3, Zenon DEF NextHeight
    <3>2. BuiltAt(x, NextHeight(n))' /\ Certified(x)'
      BY <1>2, <1>3, <1>4, <3>1, Zenon DEF BuiltAt
    <3> QED
      BY <2>1, <2>3, <3>2 DEF SavedAhead, AllSavedAhead
  <2>4. CASE commits'[n] = saved'[n]
    BY <2>1, <2>4, Zenon DEF SavedAhead, AllSavedAhead
  <2>5. \/ commits' = commits /\ saved'[n] = saved[n]
        \/ commits' = commits /\ saved'[n] = Append(commits[n], x)
        \/ commits'[n] = saved'[n]
    <3>1. n \in DOMAIN saved /\ n \in DOMAIN commits
      BY DEF TypeOK
    <3>2. CASE saveCommit(n, x)
      BY <3>1, <3>2 DEF saveCommit
    <3>3. CASE saveFails(n, x)
      BY <3>1, <3>3, Zenon DEF saveFails
    <3> QED
      BY <3>2, <3>3, Zenon DEF ApplyCommit
  <2> QED
    BY <2>2, <2>3, <2>4, <2>5, Zenon
<1>9. LocksBuilt'
  BY <1>2, <1>4, <1>5, Zenon DEF SafetyInv, LocksBuilt
<1>10. AppliedCertified'
  <2> SUFFICES ASSUME NEW m \in Validators, NEW i \in 1 .. Len(commits'[m])
               PROVE  BuiltAt(commits'[m][i], i) /\ Certified(commits'[m][i])
    BY <1>1, AppliedStays
  <2>1. CASE i \in 1 .. Len(commits[m]) /\ commits'[m][i] = commits[m][i]
    BY <2>1 DEF SafetyInv, AppliedCertified
  <2>2. CASE m = n /\ i = NextHeight(n) /\ commits'[m][i] = x
    BY <1>3, <1>4, <2>2, Zenon
  <2> QED
    BY <1>7, <2>1, <2>2 DEF NextHeight
<1>11. LocksCoverPrecommits'
  <2> SUFFICES ASSUME NEW m \in Validators, m \notin restarted, NEW y \in Hash,
                      m \in Voters("precommit", y)
               PROVE  /\ block[y].height <= NextHeight(m)'
                      /\ block[y].height = NextHeight(m)' =>
                           /\ lock'[m].height = block[y].height
                           /\ lock'[m].hash = y \/ FirmlyCertified(lock[m].hash)'
    BY <1>1, <1>2 DEF LocksCoverPrecommits
  <2>1. /\ block[y].height <= NextHeight(m)
        /\ block[y].height = NextHeight(m) =>
             /\ lock[m].height = block[y].height
             /\ lock[m].hash = y \/ FirmlyCertified(lock[m].hash)
    BY DEF SafetyInv, LocksCoverPrecommits
  <2>2. block[y].height \in Nat
    BY VotedType, Zenon
  <2>3. CASE commits'[m] = commits[m]
    <3>1. NextHeight(m)' = NextHeight(m)
      BY <2>3, Zenon DEF NextHeight
    <3>2. CASE m = n
      BY <1>2, <1>4, <1>5, <2>1, <3>1, <3>2, Zenon
    <3>3. CASE m # n
      BY <1>2, <1>5, <2>1, <3>1, <3>3, Zenon
    <3> QED
      BY <3>2, <3>3
  <2>4. CASE commits'[m] = Append(commits[m], x)
    <3>1. NextHeight(m)' = NextHeight(m) + 1 /\ NextHeight(m) \in Nat
      BY <1>7, <2>4 DEF NextHeight
    <3> QED
      BY <2>1, <2>2, <3>1
  <2> QED
    BY <1>7, <2>3, <2>4, Zenon
<1>12. CertificatesFirm'
  BY <1>2 DEF SafetyInv, CertificatesFirm
<1>13. DoubleVotesCovered'
  BY <1>1, <1>2 DEF SafetyInv, DoubleVotesCovered
<1> QED
  BY <1>8, <1>9, <1>10, <1>11, <1>12, <1>13, <1>14, Zenon DEF SafetyInv

\* A restart only removes a validator from those the invariant speaks of.
LEMMA RestartStep ==
  ASSUME TypeOK, TypeOK', SafetyInv, NEW n \in Validators, Restart(n)
  PROVE  SafetyInv'
<1>1. /\ block' = block /\ signed' = signed /\ saved' = saved
      /\ commits' = [commits EXCEPT ![n] = saved[n]]
      /\ restarted' = restarted \cup {n}
      /\ Cardinality(restarted') <= MaxRestarts
  BY DEF Restart, network
<1>2. \A y : /\ Voters("precommit", y)' = Voters("precommit", y)
             /\ Certified(y)' <=> Certified(y)
             /\ \A h : BuiltAt(y, h)' <=> BuiltAt(y, h)
  BY <1>1 DEF Voters, Certified, VerifyQuorumCertificate, BuiltAt
<1>3. ASSUME NEW y \in Hash, FirmlyCertified(y)
      PROVE  FirmlyCertified(y)'
  <2>1. SoleVoters(y) \subseteq SoleVoters(y)'
    BY <1>1, <1>2, Zenon DEF SoleVoters
  <2> QED
    BY <1>1, <1>3, <2>1, FirmGrows, Zenon DEF FirmlyCertified
<1>4. VotesSigned'
  BY <1>1, Zenon DEF Restart, SafetyInv, VotesSigned, TypeOK
<1>5. LocksBuilt'
  <2>1. ASSUME NEW m \in Validators, m # n, lock'[m].height # 0
        PROVE  BuiltAt(lock[m].hash, lock[m].height)'
    <3>1. lock'[m] = lock[m]
      BY <2>1, LedgerType DEF Restart
    <3>2. BuiltAt(lock[m].hash, lock[m].height)
      BY <2>1, <3>1 DEF SafetyInv, LocksBuilt
    <3> QED
      BY <1>1, <3>1, <3>2, Zenon DEF BuiltAt
  <2>2. ASSUME lock'[n].height # 0
        PROVE  BuiltAt(lock[n].hash, lock[n].height)'
    <3> DEFINE last == saved[n][Len(saved[n])]
    <3>1. saved[n] # << >> /\ lock'[n] = LockOn(last, block[last])
      BY <2>2, Zenon DEF Restart, TypeOK, NoLock
    <3>2. saved[n] \in Seq(Hash) /\ Len(saved[n]) \in 1 .. Len(saved[n])
      BY <3>1 DEF TypeOK
    <3>3. last \in Hash /\ block[last] # NoBlock
      BY <3>2, SavedBuilt
    <3> HIDE DEF last
    <3>4. lock'[n].hash = last /\ lock'[n].height = block[last].height
      BY <3>1 DEF LockOn
    <3>5. BuiltAt(last, block[last].height)
      BY <3>3, Zenon DEF BuiltAt
    <3> QED
      BY <1>1, <3>4, <3>5, Zenon DEF BuiltAt
  <2> QED
    BY <2>1, <2>2 DEF LocksBuilt
<1>6. AppliedCertified'
  <2> SUFFICES ASSUME NEW m \in Validators, NEW i \in 1 .. Len(commits'[m])
               PROVE  BuiltAt(commits'[m][i], i) /\ Certified(commits'[m][i])
    BY <1>1, AppliedStays
  <2>1. CASE i \in 1 .. Len(commits[m]) /\ commits'[m][i] = commits[m][i]
    BY <2>1, Zenon DEF SafetyInv, AppliedCertified
  <2>2. CASE m = n /\ saved[n] # commits[n]
    <3>1. PICK x \in Hash : BuiltAt(x, NextHeight(n)) /\ Certified(x)
                            /\ saved[n] = Append(commits[n], x)
      BY <2>2 DEF SafetyInv, AllSavedAhead, SavedAhead
    <3>2. commits'[m] = Append(commits[m], x) /\ commits[m] \in Seq(Hash)
      BY <1>1, <2>2, <3>1, LedgerType, Zenon
    <3>3. \/ i \in 1 .. Len(commits[m]) /\ commits'[m][i] = commits[m][i]
          \/ i = NextHeight(n) /\ commits'[m][i] = x
      BY <2>2, <3>2 DEF NextHeight
    <3> QED
      BY <2>1, <3>1, <3>3, Zenon
  <2> QED
    BY <1>1, <2>1, <2>2, LedgerType, Zenon
<1>7. RestartsBounded'
  BY <1>1, Zenon DEF RestartsBounded
<1>8. LocksCoverPrecommits'
  <2> SUFFICES ASSUME NEW m \in Validators, m \notin restarted, m # n, NEW y \in Hash,
                      m \in Voters("precommit", y)
               PROVE  /\ block[y].height <= NextHeight(m)
                      /\ block[y].height = NextHeight(m) =>
                           /\ lock[m].height = block[y].height
                           /\ lock[m].hash = y \/ FirmlyCertified(lock[m].hash)'
    <3>1. \A m \in Validators : m # n => lock'[m] = lock[m] /\ commits'[m] = commits[m]
      BY LedgerType, Zenon DEF Restart
    <3> QED
      BY <1>1, <1>2, <3>1, SMTT(20), Zenon DEF LocksCoverPrecommits, NextHeight
  <2>1. /\ block[y].height <= NextHeight(m)
        /\ block[y].height = NextHeight(m) =>
             /\ lock[m].height = block[y].height
             /\ lock[m].hash = y \/ FirmlyCertified(lock[m].hash)
    BY DEF SafetyInv, LocksCoverPrecommits
  <2>2. lock'[m] = lock[m] /\ block[y].height # 0
    <3>1. lock'[m] = lock[m]
      BY LedgerType, Zenon DEF Restart
    <3> QED
      BY <3>1, VotedType, Zenon
  <2>3. block[y].height = NextHeight(m) => lock[m].hash \in Hash
    BY <2>1, <2>2, Zenon DEF SafetyInv, LocksBuilt, BuiltAt
  <2>4. FirmlyCertified(lock[m].hash) /\ lock[m].hash \in Hash
          => FirmlyCertified(lock[m].hash)'
    <3> DEFINE l == lock[m].hash
    <3> SUFFICES ASSUME FirmlyCertified(l), l \in Hash PROVE FirmlyCertified(lock[m].hash)'
      OBVIOUS
    <3>1. PICK y0 \in Hash : y0 = l
      OBVIOUS
    <3>2. FirmlyCertified(y0)'
      BY <1>3, <3>1
    <3> QED
      BY <2>2, <3>1, <3>2, Zenon
  <2> QED
    BY <2>1, <2>3, <2>4, Zenon
<1>9. CertificatesFirm'
  BY <1>2, <1>3 DEF SafetyInv, CertificatesFirm
<1>10. DoubleVotesCovered'
  <2>1. block' = block /\ restarted \subseteq restarted'
    BY <1>1
  <2> QED
    BY <1>2, <1>3, <2>1 DEF SafetyInv, DoubleVotesCovered
<1>11. AllSavedAhead'
  <2> SUFFICES ASSUME NEW m \in Validators PROVE SavedAhead(m)'
    BY DEF AllSavedAhead
  <2>1. CASE m = n
    BY <1>1, <2>1, LedgerType, Zenon DEF SavedAhead
  <2>2. CASE m # n
    BY <1>1, <1>2, <2>2, LedgerType, SavedStays, LastHashType, Zenon DEF SafetyInv, AllSavedAhead
  <2> QED
    BY <2>1, <2>2
<1> QED
  BY <1>4, <1>5, <1>6, <1>7, <1>8, <1>9, <1>10, <1>11, Zenon DEF SafetyInv

--------------------------------------------------------------------------------
(* The inductive step.                                                      *)

LEMMA SafetyInductive ==
  ASSUME SafeThreshold, TypeOK, TypeOK', SafetyInv, [Next]_vars
  PROVE  SafetyInv'
<1>1. CASE UNCHANGED vars
  BY <1>1, FrameStep DEF vars, SafetyInv, VotesSigned
<1>2. ASSUME UNCHANGED << block, signed, votes, lock, commits, saved, restarted >>
      PROVE  SafetyInv'
  BY <1>2, FrameStep DEF SafetyInv, VotesSigned
<1>3. ASSUME NEW n \in Validators, (\E tx \in Payload : StartPropose(n, tx))
                \/ AskProposer(n) \/ ProposeNothing(n) \/ AbandonRound(n)
      PROVE  SafetyInv'
  BY <1>2, <1>3 DEF StartPropose, AskProposer, ProposeNothing, AbandonRound,
                    network, memory, ledger, bounds
<1>4. ASSUME NEW n \in Validators, NEW x \in Hash, castVote(n, x, block'[x], "prevote"),
             \A y \in Hash : block[y] # NoBlock => block'[y] = block[y],
             commits' = commits, saved' = saved, restarted' = restarted
      PROVE  SafetyInv'
  <2>1. signed' = signed \cup {[voter |-> n, stage |-> "prevote", hash |-> x]}
    BY <1>4 DEF castVote
  <2>2. \A m \in Validators, y \in Hash :
          [voter |-> m, stage |-> "precommit", hash |-> y] \in signed' <=>
            [voter |-> m, stage |-> "precommit", hash |-> y] \in signed
    BY <2>1, Zenon
  <2>3. \A m \in Validators : \A v \in votes'[m] :
          [voter |-> m, stage |-> v.stage, hash |-> v.hash] \in signed'
    <3> SUFFICES ASSUME NEW m \in Validators, NEW v \in votes'[m]
                 PROVE  [voter |-> m, stage |-> v.stage, hash |-> v.hash] \in signed'
      OBVIOUS
    <3>1. v \in votes[m] \/ (m = n /\ v = [stage |-> "prevote", hash |-> x])
      BY <1>4, Zenon DEF castVote, TypeOK
    <3> QED
      BY <2>1, <3>1 DEF SafetyInv, VotesSigned
  <2>4. lock' = lock
    BY <1>4 DEF castVote
  <2> QED
    BY <1>4, <2>2, <2>3, <2>4, FrameStep, Zenon
<1>5. ASSUME NEW n \in Validators, NEW x \in Hash, ProposeBlock(n, x)
      PROVE  SafetyInv'
  <2>1. /\ block' = [block EXCEPT ![x] = newBlock(n)]
        /\ block[x] = NoBlock
        /\ commits' = commits /\ saved' = saved /\ restarted' = restarted
        /\ castVote(n, x, newBlock(n), "prevote") \/ refuseVote
    BY <1>5, Zenon DEF ProposeBlock, ledger, bounds
  <2>2. block'[x] = newBlock(n) /\ \A y \in Hash : block[y] # NoBlock => block'[y] = block[y]
    BY <2>1 DEF TypeOK
  <2>3. CASE castVote(n, x, newBlock(n), "prevote")
    BY <1>4, <2>1, <2>2, <2>3, Zenon
  <2>4. CASE refuseVote
    BY <2>1, <2>2, <2>4, FrameStep, Zenon DEF refuseVote, SafetyInv, VotesSigned
  <2> QED
    BY <2>1, <2>3, <2>4
<1>6. ASSUME NEW n \in Validators, NEW x \in Hash, block[x] # NoBlock,
             validateProposal(n, x, block[x]),
             castVote(n, x, block[x], "precommit") \/ refuseVote,
             block' = block, UNCHANGED ledger, UNCHANGED bounds
      PROVE  SafetyInv'
  <2>1. CASE castVote(n, x, block[x], "precommit")
    BY <1>6, <2>1, PrecommitStep, Zenon DEF validateProposal, ledger, bounds
  <2>2. CASE refuseVote
    BY <1>2, <1>6, <2>2 DEF refuseVote, ledger, bounds
  <2> QED
    BY <1>6, <2>1, <2>2, Zenon
<1>7. ASSUME NEW n \in Validators, FormPrevoteQC(n)
      PROVE  SafetyInv'
  <2>1. session[n].hash \in Hash /\ block[session[n].hash] # NoBlock
    BY <1>7, Zenon DEF FormPrevoteQC, TypeOK
  <2> QED
    BY <1>6, <1>7, <2>1, Zenon DEF FormPrevoteQC
<1>8. ASSUME NEW n \in Validators, NEW x \in Hash, HandleProposal(n, x)
      PROVE  SafetyInv'
  BY <1>2, <1>4, <1>8 DEF HandleProposal, refuseVote, ledger, bounds
<1>9. ASSUME NEW n \in Validators, NEW x \in Hash, HandlePrecommit(n, x)
      PROVE  SafetyInv'
  BY <1>6, <1>9 DEF HandlePrecommit, Sent
<1>10. ASSUME NEW n \in Validators, ReceiveCommit(n)
       PROVE  SafetyInv'
  <2> DEFINE leader == ProposerFor(session[n].height, session[n].round)
  <2>1. PICK i \in 1 .. Len(commits[leader]) :
          \/ ApplyCommit(n, commits[leader][i])
          \/ UNCHANGED << network, memory, ledger >>
    BY <1>10 DEF ReceiveCommit
  <2>2. leader \in Validators
    BY <1>10, LeaderType
  <2>3. commits[leader][i] \in Hash
    BY <2>2, CommitsAreHashes, Zenon
  <2> HIDE DEF leader
  <2>4. restarted' = restarted
    BY <1>10, Zenon DEF ReceiveCommit, bounds
  <2>5. CASE ApplyCommit(n, commits[leader][i])
    BY <2>3, <2>4, <2>5, CommitStep, Zenon
  <2>6. CASE UNCHANGED << network, memory, ledger >>
    BY <1>2, <2>4, <2>6, Zenon DEF network, memory, ledger
  <2> QED
    BY <2>1, <2>5, <2>6, Zenon
<1>11. ASSUME NEW n \in Validators, FormPrecommitQC(n)
       PROVE  SafetyInv'
  <2>1. session[n].hash \in Hash
    BY <1>11, Zenon DEF FormPrecommitQC, TypeOK
  <2> QED
    BY <1>11, <2>1, CommitStep, Zenon DEF FormPrecommitQC, bounds
<1>12. ASSUME NEW n \in Validators, NEW x \in Hash, HandleCommit(n, x)
       PROVE  SafetyInv'
  BY <1>12, CommitStep DEF HandleCommit, bounds
<1>13. ASSUME NEW n \in Validators, NEW m \in Validators, CatchUp(n, m)
       PROVE  SafetyInv'
  <2>1. commits[m][NextHeight(n)] \in Hash
    BY <1>13, CaughtUpIsHash
  <2> QED
    BY <1>13, <2>1, CommitStep DEF CatchUp, bounds
<1>14. ASSUME NEW n \in Validators, Restart(n)
       PROVE  SafetyInv'
  BY <1>14, RestartStep, Zenon
<1> QED
  BY <1>1, <1>3, <1>5, <1>7, <1>8, <1>9, <1>10, <1>11, <1>12, <1>13, <1>14 DEF Next

--------------------------------------------------------------------------------
(* What the invariant says about certificates, chains and precommits.       *)

LEMMA SafetyAtInit == ASSUME Init PROVE SafetyInv
<1>1. \A x : Voters("precommit", x) = {}
  BY DEF Init, Voters
<1>2. \A x : ~ Certified(x)
  BY <1>1, FS_EmptySet, BoundsAssumption DEF Certified, VerifyQuorumCertificate
<1>3. Cardinality(restarted) <= MaxRestarts
  BY FS_EmptySet, BoundsAssumption DEF Init
<1> QED
  BY <1>1, <1>2, <1>3 DEF Init, SafetyInv, VotesSigned, LocksBuilt, AppliedCertified,
    AllSavedAhead, SavedAhead, RestartsBounded, LocksCoverPrecommits, CertificatesFirm,
    DoubleVotesCovered, NoLock

LEMMA SafetyImpliesUnique ==
  ASSUME SafeThreshold, TypeOK, SafetyInv
  PROVE  UniqueCertificate
BY FirmUnique, Zenon DEF SafetyInv, RestartsBounded, CertificatesFirm, UniqueCertificate

LEMMA SafetyImpliesAgreement ==
  ASSUME SafeThreshold, TypeOK, SafetyInv
  PROVE  Agreement
<1> SUFFICES ASSUME NEW n \in Validators, NEW m \in Validators,
                    NEW i \in 1 .. Len(commits[n]), i <= Len(commits[m])
             PROVE  commits[n][i] = commits[m][i]
  BY Zenon DEF Agreement
<1>1. i \in 1 .. Len(commits[m])
  BY DEF TypeOK
<1>2. /\ BuiltAt(commits[n][i], i) /\ Certified(commits[n][i])
      /\ BuiltAt(commits[m][i], i) /\ Certified(commits[m][i])
  BY <1>1, Zenon DEF SafetyInv, AppliedCertified
<1> QED
  BY <1>2, SafetyImpliesUnique, Zenon DEF UniqueCertificate, BuiltAt

\* The strengthened invariant holds of every behaviour of a deployment whose
\* threshold outnumbers the validators that lose their memory.
THEOREM SafetyInvariant == ASSUME SafeThreshold PROVE Spec => []SafetyInv
<1>1. Init => SafetyInv
  BY SafetyAtInit
<1>2. TypeOK /\ TypeOK' /\ SafetyInv /\ [Next]_vars => SafetyInv'
  BY SafetyInductive
<1> QED
  BY <1>1, <1>2, TypeCorrect, PTL DEF Spec

\* No two blocks of one height ever get a precommit certificate, for every number
\* of validators, rounds, blocks and restarts that SafeThreshold allows.
THEOREM CertificatesUnique == ASSUME SafeThreshold PROVE Spec => []UniqueCertificate
<1>1. TypeOK /\ SafetyInv => UniqueCertificate
  BY SafetyImpliesUnique, Zenon
<1> QED
  BY <1>1, TypeCorrect, SafetyInvariant, PTL

\* No two validators ever apply different blocks at one height.
THEOREM ValidatorsAgree == ASSUME SafeThreshold PROVE Spec => []Agreement
<1>1. TypeOK /\ SafetyInv => Agreement
  BY SafetyImpliesAgreement, Zenon
<1> QED
  BY <1>1, TypeCorrect, SafetyInvariant, PTL

\* A validator that kept its memory never precommits two blocks of one height
\* unless one of them is certified.
THEOREM PrecommitsGuarded == ASSUME SafeThreshold PROVE Spec => []PrecommitsOneBlock
<1>1. TypeOK /\ SafetyInv => PrecommitsOneBlock
  BY FirmIsCertified DEF SafetyInv, DoubleVotesCovered, PrecommitsOneBlock
<1> QED
  BY <1>1, TypeCorrect, SafetyInvariant, PTL

--------------------------------------------------------------------------------
(* The chains implement the abstract ledger.                                *)

\* A certified block added at its height is either decided on a longest chain or
\* learned from a longer one.
LEMMA AppendRefines ==
  ASSUME SafeThreshold, TypeOK, SafetyInv,
         NEW n \in Validators, NEW x \in Hash, BuiltAt(x, NextHeight(n)), Certified(x),
         commits' = [commits EXCEPT ![n] = Append(@, x)]
  PROVE  Chains!Next
<1>1. \A m \in Validators : commits[m] \in Seq(Hash) /\ Len(commits[m]) \in Nat
  BY DEF TypeOK
<1>2. CASE \E m \in Validators : Len(commits[m]) > Len(commits[n])
  <2>1. PICK m \in Validators : Len(commits[m]) > Len(commits[n])
    BY <1>2
  <2>2. NextHeight(n) \in 1 .. Len(commits[m])
    BY <1>1, <2>1 DEF NextHeight
  <2>3. BuiltAt(commits[m][NextHeight(n)], NextHeight(n))
        /\ Certified(commits[m][NextHeight(n)])
    BY <2>2, Zenon DEF SafetyInv, AppliedCertified
  <2>4. commits[m][NextHeight(n)] = x
    BY <2>3, SafetyImpliesUnique, Zenon DEF UniqueCertificate, BuiltAt
  <2>5. \A i \in 1 .. Len(commits[n]) : commits[m][i] = commits[n][i]
    BY <1>1, <2>1, SafetyImpliesAgreement DEF Agreement
  <2> QED
    <3>1. Chains!Learn(n, m)
      BY <2>1, <2>4, <2>5 DEF Chains!Learn, NextHeight
    <3> QED
      BY <3>1 DEF Chains!Next
<1>3. CASE \A m \in Validators : Len(commits[m]) <= Len(commits[n])
  <2>1. \A m \in Validators : \A i \in 1 .. Len(commits[m]) : commits[m][i] # x
    <3>1. \A m \in Validators : \A i \in 1 .. Len(commits[m]) :
            block[commits[m][i]].height = i
      BY Zenon DEF SafetyInv, AppliedCertified, BuiltAt
    <3>2. block[x].height = Len(commits[n]) + 1
      BY DEF BuiltAt, NextHeight
    <3> QED
      BY <1>1, <1>3, <3>1, <3>2
  <2>2. Chains!Decide(n, x)
    BY <1>3, <2>1 DEF Chains!Decide
  <2> QED
    BY <2>2, Zenon DEF Chains!Next
<1> QED
  BY <1>1, <1>2, <1>3

LEMMA CommitRefines ==
  ASSUME SafeThreshold, TypeOK, SafetyInv,
         NEW n \in Validators, NEW x \in Hash, ApplyCommit(n, x), commits' # commits
  PROVE  Chains!Next
<1>1. commits' = [commits EXCEPT ![n] = Append(@, x)]
  BY DEF ApplyCommit, saveCommit, saveFails
<1>2. BuiltAt(x, NextHeight(n)) /\ Certified(x)
  BY CanApplyBuilt, Zenon DEF ApplyCommit, canApply, verifyCommit, Certified, BuiltAt
<1> QED
  BY <1>1, <1>2, AppendRefines, Zenon

\* A restart that reloads a block whose save had failed adds it to the chain.
LEMMA RestartRefines ==
  ASSUME SafeThreshold, TypeOK, SafetyInv,
         NEW n \in Validators, Restart(n), commits' # commits
  PROVE  Chains!Next
<1>1. commits' = [commits EXCEPT ![n] = saved[n]]
  BY Zenon DEF Restart
<1>2. saved[n] # commits[n]
  BY <1>1, Zenon DEF TypeOK
<1>3. PICK x \in Hash : BuiltAt(x, NextHeight(n)) /\ Certified(x)
                        /\ saved[n] = Append(commits[n], x)
  BY <1>2, Zenon DEF SafetyInv, AllSavedAhead, SavedAhead
<1>4. commits' = [commits EXCEPT ![n] = Append(@, x)]
  BY <1>1, <1>3, Zenon
<1> QED
  BY <1>3, <1>4, AppendRefines, Zenon

LEMMA LedgerStep ==
  ASSUME SafeThreshold, TypeOK, SafetyInv, [Next]_vars
  PROVE  [Chains!Next]_commits
<1> SUFFICES ASSUME commits' # commits
             PROVE  \E n \in Validators : Restart(n) \/ \E x \in Hash : ApplyCommit(n, x)
  BY CommitRefines, RestartRefines, Zenon
<1>1. PICK n \in Validators :
        ReceiveCommit(n) \/ FormPrecommitQC(n) \/ Restart(n)
          \/ (\E x \in Hash : HandleCommit(n, x)) \/ \E m \in Validators : CatchUp(n, m)
  BY DEF Next, vars, StartPropose, AskProposer, ProposeBlock, ProposeNothing,
         FormPrevoteQC, AbandonRound, HandleProposal, HandlePrecommit, ledger
<1>2. CASE ReceiveCommit(n)
  <2> DEFINE leader == ProposerFor(session[n].height, session[n].round)
  <2>1. PICK i \in 1 .. Len(commits[leader]) : ApplyCommit(n, commits[leader][i])
    BY <1>2 DEF ReceiveCommit, ledger
  <2>2. commits[leader][i] \in Hash
    BY <1>2, LeaderType, CommitsAreHashes, Zenon
  <2> QED
    BY <2>1, <2>2
<1>3. CASE FormPrecommitQC(n)
  BY <1>3, Zenon DEF FormPrecommitQC, TypeOK
<1>4. CASE \E x \in Hash : HandleCommit(n, x)
  BY <1>4 DEF HandleCommit
<1>5. CASE \E m \in Validators : CatchUp(n, m)
  BY <1>5, CaughtUpIsHash DEF CatchUp
<1> QED
  BY <1>1, <1>2, <1>3, <1>4, <1>5, Zenon

\* The committed chains refine the abstract ledger: every block is decided once, on
\* a longest chain, every other validator learns exactly those blocks in order, and
\* nothing is ever rewritten.
THEOREM RefinesLedger == ASSUME SafeThreshold PROVE Spec => ImplementsLedger
<1>1. Init => Chains!Init
  BY DEF Init, Chains!Init
<1>2. TypeOK /\ SafetyInv /\ [Next]_vars => [Chains!Next]_commits
  BY LedgerStep
<1> QED
  BY <1>1, <1>2, TypeCorrect, SafetyInvariant, PTL DEF Spec, ImplementsLedger, Chains!Spec

================================================================================
