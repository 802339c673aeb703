---------------------------- MODULE ValidatorChain -----------------------------
(***************************************************************************)
(* Proofs about Validator, for every validator set, every number of rounds and *)
(* blocks and every interleaving: the type invariant, and what holds of the    *)
(* chain of one validator.  It is a hash chain of blocks that both vote stages *)
(* back, its state applies each transaction once, and its lock holds while a   *)
(* height is undecided.  None of it needs SafeThreshold: it is what a validator *)
(* knows of itself, whatever the others sign.                                  *)
(***************************************************************************)
EXTENDS Validator, FiniteSetTheorems, TLAPS

--------------------------------------------------------------------------------
(* Types.                                                                   *)

LEMMA NoBlockNotBlock == \A b \in Block : b # NoBlock
  BY DEF Block, NoBlock

LEMMA ApplyType ==
  ASSUME NEW st \in Seq(Payload), NEW tx \in Payload
  PROVE  Apply(st, tx) \in Seq(Payload)
  BY DEF Apply

LEMMA LastHashType ==
  ASSUME TypeOK, NEW n \in Validators
  PROVE  /\ lastHash(n) \in Hash \cup {GenesisHash}
         /\ commits[n] # << >> => lastHash(n) \in Hash
         /\ NextHeight(n) \in Nat \ {0}
  BY DEF TypeOK, lastHash, NextHeight

LEMMA LedgerType ==
  ASSUME TypeOK
  PROVE  /\ commits \in [Validators -> Seq(Hash)]
         /\ saved \in [Validators -> Seq(Hash)]
         /\ lock \in [Validators -> [height : Nat, round : Nat,
                                     hash : Hash \cup {GenesisHash}]]
  BY DEF TypeOK

LEMMA BuiltType ==
  ASSUME TypeOK, NEW x \in Hash, block[x] # NoBlock
  PROVE  block[x] \in Block /\ block[x].height \in Nat \ {0}
<1>1. block[x] \in Block
  BY DEF TypeOK
<1> QED
  BY <1>1 DEF Block

LEMMA VotedType ==
  ASSUME TypeOK, NEW x \in Hash, NEW n \in Voters("precommit", x)
  PROVE  block[x] # NoBlock /\ block[x].height \in Nat \ {0}
<1>1. block[x] # NoBlock
  BY DEF TypeOK, Voters
<1> QED
  BY <1>1, BuiltType

LEMMA CommitsBuilt ==
  ASSUME TypeOK, NEW n \in Validators, NEW i \in 1 .. Len(commits[n])
  PROVE  commits[n][i] \in Hash /\ block[commits[n][i]] # NoBlock
<1>1. commits[n] \in Seq(Hash)
  BY DEF TypeOK
<1>2. block[commits[n][i]] # NoBlock
  BY DEF TypeOK, AllBuilt
<1> QED
  BY <1>1, <1>2

LEMMA SavedBuilt ==
  ASSUME TypeOK, NEW n \in Validators, NEW i \in 1 .. Len(saved[n])
  PROVE  saved[n][i] \in Hash /\ block[saved[n][i]] # NoBlock
<1>1. saved[n] \in Seq(Hash)
  BY DEF TypeOK
<1>2. block[saved[n][i]] # NoBlock
  BY DEF TypeOK, AllBuilt
<1> QED
  BY <1>1, <1>2

LEMMA SessionType ==
  ASSUME NEW s \in Session \cup {Idle}, s.pc # "idle"
  PROVE  s \in Session
  BY DEF Session, Idle

LEMMA NextRoundType ==
  ASSUME NEW s \in Session
  PROVE  /\ NextRound(s) \in Session \cup {Idle}
         /\ NextRound(s).pc \notin {"prevote", "precommit"}
  BY BoundsAssumption DEF Session, Idle, NextRound

LEMMA NewBlockType ==
  ASSUME TypeOK, NEW n \in Validators, session[n] \in Session
  PROVE  newBlock(n) \in Block
<1>1. lastHash(n) \in Hash \cup {GenesisHash}
  BY LastHashType
<1>2. Apply(state[n], session[n].payload) \in Seq(Payload)
  BY ApplyType DEF TypeOK, Session
<1> QED
  BY <1>1, <1>2 DEF newBlock, Block, Session

LEMMA CastVoteType ==
  ASSUME TypeOK, NEW n \in Validators, NEW x \in Hash, NEW b \in Block,
         NEW stage \in Stage, castVote(n, x, b, stage)
  PROVE  /\ votes' \in [Validators -> SUBSET Vote]
         /\ signed' \subseteq [voter : Validators, stage : Stage, hash : Hash]
         /\ lock' \in [Validators -> [height : Nat, round : Nat,
                                      hash : Hash \cup {GenesisHash}]]
         /\ \A v \in signed' : v \in signed \/ v.hash = x
<1>1. [stage |-> stage, hash |-> x] \in Vote
  BY DEF Vote
<1>2. LockOn(x, b) \in [height : Nat, round : Nat, hash : Hash \cup {GenesisHash}]
  BY DEF LockOn, Block
<1>3. votes' \in [Validators -> SUBSET Vote]
  BY <1>1 DEF castVote, TypeOK
<1>4. /\ signed' \subseteq [voter : Validators, stage : Stage, hash : Hash]
      /\ \A v \in signed' : v \in signed \/ v.hash = x
  BY DEF castVote, TypeOK
<1>5. lock' \in [Validators -> [height : Nat, round : Nat,
                                hash : Hash \cup {GenesisHash}]]
  BY <1>2 DEF castVote, TypeOK
<1> QED
  BY <1>3, <1>4, <1>5

LEMMA RecordProposalType ==
  ASSUME TypeOK, NEW n \in Validators, NEW x \in Hash, NEW b \in Block,
         recordProposal(n, x, b)
  PROVE  /\ proposals' \in [Validators -> SUBSET Hash]
         /\ currentRound' \in [Validators -> Nat]
  BY Zenon DEF TypeOK, recordProposal, Block

LEMMA ProposerType ==
  ASSUME NEW h \in Nat \ {0}, NEW r \in Nat
  PROVE  ProposerFor(h, r) \in Validators
<1>1. (h - 1 + r) % N \in 0 .. N - 1
  BY ValidatorsAssumption
<1> QED
  BY <1>1, ValidatorsAssumption DEF ProposerFor

\* What ReceiveCommit and CatchUp apply is a block hash.
LEMMA CommitsAreHashes ==
  ASSUME TypeOK
  PROVE  \A m \in Validators : \A i \in 1 .. Len(commits[m]) : commits[m][i] \in Hash
BY CommitsBuilt

LEMMA LeaderType ==
  ASSUME TypeOK, NEW n \in Validators, ReceiveCommit(n)
  PROVE  ProposerFor(session[n].height, session[n].round) \in Validators
<1>1. session[n] \in Session
  BY SessionType DEF ReceiveCommit, TypeOK
<1> QED
  BY <1>1, ProposerType DEF Session

LEMMA CaughtUpIsHash ==
  ASSUME TypeOK, NEW n \in Validators, NEW m \in Validators, CatchUp(n, m)
  PROVE  commits[m][NextHeight(n)] \in Hash
BY LastHashType DEF CatchUp, validateCatchUpCandidate, NextHeight, TypeOK

LEMMA CanApplyBuilt ==
  ASSUME TypeOK, NEW n \in Validators, NEW x \in Hash, canApply(n, x)
  PROVE  block[x] # NoBlock
  BY LastHashType DEF canApply, NoBlock

LEMMA AppendBuilt ==
  ASSUME NEW c \in [Validators -> Seq(Hash)], NEW d \in [Validators -> Seq(Hash)],
         NEW n \in Validators, NEW x \in Hash, block[x] # NoBlock,
         AllBuilt(c), AllBuilt(d),
         NEW e, e = [d EXCEPT ![n] = Append(c[n], x)]
  PROVE  e \in [Validators -> Seq(Hash)] /\ AllBuilt(e)
<1>1. ASSUME NEW i \in 1 .. Len(e[n])
      PROVE  block[e[n][i]] # NoBlock
  <2>1. e[n] = Append(c[n], x) /\ c[n] \in Seq(Hash)
    OBVIOUS
  <2>2. e[n][i] = x \/ (i \in 1 .. Len(c[n]) /\ e[n][i] = c[n][i])
    BY <2>1
  <2> QED
    BY <2>2 DEF AllBuilt
<1>2. \A m \in Validators : m # n => e[m] = d[m]
  OBVIOUS
<1>3. AllBuilt(e)
  BY <1>1, <1>2 DEF AllBuilt
<1> QED
  BY <1>3

LEMMA ApplyCommitType ==
  ASSUME TypeOK, NEW n \in Validators, NEW x \in Hash, block[x] # NoBlock,
         ApplyCommit(n, x)
  PROVE  /\ lock' \in [Validators -> [height : Nat, round : Nat,
                                      hash : Hash \cup {GenesisHash}]]
         /\ commits' \in [Validators -> Seq(Hash)]
         /\ state' \in [Validators -> Seq(Payload)]
         /\ saved' \in [Validators -> Seq(Hash)]
         /\ currentRound' \in [Validators -> Nat]
         /\ UNCHANGED << block, signed, votes, proposals >>
         /\ TypeOK!15' /\ TypeOK!16'
<1>1. block[x] \in Block
  BY DEF TypeOK
<1>2. LockOn(x, block[x]) \in [height : Nat, round : Nat,
                               hash : Hash \cup {GenesisHash}]
  BY <1>1 DEF LockOn, Block
<1>3. block[x].digest \in Seq(Payload)
  BY <1>1 DEF Block
<1>4. UNCHANGED << block, signed, votes, proposals >>
  BY DEF ApplyCommit, network
<1>5. lock' \in [Validators -> [height : Nat, round : Nat,
                                hash : Hash \cup {GenesisHash}]]
  BY <1>2 DEF ApplyCommit, TypeOK
<1>6. /\ commits' = commits \/ commits' = [commits EXCEPT ![n] = Append(commits[n], x)]
      /\ saved' = saved \/ saved' = [saved EXCEPT ![n] = Append(commits[n], x)]
  BY DEF ApplyCommit, saveCommit, saveFails
<1>7. /\ commits \in [Validators -> Seq(Hash)] /\ saved \in [Validators -> Seq(Hash)]
      /\ AllBuilt(commits) /\ AllBuilt(saved)
  BY DEF TypeOK
<1>8. commits' \in [Validators -> Seq(Hash)] /\ AllBuilt(commits)'
  <2>1. CASE commits' = commits
    BY <1>4, <1>7, <2>1 DEF AllBuilt
  <2>2. CASE commits' = [commits EXCEPT ![n] = Append(commits[n], x)]
    <3>1. commits' \in [Validators -> Seq(Hash)] /\ AllBuilt(commits')
      BY <1>7, <2>2, AppendBuilt, Zenon
    <3> QED
      BY <1>4, <3>1 DEF AllBuilt
  <2> QED
    BY <1>6, <2>1, <2>2
<1>9. saved' \in [Validators -> Seq(Hash)] /\ AllBuilt(saved)'
  <2>1. CASE saved' = saved
    BY <1>4, <1>7, <2>1 DEF AllBuilt
  <2>2. CASE saved' = [saved EXCEPT ![n] = Append(commits[n], x)]
    <3>1. saved' \in [Validators -> Seq(Hash)] /\ AllBuilt(saved')
      BY <1>7, <2>2, AppendBuilt, Zenon
    <3> QED
      BY <1>4, <3>1 DEF AllBuilt
  <2> QED
    BY <1>6, <2>1, <2>2
<1>10. state' \in [Validators -> Seq(Payload)]
  <2>1. state' = state \/ state' = [state EXCEPT ![n] = block[x].digest]
    BY DEF ApplyCommit, saveCommit, saveFails
  <2> QED
    BY <1>3, <2>1, Zenon DEF TypeOK
<1>11. currentRound' \in [Validators -> Nat]
  <2>1. currentRound' = currentRound \/ currentRound' = [currentRound EXCEPT ![n] = 0]
    BY DEF ApplyCommit, saveCommit, saveFails
  <2> QED
    BY <2>1 DEF TypeOK
<1> QED
  BY <1>4, <1>5, <1>8, <1>9, <1>10, <1>11, Zenon

\* A step that leaves the blocks and the votes alone keeps TypeOK's last conjuncts
\* if every session it changes still names a built block.
LEMMA TypeStep ==
  ASSUME TypeOK, TypeOK!1', TypeOK!2', TypeOK!3', TypeOK!4', TypeOK!5', TypeOK!6',
         TypeOK!7', TypeOK!8', TypeOK!9', TypeOK!11', TypeOK!12',
         NEW n \in Validators, NEW s \in Session \cup {Idle},
         session' = [session EXCEPT ![n] = s],
         \A x \in Hash : block[x] # NoBlock => block'[x] # NoBlock,
         \A v \in signed' : v \in signed \/ block'[v.hash] # NoBlock,
         s.pc \in {"prevote", "precommit"} => s.hash \in Hash /\ block'[s.hash] # NoBlock,
         (commits' = commits /\ saved' = saved) \/ (TypeOK!15' /\ TypeOK!16')
  PROVE  TypeOK'
<1>1. session' \in [Validators -> Session \cup {Idle}]
  BY DEF TypeOK
<1>2. \A v \in signed' : block'[v.hash] # NoBlock
  BY DEF TypeOK
<1>3. ASSUME NEW m \in Validators, session'[m].pc \in {"prevote", "precommit"}
      PROVE  session'[m].hash \in Hash /\ block'[session'[m].hash] # NoBlock
  BY <1>3, Zenon DEF TypeOK
<1>4. CASE commits' = commits /\ saved' = saved
  <2>1. \A m \in Validators : \A i \in 1 .. Len(commits[m]) :
          block'[commits[m][i]] # NoBlock
    BY CommitsBuilt, Zenon
  <2>2. \A m \in Validators : \A i \in 1 .. Len(saved[m]) :
          block'[saved[m][i]] # NoBlock
    BY SavedBuilt, Zenon
  <2>3. TypeOK!15' /\ TypeOK!16'
    BY <1>4, <2>1, <2>2, Zenon DEF AllBuilt
  <2> QED
    BY <1>1, <1>2, <1>3, <2>3, Zenon DEF TypeOK
<1>5. CASE TypeOK!15' /\ TypeOK!16'
  BY <1>1, <1>2, <1>3, <1>5, Zenon DEF TypeOK
<1> QED
  BY <1>4, <1>5

\* A step that applies a commit within a Propose call, and leaves vote collection.
LEMMA CommitTypeStep ==
  ASSUME TypeOK, NEW n \in Validators, NEW x \in Hash, ApplyCommit(n, x),
         NEW s \in Session \cup {Idle}, s.pc \notin {"prevote", "precommit"},
         session' = [session EXCEPT ![n] = s], UNCHANGED bounds
  PROVE  TypeOK'
<1>1. block[x] # NoBlock
  BY CanApplyBuilt DEF ApplyCommit
<1>2. /\ TypeOK!6' /\ TypeOK!7' /\ TypeOK!8' /\ TypeOK!9' /\ TypeOK!5'
      /\ UNCHANGED << block, signed, votes, proposals >>
      /\ TypeOK!15' /\ TypeOK!16'
  BY <1>1, ApplyCommitType
<1>3. TypeOK!1' /\ TypeOK!2' /\ TypeOK!3' /\ TypeOK!4'
  BY <1>2 DEF TypeOK
<1>4. TypeOK!11' /\ TypeOK!12'
  BY DEF TypeOK, bounds
<1> QED
  BY <1>2, <1>3, <1>4, TypeStep, Zenon

LEMMA RestartType ==
  ASSUME TypeOK, NEW n \in Validators, Restart(n)
  PROVE  TypeOK'
<1> DEFINE last == saved[n][Len(saved[n])]
           empty == saved[n] = << >>
           l == IF empty THEN NoLock ELSE LockOn(last, block[last])
           d == IF empty THEN << >> ELSE block[last].digest
<1>1. /\ l \in [height : Nat, round : Nat, hash : Hash \cup {GenesisHash}]
      /\ d \in Seq(Payload)
  <2>1. CASE empty
    BY <2>1 DEF NoLock
  <2>2. CASE ~ empty
    <3>1. saved[n] \in Seq(Hash) /\ Len(saved[n]) \in 1 .. Len(saved[n])
      BY <2>2 DEF TypeOK
    <3>2. last \in Hash /\ block[last] # NoBlock
      BY <3>1, SavedBuilt
    <3>3. block[last] \in Block
      BY <3>2 DEF TypeOK
    <3> HIDE DEF last
    <3> QED
      BY <2>2, <3>2, <3>3 DEF LockOn, Block
  <2> QED
    BY <2>1, <2>2
<1>2. /\ lock' = [lock EXCEPT ![n] = l]
      /\ state' = [state EXCEPT ![n] = d]
      /\ commits' = [commits EXCEPT ![n] = saved[n]]
      /\ UNCHANGED << block, signed, saved, calls >>
  BY DEF Restart, network
<1> HIDE DEF l, d, empty, last
<1>3. TypeOK!7' /\ TypeOK!9' /\ TypeOK!15' /\ TypeOK!16'
  <2>1. commits' \in [Validators -> Seq(Hash)] /\ saved' \in [Validators -> Seq(Hash)]
    BY <1>2 DEF TypeOK
  <2>2. AllBuilt(saved)'
    BY <1>2, SavedBuilt DEF AllBuilt
  <2>3. \A m \in Validators : commits'[m] \in {commits[m], saved[m]}
    BY <1>2 DEF TypeOK
  <2>4. AllBuilt(commits)'
    BY <1>2, <2>3, CommitsBuilt, SavedBuilt DEF AllBuilt
  <2> QED
    BY <2>1, <2>2, <2>4
<1>4. TypeOK!3' /\ TypeOK!4' /\ TypeOK!5' /\ TypeOK!12'
  BY DEF Restart, TypeOK
<1>5. TypeOK!6' /\ TypeOK!8'
  BY <1>1, <1>2 DEF TypeOK
<1>6. TypeOK!1' /\ TypeOK!2' /\ TypeOK!11' /\ \A v \in signed' : v \in signed
  BY <1>2 DEF TypeOK
<1>7. session' = [session EXCEPT ![n] = Idle] /\ Idle.pc = "idle"
  BY DEF Restart, Idle
<1> QED
  BY <1>2, <1>3, <1>4, <1>5, <1>6, <1>7, TypeStep, Zenon

LEMMA TypeInductive ==
  ASSUME TypeOK, [Next]_vars
  PROVE  TypeOK'
<1>1. CASE UNCHANGED vars
  BY <1>1, Zenon DEF vars, TypeOK, AllBuilt
<1>2. ASSUME NEW n \in Validators, NEW tx \in Payload, StartPropose(n, tx)
      PROVE  TypeOK'
  <2> DEFINE s == [pc |-> "round", height |-> NextHeight(n), round |-> 0,
                   payload |-> tx, hash |-> GenesisHash]
  <2>1. s \in Session /\ s.pc = "round"
    BY LastHashType DEF Session
  <2>2. session' = [session EXCEPT ![n] = s] /\ calls' \in Nat
    BY <1>2 DEF StartPropose, TypeOK
  <2> QED
    BY <1>2, <2>1, <2>2, TypeStep, Zenon
       DEF StartPropose, TypeOK, network, memory, ledger
<1>3. ASSUME NEW n \in Validators, AskProposer(n)
      PROVE  TypeOK'
  <2> DEFINE s == [session[n] EXCEPT !.pc = "waiting"]
  <2>1. session[n] \in Session
    BY <1>3, SessionType DEF AskProposer, TypeOK
  <2>2. s \in Session /\ s.pc = "waiting"
    BY <2>1 DEF Session
  <2>3. session' = [session EXCEPT ![n] = s]
    BY <1>3 DEF AskProposer
  <2>4. currentRound' \in [Validators -> Nat]
    BY <1>3, <2>1, Zenon DEF AskProposer, markRound, TypeOK, Session
  <2> QED
    BY <1>3, <2>2, <2>3, <2>4, TypeStep, Zenon
       DEF AskProposer, TypeOK, network, ledger, bounds
<1>4. ASSUME NEW n \in Validators, ReceiveCommit(n)
      PROVE  TypeOK'
  <2>1. session' = [session EXCEPT ![n] = Idle] /\ Idle.pc = "idle"
    BY <1>4, Zenon DEF ReceiveCommit, Idle
  <2> DEFINE leader == ProposerFor(session[n].height, session[n].round)
  <2>2. PICK i \in 1 .. Len(commits[leader]) :
          \/ ApplyCommit(n, commits[leader][i])
          \/ UNCHANGED << network, memory, ledger >>
    BY <1>4, Zenon DEF ReceiveCommit
  <2>3. CASE UNCHANGED << network, memory, ledger >>
    <3>1. UNCHANGED << block, signed, votes, proposals, currentRound, lock, commits,
                       state, saved, calls, restarted >>
      BY <1>4, <2>3 DEF ReceiveCommit, network, memory, ledger, bounds
    <3> QED
      BY <2>1, <3>1, TypeStep, Zenon DEF TypeOK
  <2>4. CASE ApplyCommit(n, commits[leader][i])
    <3>1. session[n] \in Session
      BY <1>4, SessionType DEF ReceiveCommit, TypeOK
    <3>2. leader \in Validators
      BY <3>1, ProposerType DEF Session
    <3>3. commits[leader][i] \in Hash
      BY <3>2, CommitsBuilt DEF leader
    <3> HIDE DEF leader
    <3>4. UNCHANGED bounds
      BY <1>4 DEF ReceiveCommit
    <3> QED
      BY <2>1, <2>4, <3>3, <3>4, CommitTypeStep, Zenon
  <2> QED
    BY <2>2, <2>3, <2>4, Zenon
<1>5. ASSUME NEW n \in Validators, NEW x \in Hash, ProposeBlock(n, x)
      PROVE  TypeOK'
  <2> DEFINE b == newBlock(n)
             s1 == [session[n] EXCEPT !.pc = "prevote", !.hash = x]
             s2 == NextRound(session[n])
  <2>1. session[n] \in Session
    BY <1>5, SessionType DEF ProposeBlock, TypeOK
  <2>2. b \in Block /\ b # NoBlock
    BY <2>1, NewBlockType, NoBlockNotBlock
  <2> HIDE DEF b
  <2>3. block' = [block EXCEPT ![x] = b] /\ recordProposal(n, x, b)
    BY <1>5 DEF ProposeBlock, b
  <2>4. TypeOK!1' /\ \A y \in Hash : block[y] # NoBlock => block'[y] # NoBlock
    BY <2>2, <2>3, Zenon DEF TypeOK
  <2>5. block'[x] # NoBlock
    BY <2>2, <2>3, Zenon DEF TypeOK
  <2>6. CASE castVote(n, x, b, "prevote") /\ session' = [session EXCEPT ![n] = s1]
    <3>1. s1 \in Session /\ s1.hash = x
      BY <2>1, Zenon DEF Session
    <3>2. /\ TypeOK!2' /\ TypeOK!3' /\ TypeOK!6'
          /\ \A v \in signed' : v \in signed \/ v.hash = x
      BY <2>2, <2>6, CastVoteType DEF Stage
    <3>3. TypeOK!4' /\ TypeOK!5'
      BY <2>2, <2>3, RecordProposalType
    <3>4. TypeOK!7' /\ TypeOK!8' /\ TypeOK!9' /\ TypeOK!11' /\ TypeOK!12'
          /\ commits' = commits /\ saved' = saved
      BY <1>5 DEF ProposeBlock, TypeOK, ledger, bounds
    <3>5. \A v \in signed' : v \in signed \/ block'[v.hash] # NoBlock
      BY <2>5, <3>2, Zenon
    <3> HIDE DEF s1
    <3> QED
      BY <2>4, <2>5, <2>6, <3>1, <3>2, <3>3, <3>4, <3>5, TypeStep, Zenon
  <2>7. CASE refuseVote /\ session' = [session EXCEPT ![n] = s2]
    <3>1. s2 \in Session \cup {Idle} /\ s2.pc \notin {"prevote", "precommit"}
      BY <2>1, NextRoundType
    <3> HIDE DEF s2
    <3> QED
      BY <1>5, <2>2, <2>3, <2>4, <2>7, <3>1, RecordProposalType, TypeStep, Zenon
         DEF ProposeBlock, refuseVote, TypeOK, ledger, bounds
  <2>8. \/ castVote(n, x, b, "prevote") /\ session' = [session EXCEPT ![n] = s1]
        \/ refuseVote /\ session' = [session EXCEPT ![n] = s2]
    BY <1>5, <2>1, Zenon DEF ProposeBlock, TypeOK, b
  <2> QED
    BY <2>6, <2>7, <2>8
<1>6. ASSUME NEW n \in Validators, ProposeNothing(n)
      PROVE  TypeOK'
  <2> DEFINE s == NextRound(session[n])
  <2>1. session[n] \in Session
    BY <1>6, SessionType DEF ProposeNothing, TypeOK
  <2>2. s \in Session \cup {Idle} /\ s.pc \notin {"prevote", "precommit"}
    BY <2>1, NextRoundType
  <2>3. session' = [session EXCEPT ![n] = s]
    BY <1>6 DEF ProposeNothing
  <2>4. currentRound' \in [Validators -> Nat]
    BY <1>6, <2>1 DEF ProposeNothing, markRound, TypeOK, Session
  <2> HIDE DEF s
  <2> QED
    BY <1>6, <2>2, <2>3, <2>4, TypeStep, Zenon
       DEF ProposeNothing, TypeOK, network, ledger, bounds
<1>7. ASSUME NEW n \in Validators, FormPrevoteQC(n)
      PROVE  TypeOK'
  <2> DEFINE x == session[n].hash
             s1 == [session[n] EXCEPT !.pc = "precommit"]
             s2 == NextRound(session[n])
  <2>1. session[n] \in Session /\ x \in Hash /\ block[x] # NoBlock
    BY <1>7, SessionType, Zenon DEF FormPrevoteQC, TypeOK
  <2>2. block[x] \in Block
    BY <2>1 DEF TypeOK
  <2>3. s1 \in Session /\ s1.hash = x
    BY <2>1, Zenon DEF Session
  <2>4. s2 \in Session \cup {Idle} /\ s2.pc \notin {"prevote", "precommit"}
    BY <2>1, NextRoundType
  <2>5. /\ recordProposal(n, x, block[x])
        /\ \/ castVote(n, x, block[x], "precommit")
              /\ session' = [session EXCEPT ![n] = s1]
           \/ refuseVote /\ session' = [session EXCEPT ![n] = s2]
    BY <1>7 DEF FormPrevoteQC
  <2>6. TypeOK!1' /\ TypeOK!7' /\ TypeOK!8' /\ TypeOK!9' /\ TypeOK!11' /\ TypeOK!12'
        /\ block' = block /\ commits' = commits /\ saved' = saved
    BY <1>7 DEF FormPrevoteQC, TypeOK, ledger, bounds
  <2>7. TypeOK!4' /\ TypeOK!5'
    BY <2>1, <2>2, <2>5, RecordProposalType, Zenon
  <2> HIDE DEF x, s1, s2
  <2>8. CASE castVote(n, x, block[x], "precommit")
             /\ session' = [session EXCEPT ![n] = s1]
    <3>1. /\ TypeOK!2' /\ TypeOK!3' /\ TypeOK!6'
          /\ \A v \in signed' : v \in signed \/ v.hash = x
      BY <2>1, <2>2, <2>8, CastVoteType DEF Stage
    <3>2. \A v \in signed' : v \in signed \/ block'[v.hash] # NoBlock
      BY <2>1, <2>6, <3>1
    <3> QED
      BY <2>1, <2>3, <2>6, <2>7, <2>8, <3>1, <3>2, TypeStep, Zenon
  <2>9. CASE refuseVote /\ session' = [session EXCEPT ![n] = s2]
    <3>1. TypeOK!2' /\ TypeOK!3' /\ TypeOK!6'
          /\ \A v \in signed' : v \in signed
      BY <2>9 DEF refuseVote, TypeOK
    <3> QED
      BY <2>4, <2>6, <2>7, <2>9, <3>1, TypeStep, Zenon
  <2> QED
    BY <2>5, <2>8, <2>9
<1>8. ASSUME NEW n \in Validators, FormPrecommitQC(n)
      PROVE  TypeOK'
  <2> DEFINE x == session[n].hash
             s == IF commits'[n] # commits[n] THEN Idle ELSE NextRound(session[n])
  <2>1. session[n] \in Session /\ x \in Hash /\ block[x] # NoBlock
    BY <1>8, SessionType, Zenon DEF FormPrecommitQC, TypeOK
  <2>2. s \in Session \cup {Idle} /\ s.pc \notin {"prevote", "precommit"}
    BY <2>1, NextRoundType DEF Idle
  <2>3. ApplyCommit(n, x) /\ session' = [session EXCEPT ![n] = s]
    BY <1>8 DEF FormPrecommitQC
  <2>4. UNCHANGED bounds
    BY <1>8, Zenon DEF FormPrecommitQC
  <2> HIDE DEF x, s
  <2> QED
    BY <2>1, <2>2, <2>3, <2>4, CommitTypeStep, Zenon
<1>9. ASSUME NEW n \in Validators, AbandonRound(n)
      PROVE  TypeOK'
  <2> DEFINE s == NextRound(session[n])
  <2>1. session[n] \in Session
    BY <1>9, SessionType DEF AbandonRound, TypeOK
  <2>2. s \in Session \cup {Idle} /\ s.pc \notin {"prevote", "precommit"}
    BY <2>1, NextRoundType
  <2>3. session' = [session EXCEPT ![n] = s]
    BY <1>9 DEF AbandonRound
  <2> HIDE DEF s
  <2> QED
    BY <1>9, <2>2, <2>3, TypeStep, Zenon
       DEF AbandonRound, TypeOK, network, memory, ledger, bounds
<1>10. ASSUME NEW n \in Validators, NEW x \in Hash, NEW stage \in Stage,
              block[x] # NoBlock, recordProposal(n, x, block[x]),
              castVote(n, x, block[x], stage) \/ refuseVote,
              UNCHANGED << block, ledger, session, bounds >>
       PROVE  TypeOK'
  <2>1. block[x] \in Block
    BY <1>10 DEF TypeOK
  <2>2. TypeOK!4' /\ TypeOK!5'
    BY <1>10, <2>1, RecordProposalType, Zenon
  <2>5. TypeOK!15' /\ TypeOK!16'
    BY <1>10, Zenon DEF TypeOK, AllBuilt, ledger
  <2>3. CASE castVote(n, x, block[x], stage)
    <3>1. /\ TypeOK!2' /\ TypeOK!3' /\ TypeOK!6'
          /\ \A v \in signed' : v \in signed \/ v.hash = x
      BY <1>10, <2>1, <2>3, CastVoteType, Zenon
    <3> QED
      BY <1>10, <2>2, <2>5, <3>1, Zenon DEF TypeOK, ledger, bounds
  <2>4. CASE refuseVote
    BY <1>10, <2>2, <2>4, <2>5, Zenon DEF refuseVote, TypeOK, ledger, bounds
  <2> QED
    BY <1>10, <2>3, <2>4, Zenon
<1>11. ASSUME NEW n \in Validators, NEW x \in Hash,
              HandleProposal(n, x) \/ HandlePrecommit(n, x)
       PROVE  TypeOK'
  BY <1>10, <1>11 DEF HandleProposal, HandlePrecommit, Sent, Stage
<1>12. ASSUME NEW n \in Validators, NEW x \in Hash, ApplyCommit(n, x),
              UNCHANGED << session, bounds >>
       PROVE  TypeOK'
  <2>1. block[x] # NoBlock
    BY <1>12, CanApplyBuilt DEF ApplyCommit
  <2> QED
    BY <1>12, <2>1, ApplyCommitType, Zenon DEF TypeOK, bounds
<1>13. ASSUME NEW n \in Validators, NEW x \in Hash, HandleCommit(n, x)
       PROVE  TypeOK'
  BY <1>12, <1>13 DEF HandleCommit
<1>14. ASSUME NEW n \in Validators, NEW m \in Validators, CatchUp(n, m)
       PROVE  TypeOK'
  <2>1. commits[m][NextHeight(n)] \in Hash
    BY <1>14, LastHashType DEF CatchUp, validateCatchUpCandidate, NextHeight, TypeOK
  <2> QED
    BY <1>12, <1>14, <2>1 DEF CatchUp
<1>15. ASSUME NEW n \in Validators, Restart(n)
       PROVE  TypeOK'
  BY <1>15, RestartType
<1> QED
  BY <1>1, <1>2, <1>3, <1>4, <1>5, <1>6, <1>7, <1>8, <1>9, <1>11, <1>13, <1>14,
     <1>15 DEF Next

\* Every field of a validator keeps its type, and votes, sessions and commits refer
\* only to blocks that were built, whatever is called, lost, delayed or restarted.
THEOREM TypeCorrect == Spec => []TypeOK
<1>1. Init => TypeOK
  BY DEF Init, TypeOK, AllBuilt, NoLock, Idle
<1>2. TypeOK /\ [Next]_vars => TypeOK'
  BY TypeInductive
<1> QED
  BY <1>1, <1>2, PTL DEF Spec

--------------------------------------------------------------------------------
(* The chain of a validator.                                                *)

\* Precommits are signed only for a block that has its prevote quorum certificate
\* (FormPrevoteQC, HandlePrecommit).
PrecommitsBacked ==
  \A x \in Hash : Voters("precommit", x) # {} => VerifyQuorumCertificate("prevote", x)

\* The links of a chain of commits: certified, in order of height, and by hash.
LinkAt(c, i) ==
  /\ Certified(c[i])
  /\ block[c[i]].height = i
  /\ block[c[i]].prev = IF i = 1 THEN GenesisHash ELSE c[i - 1]

ChainsLinked == \A n \in Validators : \A i \in 1 .. Len(commits[n]) : LinkAt(commits[n], i)

\* x is what ApplyCommit accepts at n next.
NextBlock(n, x) ==
  /\ Certified(x)
  /\ block[x].height = NextHeight(n)
  /\ block[x].prev = lastHash(n)
  /\ block[x].digest = Apply(state[n], block[x].payload)

\* What n would reload is what it has applied, or one acceptable block more.
SavedNext(n) ==
  \/ saved[n] = commits[n]
  \/ \E x \in Hash : NextBlock(n, x) /\ saved[n] = Append(commits[n], x)

AllSavedNext == \A n \in Validators : SavedNext(n)

\* A lock is the lock on some built block.
LocksMade ==
  \A n \in Validators : lock[n].height # 0 =>
    \E x \in Hash : block[x] # NoBlock /\ lock[n] = LockOn(x, block[x])

\* The inductive invariant of one validator's chain.
ChainInv ==
  /\ PrecommitsBacked
  /\ ChainsLinked
  /\ AllSavedNext
  /\ AppliedOnce
  /\ LocksMade

--------------------------------------------------------------------------------
(* Certificates only grow.                                                  *)

LEMMA QuorumGrows ==
  ASSUME NEW stage \in Stage, NEW x, signed \subseteq signed',
         VerifyQuorumCertificate(stage, x)
  PROVE  VerifyQuorumCertificate(stage, x)'
<1>1. Voters(stage, x) \subseteq Voters(stage, x)' /\ Voters(stage, x)' \subseteq Validators
  BY DEF Voters
<1>2. IsFiniteSet(Voters(stage, x)')
  BY <1>1, FS_Subset, ValidatorsAssumption
<1>3. /\ Cardinality(Voters(stage, x)) \in Nat /\ Cardinality(Voters(stage, x)') \in Nat
      /\ Cardinality(Voters(stage, x)) <= Cardinality(Voters(stage, x)')
  BY <1>1, <1>2, FS_Subset, FS_CardinalityType
<1> QED
  BY <1>3, BoundsAssumption DEF VerifyQuorumCertificate

\* A step that signs more and builds more, and changes no block.
Grows ==
  /\ signed \subseteq signed'
  /\ \A x \in Hash : block[x] # NoBlock => block'[x] = block[x]

LEMMA CertifiedGrows ==
  ASSUME Grows, NEW x \in Hash, Certified(x)
  PROVE  Certified(x)' /\ block'[x] = block[x]
  BY QuorumGrows DEF Grows, Certified, Stage

\* A certificate has a precommit, so both stages back the block.
LEMMA CertifiedBacked ==
  ASSUME PrecommitsBacked, NEW x \in Hash, Certified(x)
  PROVE  VerifyQuorumCertificate("prevote", x)
<1>1. Voters("precommit", x) # {}
  BY FS_EmptySet, BoundsAssumption DEF Certified, VerifyQuorumCertificate
<1> QED
  BY <1>1 DEF PrecommitsBacked

NoRepeat(s) == \A i, j \in 1 .. Len(s) : s[i] = s[j] => i = j
Elements(s) == {s[i] : i \in 1 .. Len(s)}

\* The effect of recording one more transaction.
LEMMA ApplyOnce ==
  ASSUME NEW st \in Seq(Payload), NEW tx \in Payload, NEW d, d = Apply(st, tx),
         NoRepeat(st)
  PROVE  NoRepeat(d) /\ Elements(d) = Elements(st) \cup {tx}
<1>1. CASE \E i \in 1 .. Len(st) : st[i] = tx
  BY <1>1 DEF Apply, Elements
<1>2. CASE \A i \in 1 .. Len(st) : st[i] # tx
  <2>1. d = Append(st, tx)
    BY <1>2 DEF Apply
  <2>2. Len(d) = Len(st) + 1 /\ d[Len(st) + 1] = tx /\ Len(st) \in Nat
    BY <2>1
  <2>3. \A i \in 1 .. Len(st) : d[i] = st[i]
    BY <2>1
  <2>4. \A i \in 1 .. Len(d) : i \in 1 .. Len(st) \/ i = Len(st) + 1
    BY <2>2
  <2>5. NoRepeat(d)
    BY <1>2, <2>2, <2>3, <2>4 DEF NoRepeat
  <2>6. 1 .. Len(st) \subseteq 1 .. Len(d) /\ Len(st) + 1 \in 1 .. Len(d)
    BY <2>2
  <2>7. Elements(d) = Elements(st) \cup {tx}
    BY <2>2, <2>3, <2>4, <2>6 DEF Elements
  <2> QED
    BY <2>5, <2>7
<1> QED
  BY <1>1, <1>2

--------------------------------------------------------------------------------
(* The steps of a chain: it stays, it grows by the next block, or the store gets *)
(* ahead of it by that block.                                               *)

LEMMA BlockTypes ==
  ASSUME TypeOK, NEW x \in Hash, block[x] # NoBlock
  PROVE  block[x].payload \in Payload
<1>1. block[x] \in Block
  BY BuiltType
<1> QED
  BY <1>1 DEF Block

LEMMA LinkStays ==
  ASSUME TypeOK, Grows, NEW n \in Validators, NEW i \in 1 .. Len(commits[n]),
         LinkAt(commits[n], i), commits'[n] = commits[n]
  PROVE  LinkAt(commits[n], i)'
<1>1. commits[n][i] \in Hash
  BY CommitsBuilt
<1>2. Certified(commits[n][i])
  BY DEF LinkAt
<1>3. PICK x \in Hash : x = commits[n][i]
  BY <1>1
<1>4. Certified(x)' /\ block'[x] = block[x]
  BY <1>2, <1>3, CertifiedGrows
<1>5. commits'[n][i] = x
  BY <1>3
<1>6. Certified(commits[n][i])'
  BY <1>4, <1>5
<1> QED
  BY <1>3, <1>4, <1>5, <1>6 DEF LinkAt

LEMMA NextBlockStays ==
  ASSUME Grows, NEW n \in Validators, NEW x \in Hash, NextBlock(n, x),
         commits'[n] = commits[n], state'[n] = state[n]
  PROVE  NextBlock(n, x)'
<1>1. Certified(x)' /\ block'[x] = block[x]
  BY CertifiedGrows DEF NextBlock
<1>2. NextHeight(n)' = NextHeight(n) /\ lastHash(n)' = lastHash(n)
  BY DEF NextHeight, lastHash
<1> QED
  BY <1>1, <1>2 DEF NextBlock

LEMMA SavedNextStays ==
  ASSUME Grows, NEW n \in Validators, SavedNext(n),
         commits'[n] = commits[n], state'[n] = state[n], saved'[n] = saved[n]
  PROVE  SavedNext(n)'
<1>1. CASE saved[n] = commits[n]
  BY <1>1 DEF SavedNext
<1>2. CASE \E x \in Hash : NextBlock(n, x) /\ saved[n] = Append(commits[n], x)
  <2>1. PICK x \in Hash : NextBlock(n, x) /\ saved[n] = Append(commits[n], x)
    BY <1>2
  <2>2. NextBlock(n, x)' /\ saved'[n] = Append(commits'[n], x)
    BY <2>1, NextBlockStays
  <2> QED
    BY <2>2 DEF SavedNext
<1> QED
  BY <1>1, <1>2 DEF SavedNext

\* What AppliedOnce says of one validator.
AppliedOnceAt(n) ==
  /\ NoRepeat(state[n])
  /\ Elements(state[n]) = {block[commits[n][i]].payload : i \in 1 .. Len(commits[n])}
  /\ commits[n] # << >> => state[n] = block[lastHash(n)].digest

LEMMA AppliedOnceStays ==
  ASSUME TypeOK, Grows, NEW n \in Validators, AppliedOnceAt(n),
         commits'[n] = commits[n], state'[n] = state[n]
  PROVE  AppliedOnceAt(n)'
<1>1. \A i \in 1 .. Len(commits[n]) :
        block'[commits[n][i]] = block[commits[n][i]]
  BY CommitsBuilt DEF Grows
<1>2. commits[n] # << >> => block'[lastHash(n)] = block[lastHash(n)]
  <2>1. commits[n] # << >> =>
          Len(commits[n]) \in 1 .. Len(commits[n]) /\ lastHash(n) = commits[n][Len(commits[n])]
    BY LedgerType DEF lastHash
  <2> QED
    BY <1>1, <2>1
<1>3. lastHash(n)' = lastHash(n)
  BY DEF lastHash
<1>4. {block'[commits'[n][i]].payload : i \in 1 .. Len(commits'[n])}
        = {block[commits[n][i]].payload : i \in 1 .. Len(commits[n])}
  BY <1>1
<1>5. /\ NoRepeat(state'[n])
      /\ Elements(state'[n])
           = {block'[commits'[n][i]].payload : i \in 1 .. Len(commits'[n])}
  BY <1>4 DEF AppliedOnceAt
<1>6. (commits[n] # << >> => state[n] = block[lastHash(n)].digest)'
  BY <1>2, <1>3 DEF AppliedOnceAt
<1> QED
  BY <1>5, <1>6, Zenon DEF AppliedOnceAt

\* n applies x, and has saved it.
Advance(n, x) ==
  /\ NextBlock(n, x)
  /\ commits'[n] = Append(commits[n], x)
  /\ saved'[n] = Append(commits[n], x)
  /\ state'[n] = block[x].digest

\* n keeps its chain; its store has at most x more.
Ahead(n, x) ==
  /\ NextBlock(n, x)
  /\ commits'[n] = commits[n]
  /\ state'[n] = state[n]
  /\ saved'[n] \in {saved[n], Append(commits[n], x)}

Rests(n) == commits'[n] = commits[n] /\ state'[n] = state[n] /\ saved'[n] = saved[n]

LEMMA AdvanceLinks ==
  ASSUME TypeOK, NEW n \in Validators, NEW x \in Hash, Advance(n, x),
         block' = block, signed' = signed,
         \A i \in 1 .. Len(commits[n]) : LinkAt(commits[n], i),
         NEW i \in 1 .. Len(commits'[n])
  PROVE  LinkAt(commits[n], i)'
<1>1. commits[n] \in Seq(Hash) /\ commits'[n] = Append(commits[n], x)
  BY LedgerType DEF Advance
<1>2. \A y : Certified(y)' <=> Certified(y)
  BY DEF Certified, VerifyQuorumCertificate, Voters
<1>3. CASE i \in 1 .. Len(commits[n])
  <2>1. commits'[n][i] = commits[n][i]
    BY <1>1, <1>3
  <2>2. i # 1 => commits'[n][i - 1] = commits[n][i - 1]
    BY <1>1, <1>3
  <2>3. LinkAt(commits[n], i)
    BY <1>3
  <2> QED
    BY <1>2, <2>1, <2>2, <2>3 DEF LinkAt
<1>4. CASE i = Len(commits[n]) + 1
  <2>1. commits'[n][i] = x
    BY <1>1, <1>4
  <2>2. lastHash(n) = IF i = 1 THEN GenesisHash ELSE commits'[n][i - 1]
    BY <1>1, <1>4 DEF lastHash
  <2> QED
    BY <1>2, <1>4, <2>1, <2>2 DEF LinkAt, Advance, NextBlock, NextHeight
<1> QED
  BY <1>1, <1>3, <1>4

LEMMA AdvanceApplies ==
  ASSUME TypeOK, NEW n \in Validators, NEW x \in Hash, Advance(n, x), block' = block,
         AppliedOnceAt(n)
  PROVE  AppliedOnceAt(n)'
<1> DEFINE c == commits[n]
           c2 == commits'[n]
           d == state'[n]
           paid == {block[c[i]].payload : i \in 1 .. Len(c)}
<1>1. c \in Seq(Hash) /\ c2 = Append(c, x) /\ state[n] \in Seq(Payload)
  BY DEF Advance, TypeOK
<1>2. block[x] # NoBlock /\ d = Apply(state[n], block[x].payload) /\ d = block[x].digest
  BY DEF Advance, NextBlock, Certified
<1>3. block[x].payload \in Payload
  BY <1>2, BlockTypes
<1>4. NoRepeat(d) /\ Elements(d) = Elements(state[n]) \cup {block[x].payload}
  BY <1>1, <1>2, <1>3, ApplyOnce, Zenon DEF AppliedOnceAt
<1>5. {block'[c2[i]].payload : i \in 1 .. Len(c2)} = paid \cup {block[x].payload}
  <2>1. Len(c2) = Len(c) + 1 /\ Len(c) \in Nat /\ c2[Len(c) + 1] = x
    BY <1>1
  <2>2. \A i \in 1 .. Len(c) : c2[i] = c[i]
    BY <1>1
  <2>3. /\ 1 .. Len(c) \subseteq 1 .. Len(c2) /\ Len(c) + 1 \in 1 .. Len(c2)
        /\ \A i \in 1 .. Len(c2) : i \in 1 .. Len(c) \/ i = Len(c) + 1
    BY <2>1
  <2> HIDE DEF c, c2
  <2> QED
    BY <2>1, <2>2, <2>3
<1>6. Elements(d) = {block'[c2[i]].payload : i \in 1 .. Len(c2)}
  BY <1>4, <1>5 DEF AppliedOnceAt
<1>7. lastHash(n)' = x
  BY <1>1 DEF lastHash
<1>8. state'[n] = block'[lastHash(n)'].digest
  BY <1>2, <1>7
<1> QED
  BY <1>4, <1>6, <1>8, Zenon DEF AppliedOnceAt

LEMMA AppliedOnceIs == AppliedOnce <=> \A n \in Validators : AppliedOnceAt(n)
  BY Zenon DEF AppliedOnce, AppliedOnceAt, NoRepeat, Elements

LEMMA AppliedOnceWill == AppliedOnce' <=> \A n \in Validators : AppliedOnceAt(n)'
  BY Zenon DEF AppliedOnce, AppliedOnceAt, NoRepeat, Elements

\* A step in which every chain rests, grows or gets ahead in its store.
ChainsMove ==
  \A n \in Validators :
    \/ Rests(n)
    \/ \E x \in Hash : UNCHANGED network /\ (Advance(n, x) \/ Ahead(n, x))

LEMMA ChainStep ==
  ASSUME TypeOK, Grows, ChainsLinked, AllSavedNext, AppliedOnce, ChainsMove
  PROVE  ChainsLinked' /\ AllSavedNext' /\ AppliedOnce'
<1>1. ASSUME NEW n \in Validators
      PROVE  /\ \A i \in 1 .. Len(commits'[n]) : LinkAt(commits[n], i)'
             /\ SavedNext(n)'
             /\ AppliedOnceAt(n)'
  <2>1. /\ \A i \in 1 .. Len(commits[n]) : LinkAt(commits[n], i)
        /\ SavedNext(n)
        /\ AppliedOnceAt(n)
    BY AppliedOnceIs DEF ChainsLinked, AllSavedNext
  <2>2. ASSUME commits'[n] = commits[n], state'[n] = state[n]
        PROVE  /\ \A i \in 1 .. Len(commits'[n]) : LinkAt(commits[n], i)'
               /\ AppliedOnceAt(n)'
    BY <2>1, <2>2, LinkStays, AppliedOnceStays
  <2>3. CASE Rests(n)
    BY <2>1, <2>2, <2>3, SavedNextStays DEF Rests
  <2>4. ASSUME NEW x \in Hash, UNCHANGED network, Advance(n, x)
        PROVE  /\ \A i \in 1 .. Len(commits'[n]) : LinkAt(commits[n], i)'
               /\ SavedNext(n)'
               /\ AppliedOnceAt(n)'
    <3>1. block' = block /\ signed' = signed
      BY <2>4 DEF network
    <3>2. SavedNext(n)'
      BY <2>4 DEF Advance, SavedNext
    <3> QED
      BY <2>1, <2>4, <3>1, <3>2, AdvanceLinks, AdvanceApplies
  <2>5. ASSUME NEW x \in Hash, UNCHANGED network, Ahead(n, x)
        PROVE  SavedNext(n)'
    <3>1. CASE saved'[n] = saved[n]
      BY <2>1, <2>5, <3>1, SavedNextStays DEF Ahead
    <3>2. CASE saved'[n] = Append(commits[n], x)
      <4>1. NextBlock(n, x)' /\ saved'[n] = Append(commits'[n], x)
        BY <2>5, <3>2, NextBlockStays DEF Ahead
      <4> QED
        BY <4>1 DEF SavedNext
    <3> QED
      BY <2>5, <3>1, <3>2 DEF Ahead
  <2> QED
    BY <2>2, <2>3, <2>4, <2>5 DEF ChainsMove, Ahead
<1> QED
  BY <1>1, AppliedOnceWill DEF ChainsLinked, AllSavedNext

\* ApplyCommit moves the chain of n, and no other.
LEMMA ApplyCommitMoves ==
  ASSUME TypeOK, NEW n \in Validators, NEW x \in Hash, ApplyCommit(n, x)
  PROVE  Grows /\ ChainsMove
<1>1. NextBlock(n, x)
  BY CanApplyBuilt DEF ApplyCommit, canApply, verifyCommit, NextBlock, Certified
<1>2. UNCHANGED network /\ Grows
  BY DEF ApplyCommit, network, Grows
<1>3. \A m \in Validators : m # n => Rests(m)
  BY DEF ApplyCommit, saveCommit, saveFails, TypeOK, Rests
<1>4. n \in DOMAIN commits /\ n \in DOMAIN saved /\ n \in DOMAIN state
  BY DEF TypeOK
<1>5. CASE saveCommit(n, x)
  <2>1. Advance(n, x)
    BY <1>1, <1>4, <1>5 DEF saveCommit, Advance
  <2> QED
    BY <1>2, <1>3, <2>1 DEF ChainsMove
<1>6. CASE saveFails(n, x)
  <2>1. Ahead(n, x)
    BY <1>1, <1>4, <1>6 DEF saveFails, Ahead
  <2> QED
    BY <1>2, <1>3, <2>1 DEF ChainsMove
<1> QED
  BY <1>5, <1>6 DEF ApplyCommit

\* A restart reloads the chain as it is, or with the block the store was ahead by.
LEMMA RestartMoves ==
  ASSUME TypeOK, AllSavedNext, AppliedOnce, NEW n \in Validators, Restart(n)
  PROVE  Grows /\ ChainsMove
<1> DEFINE last == saved[n][Len(saved[n])]
<1>1. UNCHANGED network /\ Grows /\ saved' = saved
  BY DEF Restart, network, Grows
<1>2. \A m \in Validators : m # n => Rests(m)
  BY <1>1, Zenon DEF Restart, TypeOK, Rests
<1>3. /\ commits'[n] = saved[n]
      /\ state'[n] = IF saved[n] = << >> THEN << >> ELSE block[last].digest
  BY DEF Restart, TypeOK
<1>4. CASE saved[n] = commits[n]
  <2>1. AppliedOnceAt(n) /\ state[n] \in Seq(Payload)
    BY AppliedOnceIs DEF TypeOK
  <2>2. state'[n] = state[n]
    <3>1. CASE saved[n] = << >>
      <4>1. Elements(state[n]) = {}
        BY <1>4, <2>1, <3>1 DEF AppliedOnceAt
      <4>2. \A i \in 1 .. Len(state[n]) : FALSE
        BY <4>1, Zenon DEF Elements
      <4>3. state[n] = << >>
        BY <2>1, <4>2
      <4> QED
        BY <1>3, <3>1, <4>3, Zenon
    <3>2. CASE saved[n] # << >>
      BY <1>3, <1>4, <2>1, <3>2, Zenon DEF AppliedOnceAt, lastHash
    <3> QED
      BY <3>1, <3>2
  <2>3. Rests(n)
    BY <1>1, <1>3, <1>4, <2>2 DEF Rests
  <2> QED
    BY <1>1, <1>2, <2>3, Zenon DEF ChainsMove
<1>5. CASE saved[n] # commits[n]
  <2>1. PICK x \in Hash : NextBlock(n, x) /\ saved[n] = Append(commits[n], x)
    BY <1>5 DEF AllSavedNext, SavedNext
  <2>2. saved[n] # << >> /\ last = x
    BY <2>1, LedgerType
  <2>3. Advance(n, x)
    BY <1>1, <1>3, <2>1, <2>2, Zenon DEF Advance
  <2> QED
    BY <1>1, <1>2, <2>3, Zenon DEF ChainsMove
<1> QED
  BY <1>4, <1>5

--------------------------------------------------------------------------------
(* Votes and locks.                                                         *)

\* Only a precommit for a block with a prevote certificate is new in this step.
LEMMA BackedStep ==
  ASSUME PrecommitsBacked, signed \subseteq signed',
         \A x \in Hash : Voters("precommit", x)' = Voters("precommit", x)
                           \/ VerifyQuorumCertificate("prevote", x)
  PROVE  PrecommitsBacked'
<1> SUFFICES ASSUME NEW x \in Hash, Voters("precommit", x)' # {}
             PROVE  VerifyQuorumCertificate("prevote", x)'
  BY DEF PrecommitsBacked
<1>1. VerifyQuorumCertificate("prevote", x)
  BY DEF PrecommitsBacked
<1> QED
  BY <1>1, QuorumGrows DEF Stage

LEMMA VoteBacked ==
  ASSUME PrecommitsBacked, NEW n \in Validators, NEW x \in Hash, NEW b, NEW stage \in Stage,
         castVote(n, x, b, stage) \/ refuseVote,
         stage = "precommit" => VerifyQuorumCertificate("prevote", x)
  PROVE  PrecommitsBacked' /\ signed \subseteq signed'
<1>1. signed \subseteq signed'
  BY DEF castVote, refuseVote
<1>2. signed' \subseteq signed \cup {[voter |-> n, stage |-> stage, hash |-> x]}
  BY DEF castVote, refuseVote
<1>3. ASSUME NEW y \in Hash
      PROVE  Voters("precommit", y)' = Voters("precommit", y)
               \/ VerifyQuorumCertificate("prevote", y)
  <2>1. CASE stage = "precommit" /\ y = x
    BY <2>1
  <2>2. CASE ~ (stage = "precommit" /\ y = x)
    BY <1>1, <1>2, <2>2 DEF Voters
  <2> QED
    BY <2>1, <2>2
<1> QED
  BY <1>1, <1>3, BackedStep

LEMMA SameSignedBacked ==
  ASSUME PrecommitsBacked, signed' = signed
  PROVE  PrecommitsBacked'
  BY BackedStep DEF Voters

LockMade(l) == l.height # 0 => \E x \in Hash : block[x] # NoBlock /\ l = LockOn(x, block[x])

LEMMA LockMadeStays ==
  ASSUME Grows, NEW n \in Validators, LockMade(lock[n]), lock'[n] = lock[n]
  PROVE  LockMade(lock[n])'
<1>1. CASE lock[n].height = 0
  BY <1>1 DEF LockMade
<1>2. CASE lock[n].height # 0
  <2>1. PICK x \in Hash : block[x] # NoBlock /\ lock[n] = LockOn(x, block[x])
    BY <1>2 DEF LockMade
  <2>2. block'[x] # NoBlock /\ lock'[n] = LockOn(x, block'[x])
    BY <2>1 DEF Grows
  <2> QED
    BY <2>2 DEF LockMade
<1> QED
  BY <1>1, <1>2

\* In this step the lock of a validator stays, is set on a built block, or is none.
LEMMA LocksStep ==
  ASSUME Grows, LocksMade,
         \A n \in Validators :
           \/ lock'[n] = lock[n]
           \/ lock'[n] = NoLock
           \/ \E x \in Hash : block'[x] # NoBlock /\ lock'[n] = LockOn(x, block'[x])
  PROVE  LocksMade'
<1>1. ASSUME NEW n \in Validators PROVE LockMade(lock[n])'
  <2>1. CASE lock'[n] = lock[n]
    BY <2>1, LockMadeStays DEF LocksMade, LockMade
  <2>2. CASE lock'[n] = NoLock
    BY <2>2 DEF LockMade, NoLock
  <2>3. CASE \E x \in Hash : block'[x] # NoBlock /\ lock'[n] = LockOn(x, block'[x])
    BY <2>3 DEF LockMade
  <2> QED
    BY <2>1, <2>2, <2>3
<1> QED
  BY <1>1 DEF LocksMade, LockMade

LEMMA VoteLocks ==
  ASSUME TypeOK, Grows, LocksMade, NEW n \in Validators, NEW x \in Hash, NEW stage \in Stage,
         castVote(n, x, block'[x], stage) \/ refuseVote, block'[x] # NoBlock
  PROVE  LocksMade'
<1>1. \A m \in Validators : lock'[m] = lock[m] \/ lock'[m] = LockOn(x, block'[x])
  BY Zenon DEF castVote, refuseVote, TypeOK
<1> QED
  BY <1>1, LocksStep, Zenon

--------------------------------------------------------------------------------
(* The inductive step.                                                      *)

LEMMA CommitKeepsChain ==
  ASSUME TypeOK, ChainInv, NEW n \in Validators, NEW x \in Hash, ApplyCommit(n, x)
  PROVE  ChainInv'
<1>1. Grows /\ ChainsMove
  BY ApplyCommitMoves
<1>2. signed' = signed /\ block' = block /\ block[x] # NoBlock
  BY CanApplyBuilt, Zenon DEF ApplyCommit, network
<1>3. \A m \in Validators : lock'[m] = lock[m] \/ lock'[m] = LockOn(x, block'[x])
  BY <1>2, Zenon DEF ApplyCommit, TypeOK
<1>4. LocksMade'
  BY <1>1, <1>2, <1>3, LocksStep DEF ChainInv
<1> QED
  BY <1>1, <1>2, <1>4, ChainStep, SameSignedBacked DEF ChainInv

LEMMA RestartKeepsChain ==
  ASSUME TypeOK, ChainInv, NEW n \in Validators, Restart(n)
  PROVE  ChainInv'
<1> DEFINE last == saved[n][Len(saved[n])]
<1>1. Grows /\ ChainsMove
  BY RestartMoves, Zenon DEF ChainInv
<1>2. signed' = signed /\ block' = block
  BY Zenon DEF Restart, network
<1>3. \A m \in Validators : m # n => lock'[m] = lock[m]
  BY Zenon DEF Restart, TypeOK
<1>4. lock'[n] = NoLock \/ (saved[n] # << >> /\ lock'[n] = LockOn(last, block[last]))
  BY DEF Restart, TypeOK
<1>5. saved[n] # << >> => last \in Hash /\ block'[last] # NoBlock
  <2>1. saved[n] # << >> => Len(saved[n]) \in 1 .. Len(saved[n])
    BY LedgerType
  <2> QED
    BY <1>2, <2>1, SavedBuilt
<1> HIDE DEF last
<1>6. LocksMade'
  BY <1>1, <1>2, <1>3, <1>4, <1>5, LocksStep, Zenon DEF ChainInv
<1> QED
  BY <1>1, <1>2, <1>6, ChainStep, SameSignedBacked, Zenon DEF ChainInv

\* A step that leaves the ledger alone and at most signs a vote for x.
LEMMA VoteKeepsChain ==
  ASSUME TypeOK, ChainInv, NEW n \in Validators, NEW x \in Hash, NEW stage \in Stage,
         castVote(n, x, block'[x], stage) \/ refuseVote,
         stage = "precommit" => VerifyQuorumCertificate("prevote", x),
         block'[x] # NoBlock,
         \A y \in Hash : block[y] # NoBlock => block'[y] = block[y],
         UNCHANGED ledger
  PROVE  ChainInv'
<1>1. PrecommitsBacked' /\ signed \subseteq signed'
  BY VoteBacked DEF ChainInv
<1>2. Grows
  BY <1>1 DEF Grows
<1>3. ChainsMove
  BY DEF ledger, ChainsMove, Rests
<1>4. LocksMade'
  BY <1>2, VoteLocks DEF ChainInv
<1> QED
  BY <1>1, <1>2, <1>3, <1>4, ChainStep, Zenon DEF ChainInv

LEMMA FrameKeepsChain ==
  ASSUME TypeOK, ChainInv, UNCHANGED << network, lock, ledger >>
  PROVE  ChainInv'
<1>1. Grows /\ ChainsMove /\ signed' = signed
  BY DEF network, ledger, Grows, ChainsMove, Rests
<1>2. LocksMade'
  BY <1>1, LocksStep, Zenon DEF ChainInv
<1> QED
  BY <1>1, <1>2, ChainStep, SameSignedBacked, Zenon DEF ChainInv

LEMMA ChainInductive ==
  ASSUME TypeOK, ChainInv, [Next]_vars
  PROVE  ChainInv'
<1>1. CASE UNCHANGED vars
  BY <1>1, FrameKeepsChain DEF vars, network, ledger
<1>2. ASSUME NEW n \in Validators, (\E tx \in Payload : StartPropose(n, tx))
                \/ AskProposer(n) \/ ProposeNothing(n) \/ AbandonRound(n)
      PROVE  ChainInv'
  BY <1>2, FrameKeepsChain DEF StartPropose, AskProposer, ProposeNothing, AbandonRound,
                               memory
<1>3. ASSUME NEW n \in Validators, NEW x \in Hash, ProposeBlock(n, x)
      PROVE  ChainInv'
  <2>1. /\ block' = [block EXCEPT ![x] = newBlock(n)]
        /\ block[x] = NoBlock
        /\ castVote(n, x, newBlock(n), "prevote") \/ refuseVote
        /\ UNCHANGED ledger
    BY <1>3, Zenon DEF ProposeBlock
  <2>2. session[n] \in Session
    BY <1>3, SessionType, Zenon DEF ProposeBlock, TypeOK
  <2>3. block'[x] = newBlock(n) /\ \A y \in Hash : block[y] # NoBlock => block'[y] = block[y]
    BY <2>1 DEF TypeOK
  <2>4. block'[x] # NoBlock
    BY <2>2, <2>3, NewBlockType, NoBlockNotBlock
  <2> QED
    BY <2>1, <2>3, <2>4, VoteKeepsChain, Zenon DEF Stage
<1>4. ASSUME NEW n \in Validators, NEW x \in Hash, NEW stage \in Stage, block[x] # NoBlock,
             castVote(n, x, block[x], stage) \/ refuseVote,
             stage = "precommit" => VerifyQuorumCertificate("prevote", x),
             block' = block, UNCHANGED ledger
      PROVE  ChainInv'
  BY <1>4, VoteKeepsChain
<1>5. ASSUME NEW n \in Validators, FormPrevoteQC(n)
      PROVE  ChainInv'
  <2>1. session[n].hash \in Hash /\ block[session[n].hash] # NoBlock
    BY <1>5 DEF FormPrevoteQC, TypeOK
  <2> QED
    BY <1>4, <1>5, <2>1, Zenon DEF FormPrevoteQC, Stage
<1>6. ASSUME NEW n \in Validators, NEW x \in Hash,
             HandleProposal(n, x) \/ HandlePrecommit(n, x)
      PROVE  ChainInv'
  BY <1>4, <1>6 DEF HandleProposal, HandlePrecommit, Sent, Stage
<1>7. ASSUME NEW n \in Validators, ReceiveCommit(n)
      PROVE  ChainInv'
  <2> DEFINE leader == ProposerFor(session[n].height, session[n].round)
  <2>1. PICK i \in 1 .. Len(commits[leader]) :
          \/ ApplyCommit(n, commits[leader][i])
          \/ UNCHANGED << network, memory, ledger >>
    BY <1>7 DEF ReceiveCommit
  <2>2. leader \in Validators
    BY <1>7, LeaderType
  <2>3. commits[leader][i] \in Hash
    BY <2>2, CommitsAreHashes, Zenon
  <2> HIDE DEF leader
  <2> QED
    BY <2>1, <2>3, CommitKeepsChain, FrameKeepsChain, Zenon DEF memory
<1>8. ASSUME NEW n \in Validators, FormPrecommitQC(n)
      PROVE  ChainInv'
  BY <1>8, CommitKeepsChain, Zenon DEF FormPrecommitQC, TypeOK
<1>9. ASSUME NEW n \in Validators, NEW x \in Hash, HandleCommit(n, x)
      PROVE  ChainInv'
  BY <1>9, CommitKeepsChain DEF HandleCommit
<1>10. ASSUME NEW n \in Validators, NEW m \in Validators, CatchUp(n, m)
       PROVE  ChainInv'
  BY <1>10, CaughtUpIsHash, CommitKeepsChain DEF CatchUp
<1>11. ASSUME NEW n \in Validators, Restart(n)
       PROVE  ChainInv'
  BY <1>11, RestartKeepsChain
<1> QED
  BY <1>1, <1>2, <1>3, <1>5, <1>6, <1>7, <1>8, <1>9, <1>10, <1>11, Zenon DEF Next

LEMMA ChainAtInit == ASSUME Init PROVE ChainInv
<1>1. \A x : Voters("precommit", x) = {}
  BY DEF Init, Voters
<1>2. PrecommitsBacked
  BY <1>1 DEF PrecommitsBacked
<1>3. \A n \in Validators : commits[n] = << >> /\ saved[n] = << >> /\ state[n] = << >>
                            /\ lock[n] = NoLock
  BY Zenon DEF Init
<1>4. ChainsLinked /\ AllSavedNext /\ LocksMade
  BY <1>3 DEF ChainsLinked, AllSavedNext, SavedNext, LocksMade, NoLock
<1>5. AppliedOnce
  BY <1>3 DEF AppliedOnce
<1> QED
  BY <1>2, <1>4, <1>5, Zenon DEF ChainInv

\* The chain of every validator is well formed at every moment, whatever the
\* threshold and however many validators restart.
THEOREM ChainInvariant == Spec => []ChainInv
<1>1. Init => ChainInv
  BY ChainAtInit
<1>2. TypeOK /\ ChainInv /\ [Next]_vars => ChainInv'
  BY ChainInductive
<1> QED
  BY <1>1, <1>2, TypeCorrect, PTL DEF Spec

\* What a validator has applied is a hash chain of blocks with both certificates:
\* a precommit quorum stands on a prevote quorum (FormPrevoteQC, HandlePrecommit),
\* and a block that a failed save left in the store is one that ApplyCommit had
\* accepted on top of this very chain.
THEOREM ChainsAreCertified == Spec => []ChainCertified
<1>1. TypeOK /\ ChainInv => ChainCertified
  <2> SUFFICES ASSUME TypeOK, ChainInv, NEW n \in Validators,
                      NEW i \in 1 .. Len(commits[n])
               PROVE  LinkAt(commits[n], i)
                        /\ VerifyQuorumCertificate("prevote", commits[n][i])
    BY DEF ChainCertified, LinkAt
  <2>1. LinkAt(commits[n], i) /\ commits[n][i] \in Hash
    BY CommitsBuilt DEF ChainInv, ChainsLinked
  <2> QED
    BY <2>1, CertifiedBacked, Zenon DEF LinkAt, ChainInv
<1> QED
  BY <1>1, TypeCorrect, ChainInvariant, PTL

\* The state machine of a validator has applied the payloads of its chain, each once,
\* and its digest is the one its last block announced, also after it reloads a
\* commit that it could not report as saved (loadPersistedState).
THEOREM StateAppliesOnce == Spec => []AppliedOnce
<1>1. ChainInv => AppliedOnce
  BY Zenon DEF ChainInv
<1> QED
  BY <1>1, ChainInvariant, PTL

--------------------------------------------------------------------------------
(* The lock.                                                                *)

\* A vote for x at the next height keeps a lock on x, and is refused by any other.
LEMMA VoteKeepsLock ==
  ASSUME TypeOK, LocksMade, NEW n \in Validators, NEW x \in Hash, block[x] # NoBlock,
         NEW stage, NEW b, block[x] = b,
         castVote(n, x, b, stage) \/ refuseVote, block[x].height = NextHeight(n)
  PROVE  \A m \in Validators : LockKept(m)
<1>1. \A m \in Validators : m # n => lock'[m] = lock[m]
  BY Zenon DEF castVote, refuseVote, TypeOK
<1>2. CASE lock[n].height = NextHeight(n) /\ castVote(n, x, b, stage)
  <2>1. lock[n].hash = x
    BY <1>2, Zenon DEF castVote, checkLock
  <2>2. lock[n].height # 0
    BY <1>2, LastHashType, Zenon
  <2>3. PICK y \in Hash : block[y] # NoBlock /\ lock[n] = LockOn(y, block[y])
    BY <2>2, Zenon DEF LocksMade
  <2>4. lock[n] = LockOn(x, block[x])
    BY <2>1, <2>3 DEF LockOn
  <2>5. lock'[n] = lock[n]
    BY <1>2, <2>4, Zenon DEF castVote, TypeOK
  <2> QED
    BY <1>1, <2>5, Zenon DEF LockKept
<1>3. CASE lock[n].height # NextHeight(n) \/ refuseVote
  BY <1>1, <1>3, Zenon DEF refuseVote, LockKept
<1> QED
  BY <1>2, <1>3, Zenon

LEMMA CommitKeepsLock ==
  ASSUME TypeOK, NEW n \in Validators, NEW x \in Hash, ApplyCommit(n, x)
  PROVE  \A m \in Validators : LockKept(m)
<1>1. \A m \in Validators : m # n => lock'[m] = lock[m]
  BY Zenon DEF ApplyCommit, TypeOK
<1>2. lock'[n].height = NextHeight(n) /\ lock'[n].hash = x
  BY Zenon DEF ApplyCommit, LockOn, TypeOK, canApply
<1>3. Certified(x)
  BY CanApplyBuilt DEF ApplyCommit, canApply, verifyCommit, Certified
<1> QED
  BY <1>1, <1>2, <1>3, Zenon DEF LockKept

LEMMA LockStep ==
  ASSUME TypeOK, ChainInv, [Next]_vars
  PROVE  \A m \in Validators : LockKept(m)
<1>1. ASSUME lock' = lock PROVE \A m \in Validators : LockKept(m)
  BY <1>1 DEF LockKept
<1>2. CASE UNCHANGED vars
  BY <1>1, <1>2 DEF vars
<1>3. ASSUME NEW n \in Validators, (\E tx \in Payload : StartPropose(n, tx))
                \/ AskProposer(n) \/ ProposeNothing(n) \/ AbandonRound(n)
      PROVE  \A m \in Validators : LockKept(m)
  BY <1>1, <1>3 DEF StartPropose, AskProposer, ProposeNothing, AbandonRound, memory
<1>4. ASSUME NEW n \in Validators, NEW x \in Hash, ProposeBlock(n, x)
      PROVE  \A m \in Validators : LockKept(m)
  <2>1. lock' = lock
    BY <1>4 DEF ProposeBlock, castVote, refuseVote
  <2> QED
    BY <1>1, <2>1
<1>5. ASSUME NEW n \in Validators, FormPrevoteQC(n)
      PROVE  \A m \in Validators : LockKept(m)
  <2> DEFINE x == session[n].hash
  <2>1. x \in Hash /\ block[x] # NoBlock
    BY <1>5, Zenon DEF FormPrevoteQC, TypeOK
  <2>2. /\ castVote(n, x, block[x], "precommit") \/ refuseVote
        /\ block[x].height = NextHeight(n)
    BY <1>5 DEF FormPrevoteQC, validateProposal
  <2> HIDE DEF x
  <2> QED
    BY <2>1, <2>2, VoteKeepsLock, Zenon DEF ChainInv
<1>6. ASSUME NEW n \in Validators, NEW x \in Hash,
             HandleProposal(n, x) \/ HandlePrecommit(n, x)
      PROVE  \A m \in Validators : LockKept(m)
  <2>1. \E stage \in Stage : castVote(n, x, block[x], stage) \/ refuseVote
    BY <1>6, Zenon DEF HandleProposal, HandlePrecommit, Stage
  <2>2. block[x] # NoBlock /\ block[x].height = NextHeight(n)
    BY <1>6, Zenon DEF HandleProposal, HandlePrecommit, Sent, validateProposal
  <2> QED
    BY <2>1, <2>2, VoteKeepsLock, Zenon DEF ChainInv
<1>7. ASSUME NEW n \in Validators, ReceiveCommit(n)
      PROVE  \A m \in Validators : LockKept(m)
  <2> DEFINE leader == ProposerFor(session[n].height, session[n].round)
  <2>1. PICK i \in 1 .. Len(commits[leader]) :
          \/ ApplyCommit(n, commits[leader][i])
          \/ UNCHANGED << network, memory, ledger >>
    BY <1>7 DEF ReceiveCommit
  <2>2. leader \in Validators
    BY <1>7, LeaderType
  <2>3. commits[leader][i] \in Hash
    BY <2>2, CommitsAreHashes
  <2> HIDE DEF leader
  <2> QED
    BY <1>1, <2>1, <2>3, CommitKeepsLock, Zenon DEF memory
<1>8. ASSUME NEW n \in Validators, FormPrecommitQC(n)
      PROVE  \A m \in Validators : LockKept(m)
  BY <1>8, CommitKeepsLock, Zenon DEF FormPrecommitQC, TypeOK
<1>9. ASSUME NEW n \in Validators, NEW x \in Hash, HandleCommit(n, x)
      PROVE  \A m \in Validators : LockKept(m)
  BY <1>9, CommitKeepsLock, Zenon DEF HandleCommit
<1>10. ASSUME NEW n \in Validators, NEW k \in Validators, CatchUp(n, k)
       PROVE  \A m \in Validators : LockKept(m)
  BY <1>10, CaughtUpIsHash, CommitKeepsLock, Zenon DEF CatchUp
<1>11. ASSUME NEW n \in Validators, Restart(n)
       PROVE  \A m \in Validators : LockKept(m)
  <2>1. n \in restarted' /\ \A m \in Validators : m # n => lock'[m] = lock[m]
    BY <1>11, Zenon DEF Restart, TypeOK
  <2> QED
    BY <2>1, Zenon DEF LockKept
<1> QED
  BY <1>2, <1>3, <1>4, <1>5, <1>6, <1>7, <1>8, <1>9, <1>10, <1>11, Zenon DEF Next

\* While a height is undecided, the lock of a validator that keeps its memory stays
\* or moves to a certified block of that height, whatever is proposed in later
\* rounds and whatever save fails (checkLock, castVote, ApplyCommit).
THEOREM LockIsHeld == Spec => LockHolds
<1>1. TypeOK /\ ChainInv /\ [Next]_vars => [\A n \in Validators : LockKept(n)]_vars
  BY LockStep
<1> QED
  BY <1>1, TypeCorrect, ChainInvariant, PTL DEF Spec, LockHolds

================================================================================
