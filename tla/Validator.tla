------------------------------- MODULE Validator -------------------------------
(***************************************************************************)
(* The consensus core of a pq-fabric validator: consensus/validator/node.go *)
(* over consensus/protocol and consensus/state.                             *)
(*                                                                          *)
(* A validator that is asked to propose walks the rounds of its next        *)
(* height.  In a round it leads it builds a block, collects prevotes, locks *)
(* and precommits on a prevote quorum certificate, collects precommits, and *)
(* applies and broadcasts the commit; in every other round it forwards the  *)
(* request to the scheduled proposer and waits.  All validators serve       *)
(* proposal, precommit and commit requests meanwhile.                       *)
(*                                                                          *)
(* Abstractions.  A block hash is an element of Hash, and block[x] is the   *)
(* block whose hash is x (no collisions; CreatedAtUnixMilli makes every new *)
(* block a new hash).  The state digest, a hash chain over the newly        *)
(* applied transactions, is the sequence of those transactions.  A vote     *)
(* carries the height and the round of its block, so it is a stage and a    *)
(* hash.  Requests are not stored: the proposer sends its proposal once it  *)
(* has prevoted, its precommit request once it has precommitted, and its    *)
(* commit once it has applied it, so a request is in flight, to be          *)
(* delivered late, repeatedly or never, exactly when the proposer has done  *)
(* so.  The rounds a node keeps for heights other than its next one are     *)
(* never read again, so currentRound[n] is the round of the next height.    *)
(***************************************************************************)
EXTENDS Integers, Sequences, FiniteSets

CONSTANTS
  Validators,     \* the active validator identities
  validatorIDs,   \* their order: a sequence of Validators
  Threshold,      \* cfg.Threshold, votes in a quorum certificate
  MaxRounds,      \* cfg.MaxRounds, rounds one Propose call walks
  Hash,           \* block hashes; bounds the number of blocks ever built
  GenesisHash,    \* protocol.GenesisHash
  Payload,        \* transactions
  MaxCalls,       \* bound on the number of Propose calls
  MaxRestarts     \* bound on the number of validators whose process restarts

N == Cardinality(Validators)

ASSUME ValidatorsAssumption ==
  /\ IsFiniteSet(Validators)
  /\ validatorIDs \in [1 .. N -> Validators]
  /\ N \in Nat \ {0}

ASSUME BoundsAssumption ==
  /\ Threshold \in Nat \ {0}
  /\ MaxRounds \in Nat \ {0}
  /\ MaxCalls \in Nat
  /\ MaxRestarts \in Nat
  /\ GenesisHash \notin Hash

VARIABLES
  block,          \* block[x]: the block with hash x, once it is built
  signed,         \* every vote ever signed: what certificates are made of
  votes,          \* votes[n]: n.votes, the volatile vote cache
  proposals,      \* proposals[n]: n.proposals, volatile
  currentRound,   \* currentRound[n]: n.currentRound[next height], volatile
  lock,           \* lock[n]: n.lock, durable only as of the last commit
  commits,        \* commits[n]: n.commits
  state,          \* state[n]: n.state, the transactions applied, in order
  saved,          \* saved[n]: the commits that n.store would reload
  session,        \* session[n]: the Propose call that holds n.proposeMu
  calls,          \* the number of Propose calls so far
  restarted       \* the validators whose process has restarted

vars == << block, signed, votes, proposals, currentRound, lock, commits, state,
           saved, session, calls, restarted >>

network == << block, signed >>
memory == << votes, proposals, currentRound, lock >>
ledger == << commits, state, saved >>
bounds == << calls, restarted >>

--------------------------------------------------------------------------------
(* Blocks, votes, certificates and the state machine.                       *)

Stage == {"prevote", "precommit"}

NoBlock == [height |-> 0]

Block == [height : Nat \ {0}, round : Nat, prev : Hash \cup {GenesisHash},
          payload : Payload, digest : Seq(Payload), proposer : Validators]

NoLock == [height |-> 0, round |-> 0, hash |-> GenesisHash]

LockOn(x, b) == [height |-> b.height, round |-> b.round, hash |-> x]

ProposerFor(height, round) == validatorIDs[((height - 1 + round) % N) + 1]

Voters(stage, x) ==
  {n \in Validators : [voter |-> n, stage |-> stage, hash |-> x] \in signed}

VerifyQuorumCertificate_SmallQuorum(stage, x) ==
  Cardinality(Voters(stage, x)) >= Threshold - 1

\* Enough unique votes of one stage for one block: a certificate for it can be
\* formed, and it verifies at every validator.
VerifyQuorumCertificate(stage, x) == Cardinality(Voters(stage, x)) >= Threshold

Apply_Always(st, tx) == Append(st, tx)

\* Machine.Apply: a transaction that was applied before leaves the digest alone.
Apply(st, tx) ==
  IF \E i \in 1 .. Len(st) : st[i] = tx THEN st ELSE Append(st, tx)

lastHash_Genesis(n) == GenesisHash

lastHash(n) ==
  IF commits[n] = << >> THEN GenesisHash ELSE commits[n][Len(commits[n])]

NextHeight_Len(n) == Len(commits[n])

NextHeight(n) == Len(commits[n]) + 1

--------------------------------------------------------------------------------
(* voteForProposal: validate, record, check the lock and the vote cache,    *)
(* sign.  b is the block with hash x.                                       *)

SameSlot(y, b) == block[y].height = b.height /\ block[y].round = b.round

validateProposal(n, x, b) ==
  /\ b.height = NextHeight(n)
  /\ b.round >= currentRound[n]
  /\ b.proposer = ProposerFor(b.height, b.round)
  /\ b.prev = lastHash(n)
  /\ b.digest = Apply(state[n], b.payload)
  /\ \A y \in proposals[n] : SameSlot(y, b) => y = x

\* The tail of validateProposalLocked.  It stays recorded when the lock, the vote
\* cache or the signer then refuses the vote.
recordProposal(n, x, b) ==
  /\ proposals' = [proposals EXCEPT ![n] = @ \cup {x}]
  /\ currentRound' = [currentRound EXCEPT ![n] = b.round]

checkLock_LaterRoundUnlocks(n, x, b) ==
  lock[n].height = b.height /\ b.round <= lock[n].round => lock[n].hash = x

\* Conservative: a lock at this height refuses every other block, in any round.
checkLock(n, x, b) == lock[n].height = b.height => lock[n].hash = x

checkVoteCache(n, x, b, stage) ==
  \A v \in votes[n] : v.stage = stage /\ SameSlot(v.hash, b) => v.hash = x

castVote_NoLock(n, x, b, stage) ==
  /\ checkLock(n, x, b)
  /\ checkVoteCache(n, x, b, stage)
  /\ votes' = [votes EXCEPT ![n] = @ \cup {[stage |-> stage, hash |-> x]}]
  /\ signed' = signed \cup {[voter |-> n, stage |-> stage, hash |-> x]}
  /\ lock' = lock

\* A cached vote is returned as it is; a new precommit also sets the lock.
castVote(n, x, b, stage) ==
  LET vote == [stage |-> stage, hash |-> x] IN
  /\ checkLock(n, x, b)
  /\ checkVoteCache(n, x, b, stage)
  /\ votes' = [votes EXCEPT ![n] = @ \cup {vote}]
  /\ signed' = signed \cup {[voter |-> n, stage |-> stage, hash |-> x]}
  /\ lock' = IF stage = "precommit" /\ vote \notin votes[n]
             THEN [lock EXCEPT ![n] = LockOn(x, b)] ELSE lock

\* The proposal passes validation and the lock, the vote cache or the signer
\* refuses the vote.
refuseVote == UNCHANGED << votes, signed, lock >>

--------------------------------------------------------------------------------
(* ApplyCommit.                                                             *)

verifyCommit_NoQuorum(x) ==
  block[x].proposer = ProposerFor(block[x].height, block[x].round)

verifyCommit(x) ==
  /\ block[x].proposer = ProposerFor(block[x].height, block[x].round)
  /\ VerifyQuorumCertificate("precommit", x)

canApply(n, x) ==
  /\ verifyCommit(x)
  /\ block[x].height = NextHeight(n)
  /\ block[x].round >= currentRound[n]
  /\ block[x].prev = lastHash(n)
  /\ block[x].digest = Apply(state[n], block[x].payload)

\* The store already holds x at this height, or nothing.
storeAccepts(n, x) == saved[n] \in {commits[n], Append(commits[n], x)}

saveCommit(n, x) ==
  /\ storeAccepts(n, x)
  /\ commits' = [commits EXCEPT ![n] = Append(@, x)]
  /\ saved' = [saved EXCEPT ![n] = Append(commits[n], x)]
  /\ state' = [state EXCEPT ![n] = block[x].digest]
  /\ currentRound' = [currentRound EXCEPT ![n] = 0]

\* SaveCommit returns an error; what it wrote before the error may be durable.
saveFails(n, x) ==
  /\ \/ saved' = saved
     \/ storeAccepts(n, x) /\ saved' = [saved EXCEPT ![n] = Append(commits[n], x)]
  /\ UNCHANGED << commits, state, currentRound >>

\* The lock moves before the store is asked, and stays moved when it fails.
ApplyCommit(n, x) ==
  /\ canApply(n, x)
  /\ lock' = [lock EXCEPT ![n] = LockOn(x, block[x])]
  /\ saveCommit(n, x) \/ saveFails(n, x)
  /\ UNCHANGED << network, votes, proposals >>

--------------------------------------------------------------------------------
(* Propose: one call at a time, serialised by proposeMu.                    *)

Idle == [pc |-> "idle"]

NextRound(s) ==
  IF s.round + 1 < MaxRounds
  THEN [pc |-> "round", height |-> s.height, round |-> s.round + 1,
        payload |-> s.payload, hash |-> GenesisHash]
  ELSE Idle

markRound(n) ==
  LET s == session[n] IN
  IF s.height = NextHeight(n) /\ s.round > currentRound[n]
  THEN [currentRound EXCEPT ![n] = s.round] ELSE currentRound

newBlock(n) ==
  LET s == session[n] IN
  [height |-> s.height, round |-> s.round, prev |-> lastHash(n),
   payload |-> s.payload, digest |-> Apply(state[n], s.payload), proposer |-> n]

\* A client, or a validator that does not lead its round, calls Propose at n.
StartPropose(n, tx) ==
  /\ session[n].pc = "idle"
  /\ session' = [session EXCEPT ![n] =
       [pc |-> "round", height |-> NextHeight(n), round |-> 0,
        payload |-> tx, hash |-> GenesisHash]]
  /\ calls < MaxCalls
  /\ calls' = calls + 1
  /\ UNCHANGED << network, memory, ledger, restarted >>

\* Another validator leads the round: ask it and wait for the commit.
AskProposer(n) ==
  /\ session[n].pc = "round"
  /\ ProposerFor(session[n].height, session[n].round) # n
  /\ currentRound' = markRound(n)
  /\ session' = [session EXCEPT ![n].pc = "waiting"]
  /\ UNCHANGED << network, votes, proposals, lock, ledger, bounds >>

\* The proposer answers with a commit it has applied.  Propose applies it and
\* returns, whatever ApplyCommit says.
ReceiveCommit(n) ==
  LET leader == ProposerFor(session[n].height, session[n].round) IN
  /\ session[n].pc = "waiting"
  /\ \E i \in 1 .. Len(commits[leader]) :
       \/ ApplyCommit(n, commits[leader][i])
       \/ /\ ~ canApply(n, commits[leader][i])
          /\ UNCHANGED << network, memory, ledger >>
  /\ session' = [session EXCEPT ![n] = Idle]
  /\ UNCHANGED bounds

\* n leads the round: mark it, build a block, prevote for it and send it.
ProposeBlock(n, x) ==
  LET s == session[n]
      b == newBlock(n) IN
  /\ s.pc = "round"
  /\ ProposerFor(s.height, s.round) = n
  /\ block[x] = NoBlock
  /\ s.height = NextHeight(n)
  /\ validateProposal(n, x, b)
  /\ recordProposal(n, x, b)
  /\ block' = [block EXCEPT ![x] = b]
  /\ \/ /\ castVote(n, x, b, "prevote")
        /\ session' = [session EXCEPT ![n].pc = "prevote", ![n].hash = x]
     \/ /\ refuseVote
        /\ session' = [session EXCEPT ![n] = NextRound(s)]
  /\ UNCHANGED << ledger, bounds >>

\* n leads the round and has nothing to send: the height is taken, another block
\* holds the slot, the round has passed, or the signer fails.
ProposeNothing(n) ==
  /\ session[n].pc = "round"
  /\ ProposerFor(session[n].height, session[n].round) = n
  /\ currentRound' = markRound(n)
  /\ session' = [session EXCEPT ![n] = NextRound(session[n])]
  /\ UNCHANGED << network, votes, proposals, lock, ledger, bounds >>

\* The prevotes that came back make a certificate: the proposer precommits on it,
\* locks, and sends it with its precommit requests.
FormPrevoteQC(n) ==
  LET s == session[n]
      b == block[s.hash] IN
  /\ s.pc = "prevote"
  /\ VerifyQuorumCertificate("prevote", s.hash)
  /\ validateProposal(n, s.hash, b)
  /\ recordProposal(n, s.hash, b)
  /\ \/ /\ castVote(n, s.hash, b, "precommit")
        /\ session' = [session EXCEPT ![n].pc = "precommit"]
     \/ /\ refuseVote
        /\ session' = [session EXCEPT ![n] = NextRound(s)]
  /\ UNCHANGED << block, ledger, bounds >>

\* The precommits that came back make a certificate: apply and broadcast.
FormPrecommitQC(n) ==
  /\ session[n].pc = "precommit"
  /\ ApplyCommit(n, session[n].hash)
  /\ session' = [session EXCEPT ![n] =
                   IF commits'[n] # commits[n] THEN Idle ELSE NextRound(@)]
  /\ UNCHANGED bounds

\* The peers refuse, fail or time out, or what they sent does not verify here.
AbandonRound(n) ==
  /\ session[n].pc \in {"waiting", "prevote", "precommit"}
  /\ session' = [session EXCEPT ![n] = NextRound(@)]
  /\ UNCHANGED << network, memory, ledger, bounds >>

--------------------------------------------------------------------------------
(* What a validator serves to its peers, catch-up, and restart.             *)

\* x was sent by its proposer for a vote in this stage.
Sent(stage, x) ==
  /\ block[x] # NoBlock
  /\ block[x].proposer \in Voters(stage, x)

HandleProposal(n, x) ==
  /\ Sent("prevote", x)
  /\ block[x].proposer # n
  /\ validateProposal(n, x, block[x])
  /\ recordProposal(n, x, block[x])
  /\ castVote(n, x, block[x], "prevote") \/ refuseVote
  /\ UNCHANGED << block, ledger, session, bounds >>

HandlePrecommit(n, x) ==
  /\ Sent("precommit", x)
  /\ block[x].proposer # n
  /\ VerifyQuorumCertificate("prevote", x)
  /\ validateProposal(n, x, block[x])
  /\ recordProposal(n, x, block[x])
  /\ castVote(n, x, block[x], "precommit") \/ refuseVote
  /\ UNCHANGED << block, ledger, session, bounds >>

HandleCommit(n, x) ==
  /\ block[x] # NoBlock
  /\ \E i \in 1 .. Len(commits[block[x].proposer]) :
       commits[block[x].proposer][i] = x
  /\ ApplyCommit(n, x)
  /\ UNCHANGED << session, bounds >>

validateCatchUpCandidate_OffByOne(n, m) ==
  /\ Len(commits[m]) > NextHeight(n)
  /\ \A i \in 1 .. Len(commits[n]) : commits[m][i] = commits[n][i]

\* A longer chain that extends n's own by valid commits.
validateCatchUpCandidate(n, m) ==
  /\ Len(commits[m]) > Len(commits[n])
  /\ \A i \in 1 .. Len(commits[n]) : commits[m][i] = commits[n][i]
  /\ \A i \in NextHeight(n) .. Len(commits[m]) :
       LET b == block[commits[m][i]]
           first == i = NextHeight(n) IN
       /\ b.height = i
       /\ b.prev = IF first THEN lastHash(n) ELSE commits[m][i - 1]
       /\ verifyCommit(commits[m][i])
       /\ b.digest = Apply(IF first THEN state[n] ELSE block[commits[m][i - 1]].digest,
                           b.payload)

\* One iteration of CatchUpFromPeers: the next commit of a longer chain.
CatchUp(n, m) ==
  /\ validateCatchUpCandidate(n, m)
  /\ ApplyCommit(n, commits[m][NextHeight(n)])
  /\ UNCHANGED << session, bounds >>

\* NewNode and loadPersistedState: only what was saved, and the lock saved with the
\* last commit, survive the process.
Restart(n) ==
  LET last == saved[n][Len(saved[n])]
      empty == saved[n] = << >> IN
  /\ Cardinality(restarted \cup {n}) <= MaxRestarts
  /\ restarted' = restarted \cup {n}
  /\ votes' = [votes EXCEPT ![n] = {}]
  /\ proposals' = [proposals EXCEPT ![n] = {}]
  /\ currentRound' = [currentRound EXCEPT ![n] = 0]
  /\ commits' = [commits EXCEPT ![n] = saved[n]]
  /\ state' = [state EXCEPT ![n] = IF empty THEN << >> ELSE block[last].digest]
  /\ lock' = [lock EXCEPT ![n] = IF empty THEN NoLock ELSE LockOn(last, block[last])]
  /\ session' = [session EXCEPT ![n] = Idle]
  /\ UNCHANGED << network, saved, calls >>

--------------------------------------------------------------------------------
Init ==
  /\ block = [x \in Hash |-> NoBlock]
  /\ signed = {}
  /\ votes = [n \in Validators |-> {}]
  /\ proposals = [n \in Validators |-> {}]
  /\ currentRound = [n \in Validators |-> 0]
  /\ lock = [n \in Validators |-> NoLock]
  /\ commits = [n \in Validators |-> << >>]
  /\ state = [n \in Validators |-> << >>]
  /\ saved = [n \in Validators |-> << >>]
  /\ session = [n \in Validators |-> Idle]
  /\ calls = 0
  /\ restarted = {}

Next ==
  \E n \in Validators :
    \/ \E tx \in Payload : StartPropose(n, tx)
    \/ AskProposer(n)
    \/ ReceiveCommit(n)
    \/ \E x \in Hash : ProposeBlock(n, x)
    \/ ProposeNothing(n)
    \/ FormPrevoteQC(n)
    \/ FormPrecommitQC(n)
    \/ AbandonRound(n)
    \/ \E x \in Hash : HandleProposal(n, x)
    \/ \E x \in Hash : HandlePrecommit(n, x)
    \/ \E x \in Hash : HandleCommit(n, x)
    \/ \E m \in Validators : CatchUp(n, m)
    \/ Restart(n)

Spec == Init /\ [][Next]_vars

\* The caller of CatchUpFromPeers repeats the call for as long as a peer is ahead, and
\* reaches each peer, and the store does not fail for ever.  Nothing else is fair.
FairCatchUp ==
  \A n, m \in Validators : WF_vars(CatchUp(n, m) /\ commits'[n] # commits[n])

FairSpec == Spec /\ FairCatchUp

--------------------------------------------------------------------------------
(* Properties.                                                              *)

Vote == [stage : Stage, hash : Hash]

Session == [pc : {"round", "waiting", "prevote", "precommit"},
            height : Nat \ {0}, round : Nat, payload : Payload,
            hash : Hash \cup {GenesisHash}]

AllBuilt(chains) ==
  \A n \in Validators : \A i \in 1 .. Len(chains[n]) : block[chains[n][i]] # NoBlock

\* Every variable has the type of the field of Node it models; a vote is only ever
\* signed or a commit applied for a block that was built, and a Propose call that
\* collects votes has one.
TypeOK ==
  /\ block \in [Hash -> Block \cup {NoBlock}]
  /\ signed \subseteq [voter : Validators, stage : Stage, hash : Hash]
  /\ votes \in [Validators -> SUBSET Vote]
  /\ proposals \in [Validators -> SUBSET Hash]
  /\ currentRound \in [Validators -> Nat]
  /\ lock \in [Validators -> [height : Nat, round : Nat,
                              hash : Hash \cup {GenesisHash}]]
  /\ commits \in [Validators -> Seq(Hash)]
  /\ state \in [Validators -> Seq(Payload)]
  /\ saved \in [Validators -> Seq(Hash)]
  /\ session \in [Validators -> Session \cup {Idle}]
  /\ calls \in Nat
  /\ restarted \subseteq Validators
  /\ \A v \in signed : block[v.hash] # NoBlock
  /\ \A n \in Validators :
       session[n].pc \in {"prevote", "precommit"} =>
         session[n].hash \in Hash /\ block[session[n].hash] # NoBlock
  /\ AllBuilt(commits)
  /\ AllBuilt(saved)

\* x has a precommit quorum: a commit for it verifies at every validator.
Certified(x) == block[x] # NoBlock /\ VerifyQuorumCertificate("precommit", x)

\* The threshold leaves, in any two quorums, a common validator that has not lost
\* its votes and its lock in a restart.
SafeThreshold == 2 * Threshold > N + MaxRestarts

\* ApplyCommit accepts any block with a verified precommit certificate, so no two
\* blocks of one height may ever be certified, committed or not.
UniqueCertificate ==
  \A x, y \in Hash :
    Certified(x) /\ Certified(y) /\ block[x].height = block[y].height => x = y

\* No two validators apply different blocks at one height.
Agreement ==
  \A n, m \in Validators : \A i \in 1 .. Len(commits[n]) :
    i <= Len(commits[m]) => commits[n][i] = commits[m][i]

\* What a validator has applied is a hash chain of certified blocks, each at its
\* own height and backed by both vote stages.
ChainCertified ==
  \A n \in Validators : \A i \in 1 .. Len(commits[n]) :
    LET x == commits[n][i] IN
    /\ Certified(x)
    /\ VerifyQuorumCertificate("prevote", x)
    /\ block[x].height = i
    /\ block[x].prev = IF i = 1 THEN GenesisHash ELSE commits[n][i - 1]

\* The state machine applies each committed transaction exactly once, however often
\* it was proposed, and its digest is the one the last committed block announced.
AppliedOnce ==
  \A n \in Validators :
    /\ \A i, j \in 1 .. Len(state[n]) : state[n][i] = state[n][j] => i = j
    /\ {state[n][i] : i \in 1 .. Len(state[n])} =
         {block[commits[n][i]].payload : i \in 1 .. Len(commits[n])}
    /\ commits[n] # << >> => state[n] = block[lastHash(n)].digest

\* A validator that kept its memory precommits two blocks of one height only if one
\* of them was certified without it (the lock moves to a commit that it could not
\* save).
PrecommitsOneBlock ==
  \A n \in Validators \ restarted : \A x, y \in Hash :
    /\ n \in Voters("precommit", x)
    /\ n \in Voters("precommit", y)
    /\ x # y
    /\ block[x].height = block[y].height
    => Certified(x) \/ Certified(y)

\* "refuses conflicting votes at the same height": no validator signs precommits for
\* two blocks of a height.
RefusesConflictingVotes ==
  \A n \in Validators : \A x, y \in Hash :
    /\ n \in Voters("precommit", x)
    /\ n \in Voters("precommit", y)
    /\ block[x].height = block[y].height
    => x = y

\* The validators that precommitted x and, unless they restarted, no other block of
\* its height.
SoleVoters(x) ==
  {n \in Voters("precommit", x) :
     n \in restarted \/ \A y \in Hash :
       n \in Voters("precommit", y) /\ block[y].height = block[x].height => y = x}

FirmlyCertified(x) == block[x] # NoBlock /\ Cardinality(SoleVoters(x)) >= Threshold

\* A built block at the given height.
BuiltAt(x, height) == x \in Hash /\ block[x] # NoBlock /\ block[x].height = height

\* A validator that kept its memory has precommitted nothing above its next height;
\* if it precommitted x at that height it is still locked there, on x or on a block
\* that was certified without it.
LocksCoverPrecommits ==
  \A n \in Validators \ restarted : \A x \in Hash :
    n \in Voters("precommit", x) =>
      /\ block[x].height <= NextHeight(n)
      /\ block[x].height = NextHeight(n) =>
           /\ lock[n].height = block[x].height
           /\ lock[n].hash = x \/ FirmlyCertified(lock[n].hash)

\* What n would reload is what it has applied, or one certified block more.
SavedAhead(n) ==
  \/ saved[n] = commits[n]
  \/ \E x \in Hash :
       BuiltAt(x, NextHeight(n)) /\ Certified(x) /\ saved[n] = Append(commits[n], x)

\* A cached vote was signed.
VotesSigned ==
  \A n \in Validators : \A v \in votes[n] :
    [voter |-> n, stage |-> v.stage, hash |-> v.hash] \in signed

\* A lock is on a built block of its height.
LocksBuilt ==
  \A n \in Validators : lock[n].height # 0 => BuiltAt(lock[n].hash, lock[n].height)

\* An applied block is certified, and at its height.
AppliedCertified ==
  \A n \in Validators : \A i \in 1 .. Len(commits[n]) :
    BuiltAt(commits[n][i], i) /\ Certified(commits[n][i])

AllSavedAhead == \A n \in Validators : SavedAhead(n)

RestartsBounded == Cardinality(restarted) <= MaxRestarts

CertificatesFirm == \A x \in Hash : Certified(x) => FirmlyCertified(x)

\* PrecommitsOneBlock, with the certificate resting on validators other than n.
DoubleVotesCovered ==
  \A n \in Validators \ restarted : \A x, y \in Hash :
    /\ n \in Voters("precommit", x)
    /\ n \in Voters("precommit", y)
    /\ x # y
    /\ block[x].height = block[y].height
    => FirmlyCertified(x) \/ FirmlyCertified(y)

\* The inductive invariant behind UniqueCertificate and Agreement: a certificate
\* always rests on a quorum of validators that precommitted nothing else at its
\* height (castVote, checkLock), locks and caches point at what was signed, and
\* what is applied or saved is certified (ApplyCommit).
SafetyInv ==
  /\ VotesSigned
  /\ LocksBuilt
  /\ AppliedCertified
  /\ AllSavedAhead
  /\ RestartsBounded
  /\ LocksCoverPrecommits
  /\ CertificatesFirm
  /\ DoubleVotesCovered

\* While a height is undecided at n, and n keeps its memory, its lock stays or moves to
\* a certified block of the height.
LockKept(n) ==
  /\ lock[n].height = NextHeight(n)
  /\ commits'[n] = commits[n]
  /\ n \notin restarted'
  => lock'[n] = lock[n] \/ (lock'[n].height = lock[n].height /\ Certified(lock'[n].hash))

\* While a height is undecided at a validator that keeps its memory, its lock is
\* never dropped and never moves but to a certified block.
LockHolds == [][\A n \in Validators : LockKept(n)]_vars

Chains == INSTANCE Ledger WITH Node <- Validators, Entry <- Hash, chain <- commits

\* The committed chains of the validators implement the abstract ledger: blocks are
\* decided one at a time on a longest chain, and learned in order.
ImplementsLedger == Chains!Spec

\* n is at a later round of its next height than the block m committed there, and
\* ApplyCommit refuses that block as stale.
RoundPassed(n, m) ==
  /\ Len(commits[m]) > Len(commits[n])
  /\ block[commits[m][NextHeight(n)]].round < currentRound[n]

\* A lagging validator that keeps calling CatchUpFromPeers reaches every height that
\* a peer has committed: locks, late votes, failed saves and its own Propose calls
\* do not get in the way, only a round that has passed does.
CatchesUp ==
  \A n \in Validators : \A h \in 1 .. Cardinality(Hash) :
    (\E m \in Validators : Len(commits[m]) >= h)
      ~> (Len(commits[n]) >= h \/ \E m \in Validators : RoundPassed(n, m))

\* "The recovered validator must converge to the same committed height": the same,
\* asked only of a validator whose process has restarted from durable state.
RecoveredConverges ==
  \A n \in Validators : \A h \in 1 .. Cardinality(Hash) :
    (n \in restarted /\ \E m \in Validators : Len(commits[m]) >= h)
      ~> Len(commits[n]) >= h

================================================================================
