-------------------------------- MODULE Evidence ---------------------------------
(* Evidence submission (consensus/validator/node.go, core/evidence): a client   *)
(* submits evidence under an idempotency key to any validator, the validator    *)
(* looks for a stored receipt, proposes the evidence to the consensus, and      *)
(* answers with a receipt for the block that committed it.  Every validator     *)
(* also stores a receipt for each evidence block it applies.  The look-ups, the *)
(* proposal and the saves take no common lock.  Consensus is abstracted to the  *)
(* agreed chain that Ledger specifies.                                          *)
EXTENDS Integers, Sequences

CONSTANTS
  Nodes,
  Submissions,      \* a submission stands for its event hash, the evidence ID
  IdempotencyKey,   \* the key of a submission: two submissions may share one
  Requests,         \* calls of SubmitEvidence
  MaxHeight,        \* bound on the length of the chain
  MaxFaults         \* bound on storage errors and restarts

None == "none"      \* no key, no record, a payload that is not evidence

\* Submissions, requests and nodes are told from their absence.
ASSUME EvidenceAssumption == None \notin Submissions \cup Requests \cup Nodes

Keys == {IdempotencyKey[s] : s \in Submissions} \ {None}

VARIABLES
  chain,       \* the committed blocks: the submission and the call it was for
  applied,     \* the height each node has applied
  applying,    \* ApplyCommit has saved the commit and not yet the receipt
  evidence,    \* stored receipts by evidence ID: the commit height, 0 if none
  evidenceByI, \* the store's index by idempotency key
  call,        \* node, submission, step, commit height and answer of a request
  asked,       \* requests whose Propose has begun: a proposer has the payload
  lost,        \* history: heights whose receipt a node failed to store
  faults

stores == << applied, applying, evidence, evidenceByI, lost >>
vars == << chain, stores, call, asked, faults >>

Fault == faults < MaxFaults /\ faults' = faults + 1

--------------------------------------------------------------------------------
\* ValidateSubmission: an empty field is refused; the key stands for all of them.
ValidateSubmission(s) == IdempotencyKey[s] # None

\* EvidenceByIdempotencyKey, EvidenceByID: the height of the stored receipt.
EvidenceByIdempotencyKey(n, s) ==
  IF evidenceByI[n][IdempotencyKey[s]] = None THEN 0
  ELSE evidence[n][evidenceByI[n][IdempotencyKey[s]]]

\* EvidenceByQCHash, EvidenceByReceiptID: the record of the receipt of height h.
EvidenceByQCHash(n, h) == {s \in Submissions : evidence[n][s] = h}

\* SaveEvidence: the record of this submission, the record of its key, or a new
\* one.  "saved" is the height of the record returned, "conflict" an error.
SaveEvidence(n, s, h) ==
  IF evidence[n][s] # 0
  THEN [conflict |-> evidence[n][s] # h, saved |-> evidence[n][s], created |-> FALSE]
  ELSE IF EvidenceByIdempotencyKey(n, s) # 0
  THEN [conflict |-> FALSE, saved |-> EvidenceByIdempotencyKey(n, s), created |-> FALSE]
  ELSE [conflict |-> FALSE, saved |-> h, created |-> TRUE]

saveEvidenceReceipt(n, s, h) ==
  IF SaveEvidence(n, s, h).created
  THEN /\ evidence' = [evidence EXCEPT ![n][s] = h]
       /\ evidenceByI' = [evidenceByI EXCEPT ![n][IdempotencyKey[s]] = s]
  ELSE UNCHANGED << evidence, evidenceByI >>

--------------------------------------------------------------------------------
\* One request: the steps of SubmitEvidence, each atomic in the store.
answered(r, h) ==
  call' = [call EXCEPT ![r].pc = "done", ![r].answer = h]
failed(r) ==
  call' = [call EXCEPT ![r].pc = "failed"]
at(r, pc) == call[r].pc = pc
goto(r, pc) == call' = [call EXCEPT ![r].pc = pc]

\* handleEvidenceSubmitAuthorized decodes the submission and validates it (400).
SubmitEvidence(r, n, s) ==
  /\ at(r, "idle")
  /\ call' = [call EXCEPT ![r] =
       [node |-> n, sub |-> s, height |-> 0, answer |-> 0,
        pc |-> IF ValidateSubmission(s) THEN "key" ELSE "failed"]]
  /\ UNCHANGED << chain, stores, asked, faults >>

LookupKey(r) ==
  LET h == EvidenceByIdempotencyKey(call[r].node, call[r].sub) IN
  /\ at(r, "key")
  /\ IF h # 0 THEN answered(r, h) ELSE goto(r, "id")
  /\ UNCHANGED << chain, stores, asked, faults >>

\* After the second look-up the payload is handed to Propose.
LookupID(r) ==
  LET h == evidence[call[r].node][call[r].sub] IN
  /\ at(r, "id")
  /\ IF h # 0 THEN answered(r, h) /\ UNCHANGED asked
     ELSE goto(r, "propose") /\ asked' = asked \cup {r}
  /\ UNCHANGED << chain, stores, faults >>

\* A storage error of a look-up or of the save (502).
StorageError(r) ==
  /\ call[r].pc \in {"key", "id", "save"}
  /\ Fault
  /\ failed(r)
  /\ UNCHANGED << chain, stores, asked >>

\* Propose gives up: no round reached a quorum, or the deadline has passed.  The
\* payload may still be committed, by a proposer whose answer came too late.
ProposeFails(r) ==
  /\ at(r, "propose")
  /\ failed(r)
  /\ UNCHANGED << chain, stores, asked, faults >>

\* SubmissionPayload, and SubmissionFromPayload: None for a payload of another kind.
SubmissionPayload(r) == [sub |-> call[r].sub, by |-> r]
SubmissionFromPayload(block) == block.sub

\* A block for the payload of r is committed.  Propose tries another round when
\* the proposer's answer is late, so one call may commit its payload twice.
Decide(r) ==
  /\ r \in asked
  /\ Len(chain) < MaxHeight
  /\ chain' = Append(chain, SubmissionPayload(r))
  /\ UNCHANGED << stores, call, asked, faults >>

\* handlePropose commits a payload that is not evidence.
DecideOther ==
  /\ Len(chain) < MaxHeight
  /\ chain' = Append(chain, [sub |-> None, by |-> None])
  /\ UNCHANGED << stores, call, asked, faults >>

\* Propose returns the commit, which the node has applied.
ProposeReturns(r) ==
  /\ at(r, "propose")
  /\ \E h \in DOMAIN chain :
       /\ chain[h].by = r
       /\ h < applied[call[r].node]
            \/ (h = applied[call[r].node] /\ ~applying[call[r].node])
       /\ call' = [call EXCEPT ![r].pc = "save", ![r].height = h]
  /\ UNCHANGED << chain, stores, asked, faults >>

SaveReceipt_OwnReceipt(r) ==
  LET n == call[r].node
      s == call[r].sub
      result == SaveEvidence(n, s, call[r].height) IN
  /\ at(r, "save")
  /\ saveEvidenceReceipt(n, s, call[r].height)
  /\ IF result.conflict THEN failed(r) ELSE answered(r, call[r].height)
  /\ UNCHANGED << chain, applied, applying, lost, asked, faults >>

\* NewReceipt and saveEvidenceReceipt: a receipt stored under the key is what the
\* caller gets; a receipt of another block for this very submission is an error.
SaveReceipt(r) ==
  LET n == call[r].node
      s == call[r].sub
      result == SaveEvidence(n, s, call[r].height) IN
  /\ at(r, "save")
  /\ saveEvidenceReceipt(n, s, call[r].height)
  /\ IF result.conflict THEN failed(r) ELSE answered(r, result.saved)
  /\ UNCHANGED << chain, applied, applying, lost, asked, faults >>

--------------------------------------------------------------------------------
\* ApplyCommit, from proposeRound, a broadcast or CatchUp: SaveCommit.
ApplyCommit(n) ==
  /\ ~applying[n]
  /\ applied[n] < Len(chain)
  /\ applied' = [applied EXCEPT ![n] = @ + 1]
  /\ applying' = [applying EXCEPT ![n] = TRUE]
  /\ UNCHANGED << chain, evidence, evidenceByI, lost, call, asked, faults >>

persistEvidenceReceiptFromCommitLocked_Skip(n) ==
  /\ applying[n]
  /\ applying' = [applying EXCEPT ![n] = FALSE]
  /\ UNCHANGED << chain, applied, evidence, evidenceByI, lost, call, asked, faults >>

\* The end of ApplyCommit: an error of the receipt's save is only logged.
persistEvidenceReceiptFromCommitLocked(n) ==
  LET s == SubmissionFromPayload(chain[applied[n]]) IN
  /\ applying[n]
  /\ applying' = [applying EXCEPT ![n] = FALSE]
  /\ \/ /\ s = None
        /\ UNCHANGED << evidence, evidenceByI, lost, faults >>
     \/ /\ s # None
        /\ saveEvidenceReceipt(n, s, applied[n])
        /\ UNCHANGED << lost, faults >>
     \/ /\ s # None
        /\ Fault
        /\ lost' = [lost EXCEPT ![n] = @ \cup {applied[n]}]
        /\ UNCHANGED << evidence, evidenceByI >>
  /\ UNCHANGED << chain, applied, call, asked >>

\* The process stops: its requests get no answer, and the receipt of the commit
\* it was applying is never written (loadPersistedState does not rebuild it).
Restart(n) ==
  /\ Fault
  /\ applying' = [applying EXCEPT ![n] = FALSE]
  /\ lost' = [lost EXCEPT ![n] = IF applying[n] THEN @ \cup {applied[n]} ELSE @]
  /\ call' = [r \in Requests |->
       IF call[r].node = n /\ call[r].pc \notin {"idle", "done"}
       THEN [call[r] EXCEPT !.pc = "failed"] ELSE call[r]]
  /\ UNCHANGED << chain, applied, evidence, evidenceByI, asked >>

--------------------------------------------------------------------------------
Init ==
  /\ chain = << >>
  /\ applied = [n \in Nodes |-> 0]
  /\ applying = [n \in Nodes |-> FALSE]
  /\ evidence = [n \in Nodes |-> [s \in Submissions |-> 0]]
  /\ evidenceByI = [n \in Nodes |-> [k \in Keys |-> None]]
  /\ call = [r \in Requests |->
       [node |-> None, sub |-> None, pc |-> "idle", height |-> 0, answer |-> 0]]
  /\ asked = {}
  /\ lost = [n \in Nodes |-> {}]
  /\ faults = 0

Next ==
  \/ \E r \in Requests : \E n \in Nodes, s \in Submissions : SubmitEvidence(r, n, s)
  \/ \E r \in Requests : LookupKey(r)
  \/ \E r \in Requests : LookupID(r)
  \/ \E r \in Requests : StorageError(r)
  \/ \E r \in Requests : ProposeFails(r)
  \/ \E r \in Requests : Decide(r)
  \/ \E r \in Requests : ProposeReturns(r)
  \/ \E r \in Requests : SaveReceipt(r)
  \/ DecideOther
  \/ \E n \in Nodes : ApplyCommit(n)
  \/ \E n \in Nodes : persistEvidenceReceiptFromCommitLocked(n)
  \/ \E n \in Nodes : Restart(n)

Spec == Init /\ [][Next]_vars

--------------------------------------------------------------------------------
\* Every receipt a request was answered with is the receipt the node stores for
\* the request's key, now and after every later call, apply and restart, and its
\* block carries that key: retries of SubmitEvidence at a node agree, although
\* two calls may pass the look-ups together and both be committed.
AnswersAgree ==
  \A r \in Requests : at(r, "done") =>
    LET c == call[r] IN
    /\ c.answer = EvidenceByIdempotencyKey(c.node, c.sub)
    /\ c.answer <= applied[c.node]
    /\ IdempotencyKey[chain[c.answer].sub] = IdempotencyKey[c.sub]

\* While no storage error and no restart happens, the receipt a node stores for a
\* key is that of the first block of the chain with the key: nodes agree on the
\* receipt of a key, whichever of them the client asks.
FirstWins ==
  faults = 0 => \A n \in Nodes : \A s \in Submissions : evidence[n][s] # 0 =>
    \A h \in 1 .. evidence[n][s] - 1 :
      chain[h].sub # None => IdempotencyKey[chain[h].sub] # IdempotencyKey[s]

\* SubmitEvidence: retries of a key at a node are answered with one and the same
\* receipt, and without faults it is that of the first block with the key, at
\* whichever node the client asks.
ReceiptsAgree == AnswersAgree /\ FirstWins

\* Every evidence block a node has applied has a receipt for its key at that
\* node, whether the client asked this node or another one, unless the save of
\* that receipt failed or the process stopped before it.
CommittedIsReceipted ==
  \A n \in Nodes : \A h \in 1 .. applied[n] :
    \/ chain[h].sub = None
    \/ applying[n] /\ h = applied[n]
    \/ h \in lost[n]
    \/ \E s \in Submissions : /\ IdempotencyKey[s] = IdempotencyKey[chain[h].sub]
                              /\ evidence[n][s] \in 1 .. h
                              /\ EvidenceByQCHash(n, evidence[n][s]) = {s}
================================================================================
