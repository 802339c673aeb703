----------------------------- MODULE EvidenceProofs -----------------------------
(* That the answers to a key agree and that committed evidence has a receipt,   *)
(* for every set of nodes, submissions and requests, and any number of faults.  *)
EXTENDS Evidence, TLAPS

Places == {"idle", "key", "id", "propose", "save", "done", "failed"}
Blocks == [sub : Submissions \cup {None}, by : Requests \cup {None}]
CallRecords ==
  [node : Nodes \cup {None}, sub : Submissions \cup {None}, pc : Places,
   height : Nat, answer : Nat]

EvidenceType ==
  /\ chain \in Seq(Blocks)
  /\ applied \in [Nodes -> Nat]
  /\ applying \in [Nodes -> BOOLEAN]
  /\ evidence \in [Nodes -> [Submissions -> Nat]]
  /\ evidenceByI \in [Nodes -> [Keys -> Submissions \cup {None}]]
  /\ call \in [Requests -> CallRecords]
  /\ asked \subseteq Requests
  /\ lost \in [Nodes -> SUBSET Nat]

\* A node applies what is on the chain, and a block of evidence has a valid
\* submission: that of the request it was made for.
ChainInOrder ==
  /\ \A n \in Nodes : applied[n] <= Len(chain) /\ (applying[n] => applied[n] >= 1)
  /\ \A h \in DOMAIN chain :
       /\ chain[h].sub # None => IdempotencyKey[chain[h].sub] # None
       /\ chain[h].by # None => /\ chain[h].sub = call[chain[h].by].sub
                                /\ call[chain[h].by].pc # "idle"

\* A request past the validation has a node and a valid submission, and one that is
\* about to save has the height of a block with its submission.
CallInPlace(c) ==
  /\ c.pc # "idle" => c.node \in Nodes /\ c.sub \in Submissions
  /\ c.pc \notin {"idle", "failed"} => IdempotencyKey[c.sub] # None
  /\ c.pc = "save" => /\ c.height \in 1 .. applied[c.node]
                      /\ chain[c.height].sub = c.sub

CallsInPlace ==
  /\ \A r \in Requests : CallInPlace(call[r])
  /\ \A r \in asked : call[r].pc # "idle" /\ IdempotencyKey[call[r].sub] # None

\* A stored record is that of an applied block with its submission, and the index of
\* a node leads from the key of each record to that record.
Indexed(n) ==
  /\ \A s \in Submissions : evidence[n][s] # 0 =>
       /\ evidence[n][s] <= applied[n]
       /\ chain[evidence[n][s]].sub = s
       /\ IdempotencyKey[s] # None
       /\ evidenceByI[n][IdempotencyKey[s]] = s
  /\ \A k \in Keys : evidenceByI[n][k] # None =>
       /\ IdempotencyKey[evidenceByI[n][k]] = k
       /\ evidence[n][evidenceByI[n][k]] # 0

\* CommittedIsReceipted up to the uniqueness of the record, which Indexed gives.
Receipted(n) ==
  \A h \in 1 .. applied[n] :
    \/ chain[h].sub = None
    \/ applying[n] /\ h = applied[n]
    \/ h \in lost[n]
    \/ \E s \in Submissions : /\ IdempotencyKey[s] = IdempotencyKey[chain[h].sub]
                              /\ evidence[n][s] \in 1 .. h

\* The answer of a finished request: a receipt, and as in AnswersAgree.
AnswerKept(c) ==
  c.pc = "done" =>
    /\ c.answer # 0
    /\ c.answer = EvidenceByIdempotencyKey(c.node, c.sub)
    /\ c.answer <= applied[c.node]
    /\ IdempotencyKey[chain[c.answer].sub] = IdempotencyKey[c.sub]

EvidenceInv ==
  /\ EvidenceType
  /\ ChainInOrder
  /\ CallsInPlace
  /\ \A n \in Nodes : Indexed(n) /\ Receipted(n)
  /\ \A r \in Requests : AnswerKept(call[r])

--------------------------------------------------------------------------------
\* A key that is not None is a key of the index.
LEMMA KeyOfSubmission ==
  \A s \in Submissions : IdempotencyKey[s] # None => IdempotencyKey[s] \in Keys
BY DEF Keys

\* The blocks of the chain, by height.
LEMMA BlockFacts ==
  ASSUME EvidenceInv
  PROVE  /\ Len(chain) \in Nat /\ DOMAIN chain = 1 .. Len(chain)
         /\ \A h \in DOMAIN chain :
              /\ chain[h].sub \in Submissions \cup {None}
              /\ chain[h].by \in Requests \cup {None}
<1>1. chain \in Seq(Blocks)
  BY DEF EvidenceInv, EvidenceType
<1>2. Len(chain) \in Nat /\ DOMAIN chain = 1 .. Len(chain)
  BY <1>1
<1>3. \A h \in DOMAIN chain : chain[h] \in Blocks
  BY <1>1, <1>2
<1> QED BY <1>2, <1>3 DEF Blocks

\* A new store has no records.
LEMMA InitEvidence == Init => EvidenceInv
<1> SUFFICES ASSUME Init PROVE EvidenceInv
  OBVIOUS
<1>1. EvidenceType
  BY DEF Init, EvidenceType, CallRecords, Places
<1>2. ChainInOrder
  BY DEF Init, ChainInOrder
<1>3. CallsInPlace
  BY DEF Init, CallsInPlace, CallInPlace
<1>4. \A n \in Nodes : Indexed(n)
  BY Zenon DEF Init, Indexed
<1>5. \A r \in Requests : AnswerKept(call[r])
  BY DEF Init, AnswerKept
<1>6. \A n \in Nodes : Receipted(n)
  BY DEF Init, Receipted
<1> QED BY <1>1, <1>2, <1>3, <1>4, <1>5, <1>6 DEF EvidenceInv

\* The invariant states the two properties.
LEMMA InvariantGives == EvidenceInv => AnswersAgree /\ CommittedIsReceipted
<1> SUFFICES ASSUME EvidenceInv PROVE AnswersAgree /\ CommittedIsReceipted
  OBVIOUS
<1>1. AnswersAgree
  BY DEF EvidenceInv, AnswersAgree, AnswerKept, at
<1>2. ASSUME NEW n \in Nodes, NEW h \in 1 .. applied[n], NEW s \in Submissions,
             evidence[n][s] \in 1 .. h
      PROVE  EvidenceByQCHash(n, evidence[n][s]) = {s}
  <2>1. evidence[n][s] # 0
    BY <1>2
  <2>2. ASSUME NEW u \in Submissions, evidence[n][u] = evidence[n][s] PROVE u = s
    BY <2>1, <2>2 DEF EvidenceInv, Indexed
  <2> QED BY <2>2 DEF EvidenceByQCHash
<1>3. CommittedIsReceipted
  BY <1>2 DEF EvidenceInv, Receipted, CommittedIsReceipted
<1> QED BY <1>1, <1>3

--------------------------------------------------------------------------------
\* A step of one request that writes no store: it stays in place, keeps its
\* submission, and an answer it gives is the stored one.
LEMMA RequestMoves ==
  ASSUME EvidenceInv, NEW r \in Requests, NEW q \in CallRecords,
         CallInPlace(q), AnswerKept(q), q.pc # "idle",
         call[r].pc = "idle" \/ q.sub = call[r].sub,
         call' = [call EXCEPT ![r] = q],
         asked' = asked \/ (asked' = asked \cup {r} /\ q.pc # "failed"),
         UNCHANGED << chain, stores >>
  PROVE  EvidenceInv'
<1>1. UNCHANGED << chain, applied, applying, evidence, evidenceByI, lost >>
  BY DEF stores
<1>2. \A p \in Requests : call'[p] = IF p = r THEN q ELSE call[p]
  BY DEF EvidenceInv, EvidenceType
<1>3. EvidenceType'
  <2>1. call' \in [Requests -> CallRecords]
    BY DEF EvidenceInv, EvidenceType
  <2>2. asked' \subseteq Requests
    BY DEF EvidenceInv, EvidenceType
  <2> QED BY <1>1, <2>1, <2>2 DEF EvidenceInv, EvidenceType
<1>4. ChainInOrder'
  <2>1. \A h \in DOMAIN chain : chain[h].by # None => chain[h].by \in Requests
    BY BlockFacts
  <2> QED BY <1>1, <1>2, <2>1 DEF EvidenceInv, ChainInOrder
<1>5. CallsInPlace'
  <2>1. \A p \in Requests : CallInPlace(call[p])'
    BY <1>1, <1>2 DEF EvidenceInv, CallsInPlace, CallInPlace
  <2>2. \A p \in asked' : call'[p].pc # "idle" /\ IdempotencyKey[call'[p].sub] # None
    <3>1. ASSUME NEW p \in asked, p # r
          PROVE  call'[p].pc # "idle" /\ IdempotencyKey[call'[p].sub] # None
      BY <1>2, <3>1 DEF EvidenceInv, EvidenceType, CallsInPlace
    <3>2. ASSUME r \in asked' PROVE q.pc # "idle" /\ IdempotencyKey[q.sub] # None
      BY <3>2 DEF EvidenceInv, CallsInPlace, CallInPlace
    <3> QED BY <1>2, <3>1, <3>2
  <2> QED BY <2>1, <2>2 DEF CallsInPlace
<1>6. \A n \in Nodes : Indexed(n)' /\ Receipted(n)'
  BY <1>1 DEF EvidenceInv, Indexed, Receipted
<1>7. \A p \in Requests : AnswerKept(call[p])'
  <2> SUFFICES ASSUME NEW p \in Requests PROVE AnswerKept(call[p])'
    BY SMTT(40)
  <2>1. CASE p = r
    <3>1. call'[p] = q
      BY <1>2, <2>1, SMTT(40)
    <3> QED BY <1>1, <3>1, Zenon DEF AnswerKept, EvidenceByIdempotencyKey
  <2>2. CASE p # r
    <3>1. call'[p] = call[p] /\ AnswerKept(call[p])
      BY <1>2, <2>2 DEF EvidenceInv
    <3> QED BY <1>1, <3>1, Zenon DEF AnswerKept, EvidenceByIdempotencyKey
  <2> QED BY <2>1, <2>2
<1> QED BY <1>3, <1>4, <1>5, <1>6, <1>7 DEF EvidenceInv

\* SubmitEvidence, the look-ups, a storage error, and the two returns of Propose.
LEMMA RequestStepKeeps ==
  ASSUME EvidenceInv, NEW r \in Requests,
         \/ \E n \in Nodes, s \in Submissions : SubmitEvidence(r, n, s)
         \/ LookupKey(r) \/ LookupID(r) \/ StorageError(r)
         \/ ProposeFails(r) \/ ProposeReturns(r)
  PROVE  EvidenceInv'
<1>0. call[r] \in CallRecords /\ CallInPlace(call[r])
  BY DEF EvidenceInv, EvidenceType, CallsInPlace
<1>1. ASSUME NEW n \in Nodes, NEW s \in Submissions, SubmitEvidence(r, n, s)
      PROVE  EvidenceInv'
  <2> DEFINE q == [node |-> n, sub |-> s, height |-> 0, answer |-> 0,
                   pc |-> IF ValidateSubmission(s) THEN "key" ELSE "failed"]
  <2>1. q \in CallRecords
    BY DEF CallRecords, Places
  <2>2. CallInPlace(q) /\ AnswerKept(q) /\ q.pc # "idle"
    BY DEF CallInPlace, AnswerKept, ValidateSubmission
  <2>3. /\ call[r].pc = "idle" /\ call' = [call EXCEPT ![r] = q] /\ asked' = asked
        /\ UNCHANGED << chain, stores >>
    BY <1>1 DEF SubmitEvidence, at
  <2> HIDE DEF q
  <2> QED BY <2>1, <2>2, <2>3, RequestMoves, Zenon
\* The request gives up.
<1>2. ASSUME call[r].pc # "idle", failed(r), UNCHANGED << chain, stores, asked >>
      PROVE  EvidenceInv'
  <2> DEFINE q == [call[r] EXCEPT !.pc = "failed"]
  <2>1. q \in CallRecords /\ q.pc = "failed" /\ q.sub = call[r].sub /\ q.node = call[r].node
    BY <1>0 DEF CallRecords, Places
  <2>2. call' = [call EXCEPT ![r] = q]
    BY <1>2 DEF failed
  <2> HIDE DEF q
  <2>3. CallInPlace(q) /\ AnswerKept(q)
    BY <1>0, <1>2, <2>1 DEF CallInPlace, AnswerKept
  <2> QED BY <1>2, <2>1, <2>2, <2>3, RequestMoves, Zenon
\* The request is answered with a stored receipt.
<1>3. ASSUME NEW h \in Nat, call[r].pc \in {"key", "id"}, h # 0,
             h = EvidenceByIdempotencyKey(call[r].node, call[r].sub),
             answered(r, h), UNCHANGED << chain, stores, asked >>
      PROVE  EvidenceInv'
  <2> DEFINE q == [call[r] EXCEPT !.pc = "done", !.answer = h]
             n == call[r].node
             s == call[r].sub
  <2>1. /\ q \in CallRecords /\ q.pc = "done" /\ q.sub = s /\ q.node = n /\ q.answer = h
    BY <1>0, Zenon DEF CallRecords, Places
  <2>2. call' = [call EXCEPT ![r] = q]
    BY <1>3, ZenonT(40) DEF answered
  <2>3. n \in Nodes /\ s \in Submissions /\ IdempotencyKey[s] \in Keys
    BY <1>0, <1>3, KeyOfSubmission DEF CallInPlace
  <2>4. CallInPlace(q)
    BY <1>0, <1>3, <2>1 DEF CallInPlace
  <2>5. h <= applied[n] /\ IdempotencyKey[chain[h].sub] = IdempotencyKey[s]
    <3> DEFINE u == evidenceByI[n][IdempotencyKey[s]]
    <3>1. u # None /\ h = evidence[n][u]
      BY <1>3, ZenonT(40) DEF EvidenceByIdempotencyKey
    <3>2. u \in Submissions /\ IdempotencyKey[u] = IdempotencyKey[s]
      <4>1. Indexed(n) /\ evidenceByI[n][IdempotencyKey[s]] \in Submissions \cup {None}
        BY <2>3, SMTT(40) DEF EvidenceInv, EvidenceType
      <4> QED BY <2>3, <3>1, <4>1, Zenon DEF Indexed
    <3>3. evidence[n][u] <= applied[n] /\ chain[evidence[n][u]].sub = u
      BY <1>3, <2>3, <3>1, <3>2, ZenonT(40) DEF EvidenceInv, Indexed
    <3> QED BY <3>1, <3>2, <3>3, Zenon
  <2> HIDE DEF q
  <2>6. AnswerKept(q)
    BY <1>3, <2>1, <2>5 DEF AnswerKept
  <2> QED BY <1>3, <2>1, <2>2, <2>4, <2>6, RequestMoves, Zenon
\* The request goes on to its next step.
<1>4. ASSUME NEW pc \in {"id", "propose"}, call[r].pc \in {"key", "id"}, goto(r, pc),
             asked' = asked \/ asked' = asked \cup {r}, UNCHANGED << chain, stores >>
      PROVE  EvidenceInv'
  <2> DEFINE q == [call[r] EXCEPT !.pc = pc]
  <2>1. q \in CallRecords /\ q.pc = pc /\ q.sub = call[r].sub /\ q.node = call[r].node
    BY <1>0 DEF CallRecords, Places
  <2>2. call' = [call EXCEPT ![r] = q]
    BY <1>4 DEF goto
  <2> HIDE DEF q
  <2>3. CallInPlace(q) /\ AnswerKept(q)
    BY <1>0, <1>4, <2>1 DEF CallInPlace, AnswerKept
  <2> QED BY <1>4, <2>1, <2>2, <2>3, RequestMoves, Zenon
<1>5. ASSUME LookupKey(r) PROVE EvidenceInv'
  <2> DEFINE h == EvidenceByIdempotencyKey(call[r].node, call[r].sub)
  <2>1. h \in Nat
    <3>1. /\ call[r].node \in Nodes /\ call[r].sub \in Submissions
          /\ IdempotencyKey[call[r].sub] \in Keys
      BY <1>0, <1>5, KeyOfSubmission DEF LookupKey, at, CallInPlace
    <3> QED BY <3>1 DEF EvidenceInv, EvidenceType, EvidenceByIdempotencyKey
  <2>2. CASE h # 0
    BY <1>3, <1>5, <2>1, <2>2 DEF LookupKey, at
  <2>3. CASE h = 0
    BY <1>4, <1>5, <2>3 DEF LookupKey, at
  <2> QED BY <2>2, <2>3, Zenon
<1>6. ASSUME LookupID(r) PROVE EvidenceInv'
  <2> DEFINE h == evidence[call[r].node][call[r].sub]
  <2>1. /\ call[r].node \in Nodes /\ call[r].sub \in Submissions
        /\ IdempotencyKey[call[r].sub] \in Keys
    BY <1>0, <1>6, KeyOfSubmission DEF LookupID, at, CallInPlace
  <2>2. h \in Nat
    BY <2>1 DEF EvidenceInv, EvidenceType
  <2>3. CASE h # 0
    <3>1. h = EvidenceByIdempotencyKey(call[r].node, call[r].sub)
      BY <2>1, <2>3, EvidenceAssumption, SMTT(40) DEF EvidenceInv, Indexed, EvidenceByIdempotencyKey
    <3> QED BY <1>3, <1>6, <2>2, <2>3, <3>1, ZenonT(40) DEF LookupID, at
  <2>4. CASE h = 0
    BY <1>4, <1>6, <2>4 DEF LookupID, at
  <2> QED BY <2>3, <2>4, SMTT(40)
<1>7. ASSUME StorageError(r) \/ ProposeFails(r) PROVE EvidenceInv'
  BY <1>2, <1>7 DEF StorageError, ProposeFails, at
<1>8. ASSUME ProposeReturns(r) PROVE EvidenceInv'
  <2>1. PICK h \in DOMAIN chain :
          /\ chain[h].by = r
          /\ h <= applied[call[r].node]
          /\ call' = [call EXCEPT ![r].pc = "save", ![r].height = h]
    <3>1. call[r].node \in Nodes
      BY <1>0, <1>8 DEF ProposeReturns, at, CallInPlace
    <3>2. applied[call[r].node] \in Nat
      BY <3>1 DEF EvidenceInv, EvidenceType
    <3>3. DOMAIN chain \subseteq Nat
      BY BlockFacts
    <3>4. PICK h \in DOMAIN chain :
            /\ chain[h].by = r
            /\ h < applied[call[r].node]
                 \/ (h = applied[call[r].node] /\ ~applying[call[r].node])
            /\ call' = [call EXCEPT ![r].pc = "save", ![r].height = h]
      BY <1>8, Zenon DEF ProposeReturns
    <3>5. h <= applied[call[r].node]
      BY <3>2, <3>3, <3>4
    <3> QED BY <3>4, <3>5, Zenon
  <2> DEFINE q == [call[r] EXCEPT !.pc = "save", !.height = h]
  <2>2. h \in Nat /\ h >= 1
    BY BlockFacts
  <2>3. /\ q \in CallRecords /\ q.pc = "save" /\ q.sub = call[r].sub
        /\ q.node = call[r].node /\ q.height = h
    BY <1>0, <2>2, Zenon DEF CallRecords, Places
  <2>4. chain[h].sub = call[r].sub
    BY <2>1, EvidenceAssumption DEF EvidenceInv, ChainInOrder
  <2>5. /\ call[r].node \in Nodes /\ call[r].sub \in Submissions
        /\ IdempotencyKey[call[r].sub] # None
    BY <1>0, <1>8 DEF ProposeReturns, at, CallInPlace
  <2>6. applied[call[r].node] \in Nat
    BY <2>5 DEF EvidenceInv, EvidenceType
  <2>7. call' = [call EXCEPT ![r] = q] /\ UNCHANGED << chain, stores, asked >>
    BY <1>8, <2>1, ZenonT(40) DEF ProposeReturns
  <2> HIDE DEF q
  <2>8. CallInPlace(q) /\ AnswerKept(q)
    BY <2>1, <2>2, <2>3, <2>4, <2>5, <2>6 DEF CallInPlace, AnswerKept
  <2> QED BY <2>3, <2>7, <2>8, RequestMoves, Zenon
<1> QED BY <1>1, <1>5, <1>6, <1>7, <1>8

--------------------------------------------------------------------------------
\* Decide and DecideOther: the blocks below the new one stay.
LEMMA DecideKeeps ==
  ASSUME EvidenceInv, DecideOther \/ \E r \in Requests : Decide(r)
  PROVE  EvidenceInv'
<1>1. PICK b \in Blocks :
        /\ chain' = Append(chain, b)
        /\ b.sub # None => IdempotencyKey[b.sub] # None
        /\ b.by # None => b.sub = call[b.by].sub /\ call[b.by].pc # "idle"
  <2>1. CASE DecideOther
    <3> DEFINE b == [sub |-> None, by |-> None]
    <3>1. b \in Blocks /\ chain' = Append(chain, b) /\ b.sub = None /\ b.by = None
      BY <2>1 DEF DecideOther, Blocks
    <3> HIDE DEF b
    <3> QED BY <3>1
  <2>2. ASSUME NEW r \in Requests, Decide(r)
        PROVE  \E b \in Blocks :
                 /\ chain' = Append(chain, b)
                 /\ b.sub # None => IdempotencyKey[b.sub] # None
                 /\ b.by # None => b.sub = call[b.by].sub /\ call[b.by].pc # "idle"
    <3> DEFINE b == SubmissionPayload(r)
    <3>1. call[r].pc # "idle" /\ IdempotencyKey[call[r].sub] # None
      BY <2>2 DEF Decide, EvidenceInv, CallsInPlace
    <3>2. call[r].sub \in Submissions
      BY <3>1 DEF EvidenceInv, CallsInPlace, CallInPlace
    <3>3. b \in Blocks /\ b.sub = call[r].sub /\ b.by = r
      BY <3>2 DEF SubmissionPayload, Blocks
    <3>4. chain' = Append(chain, b)
      BY <2>2 DEF Decide
    <3> HIDE DEF b
    <3> QED BY <3>1, <3>3, <3>4
  <2> QED BY <2>1, <2>2
<1>2. UNCHANGED << applied, applying, evidence, evidenceByI, lost, call, asked >>
  BY DEF Decide, DecideOther, stores
<1>3. /\ chain \in Seq(Blocks) /\ chain' \in Seq(Blocks)
      /\ Len(chain) \in Nat /\ Len(chain') = Len(chain) + 1
      /\ DOMAIN chain = 1 .. Len(chain) /\ DOMAIN chain' = 1 .. Len(chain) + 1
      /\ \A h \in 1 .. Len(chain) : chain'[h] = chain[h]
      /\ chain'[Len(chain) + 1] = b
  BY <1>1 DEF EvidenceInv, EvidenceType
<1>4. EvidenceType'
  BY <1>2, <1>3 DEF EvidenceInv, EvidenceType
<1>5. ChainInOrder'
  <2>1. \A n \in Nodes : applied'[n] <= Len(chain') /\ (applying'[n] => applied'[n] >= 1)
    BY <1>2, <1>3 DEF EvidenceInv, EvidenceType, ChainInOrder
  <2>2. ASSUME NEW h \in DOMAIN chain'
        PROVE  /\ chain'[h].sub # None => IdempotencyKey[chain'[h].sub] # None
               /\ chain'[h].by # None => /\ chain'[h].sub = call'[chain'[h].by].sub
                                         /\ call'[chain'[h].by].pc # "idle"
    <3>1. CASE h = Len(chain) + 1
      BY <1>1, <1>2, <1>3, <3>1
    <3>2. CASE h \in DOMAIN chain
      BY <1>2, <1>3, <3>2 DEF EvidenceInv, ChainInOrder
    <3> QED BY <1>3, <3>1, <3>2, SMTT(40)
  <2> QED BY <2>1, <2>2 DEF ChainInOrder
\* What is applied is below the new block.
<1>6. \A n \in Nodes : \A h \in 1 .. applied[n] : chain'[h] = chain[h]
  BY <1>3, SMTT(40) DEF EvidenceInv, EvidenceType, ChainInOrder
<1>7. CallsInPlace'
  BY <1>2, <1>6 DEF EvidenceInv, CallsInPlace, CallInPlace
<1>8. ASSUME NEW n \in Nodes PROVE Indexed(n)' /\ Receipted(n)'
  <2>1. \A s \in Submissions : evidence[n][s] # 0 => evidence[n][s] \in 1 .. applied[n]
    BY SMTT(40) DEF EvidenceInv, EvidenceType, Indexed
  <2>2. Indexed(n)'
    BY <1>2, <1>6, <2>1, SMTT(40) DEF EvidenceInv, Indexed
  <2>3. Receipted(n)'
    BY <1>2, <1>6, SMTT(40) DEF EvidenceInv, Receipted
  <2> QED BY <2>2, <2>3, SMTT(40)
<1>9. ASSUME NEW r \in Requests PROVE AnswerKept(call[r])'
  <2> SUFFICES ASSUME call[r].pc = "done" PROVE AnswerKept(call[r])'
    BY <1>2 DEF AnswerKept
  <2> DEFINE c == call[r]
  <2>1. c.node \in Nodes /\ c.answer \in Nat /\ AnswerKept(c)
    BY DEF EvidenceInv, EvidenceType, CallsInPlace, CallInPlace, CallRecords
  <2>2. c.answer # 0
    BY <2>1, Zenon DEF AnswerKept
  <2>3. c.answer \in 1 .. applied[c.node]
    BY <2>1, <2>2, SMTT(40) DEF AnswerKept, EvidenceInv, EvidenceType
  <2> QED BY <1>2, <1>6, <2>1, <2>3, Zenon DEF AnswerKept, EvidenceByIdempotencyKey
<1> QED BY <1>4, <1>5, <1>7, <1>8, <1>9 DEF EvidenceInv

\* ApplyCommit: one more block is applied, whose receipt is still to be written.
LEMMA ApplyKeeps ==
  ASSUME EvidenceInv, NEW n \in Nodes, ApplyCommit(n)
  PROVE  EvidenceInv'
<1>1. /\ UNCHANGED << chain, evidence, evidenceByI, lost, call, asked >>
      /\ ~applying[n] /\ applied[n] < Len(chain)
      /\ applied' = [applied EXCEPT ![n] = @ + 1]
      /\ applying' = [applying EXCEPT ![n] = TRUE]
  BY DEF ApplyCommit
<1>2. /\ applied \in [Nodes -> Nat] /\ applying \in [Nodes -> BOOLEAN]
      /\ Len(chain) \in Nat /\ evidence \in [Nodes -> [Submissions -> Nat]]
  BY BlockFacts DEF EvidenceInv, EvidenceType
<1>3. \A m \in Nodes : /\ applied'[m] = IF m = n THEN applied[m] + 1 ELSE applied[m]
                       /\ applying'[m] = IF m = n THEN TRUE ELSE applying[m]
  BY <1>1, <1>2
<1>4. EvidenceType'
  <2>1. applied' \in [Nodes -> Nat] /\ applying' \in [Nodes -> BOOLEAN]
    BY <1>1, <1>2
  <2> QED BY <1>1, <2>1 DEF EvidenceInv, EvidenceType
<1>5. ChainInOrder'
  <2>1. \A m \in Nodes : applied'[m] <= Len(chain) /\ (applying'[m] => applied'[m] >= 1)
    BY <1>1, <1>2, <1>3 DEF EvidenceInv, ChainInOrder
  <2> QED BY <1>1, <2>1 DEF EvidenceInv, ChainInOrder
<1>6. ASSUME NEW m \in Nodes
      PROVE  applied[m] \in Nat /\ applied'[m] \in Nat /\ applied[m] <= applied'[m]
  <2>1. applied[m] \in Nat
    BY <1>2
  <2>2. applied'[m] = applied[m] + 1 \/ applied'[m] = applied[m]
    BY <1>3, Zenon
  <2> QED BY <2>1, <2>2
<1>7. CallsInPlace'
  <2>1. ASSUME NEW r \in Requests PROVE CallInPlace(call[r])'
    <3>1. CallInPlace(call[r]) /\ call[r] \in CallRecords
      BY DEF EvidenceInv, EvidenceType, CallsInPlace
    <3>2. call[r].height \in Nat
      BY <3>1 DEF CallRecords
    <3> QED BY <1>1, <1>6, <3>1, <3>2 DEF CallInPlace
  <2> QED BY <1>1, <2>1 DEF EvidenceInv, CallsInPlace
<1>8. ASSUME NEW m \in Nodes PROVE Indexed(m)' /\ Receipted(m)'
  <2>1. Indexed(m)'
    BY <1>1, <1>2, <1>6 DEF EvidenceInv, Indexed
  <2>2. CASE m = n
    <3>1. /\ applied[n] \in Nat /\ applied'[n] = applied[n] + 1
          /\ ~applying[n] /\ applying'[n]
      BY <1>1, <1>2, <1>3, Zenon
    <3>2. ASSUME NEW h \in 1 .. applied'[n]
          PROVE  h \in 1 .. applied[n] \/ h = applied'[n]
      BY <3>1
    <3>3. Receipted(n)
      BY DEF EvidenceInv
    <3>4. Receipted(n)'
      BY <1>1, <3>1, <3>2, <3>3 DEF Receipted
    <3> QED BY <2>1, <2>2, <3>4
  <2>3. CASE m # n
    <3>1. applied'[m] = applied[m] /\ applying'[m] = applying[m] /\ Receipted(m)
      BY <1>3, <2>3, Zenon DEF EvidenceInv
    <3>2. Receipted(m)'
      BY <1>1, <3>1 DEF Receipted
    <3> QED BY <2>1, <3>2
  <2> QED BY <2>2, <2>3, Zenon
<1>9. ASSUME NEW r \in Requests PROVE AnswerKept(call[r])'
  <2>1. call[r].pc = "done" => call[r].node \in Nodes /\ call[r].answer \in Nat
    BY DEF EvidenceInv, EvidenceType, CallsInPlace, CallInPlace, CallRecords
  <2>2. AnswerKept(call[r])
    BY DEF EvidenceInv
  <2>3. CASE call[r].pc = "done"
    <3>1. call[r].answer <= applied'[call[r].node]
      BY <1>6, <2>1, <2>2, <2>3 DEF AnswerKept
    <3> QED BY <1>1, <2>2, <2>3, <3>1, Zenon DEF AnswerKept, EvidenceByIdempotencyKey
  <2>4. CASE call[r].pc # "done"
    BY <1>1, <2>4 DEF AnswerKept
  <2> QED BY <2>3, <2>4, Zenon
<1> QED BY <1>4, <1>5, <1>7, <1>8, <1>9 DEF EvidenceInv

\* Restart: the stores stay, and a receipt that was not written is remembered.
LEMMA RestartKeeps ==
  ASSUME EvidenceInv, NEW n \in Nodes, Restart(n)
  PROVE  EvidenceInv'
<1>1. /\ UNCHANGED << chain, applied, evidence, evidenceByI, asked >>
      /\ applying' = [applying EXCEPT ![n] = FALSE]
      /\ lost' = [lost EXCEPT ![n] = IF applying[n] THEN @ \cup {applied[n]} ELSE @]
      /\ call' = [r \in Requests |->
           IF call[r].node = n /\ call[r].pc \notin {"idle", "done"}
           THEN [call[r] EXCEPT !.pc = "failed"] ELSE call[r]]
  BY DEF Restart
<1>2. ASSUME NEW r \in Requests
      PROVE  /\ call'[r] \in CallRecords /\ call'[r].sub = call[r].sub
             /\ call'[r].node = call[r].node /\ call'[r].answer = call[r].answer
             /\ \/ call'[r] = call[r]
                \/ call[r].pc \notin {"idle", "done"} /\ call'[r].pc = "failed"
  <2>1. call[r] \in CallRecords
    BY DEF EvidenceInv, EvidenceType
  <2> DEFINE q == [call[r] EXCEPT !.pc = "failed"]
  <2>2. /\ q \in CallRecords /\ q.sub = call[r].sub /\ q.pc = "failed"
        /\ q.node = call[r].node /\ q.answer = call[r].answer
    BY <2>1 DEF CallRecords, Places
  <2>3. call'[r] = IF call[r].node = n /\ call[r].pc \notin {"idle", "done"}
                   THEN q ELSE call[r]
    BY <1>1
  <2> HIDE DEF q
  <2> QED BY <2>1, <2>2, <2>3
<1>3. \A m \in Nodes : /\ applying'[m] = (m # n /\ applying[m])
                       /\ lost[m] \subseteq lost'[m]
                       /\ m = n /\ applying[m] => applied[m] \in lost'[m]
  BY <1>1, Zenon DEF EvidenceInv, EvidenceType
<1>4. EvidenceType'
  <2>1. applying' \in [Nodes -> BOOLEAN]
    BY <1>1 DEF EvidenceInv, EvidenceType
  <2>2. lost' \in [Nodes -> SUBSET Nat]
    BY <1>1 DEF EvidenceInv, EvidenceType
  <2>3. call' \in [Requests -> CallRecords]
    BY <1>1, <1>2
  <2> QED BY <1>1, <2>1, <2>2, <2>3 DEF EvidenceInv, EvidenceType
<1>5. ChainInOrder'
  <2>1. \A h \in DOMAIN chain : chain[h].by # None => chain[h].by \in Requests
    BY BlockFacts
  <2> QED BY <1>1, <1>2, <1>3, <2>1 DEF EvidenceInv, ChainInOrder
<1>6. CallsInPlace'
  <2>1. ASSUME NEW r \in Requests PROVE CallInPlace(call[r])'
    <3>1. CallInPlace(call[r])
      BY DEF EvidenceInv, CallsInPlace
    <3> QED BY <1>1, <1>2, <3>1 DEF CallInPlace
  <2>2. \A r \in asked : r \in Requests
    BY DEF EvidenceInv, EvidenceType
  <2> QED BY <1>1, <1>2, <2>1, <2>2 DEF EvidenceInv, CallsInPlace
<1>7. ASSUME NEW m \in Nodes PROVE Indexed(m)' /\ Receipted(m)'
  <2>1. Indexed(m)'
    BY <1>1 DEF EvidenceInv, Indexed
  <2>2. Receipted(m)'
    BY <1>1, <1>3, ZenonT(40) DEF EvidenceInv, Receipted
  <2> QED BY <2>1, <2>2
<1>8. ASSUME NEW r \in Requests PROVE AnswerKept(call[r])'
  <2>1. CASE call'[r] = call[r]
    BY <1>1, <2>1, Zenon DEF EvidenceInv, AnswerKept, EvidenceByIdempotencyKey
  <2>2. CASE call'[r].pc = "failed"
    BY <2>2 DEF AnswerKept
  <2> QED BY <1>2, <2>1, <2>2
<1> QED BY <1>4, <1>5, <1>6, <1>7, <1>8 DEF EvidenceInv

--------------------------------------------------------------------------------
\* saveEvidenceReceipt for an applied block: a record that is there stays, the index
\* stays sound, and the key has the record that SaveEvidence returns.
LEMMA SaveFacts ==
  ASSUME EvidenceInv, NEW n \in Nodes, NEW s \in Submissions, NEW h \in Nat,
         h \in 1 .. applied[n], chain[h].sub = s, IdempotencyKey[s] # None,
         saveEvidenceReceipt(n, s, h), UNCHANGED << chain, applied >>
  PROVE  /\ evidence' \in [Nodes -> [Submissions -> Nat]]
         /\ evidenceByI' \in [Nodes -> [Keys -> Submissions \cup {None}]]
         /\ \A m \in Nodes : Indexed(m)'
         /\ \A m \in Nodes, u \in Submissions :
              evidence[m][u] # 0 => evidence'[m][u] = evidence[m][u]
         /\ \A m \in Nodes, k \in Keys :
              evidenceByI[m][k] # None => evidenceByI'[m][k] = evidenceByI[m][k]
         /\ ~SaveEvidence(n, s, h).conflict =>
              EvidenceByIdempotencyKey(n, s)' = SaveEvidence(n, s, h).saved
         /\ evidenceByI'[n][IdempotencyKey[s]] # None
         /\ \E u \in Submissions : /\ IdempotencyKey[u] = IdempotencyKey[s]
                                   /\ evidence'[n][u] \in 1 .. applied[n]
<1> DEFINE key == IdempotencyKey[s]
           o == evidenceByI[n][key]
<1>0. /\ evidence \in [Nodes -> [Submissions -> Nat]]
      /\ evidenceByI \in [Nodes -> [Keys -> Submissions \cup {None}]]
      /\ applied \in [Nodes -> Nat]
      /\ key \in Keys /\ o \in Submissions \cup {None}
      /\ \A m \in Nodes : Indexed(m)
  BY KeyOfSubmission DEF EvidenceInv, EvidenceType
<1>1. evidence[n][s] # 0 => o = s
  BY <1>0, Zenon DEF Indexed
<1>2. o # None => /\ o \in Submissions /\ IdempotencyKey[o] = key
                  /\ evidence[n][o] # 0 /\ evidence[n][o] <= applied[n]
  BY <1>0 DEF Indexed
<1>3. EvidenceByIdempotencyKey(n, s) = IF o = None THEN 0 ELSE evidence[n][o]
  BY Zenon DEF EvidenceByIdempotencyKey
\* The key has a record: nothing is written.
<1>4. CASE o # None
  <2>1. ~SaveEvidence(n, s, h).created
    BY <1>2, <1>3, <1>4 DEF SaveEvidence
  <2>2. UNCHANGED << evidence, evidenceByI >>
    BY <2>1, ZenonT(40) DEF saveEvidenceReceipt
  <2>3. SaveEvidence(n, s, h).saved = evidence[n][o]
    BY <1>1, <1>2, <1>3, <1>4 DEF SaveEvidence
  <2>4. EvidenceByIdempotencyKey(n, s)' = evidence[n][o]
    BY <1>4, <2>2, SMTT(40) DEF EvidenceByIdempotencyKey
  <2>5. \A m \in Nodes : Indexed(m)'
    BY <1>0, <2>2, SMTT(40) DEF Indexed
  <2>6. evidence'[n][o] \in 1 .. applied[n]
    BY <1>0, <1>2, <1>4, <2>2, SMTT(40)
  <2> QED BY <1>0, <1>2, <1>4, <2>2, <2>3, <2>4, <2>5, <2>6, Zenon
\* It has none: the record of the block is written.
<1>5. CASE o = None
  <2>1. evidence[n][s] = 0
    BY <1>1, <1>5, EvidenceAssumption, Zenon
  <2>2. /\ SaveEvidence(n, s, h).created
        /\ SaveEvidence(n, s, h).saved = h
    BY <1>3, <1>5, <2>1 DEF SaveEvidence
  <2>3. /\ evidence' = [evidence EXCEPT ![n][s] = h]
        /\ evidenceByI' = [evidenceByI EXCEPT ![n][key] = s]
    BY <2>2 DEF saveEvidenceReceipt
  <2>4. /\ evidence' \in [Nodes -> [Submissions -> Nat]]
        /\ evidenceByI' \in [Nodes -> [Keys -> Submissions \cup {None}]]
    BY <1>0, <2>3
  <2>5. /\ \A m \in Nodes, u \in Submissions :
             evidence'[m][u] = IF m = n /\ u = s THEN h ELSE evidence[m][u]
        /\ \A m \in Nodes, k \in Keys :
             evidenceByI'[m][k] = IF m = n /\ k = key THEN s ELSE evidenceByI[m][k]
    BY <1>0, <2>3
  <2>6. ASSUME NEW m \in Nodes PROVE Indexed(m)'
    <3>1. ASSUME NEW u \in Submissions, evidence'[m][u] # 0
          PROVE  /\ evidence'[m][u] <= applied'[m]
                 /\ chain'[evidence'[m][u]].sub = u
                 /\ IdempotencyKey[u] # None
                 /\ evidenceByI'[m][IdempotencyKey[u]] = u
      <4>1. CASE m = n /\ u = s
        BY <1>0, <2>5, <4>1, SMTT(40)
      <4>2. CASE ~(m = n /\ u = s)
        <5>1. evidence'[m][u] = evidence[m][u]
          BY <2>5, <4>2, SMTT(40)
        <5>2. /\ evidence[m][u] <= applied[m] /\ chain[evidence[m][u]].sub = u
              /\ IdempotencyKey[u] # None /\ evidenceByI[m][IdempotencyKey[u]] = u
          BY <1>0, <3>1, <5>1, SMTT(40) DEF Indexed
        <5>3. ~(m = n /\ IdempotencyKey[u] = key)
          BY <1>5, <5>2, EvidenceAssumption
        <5>4. evidenceByI'[m][IdempotencyKey[u]] = u
          BY <2>5, <5>2, <5>3, KeyOfSubmission, SMTT(40)
        <5> QED BY <5>1, <5>2, <5>4
      <4> QED BY <4>1, <4>2, SMTT(40)
    <3>2. ASSUME NEW k \in Keys, evidenceByI'[m][k] # None
          PROVE  /\ IdempotencyKey[evidenceByI'[m][k]] = k
                 /\ evidence'[m][evidenceByI'[m][k]] # 0
      <4>1. CASE m = n /\ k = key
        BY <2>5, <4>1
      <4>2. CASE ~(m = n /\ k = key)
        <5>1. evidenceByI'[m][k] = evidenceByI[m][k]
          BY <2>5, <4>2, SMTT(40)
        <5>2. /\ evidenceByI[m][k] \in Submissions
              /\ IdempotencyKey[evidenceByI[m][k]] = k
              /\ evidence[m][evidenceByI[m][k]] # 0
          BY <1>0, <3>2, <5>1, SMTT(40) DEF Indexed
        <5> QED BY <2>5, <5>1, <5>2
      <4> QED BY <4>1, <4>2
    <3> QED BY <3>1, <3>2, Zenon DEF Indexed
  <2>7. EvidenceByIdempotencyKey(n, s)' = h
    BY <1>0, <2>5, EvidenceAssumption DEF EvidenceByIdempotencyKey
  <2>8. \A m \in Nodes, u \in Submissions :
          evidence[m][u] # 0 => evidence'[m][u] = evidence[m][u]
    BY <2>1, <2>5
  <2>9. \A m \in Nodes, k \in Keys :
          evidenceByI[m][k] # None => evidenceByI'[m][k] = evidenceByI[m][k]
    BY <1>5, <2>5, ZenonT(40)
  <2>10. evidence'[n][s] \in 1 .. applied[n] /\ evidenceByI'[n][key] # None
    BY <1>0, <2>5, EvidenceAssumption, SMTT(40)
  <2> QED BY <2>2, <2>4, <2>6, <2>7, <2>8, <2>9, <2>10
<1> QED BY <1>4, <1>5

\* Records and entries of the index stay.
RecordsStay ==
  /\ \A m \in Nodes, u \in Submissions :
       evidence[m][u] # 0 => evidence'[m][u] = evidence[m][u]
  /\ \A m \in Nodes, k \in Keys :
       evidenceByI[m][k] # None => evidenceByI'[m][k] = evidenceByI[m][k]

\* An answer that was given stays the stored one.
LEMMA AnswerStays ==
  ASSUME EvidenceInv, RecordsStay, UNCHANGED << chain, applied >>,
         NEW c, CallInPlace(c), AnswerKept(c)
  PROVE  AnswerKept(c)'
<1> SUFFICES ASSUME c.pc = "done"
             PROVE  EvidenceByIdempotencyKey(c.node, c.sub)' =
                      EvidenceByIdempotencyKey(c.node, c.sub)
  BY DEF AnswerKept
<1> DEFINE n == c.node
           key == IdempotencyKey[c.sub]
           o == evidenceByI[n][key]
<1>1. n \in Nodes /\ c.sub \in Submissions /\ key \in Keys
  BY KeyOfSubmission DEF CallInPlace
<1>2. o # None
  BY ZenonT(40) DEF AnswerKept, EvidenceByIdempotencyKey
<1>3. o \in Submissions /\ evidence[n][o] # 0
  <2>1. Indexed(n) /\ o \in Submissions \cup {None}
    BY <1>1 DEF EvidenceInv, EvidenceType
  <2> QED BY <1>1, <1>2, <2>1, Zenon DEF Indexed
<1>4. evidenceByI'[n][key] = o /\ evidence'[n][o] = evidence[n][o]
  BY <1>1, <1>2, <1>3 DEF RecordsStay
<1> QED BY <1>2, <1>4 DEF EvidenceByIdempotencyKey

\* A block that had a receipt has it still.
LEMMA ReceiptStays ==
  ASSUME EvidenceInv, RecordsStay, UNCHANGED chain, NEW m \in Nodes, NEW h \in Nat,
         \E s \in Submissions : /\ IdempotencyKey[s] = IdempotencyKey[chain[h].sub]
                                /\ evidence[m][s] \in 1 .. h
  PROVE  \E s \in Submissions : /\ IdempotencyKey[s] = IdempotencyKey[chain'[h].sub]
                                /\ evidence'[m][s] \in 1 .. h
<1>1. PICK s \in Submissions : /\ IdempotencyKey[s] = IdempotencyKey[chain[h].sub]
                               /\ evidence[m][s] \in 1 .. h
  OBVIOUS
<1>2. evidence'[m][s] = evidence[m][s]
  BY <1>1 DEF RecordsStay
<1> QED BY <1>1, <1>2

\* What SaveReceipt does to the stores, and the request q it leaves.
SaveStep(r, q) ==
  /\ evidence' \in [Nodes -> [Submissions -> Nat]]
  /\ evidenceByI' \in [Nodes -> [Keys -> Submissions \cup {None}]]
  /\ \A m \in Nodes : Indexed(m)'
  /\ RecordsStay
  /\ UNCHANGED << chain, applied, applying, lost, asked >>
  /\ call' = [call EXCEPT ![r] = q]
  /\ q.node = call[r].node /\ q.sub = call[r].sub
  /\ q.node \in Nodes /\ q.sub \in Submissions /\ IdempotencyKey[q.sub] \in Keys
  /\ evidenceByI'[q.node][IdempotencyKey[q.sub]] # None
  /\ q.pc = "failed" \/ (q.pc = "done" /\ q.answer = EvidenceByIdempotencyKey(q.node, q.sub)')

\* SaveReceipt: the request is answered with what SaveEvidence returned.
LEMMA SaveReceiptSteps ==
  ASSUME EvidenceInv, NEW r \in Requests, SaveReceipt(r)
  PROVE  \E q \in CallRecords : SaveStep(r, q)
<1>1. PICK n \in Nodes, s \in Submissions, h \in Nat :
        /\ n = call[r].node /\ s = call[r].sub /\ h = call[r].height
        /\ h \in 1 .. applied[n] /\ chain[h].sub = s /\ IdempotencyKey[s] # None
  <2>1. call[r].pc = "save"
    BY Zenon DEF SaveReceipt, at
  <2>2. call[r] \in CallRecords /\ CallInPlace(call[r])
    BY DEF EvidenceInv, EvidenceType, CallsInPlace
  <2>3. call[r].height \in Nat
    BY <2>2, Zenon DEF CallRecords
  <2> QED BY <2>1, <2>2, <2>3, Zenon DEF CallInPlace
<1> DEFINE result == SaveEvidence(n, s, h)
<1>2. /\ call[r].pc = "save" /\ saveEvidenceReceipt(n, s, h)
      /\ IF result.conflict THEN failed(r) ELSE answered(r, result.saved)
      /\ UNCHANGED << chain, applied, applying, lost, asked >>
  BY <1>1, ZenonT(40) DEF SaveReceipt, at
<1>3. /\ evidence' \in [Nodes -> [Submissions -> Nat]]
      /\ evidenceByI' \in [Nodes -> [Keys -> Submissions \cup {None}]]
      /\ \A m \in Nodes : Indexed(m)'
      /\ RecordsStay
      /\ evidenceByI'[n][IdempotencyKey[s]] # None
      /\ ~result.conflict => EvidenceByIdempotencyKey(n, s)' = result.saved
  BY <1>1, <1>2, SaveFacts DEF RecordsStay
<1> HIDE DEF result
<1>4. call[r] \in CallRecords
  BY DEF EvidenceInv, EvidenceType
\* The request as it returns.
<1>5. PICK q \in CallRecords :
        /\ call' = [call EXCEPT ![r] = q]
        /\ q.node = n /\ q.sub = s
        /\ q.pc = "failed" \/ (q.pc = "done" /\ q.answer = EvidenceByIdempotencyKey(n, s)')
  <2>1. CASE result.conflict
    <3> DEFINE q == [call[r] EXCEPT !.pc = "failed"]
    <3>1. q \in CallRecords /\ q.node = call[r].node /\ q.sub = call[r].sub /\ q.pc = "failed"
      BY <1>4 DEF CallRecords, Places
    <3>2. call' = [call EXCEPT ![r] = q]
      BY <1>2, <2>1 DEF failed
    <3> HIDE DEF q
    <3> QED BY <1>1, <3>1, <3>2, Zenon
  <2>2. CASE ~result.conflict
    <3> DEFINE q == [call[r] EXCEPT !.pc = "done", !.answer = result.saved]
    <3>1. result.saved \in Nat
      BY <1>3, <2>2, KeyOfSubmission, <1>1 DEF EvidenceByIdempotencyKey
    <3>2. /\ q \in CallRecords /\ q.node = call[r].node /\ q.sub = call[r].sub
          /\ q.pc = "done" /\ q.answer = result.saved
      BY <1>4, <3>1, Zenon DEF CallRecords, Places
    <3>3. call' = [call EXCEPT ![r] = q]
      BY <1>2, <2>2, Zenon DEF answered
    <3> HIDE DEF q
    <3> QED BY <1>1, <1>3, <2>2, <3>2, <3>3, ZenonT(40)
  <2> QED BY <2>1, <2>2
<1>6. IdempotencyKey[s] \in Keys
  BY <1>1, KeyOfSubmission, Zenon
<1> QED BY <1>1, <1>2, <1>3, <1>5, <1>6, Zenon DEF SaveStep

\* The answer of SaveReceipt is the stored receipt.
LEMMA SaveStepAnswers ==
  ASSUME EvidenceInv, NEW r \in Requests, NEW q \in CallRecords, SaveStep(r, q)
  PROVE  AnswerKept(q)'
<1> SUFFICES ASSUME q.pc = "done" PROVE AnswerKept(q)'
  BY Zenon DEF AnswerKept
<1> DEFINE o == evidenceByI'[q.node][IdempotencyKey[q.sub]]
<1>1. o # None /\ o \in Submissions
  BY DEF SaveStep
<1>2. /\ IdempotencyKey[o] = IdempotencyKey[q.sub] /\ evidence'[q.node][o] # 0
      /\ evidence'[q.node][o] <= applied'[q.node] /\ chain'[evidence'[q.node][o]].sub = o
  BY <1>1, ZenonT(40) DEF SaveStep, Indexed
<1>3. q.answer = evidence'[q.node][o]
  BY <1>1, Zenon DEF SaveStep, EvidenceByIdempotencyKey
<1> QED BY <1>1, <1>2, <1>3, Zenon DEF AnswerKept, EvidenceByIdempotencyKey

\* A step of SaveReceipt preserves the invariant.
LEMMA SaveReceiptKeeps ==
  ASSUME EvidenceInv, NEW r \in Requests, SaveReceipt(r)
  PROVE  EvidenceInv'
<1>1. PICK q \in CallRecords : SaveStep(r, q)
  BY SaveReceiptSteps, Zenon
<1>2. /\ call' \in [Requests -> CallRecords]
      /\ \A p \in Requests : call'[p] = IF p = r THEN q ELSE call[p]
  BY <1>1, Zenon DEF SaveStep, EvidenceInv, EvidenceType
<1>3. EvidenceType'
  BY <1>1, <1>2, Zenon DEF SaveStep, EvidenceInv, EvidenceType
<1>4. ChainInOrder'
  <2>1. \A x \in DOMAIN chain : chain[x].by # None => chain[x].by \in Requests
    BY BlockFacts
  <2> QED BY <1>1, <1>2, <2>1 DEF SaveStep, EvidenceInv, ChainInOrder
<1>5. ASSUME NEW p \in Requests PROVE CallInPlace(call[p])'
  <2>1. CASE p = r
    <3>1. /\ call'[p] = q /\ q.node \in Nodes /\ q.sub \in Submissions
          /\ IdempotencyKey[q.sub] # None /\ q.pc \in {"failed", "done"}
      BY <1>1, <1>2, <2>1, Zenon DEF SaveStep, Keys
    <3> QED BY <3>1 DEF CallInPlace
  <2>2. CASE p # r
    BY <1>1, <1>2, <2>2, ZenonT(40) DEF SaveStep, CallInPlace, EvidenceInv, CallsInPlace
  <2> QED BY <2>1, <2>2
<1>6. CallsInPlace'
  <2>1. \A p \in asked : call'[p].pc # "idle" /\ IdempotencyKey[call'[p].sub] # None
    BY <1>1, <1>2 DEF SaveStep, EvidenceInv, EvidenceType, CallsInPlace
  <2> QED BY <1>1, <1>5, <2>1, Zenon DEF SaveStep, CallsInPlace
<1>7. ASSUME NEW m \in Nodes PROVE Receipted(m)'
  <2>1. \A x \in 1 .. applied[m] : x \in Nat
    BY DEF EvidenceInv, EvidenceType
  <2> QED BY <1>1, <2>1, ReceiptStays, Zenon DEF SaveStep, EvidenceInv, Receipted
<1>8. ASSUME NEW p \in Requests PROVE AnswerKept(call[p])'
  <2>1. CASE p = r
    BY <1>1, <1>2, <2>1, SaveStepAnswers
  <2>2. CASE p # r
    <3>1. call'[p] = call[p] /\ AnswerKept(call[p]) /\ CallInPlace(call[p])
      BY <1>2, <2>2, Zenon DEF EvidenceInv, CallsInPlace
    <3>2. RecordsStay /\ UNCHANGED << chain, applied >>
      BY <1>1 DEF SaveStep
    <3> QED BY <3>1, <3>2, AnswerStays
  <2> QED BY <2>1, <2>2
<1> QED BY <1>1, <1>3, <1>4, <1>6, <1>7, <1>8 DEF SaveStep, EvidenceInv

\* What the end of ApplyCommit does: the receipt of the last block is there, already
\* was, is not needed, or is remembered as lost.
PersistStep(n) ==
  /\ evidence' \in [Nodes -> [Submissions -> Nat]]
  /\ evidenceByI' \in [Nodes -> [Keys -> Submissions \cup {None}]]
  /\ \A m \in Nodes : Indexed(m)'
  /\ RecordsStay
  /\ lost' \in [Nodes -> SUBSET Nat]
  /\ \A m \in Nodes : lost[m] \subseteq lost'[m]
  /\ \/ chain[applied[n]].sub = None \/ applied[n] \in lost'[n]
     \/ \E u \in Submissions :
          /\ IdempotencyKey[u] = IdempotencyKey[chain[applied[n]].sub]
          /\ evidence'[n][u] \in 1 .. applied[n]
  /\ applying' \in [Nodes -> BOOLEAN]
  /\ \A m \in Nodes : applying'[m] = (m # n /\ applying[m])
  /\ UNCHANGED << chain, applied, call, asked >>

\* persistEvidenceReceiptFromCommitLocked is such a step.
LEMMA PersistSteps ==
  ASSUME EvidenceInv, NEW n \in Nodes, persistEvidenceReceiptFromCommitLocked(n)
  PROVE  PersistStep(n)
<1> DEFINE h == applied[n]
           s == chain[h].sub
<1>1. /\ applying[n] /\ applying' = [applying EXCEPT ![n] = FALSE]
      /\ UNCHANGED << chain, applied, call, asked >>
      /\ \/ s = None /\ UNCHANGED << evidence, evidenceByI, lost >>
         \/ s # None /\ saveEvidenceReceipt(n, s, h) /\ UNCHANGED lost
         \/ /\ s # None /\ lost' = [lost EXCEPT ![n] = @ \cup {h}]
            /\ UNCHANGED << evidence, evidenceByI >>
  BY DEF persistEvidenceReceiptFromCommitLocked, SubmissionFromPayload
<1>2. h \in Nat /\ h >= 1 /\ h \in DOMAIN chain /\ s \in Submissions \cup {None}
  <2>1. h \in Nat /\ h >= 1 /\ h <= Len(chain)
    BY <1>1, Zenon DEF EvidenceInv, EvidenceType, ChainInOrder
  <2> QED BY <2>1, BlockFacts, SMTT(40)
<1>3. s # None => s \in Submissions /\ IdempotencyKey[s] # None
  BY <1>2, SMTT(40) DEF EvidenceInv, ChainInOrder
<1>4. /\ evidence' \in [Nodes -> [Submissions -> Nat]]
      /\ evidenceByI' \in [Nodes -> [Keys -> Submissions \cup {None}]]
      /\ \A m \in Nodes : Indexed(m)'
      /\ RecordsStay
      /\ lost' \in [Nodes -> SUBSET Nat]
      /\ \A m \in Nodes : lost[m] \subseteq lost'[m]
      /\ \/ s = None \/ h \in lost'[n]
         \/ \E u \in Submissions : /\ IdempotencyKey[u] = IdempotencyKey[s]
                                   /\ evidence'[n][u] \in 1 .. h
  <2>0. /\ evidence \in [Nodes -> [Submissions -> Nat]]
        /\ evidenceByI \in [Nodes -> [Keys -> Submissions \cup {None}]]
        /\ lost \in [Nodes -> SUBSET Nat]
    BY ZenonT(40) DEF EvidenceInv, EvidenceType
  <2>1. ASSUME UNCHANGED << evidence, evidenceByI >>
        PROVE  (\A m \in Nodes : Indexed(m)') /\ RecordsStay
    BY <1>1, <2>1, SMTT(40) DEF EvidenceInv, Indexed, RecordsStay
  <2>2. CASE s = None /\ UNCHANGED << evidence, evidenceByI, lost >>
    BY <2>0, <2>1, <2>2, SMTT(40)
  <2>3. CASE s # None /\ saveEvidenceReceipt(n, s, h) /\ UNCHANGED lost
    <3>1. h \in 1 .. applied[n]
      BY <1>2
    <3> HIDE DEF h, s
    <3> QED BY <1>1, <1>2, <1>3, <2>0, <2>3, <3>1, SaveFacts, ZenonT(40) DEF RecordsStay, h, s
  <2>4. CASE /\ s # None /\ lost' = [lost EXCEPT ![n] = @ \cup {h}]
             /\ UNCHANGED << evidence, evidenceByI >>
    <3>1. /\ lost' \in [Nodes -> SUBSET Nat] /\ h \in lost'[n]
          /\ \A m \in Nodes : lost[m] \subseteq lost'[m]
      BY <1>2, <2>0, <2>4, SMTT(40)
    <3> QED BY <2>0, <2>1, <2>4, <3>1
  <2> QED BY <1>1, <2>2, <2>3, <2>4, Zenon
<1>5. \A m \in Nodes : applying'[m] = (m # n /\ applying[m])
  BY <1>1, Zenon DEF EvidenceInv, EvidenceType
<1>6. applying' \in [Nodes -> BOOLEAN]
  BY <1>1, Zenon DEF EvidenceInv, EvidenceType
<1> QED BY <1>1, <1>4, <1>5, <1>6, Zenon DEF PersistStep

\* The applied blocks have their receipts after such a step.
LEMMA PersistReceipts ==
  ASSUME EvidenceInv, NEW n \in Nodes, PersistStep(n), NEW m \in Nodes
  PROVE  Receipted(m)'
<1> SUFFICES ASSUME NEW x \in 1 .. applied[m], chain[x].sub # None,
                    ~(applying'[m] /\ x = applied[m]), x \notin lost'[m]
             PROVE  \E u \in Submissions :
                      /\ IdempotencyKey[u] = IdempotencyKey[chain'[x].sub]
                      /\ evidence'[m][u] \in 1 .. x
  BY ZenonT(40) DEF PersistStep, Receipted
<1>1. CASE m = n /\ x = applied[n]
  BY <1>1 DEF PersistStep
<1>2. CASE ~(m = n /\ x = applied[n])
  <2>1. ~(applying[m] /\ x = applied[m]) /\ x \notin lost[m]
    BY <1>2, Zenon DEF PersistStep
  <2>2. x \in Nat
    BY DEF EvidenceInv, EvidenceType
  <2>3. \E u \in Submissions : /\ IdempotencyKey[u] = IdempotencyKey[chain[x].sub]
                               /\ evidence[m][u] \in 1 .. x
    BY <2>1, ZenonT(40) DEF EvidenceInv, Receipted
  <2>4. RecordsStay /\ UNCHANGED chain
    BY DEF PersistStep
  <2> QED BY <2>2, <2>3, <2>4, ReceiptStays
<1> QED BY <1>1, <1>2, Zenon

\* The end of ApplyCommit preserves the invariant.
LEMMA PersistKeeps ==
  ASSUME EvidenceInv, NEW n \in Nodes, persistEvidenceReceiptFromCommitLocked(n)
  PROVE  EvidenceInv'
<1>1. PersistStep(n)
  BY PersistSteps
<1>2. EvidenceType'
  BY <1>1, Zenon DEF PersistStep, EvidenceInv, EvidenceType
<1>3. ChainInOrder'
  BY <1>1, Zenon DEF PersistStep, EvidenceInv, ChainInOrder
<1>4. CallsInPlace'
  BY <1>1, Zenon DEF PersistStep, EvidenceInv, CallsInPlace, CallInPlace
<1>5. \A m \in Nodes : Indexed(m)' /\ Receipted(m)'
  BY <1>1, PersistReceipts, Zenon DEF PersistStep
<1>6. ASSUME NEW p \in Requests PROVE AnswerKept(call[p])'
  <2>1. call'[p] = call[p] /\ AnswerKept(call[p]) /\ CallInPlace(call[p])
    BY <1>1, Zenon DEF PersistStep, EvidenceInv, CallsInPlace
  <2>2. RecordsStay /\ UNCHANGED << chain, applied >>
    BY <1>1 DEF PersistStep
  <2> QED BY <2>1, <2>2, AnswerStays
<1> QED BY <1>2, <1>3, <1>4, <1>5, <1>6, Zenon DEF EvidenceInv

--------------------------------------------------------------------------------
\* Every step keeps the invariant.
LEMMA NextKeeps == EvidenceInv /\ [Next]_vars => EvidenceInv'
<1> SUFFICES ASSUME EvidenceInv, [Next]_vars PROVE EvidenceInv'
  OBVIOUS
<1>1. ASSUME NEW r \in Requests,
             \/ \E n \in Nodes, s \in Submissions : SubmitEvidence(r, n, s)
             \/ LookupKey(r) \/ LookupID(r) \/ StorageError(r)
             \/ ProposeFails(r) \/ ProposeReturns(r)
      PROVE  EvidenceInv'
  BY <1>1, RequestStepKeeps
<1>2. ASSUME NEW r \in Requests, SaveReceipt(r) PROVE EvidenceInv'
  BY <1>2, SaveReceiptKeeps
<1>3. CASE DecideOther \/ \E r \in Requests : Decide(r)
  BY <1>3, DecideKeeps
<1>4. ASSUME NEW n \in Nodes, ApplyCommit(n) PROVE EvidenceInv'
  BY <1>4, ApplyKeeps
<1>5. ASSUME NEW n \in Nodes, persistEvidenceReceiptFromCommitLocked(n) PROVE EvidenceInv'
  BY <1>5, PersistKeeps
<1>6. ASSUME NEW n \in Nodes, Restart(n) PROVE EvidenceInv'
  BY <1>6, RestartKeeps
<1>7. CASE UNCHANGED vars
  <2>1. UNCHANGED << chain, applied, applying, evidence, evidenceByI, call, asked, lost >>
    BY <1>7, Zenon DEF vars, stores
  <2>2. EvidenceType' /\ ChainInOrder'
    BY <2>1, Zenon DEF EvidenceInv, EvidenceType, ChainInOrder
  <2>3. CallsInPlace'
    BY <2>1, Zenon DEF EvidenceInv, CallsInPlace, CallInPlace
  <2>4. \A n \in Nodes : Indexed(n)' /\ Receipted(n)'
    BY <2>1, SMTT(40) DEF EvidenceInv, Indexed, Receipted
  <2>5. \A r \in Requests : AnswerKept(call[r])'
    BY <2>1, Zenon DEF EvidenceInv, AnswerKept, EvidenceByIdempotencyKey
  <2> QED BY <2>2, <2>3, <2>4, <2>5 DEF EvidenceInv
<1> QED BY <1>1, <1>2, <1>3, <1>4, <1>5, <1>6, <1>7 DEF Next

\* Retries of SubmitEvidence at a node agree: what a request was answered with is
\* what the node stores for its key from then on, whatever calls, applies, storage
\* errors and restarts follow.
THEOREM AnswersStayTrue == Spec => []AnswersAgree
<1> QED BY InitEvidence, NextKeeps, InvariantGives, PTL DEF Spec

\* Every evidence block that a node applied has one receipt for its key there, or
\* its save is remembered as failed (ApplyCommit,
\* persistEvidenceReceiptFromCommitLocked).
THEOREM AppliedIsReceipted == Spec => []CommittedIsReceipted
<1> QED BY InitEvidence, NextKeeps, InvariantGives, PTL DEF Spec

--------------------------------------------------------------------------------
(* Agreement between the nodes.                                              *)

\* A receipt is only ever missed in a fault.
LossNeedsFault == faults \in Nat /\ (faults = 0 => \A n \in Nodes : lost[n] = {})

LEMMA LossInductive == LossNeedsFault /\ [Next]_vars => LossNeedsFault'
<1> SUFFICES ASSUME LossNeedsFault, Next \/ UNCHANGED vars PROVE LossNeedsFault'
  OBVIOUS
<1>1. CASE UNCHANGED << lost, faults >>
  BY <1>1 DEF LossNeedsFault
<1>2. CASE Fault
  BY <1>2 DEF LossNeedsFault, Fault
<1>3. ASSUME NEW r \in Requests,
             \/ \E n \in Nodes, s \in Submissions : SubmitEvidence(r, n, s)
             \/ LookupKey(r) \/ LookupID(r) \/ ProposeFails(r) \/ Decide(r)
             \/ ProposeReturns(r) \/ SaveReceipt(r)
      PROVE  UNCHANGED << lost, faults >>
  BY <1>3, Zenon DEF SubmitEvidence, LookupKey, LookupID, ProposeFails, Decide,
                     ProposeReturns, SaveReceipt, stores
<1>4. ASSUME DecideOther \/ \E n \in Nodes : ApplyCommit(n)
      PROVE  UNCHANGED << lost, faults >>
  BY <1>4, Zenon DEF DecideOther, ApplyCommit, stores
<1>5. ASSUME (\E r \in Requests : StorageError(r)) \/ \E n \in Nodes : Restart(n)
      PROVE  Fault
  BY <1>5, Zenon DEF StorageError, Restart
<1>6. ASSUME NEW n \in Nodes, persistEvidenceReceiptFromCommitLocked(n)
      PROVE  UNCHANGED << lost, faults >> \/ Fault
  BY <1>6, Zenon DEF persistEvidenceReceiptFromCommitLocked
<1>7. ASSUME UNCHANGED vars PROVE UNCHANGED << lost, faults >>
  BY <1>7, Zenon DEF vars, stores
<1> QED BY <1>1, <1>2, <1>3, <1>4, <1>5, <1>6, <1>7, Zenon DEF Next

\* A node that missed no receipt stored the receipt of an earlier block with the key
\* when it applied that block, and a key has one record.
LEMMA FirstBlockWins == ASSUME EvidenceInv, LossNeedsFault PROVE FirstWins
<1> SUFFICES ASSUME faults = 0, NEW n \in Nodes, NEW s \in Submissions,
                    evidence[n][s] # 0, NEW h \in 1 .. evidence[n][s] - 1,
                    chain[h].sub # None,
                    IdempotencyKey[chain[h].sub] = IdempotencyKey[s]
             PROVE  FALSE
  BY Zenon DEF FirstWins
<1>1. /\ evidence[n][s] <= applied[n]
      /\ IdempotencyKey[s] # None
      /\ evidenceByI[n][IdempotencyKey[s]] = s
  BY Zenon DEF EvidenceInv, Indexed
<1>2. evidence[n][s] \in Nat /\ applied[n] \in Nat
  BY DEF EvidenceInv, EvidenceType
<1>3. h \in 1 .. applied[n] /\ h # applied[n] /\ h < evidence[n][s] /\ h \in Nat
  BY <1>1, <1>2
<1>4. h \notin lost[n]
  BY DEF LossNeedsFault
<1>5. PICK u \in Submissions : /\ IdempotencyKey[u] = IdempotencyKey[chain[h].sub]
                               /\ evidence[n][u] \in 1 .. h
  BY <1>3, <1>4, Zenon DEF EvidenceInv, Receipted
<1>6. evidence[n][u] # 0
  BY <1>3, <1>5
<1>7. evidenceByI[n][IdempotencyKey[u]] = u
  BY <1>6, Zenon DEF EvidenceInv, Indexed
<1>8. u = s
  BY <1>1, <1>5, <1>7, Zenon
<1> QED BY <1>3, <1>5, <1>8

\* The receipts of a key agree: at a node always, and across the nodes while no
\* storage error and no restart made one of them miss the receipt of a block.
THEOREM KeysHaveOneReceipt == Spec => []ReceiptsAgree
<1>1. Init => LossNeedsFault
  BY DEF Init, LossNeedsFault
<1>2. EvidenceInv /\ LossNeedsFault => FirstWins
  BY FirstBlockWins
<1> QED
  BY <1>1, <1>2, InitEvidence, NextKeeps, InvariantGives, LossInductive, PTL
     DEF Spec, ReceiptsAgree

================================================================================
