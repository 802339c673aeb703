---------------------------- MODULE RetransmitProofs ----------------------------
(* The ledger and the loop of the queue, for every set of bundles and any      *)
(* number of store errors and restarts.                                        *)
EXTENDS Retransmit, TLAPS

\* What was reported applied is recorded, and what is recorded outlives a restart.
LedgerInv ==
  /\ applied \in Seq(Transactions)
  /\ recorded \subseteq onDisk
  /\ \A i \in DOMAIN applied : applied[i] \in recorded
  /\ AppliedOnce

LEMMA ApplyKeepsLedger ==
  ASSUME LedgerInv, NEW tx \in Transactions,
         ApplyNew(tx) \/ ApplyDuplicate(tx) \/ ApplyError(tx)
  PROVE  LedgerInv'
<1>1. CASE ApplyNew(tx)
  <2>1. applied' \in Seq(Transactions) /\ Len(applied') = Len(applied) + 1
    BY <1>1 DEF LedgerInv, ApplyNew
  <2>2. \A i \in DOMAIN applied' :
          IF i = Len(applied) + 1 THEN applied'[i] = tx
          ELSE i \in DOMAIN applied /\ applied'[i] = applied[i]
    BY <1>1 DEF LedgerInv, ApplyNew
  <2> QED
    BY <1>1, <2>1, <2>2 DEF LedgerInv, ApplyNew, AppliedOnce
<1>2. CASE ApplyDuplicate(tx)
  BY <1>2 DEF LedgerInv, ApplyDuplicate, AppliedOnce, store
<1>3. CASE ApplyError(tx)
  BY <1>3 DEF LedgerInv, ApplyError, AppliedOnce
<1> QED
  BY <1>1, <1>2, <1>3

LEMMA LedgerInductive == LedgerInv /\ [Next]_vars => LedgerInv'
<1> SUFFICES ASSUME LedgerInv, [Next]_vars PROVE LedgerInv'
  OBVIOUS
<1>1. CASE UNCHANGED << store, applied >>
  BY <1>1 DEF LedgerInv, AppliedOnce, store
<1>2. ASSUME NEW e \in Envelopes, NEW tick \in 0..MaxTick, SubmitKnown(e, tick)
      PROVE  LedgerInv'
  <2>1. e.tx \in Transactions
    BY DEF Transactions
  <2>2. ApplyNew(e.tx) \/ ApplyDuplicate(e.tx) \/ ApplyError(e.tx)
    BY <1>2 DEF SubmitKnown
  <2> QED
    BY <2>1, <2>2, ApplyKeepsLedger
<1>3. ASSUME NEW e \in Envelopes, drainReady(e) PROVE LedgerInv'
  <2>1. e.tx \in Transactions
    BY DEF Transactions
  <2>2. \/ UNCHANGED << store, applied >>
        \/ ApplyNew(e.tx) \/ ApplyDuplicate(e.tx) \/ ApplyError(e.tx)
    BY <1>3 DEF drainReady
  <2> QED
    BY <1>1, <2>1, <2>2, ApplyKeepsLedger
<1>4. CASE Restart
  BY <1>4 DEF Restart, LedgerInv, AppliedOnce
<1>5. ASSUME NEW e \in Envelopes, NEW tick \in 0..MaxTick, SubmitGap(e, tick)
      PROVE  LedgerInv'
  BY <1>1, <1>5 DEF SubmitGap
<1>6. ASSUME NEW e \in Envelopes, Confirm(e) PROVE LedgerInv'
  BY <1>1, <1>6 DEF Confirm
<1>7. CASE drainDone
  BY <1>1, <1>7 DEF drainDone
<1>8. CASE UNCHANGED vars
  BY <1>1, <1>8 DEF vars
<1> QED
  BY <1>2, <1>3, <1>4, <1>5, <1>6, <1>7, <1>8 DEF Next, Submit

\* No transaction is reported applied twice, whatever is resent and however often
\* the store fails or the process restarts (Ledger.Apply on RecordIdempotency).
THEOREM LedgerAppliesOnce == Spec => []AppliedOnce
<1>1. Init => LedgerInv
  BY DEF Init, LedgerInv, AppliedOnce
<1>2. LedgerInv => AppliedOnce
  BY DEF LedgerInv
<1> QED
  BY <1>1, <1>2, LedgerInductive, PTL DEF Spec

--------------------------------------------------------------------------------
\* Only the stream whose loop is running can have a bundle that is ready.
ReadyOnlyInLoop ==
  /\ nextSeq \in [Streams -> Nat]
  /\ gapPending \subseteq Envelopes
  /\ \A e \in gapPending : e.stream # draining => e.seq # expected(e.stream)

LEMMA EnvelopeType ==
  ASSUME NEW e \in Envelopes
  PROVE  e.stream \in Streams /\ e.seq \in Nat
BY EnvelopesAssumption DEF Streams, Envelope

LEMMA ReadyInductive ==
  ReadyOnlyInLoop /\ [Next]_vars => ReadyOnlyInLoop'
<1> SUFFICES ASSUME ReadyOnlyInLoop, [Next]_vars PROVE ReadyOnlyInLoop'
  OBVIOUS
<1>1. ASSUME NEW e \in Envelopes, NEW tick \in 0..MaxTick, SubmitGap(e, tick)
      PROVE  ReadyOnlyInLoop'
  BY <1>1, EnvelopeType DEF SubmitGap, ReadyOnlyInLoop, expected, loop
<1>2. ASSUME NEW e \in Envelopes, NEW tick \in 0..MaxTick, SubmitKnown(e, tick)
      PROVE  ReadyOnlyInLoop'
  <2>1. e.stream \in Streams /\ draining = NoStream /\ gapPending' = gapPending
        /\ \A f \in gapPending : f.stream # NoStream
    BY <1>2, EnvelopeType, NoStreamAssumption DEF SubmitKnown, ReadyOnlyInLoop
  <2>2. CASE nextSeq' = [nextSeq EXCEPT ![e.stream] = expected(e.stream) + 1]
             /\ draining' = e.stream
    BY <2>1, <2>2, EnvelopeType DEF ReadyOnlyInLoop, expected
  <2>3. CASE nextSeq' = [nextSeq EXCEPT ![e.stream] = expected(e.stream)]
             /\ draining' = draining
    BY <2>1, <2>3, EnvelopeType DEF ReadyOnlyInLoop, expected
  <2> QED
    BY <1>2, <2>2, <2>3 DEF SubmitKnown, loop
<1>3. ASSUME NEW e \in Envelopes, drainReady(e) PROVE ReadyOnlyInLoop'
  BY <1>3, EnvelopeType DEF drainReady, Ready, ReadyOnlyInLoop, expected, loop
<1>4. CASE drainDone
  BY <1>4, EnvelopeType DEF drainDone, Ready, ReadyOnlyInLoop, expected, queue
<1>5. ASSUME NEW e \in Envelopes, Confirm(e) PROVE ReadyOnlyInLoop'
  BY <1>5 DEF Confirm, ReadyOnlyInLoop, expected, loop
<1>6. CASE Restart
  BY <1>6 DEF Restart, ReadyOnlyInLoop
<1>7. CASE UNCHANGED vars
  BY <1>7 DEF vars, queue, loop, ReadyOnlyInLoop, expected
<1> QED
  BY <1>1, <1>2, <1>3, <1>4, <1>5, <1>6, <1>7 DEF Next, Submit

\* The queue never sits on a bundle that it could apply, also when the store fails
\* or the process restarts within a call (the loop of drainReady).
THEOREM ReadyIsDrained == Spec => []NothingReadyWaits
<1>1. Init => ReadyOnlyInLoop
  BY DEF Init, ReadyOnlyInLoop
<1>2. ReadyOnlyInLoop => NothingReadyWaits
  BY EnvelopeType, NoStreamAssumption DEF ReadyOnlyInLoop, NothingReadyWaits
<1> QED
  BY <1>1, <1>2, ReadyInductive, PTL DEF Spec

--------------------------------------------------------------------------------
(* The order of a stream.                                                   *)

\* A transaction has one stream and one number, whichever bundle carries it.
LEMMA NumberOfTx ==
  ASSUME NEW e \in Envelopes
  PROVE  SeqOf(e.tx) = e.seq /\ StreamOf(e.tx) = e.stream
<1> DEFINE f == CHOOSE x \in Envelopes : x.tx = e.tx
<1>1. f \in Envelopes /\ f.tx = e.tx
  OBVIOUS
<1>2. f.stream = e.stream /\ f.seq = e.seq
  BY <1>1, SequencesAssumption
<1> QED
  BY <1>2 DEF SeqOf, StreamOf

LEMMA TxOfApplied ==
  ASSUME applied \in Seq(Transactions), NEW i \in DOMAIN applied
  PROVE  \E e \in Envelopes : applied[i] = e.tx
  BY DEF Transactions

\* What InSequence says of one stream.
InSequenceAt(s) ==
  LET mine == {i \in DOMAIN applied : StreamOf(applied[i]) = s} IN
  /\ {SeqOf(applied[i]) : i \in mine} = 1 .. (expected(s) - 1)
  /\ \A i, j \in mine : i < j => SeqOf(applied[i]) < SeqOf(applied[j])

\* Without faults the ledger holds what was applied, in sequence.
SequenceInv ==
  /\ faults \in Nat /\ restarts \in Nat
  /\ Undisturbed => /\ \A tx \in recorded : \E i \in DOMAIN applied : applied[i] = tx
                    /\ \A s \in Streams : InSequenceAt(s)

LEMMA ExpectedType ==
  ASSUME nextSeq \in [Streams -> Nat], NEW s \in Streams
  PROVE  expected(s) \in Nat /\ expected(s) >= 1
  BY DEF expected

\* A number below the expected one belongs to a transaction that is recorded.
LEMMA BelowIsRecorded ==
  ASSUME LedgerInv, nextSeq \in [Streams -> Nat], NEW e \in Envelopes,
         InSequenceAt(e.stream), e.seq \in 1 .. (expected(e.stream) - 1)
  PROVE  e.tx \in recorded
<1>1. PICK i \in DOMAIN applied : StreamOf(applied[i]) = e.stream /\ SeqOf(applied[i]) = e.seq
  BY DEF InSequenceAt
<1>2. PICK f \in Envelopes : applied[i] = f.tx
  BY TxOfApplied DEF LedgerInv
<1>3. f.stream = e.stream /\ f.seq = e.seq
  BY <1>1, <1>2, NumberOfTx
<1>4. f.tx = e.tx
  BY <1>3, SequencesAssumption
<1> QED
  BY <1>2, <1>4 DEF LedgerInv

LEMMA OneMoreNumber ==
  ASSUME NEW k \in Nat, k >= 1
  PROVE  /\ (1 .. (k - 1)) \cup {k} = 1 .. ((k + 1) - 1)
         /\ \A x \in 1 .. (k - 1) : x \in Nat /\ x < k
  OBVIOUS

\* Applying the expected bundle of a stream, and expecting the next.
LEMMA NextInSequence ==
  ASSUME applied \in Seq(Transactions), nextSeq \in [Streams -> Nat],
         NEW e \in Envelopes, e.seq = expected(e.stream),
         applied' = Append(applied, e.tx),
         nextSeq' = [nextSeq EXCEPT ![e.stream] = expected(e.stream) + 1],
         NEW s \in Streams, InSequenceAt(s)
  PROVE  InSequenceAt(s)'
<1> DEFINE n == Len(applied)
           mine == {i \in DOMAIN applied : StreamOf(applied[i]) = s}
           mine2 == {i \in DOMAIN applied' : StreamOf(applied'[i]) = s}
<1>1. /\ n \in Nat /\ DOMAIN applied = 1 .. n
      /\ DOMAIN applied' = 1 .. n + 1
      /\ applied'[n + 1] = e.tx
      /\ \A i \in 1 .. n : applied'[i] = applied[i]
  OBVIOUS
<1>2. SeqOf(e.tx) = e.seq /\ StreamOf(e.tx) = e.stream /\ e.stream \in Streams
  BY NumberOfTx, EnvelopeType
<1>3. expected(s) \in Nat /\ expected(s) >= 1
  BY ExpectedType
<1>4. /\ {SeqOf(applied[i]) : i \in mine} = 1 .. (expected(s) - 1)
      /\ \A i, j \in mine : i < j => SeqOf(applied[i]) < SeqOf(applied[j])
  BY DEF InSequenceAt
<1>5. CASE s # e.stream
  <2>1. mine2 = mine
    BY <1>1, <1>2, <1>5
  <2>2. expected(s)' = expected(s)
    BY <1>2, <1>5 DEF expected
  <2>3. \A i \in mine : applied'[i] = applied[i]
    BY <1>1
  <2> HIDE DEF mine, mine2
  <2>4. {SeqOf(applied'[i]) : i \in mine2} = 1 .. (expected(s)' - 1)
    BY <1>4, <2>1, <2>2, <2>3, Zenon
  <2>5. \A i, j \in mine2 : i < j => SeqOf(applied'[i]) < SeqOf(applied'[j])
    BY <1>4, <2>1, <2>3, Zenon
  <2> QED
    BY <2>4, <2>5, Zenon DEF InSequenceAt, mine2, SeqOf, StreamOf
<1>6. CASE s = e.stream
  <2>1. mine2 = mine \cup {n + 1}
    BY <1>1, <1>2, <1>6
  <2>2. expected(s)' = expected(s) + 1
    BY <1>2, <1>3, <1>6 DEF expected
  <2>3. \A i \in mine : applied'[i] = applied[i] /\ i \in 1 .. n
    BY <1>1
  <2>4. SeqOf(applied'[n + 1]) = expected(s)
    BY <1>1, <1>2, <1>6
  <2> HIDE DEF mine, mine2, n
  <2>5. {SeqOf(applied'[i]) : i \in mine2} = 1 .. (expected(s)' - 1)
    <3>1. {SeqOf(applied'[i]) : i \in mine2} = {SeqOf(applied[i]) : i \in mine} \cup {expected(s)}
      BY <2>1, <2>3, <2>4, Zenon
    <3>2. (1 .. (expected(s) - 1)) \cup {expected(s)} = 1 .. ((expected(s) + 1) - 1)
      BY <1>3, OneMoreNumber, Zenon
    <3> QED
      BY <1>4, <2>2, <3>1, <3>2, Zenon
  <2>6. \A i \in mine : SeqOf(applied[i]) \in Nat /\ SeqOf(applied[i]) < expected(s)
    BY <1>3, <1>4, OneMoreNumber, Zenon
  <2>7. \A i, j \in mine2 : i < j => SeqOf(applied'[i]) < SeqOf(applied'[j])
    BY <1>1, <1>4, <2>1, <2>3, <2>4, <2>6
  <2> QED
    BY <2>5, <2>7, Zenon DEF InSequenceAt, mine2, SeqOf, StreamOf
<1> QED
  BY <1>5, <1>6

\* A step that applies nothing and changes no expected number.
LEMMA SameSequence ==
  ASSUME NEW s \in Streams, InSequenceAt(s), applied' = applied, expected(s)' = expected(s)
  PROVE  InSequenceAt(s)'
  BY DEF InSequenceAt, SeqOf, StreamOf

\* One result of the ledger, for a bundle that may not be ahead of its stream.
LEMMA ApplyKeepsRecords ==
  ASSUME LedgerInv, NEW tx,
         \A x \in recorded : \E i \in DOMAIN applied : applied[i] = x,
         ApplyNew(tx) \/ (UNCHANGED << recorded, applied >>)
  PROVE  \A x \in recorded' : \E i \in DOMAIN applied' : applied'[i] = x
<1>1. CASE ApplyNew(tx)
  <2>1. /\ applied' = Append(applied, tx) /\ recorded' = recorded \cup {tx}
        /\ applied \in Seq(Transactions)
    BY <1>1 DEF ApplyNew, LedgerInv
  <2>2. /\ Len(applied) + 1 \in DOMAIN applied' /\ applied'[Len(applied) + 1] = tx
        /\ \A i \in DOMAIN applied : i \in DOMAIN applied' /\ applied'[i] = applied[i]
    BY <2>1
  <2> QED
    BY <2>1, <2>2, Zenon
<1> QED
  BY <1>1

LEMMA SequenceInductive ==
  LedgerInv /\ ReadyOnlyInLoop /\ SequenceInv /\ [Next]_vars => SequenceInv'
<1> SUFFICES ASSUME LedgerInv, ReadyOnlyInLoop, SequenceInv, [Next]_vars PROVE SequenceInv'
  OBVIOUS
<1> DEFINE Recorded == \A x \in recorded : \E i \in DOMAIN applied : applied[i] = x
<1>1. /\ applied \in Seq(Transactions) /\ nextSeq \in [Streams -> Nat]
      /\ faults \in Nat /\ restarts \in Nat
  BY DEF LedgerInv, ReadyOnlyInLoop, SequenceInv
<1>2. ASSUME faults' \in Nat, restarts' \in Nat,
             Undisturbed' => Recorded' /\ \A s \in Streams : InSequenceAt(s)'
      PROVE  SequenceInv'
  BY <1>2 DEF SequenceInv
<1>3. ASSUME UNCHANGED << recorded, applied, faults, restarts >>,
             \A s \in Streams : expected(s)' = expected(s)
      PROVE  SequenceInv'
  <2>1. Undisturbed' => Undisturbed
    BY <1>3 DEF Undisturbed
  <2>2. Undisturbed' => \A s \in Streams : InSequenceAt(s)'
    BY <1>3, <2>1, SameSequence DEF SequenceInv
  <2> QED
    BY <1>1, <1>2, <1>3, <2>1, <2>2 DEF SequenceInv
<1>4. ASSUME faults' = faults + 1 \/ restarts' = restarts + 1,
             faults' \in Nat, restarts' \in Nat
      PROVE  SequenceInv'
  BY <1>1, <1>2, <1>4 DEF Undisturbed
<1>5. ASSUME NEW e \in Envelopes, Undisturbed', e.seq = expected(e.stream), ApplyNew(e.tx),
             nextSeq' = [nextSeq EXCEPT ![e.stream] = expected(e.stream) + 1],
             UNCHANGED restarts
      PROVE  SequenceInv'
  <2>1. Undisturbed /\ UNCHANGED << faults, restarts >>
    BY <1>5 DEF ApplyNew, Undisturbed
  <2>2. Recorded'
    BY <1>5, <2>1, ApplyKeepsRecords DEF SequenceInv
  <2>3. applied' = Append(applied, e.tx)
    BY <1>5 DEF ApplyNew
  <2>4. \A s \in Streams : InSequenceAt(s)'
    BY <1>1, <1>5, <2>1, <2>3, NextInSequence, Zenon DEF SequenceInv
  <2> QED
    BY <1>1, <1>2, <2>1, <2>2, <2>4
<1>6. ASSUME NEW e \in Envelopes, nextSeq' = [nextSeq EXCEPT ![e.stream] = expected(e.stream)]
      PROVE  \A s \in Streams : expected(s)' = expected(s)
  BY <1>1, <1>6, EnvelopeType DEF expected
<1>7. ASSUME NEW e \in Envelopes, NEW tick \in 0..MaxTick, SubmitGap(e, tick)
      PROVE  SequenceInv'
  BY <1>3, <1>6, <1>7, Zenon DEF SubmitGap, store
<1>8. ASSUME NEW e \in Envelopes, NEW tick \in 0..MaxTick, SubmitKnown(e, tick)
      PROVE  SequenceInv'
  <2>1. e.seq \in Nat /\ e.seq >= 1 /\ e.seq <= expected(e.stream) /\ UNCHANGED restarts
    BY <1>8, EnvelopeType DEF SubmitKnown, Validate
  <2>2. CASE ApplyError(e.tx)
    BY <1>1, <1>4, <2>1, <2>2 DEF ApplyError
  <2>3. CASE ApplyDuplicate(e.tx)
    <3>1. nextSeq' = [nextSeq EXCEPT ![e.stream] = expected(e.stream)]
      BY <1>8, <2>3 DEF SubmitKnown, ApplyDuplicate, ApplyNew, ApplyError
    <3> QED
      BY <1>3, <1>6, <2>1, <2>3, <3>1, Zenon DEF ApplyDuplicate, store
  <2>4. CASE ApplyNew(e.tx) /\ Undisturbed'
    <3>1. Undisturbed /\ e.tx \notin recorded
      BY <2>1, <2>4 DEF ApplyNew, Undisturbed
    <3>2. e.seq \notin 1 .. (expected(e.stream) - 1)
      BY <1>1, <3>1, BelowIsRecorded, EnvelopeType DEF SequenceInv
    <3>3. e.seq = expected(e.stream)
      BY <1>1, <2>1, <3>2, ExpectedType, EnvelopeType
    <3>4. nextSeq' = [nextSeq EXCEPT ![e.stream] = expected(e.stream) + 1]
      BY <1>8, <2>4, <3>3 DEF SubmitKnown, ApplyDuplicate, ApplyNew, ApplyError
    <3> QED
      BY <1>5, <2>1, <2>4, <3>3, <3>4, Zenon
  <2>5. CASE ApplyNew(e.tx) /\ ~ Undisturbed'
    BY <1>1, <1>2, <2>1, <2>5 DEF ApplyNew
  <2> QED
    BY <1>8, <2>2, <2>3, <2>4, <2>5 DEF SubmitKnown
<1>9. ASSUME NEW e \in Envelopes, drainReady(e) PROVE SequenceInv'
  <2>1. e.stream = draining /\ e.seq = expected(e.stream) /\ UNCHANGED restarts
    BY <1>9 DEF drainReady, Ready
  <2>2. CASE ApplyError(e.tx)
    BY <1>1, <1>4, <2>1, <2>2 DEF ApplyError
  <2>3. CASE UNCHANGED << nextSeq, store, applied, faults >>
    BY <1>3, <2>1, <2>3 DEF store, expected
  <2>4. CASE ApplyNew(e.tx) /\ nextSeq' = [nextSeq EXCEPT ![draining] = expected(draining) + 1]
    <3>1. CASE Undisturbed'
      BY <1>5, <2>1, <2>4, <3>1, Zenon
    <3>2. CASE ~ Undisturbed'
      BY <1>1, <1>2, <2>1, <2>4, <3>2 DEF ApplyNew
    <3> QED
      BY <3>1, <3>2
  <2> QED
    BY <1>9, <2>2, <2>3, <2>4 DEF drainReady, ApplyDuplicate
<1>10. CASE drainDone
  BY <1>3, <1>10 DEF drainDone, queue, store, expected
<1>11. ASSUME NEW e \in Envelopes, Confirm(e) PROVE SequenceInv'
  BY <1>3, <1>11 DEF Confirm, store, expected
<1>12. CASE Restart
  BY <1>1, <1>4, <1>12 DEF Restart
<1>13. CASE UNCHANGED vars
  BY <1>3, <1>13 DEF vars, queue, store, expected
<1> QED
  BY <1>7, <1>8, <1>9, <1>10, <1>11, <1>12, <1>13 DEF Next, Submit

LEMMA SequenceInit == Init => SequenceInv
<1> SUFFICES ASSUME Init PROVE SequenceInv
  OBVIOUS
<1>1. applied = << >> /\ recorded = {} /\ faults = 0 /\ restarts = 0
      /\ \A s \in Streams : expected(s) = 1
  BY DEF Init, expected
<1>2. DOMAIN applied = {}
  BY <1>1
<1>3. 1 .. (1 - 1) = {}
  OBVIOUS
<1>4. \A s \in Streams : InSequenceAt(s)
  BY <1>1, <1>2, <1>3, Zenon DEF InSequenceAt
<1> QED
  BY <1>1, <1>4 DEF SequenceInv

\* Without restarts or store errors a stream is applied in the order of its
\* numbers with none left out, however its bundles arrive (Queue.Submit, drainReady).
THEOREM StreamsInSequence == Spec => []InSequence
<1>1. Init => LedgerInv
  BY DEF Init, LedgerInv, AppliedOnce
<1>2. Init => ReadyOnlyInLoop
  BY DEF Init, ReadyOnlyInLoop
<1>3. SequenceInv => InSequence
  BY Zenon DEF SequenceInv, InSequence, InSequenceAt
<1> QED
  BY <1>1, <1>2, <1>3, SequenceInit, LedgerInductive, ReadyInductive, SequenceInductive, PTL
     DEF Spec

--------------------------------------------------------------------------------
(* What was held for retry.                                                 *)

\* A bundle is held only behind an earlier one, so its number is not 0 and only its
\* tick can make it invalid; and only what was applied waits for a confirmation.
HeldInv ==
  /\ faults \in Nat
  /\ \A e \in unconfirmed : e.tx \in recorded
  /\ \A e \in held : e.seq # 0
  /\ HeldIsKept

LEMMA HeldInductive == HeldInv /\ ReadyOnlyInLoop /\ [Next]_vars => HeldInv'
<1> SUFFICES ASSUME HeldInv, ReadyOnlyInLoop, [Next]_vars PROVE HeldInv'
  OBVIOUS
<1>1. nextSeq \in [Streams -> Nat] /\ faults \in Nat
  BY DEF ReadyOnlyInLoop, HeldInv
<1>2. ASSUME UNCHANGED << unconfirmed, gapPending, recorded, held, faults >>
      PROVE  HeldInv'
  BY <1>2 DEF HeldInv, HeldIsKept, PendingForRetransmit
<1>3. ASSUME NEW e \in Envelopes, NEW tick \in 0..MaxTick, SubmitGap(e, tick)
      PROVE  HeldInv'
  <2>1. e.seq # 0
    BY <1>3 DEF SubmitGap, Validate
  <2> QED
    BY <1>3, <2>1 DEF SubmitGap, HeldInv, HeldIsKept, PendingForRetransmit, store
<1>4. ASSUME NEW e \in Envelopes, NEW tick \in 0..MaxTick, SubmitKnown(e, tick)
      PROVE  HeldInv'
  <2>1. CASE ApplyNew(e.tx)
    BY <1>4, <2>1 DEF SubmitKnown, ApplyNew, HeldInv, HeldIsKept, PendingForRetransmit
  <2>2. CASE ApplyDuplicate(e.tx)
    BY <1>2, <1>4, <2>2 DEF SubmitKnown, ApplyDuplicate, ApplyNew, ApplyError, store
  <2>3. CASE ApplyError(e.tx)
    BY <1>1, <1>4, <2>3
       DEF SubmitKnown, ApplyError, ApplyNew, HeldInv, HeldIsKept, PendingForRetransmit
  <2> QED
    BY <1>4, <2>1, <2>2, <2>3 DEF SubmitKnown
<1>5. ASSUME NEW e \in Envelopes, drainReady(e) PROVE HeldInv'
  <2>1. /\ gapPending' = gapPending \ {e} /\ held' = held
        /\ e.expires \in Nat
    BY <1>5, EnvelopesAssumption DEF drainReady, Envelope
  <2>2. CASE ~ Validate(e, nowTick) /\ UNCHANGED << unconfirmed, store, faults >>
    <3>1. e \in held => e.expires # 0
      BY <2>1, <2>2 DEF Validate, HeldInv
    <3> QED
      BY <2>1, <2>2, <3>1 DEF HeldInv, HeldIsKept, PendingForRetransmit, store
  <2>3. CASE ApplyNew(e.tx) /\ unconfirmed' = unconfirmed \cup {e}
    BY <2>1, <2>3 DEF ApplyNew, HeldInv, HeldIsKept, PendingForRetransmit
  <2>4. CASE ApplyDuplicate(e.tx) /\ UNCHANGED unconfirmed
    BY <2>1, <2>4 DEF ApplyDuplicate, HeldInv, HeldIsKept, PendingForRetransmit, store
  <2>5. CASE ApplyError(e.tx) /\ UNCHANGED unconfirmed
    BY <1>1, <2>1, <2>5 DEF ApplyError, HeldInv, HeldIsKept
  <2> QED
    BY <1>5, <2>2, <2>3, <2>4, <2>5 DEF drainReady
<1>6. ASSUME NEW e \in Envelopes, Confirm(e) PROVE HeldInv'
  BY <1>6 DEF Confirm, HeldInv, HeldIsKept, PendingForRetransmit, store
<1>7. CASE Restart
  BY <1>7 DEF Restart, HeldInv, HeldIsKept
<1>8. CASE drainDone
  BY <1>2, <1>8 DEF drainDone, queue, store
<1>9. CASE UNCHANGED vars
  BY <1>2, <1>9 DEF vars, queue, store
<1> QED
  BY <1>3, <1>4, <1>5, <1>6, <1>7, <1>8, <1>9 DEF Next, Submit

\* A bundle that Submit held for retry and that does not expire is returned for
\* retransmission until its transaction is recorded (Queue.PendingForRetransmit).
THEOREM HeldBundlesAreKept == Spec => []HeldIsKept
<1>1. Init => HeldInv /\ ReadyOnlyInLoop
  BY DEF Init, HeldInv, HeldIsKept, ReadyOnlyInLoop
<1>2. HeldInv => HeldIsKept
  BY DEF HeldInv
<1> QED
  BY <1>1, <1>2, HeldInductive, ReadyInductive, PTL DEF Spec

================================================================================
