------------------------------- MODULE Retransmit -------------------------------
(* The reconnect queue of bundle/retransmit: bundles arrive late, repeated or  *)
(* out of order, a ledger removes duplicate transactions, and bundles that     *)
(* overtook an earlier one wait for it.  The ledger is the durable one         *)
(* (NewPersistentLedger): its store may fail and the process may restart.      *)
(* With MaxFaults = MaxRestarts = 0 it is also the one in memory (NewLedger).  *)
EXTENDS Integers, Sequences, FiniteSets

CONSTANTS
  Envelopes,    \* the bundles a sender may submit: records of Envelope
  MaxTick,      \* bound on the logical ticks a caller passes
  MaxFaults,    \* bound on the store calls that fail
  MaxRestarts   \* bound on the restarts

\* A bundle belongs to a source/destination/channel stream.  Two bundles may carry
\* one transaction: its digest covers the expiration tick, so a bundle that is made
\* again with another one has another bundle ID.  expires = 0: it never expires.
Envelope == [stream : STRING, seq : Nat, tx : STRING, expires : Nat]

ASSUME EnvelopesAssumption == Envelopes \subseteq Envelope

\* The sequence counter of a channel gives each transaction a number of its own.
ASSUME SequencesAssumption ==
  \A e, f \in Envelopes :
    (e.stream = f.stream /\ e.seq = f.seq) <=> e.tx = f.tx

ASSUME BoundsAssumption == MaxTick \in Nat /\ MaxFaults \in Nat /\ MaxRestarts \in Nat

Streams == {e.stream : e \in Envelopes}
Transactions == {e.tx : e \in Envelopes}
NoStream == "none"

ASSUME NoStreamAssumption == NoStream \notin Streams

VARIABLES
  nextSeq,      \* Queue.nextSeq; 0 is an absent key
  gapPending,   \* Queue.gapPending
  unconfirmed,  \* Queue.unconfirmed
  draining,     \* the stream whose drainReady loop is running, and
  nowTick,      \* the tick of the Submit call it belongs to
  recorded,     \* the store's idempotency records, as the process sees them
  onDisk,       \* the records a restart would load
  applied,      \* history: the transactions in the order Apply reported them applied
  held,         \* history: the bundles Submit answered "held for retry"
  faults, restarts

queue == << nextSeq, gapPending, unconfirmed >>
loop == << draining, nowTick >>
store == << recorded, onDisk >>
vars == << queue, loop, store, applied, held, faults, restarts >>

--------------------------------------------------------------------------------
\* Envelope.Validate; the bundles of the model are well formed if numbered from 1.
Validate(e, tick) == e.seq # 0 /\ ~ (e.expires > 0 /\ tick > e.expires)

expected_NoDefault(s) == nextSeq[s]
\* Queue.expected, and the entry it creates.
expected(s) == IF nextSeq[s] > 0 THEN nextSeq[s] ELSE 1

ApplyNew_NoLookup(tx) ==
  /\ recorded' = recorded \cup {tx}
  /\ onDisk' = onDisk \cup {tx}
  /\ applied' = Append(applied, tx)
  /\ UNCHANGED faults

\* The three results of Ledger.Apply.
ApplyNew(tx) ==
  /\ tx \notin recorded
  /\ recorded' = recorded \cup {tx}
  /\ onDisk' = onDisk \cup {tx}
  /\ applied' = Append(applied, tx)
  /\ UNCHANGED faults

ApplyDuplicate(tx) == tx \in recorded /\ UNCHANGED << store, applied, faults >>

\* RecordIdempotency fails; its line may be in the file all the same.
ApplyError(tx) ==
  /\ tx \notin recorded
  /\ faults < MaxFaults
  /\ faults' = faults + 1
  /\ onDisk' \in {onDisk, onDisk \cup {tx}}
  /\ UNCHANGED << recorded, applied >>

--------------------------------------------------------------------------------
\* One waiting bundle for a stream instead of one for a bundle ID.
SubmitGap_OnePerStream(e, tick) ==
  /\ draining = NoStream
  /\ Validate(e, tick)
  /\ e.seq > expected(e.stream)
  /\ nextSeq' = [nextSeq EXCEPT ![e.stream] = expected(e.stream)]
  /\ gapPending' = {f \in gapPending : f.stream # e.stream} \cup {e}
  /\ held' = held \cup {e}
  /\ UNCHANGED << unconfirmed, loop, store, applied, faults, restarts >>

SubmitGap(e, tick) ==
  /\ draining = NoStream
  /\ Validate(e, tick)
  /\ e.seq > expected(e.stream)
  /\ nextSeq' = [nextSeq EXCEPT ![e.stream] = expected(e.stream)]
  /\ gapPending' = gapPending \cup {e}
  /\ held' = held \cup {e}
  /\ UNCHANGED << unconfirmed, loop, store, applied, faults, restarts >>

\* Any number up to the expected one goes to the ledger.  Only the expected one
\* moves the stream, and starts the loop that drains what waited for it.
SubmitKnown(e, tick) ==
  LET next == expected(e.stream) IN
  /\ draining = NoStream
  /\ Validate(e, tick)
  /\ e.seq <= next
  /\ \/ /\ ApplyNew(e.tx)
        /\ IF e.seq = next
           THEN /\ nextSeq' = [nextSeq EXCEPT ![e.stream] = next + 1]
                /\ unconfirmed' = unconfirmed \cup {e}
                /\ draining' = e.stream
                /\ nowTick' = tick
           ELSE /\ nextSeq' = [nextSeq EXCEPT ![e.stream] = next]
                /\ UNCHANGED << unconfirmed, loop >>
     \/ /\ ApplyDuplicate(e.tx) \/ ApplyError(e.tx)
        /\ nextSeq' = [nextSeq EXCEPT ![e.stream] = next]
        /\ UNCHANGED << unconfirmed, loop >>
  /\ UNCHANGED << gapPending, held, restarts >>

\* Submit; an invalid bundle changes nothing.
Submit(e) == \E tick \in 0..MaxTick : SubmitGap(e, tick) \/ SubmitKnown(e, tick)

--------------------------------------------------------------------------------
Ready == {e \in gapPending : e.stream = draining /\ e.seq = expected(draining)}

\* One iteration of drainReady.  The bundle leaves gapPending whatever comes of it.
drainReady_NoAdvance(e) ==
  /\ draining # NoStream
  /\ e \in Ready
  /\ gapPending' = gapPending \ {e}
  /\ \/ /\ ~ Validate(e, nowTick)
        /\ UNCHANGED << nextSeq, unconfirmed, store, applied, faults >>
     \/ /\ Validate(e, nowTick)
        /\ ApplyNew(e.tx)
        /\ unconfirmed' = unconfirmed \cup {e}
        /\ UNCHANGED nextSeq
     \/ /\ Validate(e, nowTick)
        /\ ApplyDuplicate(e.tx) \/ ApplyError(e.tx)
        /\ UNCHANGED << nextSeq, unconfirmed >>
  /\ UNCHANGED << loop, held, restarts >>

drainReady(e) ==
  /\ draining # NoStream
  /\ e \in Ready
  /\ gapPending' = gapPending \ {e}
  /\ \/ /\ ~ Validate(e, nowTick)
        /\ UNCHANGED << nextSeq, unconfirmed, store, applied, faults >>
     \/ /\ Validate(e, nowTick)
        /\ ApplyNew(e.tx)
        /\ unconfirmed' = unconfirmed \cup {e}
        /\ nextSeq' = [nextSeq EXCEPT ![draining] = expected(draining) + 1]
     \/ /\ Validate(e, nowTick)
        /\ ApplyDuplicate(e.tx) \/ ApplyError(e.tx)
        /\ UNCHANGED << nextSeq, unconfirmed >>
  /\ UNCHANGED << loop, held, restarts >>

drainDone_FirstOnly ==
  /\ draining # NoStream
  /\ draining' = NoStream
  /\ nowTick' = 0
  /\ UNCHANGED << queue, store, applied, held, faults, restarts >>

\* The loop finds nothing ready, and Submit returns.
drainDone ==
  /\ draining # NoStream
  /\ Ready = {}
  /\ draining' = NoStream
  /\ nowTick' = 0
  /\ UNCHANGED << queue, store, applied, held, faults, restarts >>

Confirm(e) ==
  /\ draining = NoStream
  /\ e \in unconfirmed
  /\ unconfirmed' = unconfirmed \ {e}
  /\ UNCHANGED << nextSeq, gapPending, loop, store, applied, held, faults, restarts >>

PendingForRetransmit == unconfirmed \cup gapPending

\* The process ends, between or within calls; the store is opened again and a new
\* queue is made on it.  What was held is forgotten with the queue.
Restart ==
  /\ restarts < MaxRestarts
  /\ restarts' = restarts + 1
  /\ nextSeq' = [s \in Streams |-> 0]
  /\ gapPending' = {}
  /\ unconfirmed' = {}
  /\ draining' = NoStream
  /\ nowTick' = 0
  /\ recorded' = onDisk
  /\ held' = {}
  /\ UNCHANGED << onDisk, applied, faults >>

--------------------------------------------------------------------------------
Init ==
  /\ nextSeq = [s \in Streams |-> 0]
  /\ gapPending = {}
  /\ unconfirmed = {}
  /\ draining = NoStream
  /\ nowTick = 0
  /\ recorded = {}
  /\ onDisk = {}
  /\ applied = << >>
  /\ held = {}
  /\ faults = 0
  /\ restarts = 0

Next ==
  \/ \E e \in Envelopes : Submit(e) \/ drainReady(e) \/ Confirm(e)
  \/ drainDone
  \/ Restart

Spec == Init /\ [][Next]_vars

\* A sender that repeats each bundle until it is confirmed, with a tick at which it
\* is valid, and a queue whose Submit calls return.
Resend(e) == SubmitGap(e, 0) \/ SubmitKnown(e, 0)
FairSpec ==
  /\ Spec
  /\ \A e \in Envelopes : WF_vars(Resend(e)) /\ WF_vars(drainReady(e))
  /\ WF_vars(drainDone)

--------------------------------------------------------------------------------
TypeOK ==
  /\ nextSeq \in [Streams -> Nat]
  /\ gapPending \subseteq Envelopes
  /\ unconfirmed \subseteq Envelopes
  /\ draining \in Streams \cup {NoStream}
  /\ nowTick \in 0..MaxTick
  /\ recorded \subseteq Transactions
  /\ onDisk \subseteq Transactions
  /\ applied \in Seq(Transactions)
  /\ held \subseteq Envelopes
  /\ faults \in 0..MaxFaults
  /\ restarts \in 0..MaxRestarts

Applied == {applied[i] : i \in DOMAIN applied}

\* A transaction is reported applied at most once, over retransmissions, store
\* errors and restarts (Ledger.Apply, "transaction applied exactly once").
AppliedOnce == \A i, j \in DOMAIN applied : applied[i] = applied[j] => i = j

Undisturbed == faults = 0 /\ restarts = 0
SeqOf(tx) == (CHOOSE e \in Envelopes : e.tx = tx).seq
StreamOf(tx) == (CHOOSE e \in Envelopes : e.tx = tx).stream

\* Without restarts or store errors the transactions of a stream are applied in the
\* order of their numbers with none left out, and the queue expects the next one,
\* however the bundles arrive (Submit, drainReady).
InSequence ==
  Undisturbed => \A s \in Streams :
    LET mine == {i \in DOMAIN applied : StreamOf(applied[i]) = s} IN
    /\ {SeqOf(applied[i]) : i \in mine} = 1..(expected(s) - 1)
    /\ \A i, j \in mine : i < j => SeqOf(applied[i]) < SeqOf(applied[j])

\* The queue never sits on a bundle that it could apply: between calls no held
\* bundle has the number its stream expects (the loop of drainReady).
NothingReadyWaits ==
  draining = NoStream => \A e \in gapPending : e.seq # expected(e.stream)

\* A bundle that Submit held for retry and that does not expire is still returned
\* for retransmission, unless its transaction has been applied.  A store error in
\* drainReady drops a held bundle; a restart forgets the whole queue.
HeldIsKept ==
  faults = 0 => \A e \in held : e.expires = 0 => e \in PendingForRetransmit \/ e.tx \in recorded

\* If a sender keeps resending, every transaction is applied: bundles that overtook
\* others, expired while waiting, or were dropped by the loop do not block a stream.
\* (A restart can: the queue then expects number 1, which the ledger has.)
EventuallyApplied == \A tx \in Transactions : <>(tx \in Applied \/ restarts > 0)

================================================================================
