-------------------------------- MODULE MCBundles --------------------------------
(* For TLC, five parts of the bundle layer that share no state: the channels of  *)
(* the context window, the two schedulers, custody and reconciliation. A         *)
(* behaviour is one of a part chosen at the start, with the others at rest.      *)
EXTENDS Reconcile, Custody, TLC

VARIABLES
  part,
  pending, nextSeq, delivered, evictions, phase, adding, loading, toLoad, saved, committed,
  queues, deficits, cursor, served, waited,
  queue, next, handedOut

\* Two bundles of one channel whose IDs sort against their numbers, and a second
\* record of one of them with another digest.
Bundle(id, digest, t, n) ==
  [BundleID |-> id, Digest |-> digest, TransactionID |-> t, ChannelID |-> "a", Sequence |-> n]
MCRecords == {Bundle(2, "d1", "t1", 1), Bundle(1, "d2", "t2", 2), Bundle(1, "d3", "t2", 2)}

\* Three channels, two of them of equal priority; both eviction policies; an item
\* may exceed a channel's budget but not the window's.
Window == << "execution", "retrieval", "working_memory" >>
WindowWeight == "execution" :> 2 @@ "retrieval" :> 1 @@ "working_memory" :> 1
WindowItems == "execution" :> 2 @@ "retrieval" :> 0 @@ "working_memory" :> 2
WindowBytes == "execution" :> 3 @@ "retrieval" :> 3 @@ "working_memory" :> 0
WindowPolicy == "execution" :> "oldest_first" @@ "retrieval" :> "oldest_first"
                @@ "working_memory" :> "lowest_priority_first"

W == INSTANCE BundleChannels WITH
  snapshot <- saved, order <- Window, PriorityWeight <- WindowWeight,
  MaxItems <- WindowItems, MaxBytes <- WindowBytes, EvictionPolicy <- WindowPolicy,
  totalMaxBytes <- 4, WorkingMemory <- "working_memory", ItemIDs <- {"i", "j"},
  Sizes <- {1, 4}, MaxAdds <- 3

\* Four channels, as in DefaultPolicies, with weights below and above the number of
\* items a channel may hold.
Channels == << "conversation", "execution", "retrieval", "working_memory" >>
ChannelWeights == << 1, 3, 2, 5 >>

S == INSTANCE BundleScheduler WITH order <- Channels, weights <- ChannelWeights, MaxLen <- 7

\* Two channels of equal weight, one heavier and one without a policy.
FrameWeight == "execution" :> 100 @@ "retrieval" :> 70 @@ "conversation" :> 70

H == INSTANCE CcsdsScheduler WITH
  ChannelIDs <- {"execution", "retrieval", "conversation", "unknown"},
  PriorityWeight <- FrameWeight, MaxFrames <- 6

\* Two events that name one bundle and one event of another bundle.
CustodyBundleID == "e1" :> "b1" @@ "e2" :> "b1" @@ "f1" :> "b2"

ASSUME ConstantsAssumption ==
  W!PoliciesAssumption /\ S!SchedulerAssumption /\ CustodyAssumption

repairVars == << state, remote, snapshot, restarts >>
windowVars == << pending, nextSeq, delivered, evictions, phase, adding, loading, toLoad,
                 saved, committed >>
schedulerVars == << queues, deficits, cursor, served, waited >>
frameVars == << queue, next, handedOut >>
bundleVars == << part, repairVars, windowVars, schedulerVars, frameVars, custodyVars >>

\* A scheduler at rest has nothing to hand out.
InitBundles ==
  /\ part \in {"repair", "window", "scheduler", "frames", "custody"}
  /\ Init /\ W!Init /\ H!Init /\ CustodyInit
  /\ IF part = "scheduler" THEN S!Init
     ELSE S!Init /\ queues = [i \in DOMAIN Channels |-> 0]

Only(moving) ==
  /\ part = moving
  /\ part' = part
  /\ moving # "repair" => UNCHANGED repairVars
  /\ moving # "window" => UNCHANGED windowVars
  /\ moving # "scheduler" => UNCHANGED schedulerVars
  /\ moving # "frames" => UNCHANGED frameVars
  /\ moving # "custody" => UNCHANGED custodyVars

NextBundles ==
  \/ Only("repair") /\ Next
  \/ Only("window") /\ W!Next
  \/ Only("scheduler") /\ S!Next
  \/ Only("frames") /\ H!Next
  \/ Only("custody") /\ CustodyNext

\* The fairness of the parts, as in their own modules.
Fairness ==
  /\ \A n \in Nodes : \A m \in Nodes \ {n} :
       /\ WF_repairVars(part = "repair" /\ ReadPeer(n, m))
       /\ SF_repairVars(part = "repair" /\ ReconcileWith(n, m))
  /\ \A p \in Calls : WF_custodyVars(part = "custody" /\ SaveConfirmed(p))

FairSpecBundles == InitBundles /\ [][NextBundles]_bundleVars /\ Fairness

--------------------------------------------------------------------------------
\* Between calls of Add, Commit and LoadWorkingMemory every channel is within its
\* budgets, each number it gave out belongs to one item that is pending, evicted or
\* delivered, and what was evicted is older than what is pending.
BudgetsKept ==
  part = "window" => W!TypeOK /\ W!WithinBudget /\ W!Accounted /\ W!OldestEvicted
\* Pressure on the window takes items of the lowest priority first
\* (lowestPriorityNonEmptyChannel).
LowestPriorityFirst == W!LowestPriorityFirst
\* LoadWorkingMemory restores the saved items, all of them and in order.
RestoredInFull == W!RestoredInFull
\* The Next of the two schedulers.  Round robin: no channel waits for more than a
\* round, and none is more than a round ahead of its share.  Heap: the heaviest
\* channel is served first, and equal ones in the order of their frames.
FairShares ==
  /\ part = "scheduler" => S!TypeOK /\ S!NoStarvation /\ S!WeightedShare
  /\ part = "frames" => H!FramesInOrder
\* Compare and Apply keep a state consistent, and nodes with nothing to repair agree.
RepairsConsistent == part = "repair" => TypeOK /\ Consistent /\ NoopMeansSame
\* Apply never changes a record that the node holds.
RepairsOverwriteNothing == NeverOverwrites
\* Nodes that keep reconciling get each other's bundles.
RepairsConverge == part = "repair" => Converges
================================================================================
