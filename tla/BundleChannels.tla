----------------------------- MODULE BundleChannels -----------------------------
(* The context window of bundle/channel and bundle/ai_context: items in        *)
(* channels under item and byte budgets, eviction, delivery, and the snapshot   *)
(* of the working memory.                                                       *)
(*                                                                              *)
(* The eviction loops at the end of Add are steps of their own, so that what a  *)
(* single eviction does can be stated; nothing else happens until they end.     *)
EXTENDS Integers, Sequences, SequencesExt

CONSTANTS
  order,           \* the channel IDs in the order of Manager.order
  PriorityWeight, MaxItems, MaxBytes, EvictionPolicy,  \* the Policy of each channel
  totalMaxBytes,   \* Manager.totalMaxBytes
  WorkingMemory,   \* the channel that SaveWorkingMemory saves
  ItemIDs,         \* the IDs callers use; they may use one twice
  Sizes,           \* SizeEstimate of the compressed payloads
  MaxAdds          \* bound on the calls of Add in each life of the manager

Channels == Range(order)

\* As in the code, a budget of 0 is no budget.
PoliciesAssumption ==
  /\ WorkingMemory \in Channels
  /\ PriorityWeight \in [Channels -> Nat \ {0}]
  /\ MaxItems \in [Channels -> Nat]
  /\ MaxBytes \in [Channels -> Nat]
  /\ EvictionPolicy \in [Channels -> {"oldest_first", "lowest_priority_first"}]
  /\ totalMaxBytes \in Nat
  /\ Sizes \subseteq Nat
  /\ MaxAdds \in Nat

Item == [ID : ItemIDs, Sequence : Nat \ {0}, Size : Sizes]
NoChannel == "none"

VARIABLES
  pending,    \* Channel.pending
  nextSeq,    \* Channel.nextSeq
  delivered,  \* Channel.delivered: a map from item IDs, here the set of its items
  evictions,  \* Manager.evictions
  phase,      \* what is running: "idle", "load", or a loop, "channel" or "total"
  adding,     \* the channel of the Add call that is running
  loading,    \* whether LoadWorkingMemory is running, and
  toLoad,     \* what it has still to add
  snapshot,   \* the latest working-memory snapshot in the store
  committed   \* history: the numbers of the items that Commit delivered

manager == << pending, nextSeq, delivered, evictions, committed >>
call == << phase, adding, loading, toLoad >>
vars == << manager, call, snapshot >>

--------------------------------------------------------------------------------
channelBytes(items) == FoldSeq(LAMBDA item, total : item.Size + total, 0, items)
BudgetUsed == FoldSeq(LAMBDA c, total : channelBytes(pending[c]) + total, 0, order)

OverChannelBudget(c) ==
  \/ MaxItems[c] > 0 /\ Len(pending[c]) > MaxItems[c]
  \/ MaxBytes[c] > 0 /\ channelBytes(pending[c]) > MaxBytes[c]

OverTotalBudget == totalMaxBytes > 0 /\ BudgetUsed > totalMaxBytes

\* evictFromChannel: an item's priority is the weight of its channel, so that
\* lowest_priority_first falls back on the sequence number.
evictIndex(c) ==
  IF EvictionPolicy[c] = "lowest_priority_first"
  THEN CHOOSE i \in DOMAIN pending[c] :
         \A j \in DOMAIN pending[c] : pending[c][i].Sequence <= pending[c][j].Sequence
  ELSE 1

evictFromChannel(c) ==
  /\ IF pending[c] = << >>
     THEN UNCHANGED << pending, evictions >>
     ELSE LET i == evictIndex(c) IN
          /\ pending' = [pending EXCEPT ![c] = RemoveAt(@, i)]
          /\ evictions' = evictions \cup
                            {[Channel |-> c, Sequence |-> pending[c][i].Sequence]}
  /\ UNCHANGED << nextSeq, delivered, committed >>

NonEmpty == {c \in Channels : pending[c] # << >>}

\* The first channel of order that no other one beats.
lowestPriorityNonEmptyChannel_ByAge ==
  CHOOSE c \in NonEmpty :
    \A d \in NonEmpty : pending[c][1].Sequence <= pending[d][1].Sequence

Beats(d, c) ==
  \/ PriorityWeight[d] < PriorityWeight[c]
  \/ PriorityWeight[d] = PriorityWeight[c]
     /\ pending[d][1].Sequence < pending[c][1].Sequence

lowestPriorityNonEmptyChannel ==
  order[SelectInSeq(order, LAMBDA c : c \in NonEmpty
                                      /\ \A d \in NonEmpty : ~ Beats(d, c))]

--------------------------------------------------------------------------------
\* Add up to its two loops.  A caller is not told when the item is evicted at once.
appendItem(c, id, size) ==
  /\ pending' = [pending EXCEPT ![c] =
       Append(@, [ID |-> id, Sequence |-> nextSeq[c], Size |-> size])]
  /\ nextSeq' = [nextSeq EXCEPT ![c] = @ + 1]
  /\ phase' = "channel"
  /\ adding' = c
  /\ UNCHANGED << delivered, evictions, committed, snapshot >>

Adds == FoldSeq(LAMBDA c, total : nextSeq[c] - 1 + total, 0, order)

Add(c, id, size) ==
  /\ phase = "idle"
  /\ Adds < MaxAdds
  /\ appendItem(c, id, size)
  /\ UNCHANGED << loading, toLoad >>

enforceChannelBudget ==
  /\ phase = "channel"
  /\ IF OverChannelBudget(adding)
     THEN evictFromChannel(adding) /\ UNCHANGED call
     ELSE phase' = "total" /\ UNCHANGED << manager, adding, loading, toLoad >>
  /\ UNCHANGED snapshot

\* Add returns, to its caller or to the loop of LoadWorkingMemory.
returnFromAdd ==
  /\ phase' = IF toLoad = << >> THEN "idle" ELSE "load"
  /\ loading' = (toLoad # << >>)
  /\ adding' = NoChannel
  /\ UNCHANGED toLoad

enforceTotalBudget ==
  /\ phase = "total"
  /\ IF OverTotalBudget /\ NonEmpty # {}
     THEN evictFromChannel(lowestPriorityNonEmptyChannel) /\ UNCHANGED call
     ELSE returnFromAdd /\ UNCHANGED manager
  /\ UNCHANGED snapshot

\* Commit takes the first item with the ID; the map keeps one item for an ID.
Commit_ByLast(c, id) ==
  LET matching == {i \in DOMAIN pending[c] : pending[c][i].ID = id}
      i == CHOOSE k \in matching : \A j \in matching : k <= j
  IN
  /\ phase = "idle"
  /\ matching # {}
  /\ delivered' = [delivered EXCEPT ![c] = {d \in @ : d.ID # id} \cup {pending[c][i]}]
  /\ pending' = [pending EXCEPT ![c] = RemoveAt(@, Len(pending[c]))]
  /\ committed' = [committed EXCEPT ![c] = @ \cup {pending[c][i].Sequence}]
  /\ UNCHANGED << nextSeq, evictions, call, snapshot >>

Commit(c, id) ==
  LET i == SelectInSeq(pending[c], LAMBDA item : item.ID = id) IN
  /\ phase = "idle"
  /\ i # 0
  /\ delivered' = [delivered EXCEPT ![c] = {d \in @ : d.ID # id} \cup {pending[c][i]}]
  /\ pending' = [pending EXCEPT ![c] = RemoveAt(@, i)]
  /\ committed' = [committed EXCEPT ![c] = @ \cup {pending[c][i].Sequence}]
  /\ UNCHANGED << nextSeq, evictions, call, snapshot >>

--------------------------------------------------------------------------------
EmptyManager ==
  /\ pending' = [c \in Channels |-> << >>]
  /\ nextSeq' = [c \in Channels |-> 1]
  /\ delivered' = [c \in Channels |-> {}]
  /\ evictions' = {}
  /\ committed' = [c \in Channels |-> {}]

\* The frame holds a channel's items in the order of their numbers.
SaveWorkingMemory ==
  /\ phase = "idle"
  /\ snapshot' = pending[WorkingMemory]
  /\ UNCHANGED << manager, call >>

\* A restart: a new manager, which adds the saved items in the order of their
\* numbers and gives them new ones.
LoadWorkingMemory ==
  /\ phase = "idle"
  /\ EmptyManager
  /\ toLoad' = snapshot
  /\ phase' = IF snapshot = << >> THEN "idle" ELSE "load"
  /\ loading' = (snapshot # << >>)
  /\ UNCHANGED << adding, snapshot >>

LoadItem_LatestFirst ==
  /\ phase = "load"
  /\ appendItem(WorkingMemory, Last(toLoad).ID, Last(toLoad).Size)
  /\ toLoad' = Front(toLoad)
  /\ UNCHANGED loading

LoadItem ==
  /\ phase = "load"
  /\ appendItem(WorkingMemory, Head(toLoad).ID, Head(toLoad).Size)
  /\ toLoad' = Tail(toLoad)
  /\ UNCHANGED loading

--------------------------------------------------------------------------------
Init ==
  /\ pending = [c \in Channels |-> << >>]
  /\ nextSeq = [c \in Channels |-> 1]
  /\ delivered = [c \in Channels |-> {}]
  /\ evictions = {}
  /\ phase = "idle"
  /\ adding = NoChannel
  /\ loading = FALSE
  /\ toLoad = << >>
  /\ snapshot = << >>
  /\ committed = [c \in Channels |-> {}]

Next ==
  \/ \E c \in Channels, id \in ItemIDs :
       (\E size \in Sizes : Add(c, id, size)) \/ Commit(c, id)
  \/ enforceChannelBudget
  \/ enforceTotalBudget
  \/ SaveWorkingMemory
  \/ LoadWorkingMemory
  \/ LoadItem

Spec == Init /\ [][Next]_vars

--------------------------------------------------------------------------------
TypeOK ==
  /\ pending \in [Channels -> Seq(Item)]
  /\ nextSeq \in [Channels -> Nat \ {0}]
  /\ delivered \in [Channels -> SUBSET Item]
  /\ evictions \subseteq [Channel : Channels, Sequence : Nat]
  /\ phase \in {"idle", "load", "channel", "total"}
  /\ adding \in Channels \cup {NoChannel}
  /\ (adding = NoChannel) <=> (phase \in {"idle", "load"})
  /\ loading \in BOOLEAN
  /\ toLoad \in Seq(Item) /\ snapshot \in Seq(Item)
  /\ committed \in [Channels -> SUBSET Nat]

Evicted(c) == {e.Sequence : e \in {f \in evictions : f.Channel = c}}
Pending(c) == {pending[c][i].Sequence : i \in DOMAIN pending[c]}

\* Between calls every channel and the whole window are within their budgets, also
\* after an item that is larger than a budget (enforceChannelBudget and
\* enforceTotalBudget, after any sequence of Add, Commit and LoadWorkingMemory).
WithinBudget ==
  phase = "idle" => ~ OverTotalBudget /\ \A c \in Channels : ~ OverChannelBudget(c)

\* Nothing is lost or counted twice: each number a channel gave out belongs to an
\* item that is pending, was evicted with a decision on record, or was delivered,
\* and to one of these only (Add, evictFromChannel, Commit).
Accounted ==
  \A c \in Channels :
    /\ Pending(c) \cup Evicted(c) \cup committed[c] = 1..(nextSeq[c] - 1)
    /\ Pending(c) \cap Evicted(c) = {}
    /\ (Pending(c) \cup Evicted(c)) \cap committed[c] = {}

\* Both eviction policies take the oldest items of a channel, whatever was delivered
\* in between (evictFromChannel).
OldestEvicted ==
  \A c \in Channels : \A e \in Evicted(c), p \in Pending(c) : e < p

\* Pressure on the whole window never takes an item from a channel while one of
\* lower priority holds any (lowestPriorityNonEmptyChannel).
LowestPriorityFirst ==
  [][phase = "total" =>
       \A c, d \in Channels :
         pending'[c] # pending[c] /\ PriorityWeight[d] < PriorityWeight[c]
           => pending[d] = << >>]_vars

Contents(items) == [i \in DOMAIN items |-> << items[i].ID, items[i].Size >>]

\* A restart restores the saved working memory whole and in order: no budget evicts
\* an item while the others are added again (LoadWorkingMemory, AddItem).
RestoredInFull ==
  [][loading /\ ~ loading' =>
       Contents(pending'[WorkingMemory]) = Contents(snapshot)]_vars

================================================================================
