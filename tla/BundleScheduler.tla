---------------------------- MODULE BundleScheduler ----------------------------
(* The weighted round robin of bundle/channel: a scheduler is made from the    *)
(* pending items of the channels and hands them out one by one.  A channel's   *)
(* items leave in their order, so that a queue is its length.                  *)
EXTENDS Integers, Sequences, Functions

CONSTANTS
  order,    \* the channel IDs, sorted
  weights,  \* PriorityWeight of each channel
  MaxLen    \* bound on the items of a channel

Index == 1..Len(order)

SchedulerAssumption ==
  /\ order # << >>
  /\ weights \in [Index -> Nat \ {0}]
  /\ MaxLen \in Nat

VARIABLES
  queues, deficits, cursor,  \* the fields of Scheduler; cursor counts from 0
  served,                    \* history: the items handed out, by channel
  waited                     \* history: the items handed out since a channel's last

vars == << queues, deficits, cursor, served, waited >>

--------------------------------------------------------------------------------
\* advance, k times.
advance(k) == (cursor + k) % Len(order)

At(k) == advance(k) + 1
AllEmpty == \A i \in Index : queues[i] = 0

\* The passes over empty channels that Next makes before it finds an item.
emptyPasses == CHOOSE k \in 0..(Len(order) - 1) :
                 queues[At(k)] # 0 /\ \A j \in 0..(k - 1) : queues[At(j)] = 0

\* A channel that has used up its deficit gets its weight anew when it is visited.
refill(i) == IF deficits[i] < 1 THEN deficits[i] + weights[i] ELSE deficits[i]

\* The item of the channel k passes ahead leaves; the channels passed over lose
\* their deficits.
handOut(k) ==
  LET i == At(k) IN
  /\ queues' = [queues EXCEPT ![i] = @ - 1]
  /\ deficits' = [j \in Index |->
       CASE j = i -> refill(i) - 1
         [] \E n \in 0..(k - 1) : j = At(n) -> 0
         [] OTHER -> deficits[j]]
  /\ served' = [served EXCEPT ![i] = @ + 1]
  /\ waited' = [j \in Index |-> IF j = i \/ queues[j] = 0 THEN 0 ELSE waited[j] + 1]

NextItem_AlwaysAdvances ==
  /\ ~ AllEmpty
  /\ handOut(emptyPasses)
  /\ cursor' = advance(emptyPasses + 1)

\* Next: the cursor stays on a channel that has some deficit left.
NextItem ==
  /\ ~ AllEmpty
  /\ handOut(emptyPasses)
  /\ cursor' = advance(IF refill(At(emptyPasses)) = 1 THEN emptyPasses + 1 ELSE emptyPasses)

--------------------------------------------------------------------------------
\* NewScheduler, for any pending items.
Init ==
  /\ queues \in [Index -> 0..MaxLen]
  /\ deficits = [i \in Index |-> 0]
  /\ cursor = 0
  /\ served = [i \in Index |-> 0]
  /\ waited = [i \in Index |-> 0]

Next == NextItem

Spec == Init /\ [][Next]_vars

--------------------------------------------------------------------------------
TypeOK ==
  /\ queues \in [Index -> Nat]
  /\ \A i \in Index : deficits[i] \in 0..(weights[i] - 1)
  /\ cursor \in 0..(Len(order) - 1)
  /\ served \in [Index -> Nat]
  /\ waited \in [Index -> Nat]

\* No channel starves: while it has items, the others are handed out at most one
\* round of their weights before its next one (Scheduler.Next; the cursor only
\* leaves a channel that is empty or has used up its weight).
NoStarvation ==
  \A i \in Index : queues[i] > 0 =>
    waited[i] <= FoldFunctionOnSet(+, 0, weights, Index \ {i})

\* Service follows the weights: of two channels that both still have items, neither
\* is more than one round ahead of its share.
WeightedShare ==
  \A i, j \in Index :
    queues[i] > 0 /\ queues[j] > 0 =>
      served[i] * weights[j] <= (served[j] + weights[j]) * weights[i]

================================================================================
