----------------------------- MODULE CcsdsScheduler -----------------------------
(* The scheduler of bundle/ccsds: frames of the virtual channels in a binary    *)
(* heap, the heaviest channel first and the frames of equal weight in the order *)
(* they were enqueued.  A frame is its channel and its insertion number; the    *)
(* heap is a sequence in which the children of i are 2i and 2i + 1.             *)
EXTENDS Integers, Sequences, FiniteSets

CONSTANTS
  ChannelIDs,      \* the channels that calls name
  PriorityWeight,  \* the weights of the channels that have a policy
  MaxFrames        \* bound on the frames enqueued

VARIABLES
  queue,           \* Scheduler.queue
  next,            \* Scheduler.next
  handedOut        \* history: the frames that Next returned

frameVars == << queue, next, handedOut >>

--------------------------------------------------------------------------------
Less_WeightOnly(f, g) == PriorityWeight[f.channel] > PriorityWeight[g.channel]

\* frameHeap.Less
Less(f, g) ==
  \/ PriorityWeight[f.channel] > PriorityWeight[g.channel]
  \/ /\ PriorityWeight[f.channel] = PriorityWeight[g.channel]
     /\ f.insertion < g.insertion

Swap(h, i, j) == [h EXCEPT ![i] = h[j], ![j] = h[i]]

\* The heap operations of the library: a frame rises past the parents it precedes,
\* or sinks below the lesser of its children among the first n.
RECURSIVE up(_, _)
up(h, j) ==
  IF j = 1 \/ ~Less(h[j], h[j \div 2]) THEN h ELSE up(Swap(h, j, j \div 2), j \div 2)

RECURSIVE down(_, _, _)
down(h, i, n) ==
  LET child == IF 2 * i + 1 <= n /\ Less(h[2 * i + 1], h[2 * i]) THEN 2 * i + 1 ELSE 2 * i
  IN IF child > n THEN h
     ELSE IF ~Less(h[child], h[i]) THEN h ELSE down(Swap(h, i, child), child, n)

\* heap.Pop: the first and the last change places, and the last leaves.
Rest(h) == SubSeq(down(Swap(h, 1, Len(h)), 1, Len(h) - 1), 1, Len(h) - 1)

--------------------------------------------------------------------------------
Enqueue(c) ==
  /\ c \in DOMAIN PriorityWeight
  /\ next < MaxFrames
  /\ next' = next + 1
  /\ queue' = up(Append(queue, [channel |-> c, insertion |-> next + 1]), Len(queue) + 1)
  /\ UNCHANGED handedOut

\* A channel without a policy is an error.
EnqueueUnknown(c) ==
  /\ c \notin DOMAIN PriorityWeight
  /\ UNCHANGED frameVars

NextFrame ==
  /\ queue # << >>
  /\ queue' = Rest(queue)
  /\ handedOut' = handedOut \cup {queue[1]}
  /\ UNCHANGED next

Init == queue = << >> /\ next = 0 /\ handedOut = {}

Next ==
  \/ \E c \in ChannelIDs : Enqueue(c) \/ EnqueueUnknown(c)
  \/ NextFrame

--------------------------------------------------------------------------------
\* However calls of Enqueue and Next alternate, the frame that Next returns comes
\* before every other one, no frame is lost or returned twice, and the frames of a
\* channel leave in the order they came.
FramesInOrder ==
  /\ \A i \in 2 .. Len(queue) :
       LET first == PriorityWeight[queue[1].channel]
           other == PriorityWeight[queue[i].channel]
       IN first >= other /\ (first = other => queue[1].insertion < queue[i].insertion)
  /\ Len(queue) + Cardinality(handedOut) = next
  /\ {f.insertion : f \in handedOut} \cup {queue[i].insertion : i \in DOMAIN queue} = 1 .. next
  /\ \A f \in handedOut : \A i \in DOMAIN queue :
       queue[i].channel = f.channel => f.insertion < queue[i].insertion
================================================================================
