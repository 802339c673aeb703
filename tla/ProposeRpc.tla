------------------------------- MODULE ProposeRpc --------------------------------
(* The call structure of Propose (consensus/validator/node.go): a node keeps    *)
(* proposeMu for the whole call, forwards the payload over HTTP to the          *)
(* scheduled proposer, whose handler calls Propose there, which may forward in  *)
(* turn, because nodes may be at different heights.  What a round decides is    *)
(* left open here; Validator models the votes.                                  *)
EXTENDS Integers, Sequences, FiniteSets

CONSTANTS
  Nodes,        \* the validator IDs, in order
  Clients,      \* calls of Propose from clients and from SubmitEvidence
  Handlers,     \* calls of Propose from handlePropose
  MaxRounds,
  MaxHeight     \* bound on the heights of the nodes

None == "none"
Callers == Clients \cup Handlers
NodeSet == {Nodes[i] : i \in DOMAIN Nodes}

VARIABLES
  height,      \* the number of commits of a node
  proposeMu,   \* the call that holds a node's proposeMu
  propose      \* the calls

rpcVars == << height, proposeMu, propose >>

\* ProposerFor
Proposer(h, round) == Nodes[1 + ((h + round - 1) % Len(Nodes))]

Idle == [pc |-> "idle", node |-> None, height |-> 0, round |-> 0, child |-> None,
         cancelled |-> FALSE, ok |-> FALSE]

set(c, v) == propose' = [propose EXCEPT ![c] = v]
nextRound(c) == [propose[c] EXCEPT !.pc = "round", !.round = @ + 1, !.child = None]

--------------------------------------------------------------------------------
\* A client, or SubmitEvidence, calls Propose at n.
Call(c, n) ==
  /\ propose[c].pc = "idle"
  /\ set(c, [Idle EXCEPT !.pc = "lock", !.node = n])
  /\ UNCHANGED << height, proposeMu >>

\* proposeMu.Lock does not look at the context; the height is read once.
Lock(c) ==
  LET n == propose[c].node IN
  /\ propose[c].pc = "lock"
  /\ proposeMu[n] = None
  /\ proposeMu' = [proposeMu EXCEPT ![n] = c]
  /\ set(c, [propose[c] EXCEPT !.pc = "round", !.height = height[n] + 1])
  /\ UNCHANGED height

proposer(c) == Proposer(propose[c].height, propose[c].round)
inRound(c) == propose[c].pc = "round" /\ propose[c].round < MaxRounds

\* requestProposalFromProposer: the request becomes a call of handlePropose.
Forward(c, d) ==
  /\ inRound(c)
  /\ proposer(c) # propose[c].node
  /\ ~propose[c].cancelled
  /\ propose[d].pc = "idle"
  /\ propose' = [propose EXCEPT ![c].pc = "rpc", ![c].child = d,
                                ![d] = [Idle EXCEPT !.pc = "lock", !.node = proposer(c)]]
  /\ UNCHANGED << height, proposeMu >>

\* The proposer is down or has no URL, or the context is done.
ForwardFails(c) ==
  /\ inRound(c)
  /\ proposer(c) # propose[c].node
  /\ set(c, nextRound(c))
  /\ UNCHANGED << height, proposeMu >>

Timeout_ContextOnly(c) ==
  /\ propose[c].pc = "rpc"
  /\ propose[c].cancelled
  /\ propose[propose[c].child].pc # "returned"
  /\ propose' = [propose EXCEPT ![c] = nextRound(c), ![propose[c].child].cancelled = TRUE]
  /\ UNCHANGED << height, proposeMu >>

\* ProposalTimeout, or the deadline of the handler, ends the wait.  The handler
\* at the proposer goes on with a cancelled context.
Timeout(c) ==
  /\ propose[c].pc = "rpc"
  /\ propose[propose[c].child].pc # "returned"
  /\ propose' = [propose EXCEPT ![c] = nextRound(c), ![propose[c].child].cancelled = TRUE]
  /\ UNCHANGED << height, proposeMu >>

\* return releases proposeMu; a call whose caller has gone away is over.
returns(c, ok) == [propose[c] EXCEPT !.pc = "returned", !.ok = ok]
unlock(c) == proposeMu' = [proposeMu EXCEPT ![propose[c].node] = None]

\* The response: an error is a failed round; a commit is applied and returned.
Response(c) ==
  LET d == propose[c].child
      n == propose[c].node IN
  /\ propose[c].pc = "rpc"
  /\ propose[d].pc = "returned"
  /\ IF propose[d].ok
     THEN /\ propose' = [propose EXCEPT ![c] = returns(c, TRUE), ![d] = Idle]
          /\ unlock(c)
          /\ height' \in {height, [height EXCEPT ![n] = height[propose[d].node]]}
     ELSE /\ propose' = [propose EXCEPT ![c] = nextRound(c), ![d] = Idle]
          /\ UNCHANGED << proposeMu, height >>

\* proposeRound commits and broadcasts: other nodes may apply the block as well.
ProposeRound(c) ==
  LET n == propose[c].node IN
  /\ inRound(c)
  /\ proposer(c) = n
  /\ ~propose[c].cancelled
  /\ propose[c].height = height[n] + 1
  /\ height[n] < MaxHeight
  /\ \E others \in SUBSET {m \in NodeSet \ {n} : height[m] = height[n]} :
       height' = [m \in NodeSet |-> IF m \in others \cup {n} THEN height[m] + 1 ELSE height[m]]
  /\ set(c, returns(c, TRUE))
  /\ unlock(c)

\* The round fails: no quorum, a height that is not the next one any more
\* (newBlock), or a context that is done.
ProposeRoundFails(c) ==
  /\ inRound(c)
  /\ proposer(c) = propose[c].node
  /\ set(c, nextRound(c))
  /\ UNCHANGED << height, proposeMu >>

GiveUp(c) ==
  /\ propose[c].pc = "round"
  /\ propose[c].round = MaxRounds
  /\ set(c, returns(c, FALSE))
  /\ unlock(c)
  /\ UNCHANGED height

\* The caller takes the answer, or has cancelled and nobody waits for it.
Waits(d) == \E c \in Callers : propose[c].pc = "rpc" /\ propose[c].child = d
Finish(d) ==
  /\ propose[d].pc = "returned"
  /\ ~Waits(d)
  /\ set(d, Idle)
  /\ UNCHANGED << height, proposeMu >>

--------------------------------------------------------------------------------
Init ==
  /\ height \in [NodeSet -> 0 .. 1]
  /\ proposeMu = [n \in NodeSet |-> None]
  /\ propose = [c \in Callers |-> Idle]

\* What a call does once it holds the mutex.
Run(c) ==
  \/ ForwardFails(c)
  \/ Timeout(c)
  \/ Response(c)
  \/ ProposeRound(c)
  \/ ProposeRoundFails(c)
  \/ GiveUp(c)
  \/ Finish(c)

Next ==
  \/ \E c \in Clients, n \in NodeSet : Call(c, n)
  \/ \E c \in Callers, d \in Handlers : Forward(c, d)
  \/ \E c \in Callers : Lock(c) \/ Run(c)

\* Every goroutine runs on: a mutex that is free infinitely often is handed to
\* every waiter (sync.Mutex is fair to waiters), and timers fire.
Fairness ==
  /\ \A c \in Callers : SF_rpcVars(Lock(c))
  /\ \A c \in Callers : WF_rpcVars(Run(c))

FairSpec == Init /\ [][Next]_rpcVars /\ Fairness

--------------------------------------------------------------------------------
\* Every call of Propose returns, also when two nodes forward to each other while
\* each holds its proposeMu.
ProposeReturns ==
  \A c \in Callers : propose[c].pc # "idle" ~> propose[c].pc = "idle"
================================================================================
