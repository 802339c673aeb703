-------------------------------- MODULE Ledger --------------------------------
(***************************************************************************)
(* What the consensus of pq-fabric promises, without votes, rounds or       *)
(* locks: every node holds a chain of blocks, a chain grows one block at a  *)
(* time and is never rewritten, a new block is decided on top of a longest  *)
(* chain, and every other node only ever learns, in order, what was         *)
(* decided.                                                                 *)
(***************************************************************************)
EXTENDS Integers, Sequences

CONSTANTS
  Node,   \* the holders of a chain
  Entry   \* the blocks

VARIABLE chain   \* chain[n]: the blocks that n has applied, in order

Init == chain = [n \in Node |-> << >>]

\* n holds a longest chain and adds a block that no chain holds.
Decide(n, x) ==
  /\ \A m \in Node : Len(chain[m]) <= Len(chain[n])
  /\ \A m \in Node : \A i \in 1 .. Len(chain[m]) : chain[m][i] # x
  /\ chain' = [chain EXCEPT ![n] = Append(@, x)]

\* n copies the next block of a chain that extends its own.
Learn(n, m) ==
  /\ Len(chain[m]) > Len(chain[n])
  /\ \A i \in 1 .. Len(chain[n]) : chain[m][i] = chain[n][i]
  /\ chain' = [chain EXCEPT ![n] = Append(@, chain[m][Len(@) + 1])]

Next ==
  \E n \in Node :
    \/ \E x \in Entry : Decide(n, x)
    \/ \E m \in Node : Learn(n, m)

Spec == Init /\ [][Next]_chain

================================================================================
