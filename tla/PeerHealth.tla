------------------------------- MODULE PeerHealth --------------------------------
(* The view a node keeps of its peers and the readiness report it makes from    *)
(* it: the health loop probes the peers, the consensus calls record what they   *)
(* met, and the report counts the peers that the view calls healthy.            *)
EXTENDS Integers, FiniteSets, FiniteSetsExt

CONSTANTS
  Peers,        \* the other validators
  Threshold,    \* cfg.Threshold
  MaxHeight, MaxFaults   \* bounds

VARIABLES
  up,           \* peers that answer
  peerHeight,   \* the committed height of a peer
  peerHealth,   \* n.peerHealth
  probe,        \* the probe of the health loop that is under way
  visited,      \* peers this round of probePeers has visited
  call,         \* a consensus call to a peer whose result is not recorded yet
  signerOK,     \* the signer answers and its signature verifies
  faults

peerVars == << up, peerHeight, peerHealth, probe, visited, call, signerOK, faults >>

Fault == faults < MaxFaults /\ faults' = faults + 1
NoCall == [peer |-> "none", ok |-> FALSE, height |-> 0]

--------------------------------------------------------------------------------
\* recordPeerHealthy: a result without a height leaves the last one.
recordPeerHealthy(p, h) ==
  peerHealth' = [peerHealth EXCEPT ![p] =
    [healthy |-> TRUE, down |-> FALSE, height |-> IF h # 0 THEN h ELSE @.height]]

\* recordPeerError.
recordPeerError(p) ==
  peerHealth' = [peerHealth EXCEPT ![p].healthy = FALSE, ![p].down = TRUE]

record_KeepsHealthy(r) ==
  IF r.ok \/ peerHealth[r.peer].down THEN recordPeerHealthy(r.peer, r.height)
  ELSE recordPeerError(r.peer)

record(r) ==
  IF r.ok THEN recordPeerHealthy(r.peer, r.height) ELSE recordPeerError(r.peer)

\* probePeers asks the peers one after the other; the answer is the snapshot of
\* the peer, and a peer that does not answer within 250 ms is an error.
Probe(p) ==
  /\ probe = NoCall
  /\ p \notin visited
  /\ visited' = visited \cup {p}
  /\ probe' = [peer |-> p, ok |-> p \in up, height |-> peerHeight[p]]
  /\ UNCHANGED << up, peerHeight, peerHealth, call, signerOK, faults >>

ProbeResult ==
  /\ probe # NoCall
  /\ record(probe)
  /\ probe' = NoCall
  /\ UNCHANGED << up, peerHeight, visited, call, signerOK, faults >>

\* healthLoop: the next tick of the timer.
NextRound ==
  /\ probe = NoCall
  /\ visited = Peers
  /\ visited' = {}
  /\ UNCHANGED << up, peerHeight, peerHealth, probe, call, signerOK, faults >>

\* The results of votes, forwarded proposals and commit broadcasts: a vote carries
\* no height, a broadcast the height it committed, and a peer that refuses a vote
\* or a commit is recorded like one that is down.
Call(p) ==
  /\ call = NoCall
  /\ \/ /\ p \in up
        /\ call' = [peer |-> p, ok |-> TRUE, height |-> 0]
        /\ UNCHANGED << peerHeight, faults >>
     \/ /\ p \in up
        /\ peerHeight[p] < MaxHeight
        /\ peerHeight' = [peerHeight EXCEPT ![p] = @ + 1]
        /\ call' = [peer |-> p, ok |-> TRUE, height |-> peerHeight'[p]]
        /\ UNCHANGED faults
     \/ /\ p \notin up
        /\ call' = [peer |-> p, ok |-> FALSE, height |-> 0]
        /\ UNCHANGED << peerHeight, faults >>
     \/ /\ p \in up
        /\ Fault
        /\ call' = [peer |-> p, ok |-> FALSE, height |-> 0]
        /\ UNCHANGED peerHeight
  /\ UNCHANGED << up, peerHealth, probe, visited, signerOK >>

CallResult ==
  /\ call # NoCall
  /\ record(call)
  /\ call' = NoCall
  /\ UNCHANGED << up, peerHeight, probe, visited, signerOK, faults >>

--------------------------------------------------------------------------------
Down(p) ==
  /\ p \in up
  /\ Fault
  /\ up' = up \ {p}
  /\ UNCHANGED << peerHeight, peerHealth, probe, visited, call, signerOK >>

Recover(p) ==
  /\ p \notin up
  /\ up' = up \cup {p}
  /\ UNCHANGED << peerHeight, peerHealth, probe, visited, call, signerOK, faults >>

SignerFails ==
  /\ signerOK
  /\ Fault
  /\ signerOK' = FALSE
  /\ UNCHANGED << up, peerHeight, peerHealth, probe, visited, call >>

SignerRecovers ==
  /\ ~signerOK
  /\ signerOK' = TRUE
  /\ UNCHANGED << up, peerHeight, peerHealth, probe, visited, call, faults >>

--------------------------------------------------------------------------------
\* ReadinessReport of a running node with its membership, keys and TLS in place.
healthyPeers == {p \in Peers : peerHealth[p].healthy}
quorumAvailable == 1 + Cardinality(healthyPeers) >= Threshold
peerReachable == Peers = {} \/ healthyPeers # {}
Ready == quorumAvailable /\ signerOK /\ peerReachable

Init ==
  /\ up = Peers
  /\ peerHeight = [p \in Peers |-> 0]
  /\ peerHealth = [p \in Peers |-> [healthy |-> FALSE, down |-> FALSE, height |-> 0]]
  /\ probe = NoCall
  /\ visited = {}
  /\ call = NoCall
  /\ signerOK = TRUE
  /\ faults = 0

HealthLoop == ProbeResult \/ NextRound \/ \E p \in Peers : Probe(p)

Next ==
  \/ HealthLoop
  \/ CallResult
  \/ SignerFails
  \/ SignerRecovers
  \/ \E p \in Peers : Call(p) \/ Down(p) \/ Recover(p)

\* The timer of the health loop fires and every probe and call has a timeout.
FairSpec == Init /\ [][Next]_peerVars /\ WF_peerVars(HealthLoop) /\ WF_peerVars(CallResult)

--------------------------------------------------------------------------------
\* The readiness report follows the peers, with calls to them going on all the
\* time: if too few of them stay up for a quorum the node ends not ready, and if
\* enough of them stay up, and the signer works, it ends ready.
enough(S) == 1 + Cardinality(S) >= Threshold /\ S # {}

ReadinessFollows ==
  /\ <>[](~enough(up)) => <>[](~Ready)
  /\ (\E S \in SUBSET Peers : enough(S) /\ <>[](S \subseteq up /\ signerOK)) => <>[]Ready
================================================================================
