------------------------------ MODULE MCRetransmit ------------------------------
(* Two streams; one transaction that is bundled twice, with and without an    *)
(* expiration tick; bundles that can expire while they wait.                   *)
EXTENDS Retransmit

Bundle(s, n, tx, x) == [stream |-> s, seq |-> n, tx |-> tx, expires |-> x]

MCEnvelopes ==
  { Bundle("a", 1, "a1", 0), Bundle("a", 2, "a2", 0), Bundle("a", 2, "a2", 1),
    Bundle("a", 3, "a3", 0), Bundle("b", 1, "b1", 1), Bundle("b", 2, "b2", 1) }
================================================================================
