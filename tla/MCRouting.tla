-------------------------------- MODULE MCRouting --------------------------------
EXTENDS Routing, TLC
MCPath == [t \in Runtimes |-> << "r1", "r2", "r3" >>]
Symmetry == Permutations(Runtimes) \cup Permutations(Sends)
================================================================================
