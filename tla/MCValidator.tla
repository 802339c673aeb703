------------------------------ MODULE MCValidator ------------------------------
(* Small instances of Validator for TLC.                                    *)
EXTENDS Validator, TLC

CONSTANTS v1, v2, v3

ThreeIDs == << v1, v2, v3 >>

\* Hashes are interchangeable; validators are not, the proposer order names them.
HashSymmetry == Permutations(Hash)

================================================================================
