------------------------------ MODULE MCFileStore ------------------------------
(* The file store for TLC; the bounds are in the configurations.            *)
EXTENDS FileStore
================================================================================
