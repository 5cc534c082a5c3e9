----------------------------- MODULE MCPRServer -----------------------------
(***************************************************************************)
(* Small instances of PRServer: one package built from two checksums.      *)
(***************************************************************************)
EXTENDS PRServer, TLC

Interchangeable == Permutations(Checksums)
=============================================================================
