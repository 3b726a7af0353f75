------------------------------ MODULE MCScanQueue ------------------------------
(* Small instances of ScanQueue for TLC. *)
EXTENDS ScanQueue, TLC

CONSTANTS r1, r2, r3, c1, c2

MCRequests == {r1, r2, r3}
MCConsumers == {c1, c2}

QueueSymmetry == Permutations(MCRequests) \cup Permutations(MCConsumers)
================================================================================
