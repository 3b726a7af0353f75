----------------------------- MODULE MCDedupCache -----------------------------
(* Small instances of DedupCache for TLC. *)
EXTENDS DedupCache, TLC

CONSTANTS d1, d2, d3, sha, latest

MCCalls == {d1, d2, d3}
TwoCalls == {d1, d2}

\* All ask about the same image.
SameRequest == [d \in MCCalls |-> [digest |-> sha, ref |-> latest]]

CallSymmetry == Permutations(MCCalls)
================================================================================
