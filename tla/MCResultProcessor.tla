-------------------------- MODULE MCResultProcessor --------------------------
(* Instances of ResultProcessor for TLC. *)
EXTENDS ResultProcessor, TLC

CONSTANTS r1, r2, r3, i1, i2

MCResults == {r1, r2, r3}
MCImages == {i1, i2}

Result(image, status, duration, output) ==
    [image |-> image, status |-> status, duration |-> duration, json |-> FALSE, output |-> output]

\* Every status, durations with a zero, lines with several severities, a summary in JSON.
MCOutcomes ==
    {Result(i1, "success", 2, <<{"critical", "low"}, {}, {"high"}>>),
     Result(i1, "failed", 0, <<>>),
     Result(i1, "timeout", 3, <<{"medium", "low"}, {"low"}>>),
     Result(i2, "running", 1, <<{"high", "medium"}>>),
     [Result(i2, "success", 1, [s \in Severities |-> 1]) EXCEPT !.json = TRUE]}

Permutations3 == Permutations(MCResults)
================================================================================
