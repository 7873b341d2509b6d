------------------------------ MODULE MCJobRun ------------------------------
(* One job, up to two synchronous calls, and the reaper of the worker's    *)
(* timer, alone or next to the operator's.                                 *)
EXTENDS JobRunProperties, TLC

CONSTANTS j1, c1, c2, timer, cli

OneJob   == {j1}
OneCall  == {c1}
TwoCalls == {c1, c2}
OneReaper  == {timer}
TwoReapers == {timer, cli}
Symmetric  == Permutations(TwoReapers)
=============================================================================
